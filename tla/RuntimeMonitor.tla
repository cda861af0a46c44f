--------------------------- MODULE RuntimeMonitor ---------------------------
(***************************************************************************)
(* RuntimeMonitorSession and the RuntimeMonitor under it: what observations *)
(* ask for a planning, and when one may start.  A session is a record; its *)
(* methods are operators from the session before to the session after.     *)
(*                                                                         *)
(* Wall-clock times are abstracted to the one comparison the monitor makes *)
(* with them: whether the stabilisation deadline has passed.               *)
(***************************************************************************)

CONSTANTS Sources,   \* source references of execution outcomes: plan ids
          Outcomes,  \* what a source may report, without "failed"
          None

\* _PLANNER_EXECUTION_SOURCE: the failure of a planning itself.
Planner == "planner-execution"

Accepted == {"accepted", "succeeded"}
Failures == {"failed", "timed_out", "rejected", "replan_required"}

ASSUME RuntimeMonitorAssumption ==
    /\ Planner \notin Sources /\ "joint" \notin Sources
    /\ "start" \notin Sources /\ "change" \notin Sources
    /\ Outcomes \subseteq Accepted \cup Failures
    /\ None \notin Accepted \cup Failures

AllSources == Sources \cup {Planner}

\* What a pending request is for: a material change of the captured input, the
\* start of the process or an explicit reset, an accepted joint route, or the
\* execution outcome of a source.
Requests == {"change", "start", "joint"} \cup AllSources

Session == [planner: {"idle", "running", "stabilising"},
            requests: SUBSET Requests,       \* source_observation_ids
            outcomes: [AllSources -> Outcomes \cup {"failed", None}]]

NewSession == [planner |-> "idle", requests |-> {},
               outcomes |-> [s \in AllSources |-> None]]

\* Mutant: the deadline passes and the state is left without a name.
PlannerStateUnset(m, expired) ==
    IF m.planner = "stabilising" /\ expired THEN None ELSE m.planner

\* Mutant: a stabilisation that has requests to wait for never ends.
PlannerStateStuck(m, expired) ==
    IF m.planner = "stabilising" /\ expired /\ m.requests = {} THEN "idle" ELSE m.planner

\* _expire_stabilisation, applied before anything else is evaluated.
PlannerState(m, expired) ==
    IF m.planner = "stabilising" /\ expired THEN "idle" ELSE m.planner

\* Mutant: the observations of this poll replace the pending requests.
ObserveOnlyLatest(m, requests, expired) ==
    [planner |-> PlannerState(m, expired), requests |-> requests, outcomes |-> m.outcomes]

\* evaluate, of material observations; a pending request is never dropped.
Observe(m, requests, expired) ==
    [planner |-> PlannerState(m, expired),
     requests |-> m.requests \cup requests,
     outcomes |-> m.outcomes]

\* Mutant: asked for, whatever the planner's state.
AskedAtAnyTime(m) == m.requests # {}

FreshSnapshotRequired(m) == m.planner = "idle" /\ m.requests # {}

\* A command that worked also closes the failure of a planning.
Known(m, value) ==
    IF value \in Accepted THEN [m.outcomes EXCEPT ![Planner] = None] ELSE m.outcomes

\* Mutant: every report of a failure is heard, the repeated ones too.
HeardEveryTime(m, source, value) == IF value \in Failures THEN {source} ELSE {}

\* A source is heard when what it reports changes.
Heard(m, source, value) ==
    IF value \in Failures /\ Known(m, value)[source] # value THEN {source} ELSE {}

ObserveOutcome(m, source, value, expired) ==
    [planner |-> PlannerState(m, expired),
     requests |-> m.requests \cup Heard(m, source, value),
     outcomes |-> [Known(m, value) EXCEPT ![source] = value]]

\* start_planner_run; it raises unless the session is idle and is asked.
MayStart(m, expired) == PlannerState(m, expired) = "idle" /\ m.requests # {}

StartPlannerRun(m) ==
    [planner |-> "running", requests |-> {}, outcomes |-> m.outcomes]

\* finish_requested_run: an unsuccessful planning asks for one more, unless a
\* failure some source reported is still on record.
FinishRequestedRun(m, succeeded) ==
    LET retry == ~succeeded /\ \A s \in AllSources : m.outcomes[s] \notin Failures
    IN  [planner |-> "stabilising",
         requests |-> m.requests \cup (IF retry THEN {Planner} ELSE {}),
         outcomes |-> IF succeeded THEN [m.outcomes EXCEPT ![Planner] = None]
                      ELSE IF retry THEN [m.outcomes EXCEPT ![Planner] = "failed"]
                      ELSE m.outcomes]
=============================================================================
