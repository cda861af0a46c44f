----------------------------- MODULE LiveCycle -----------------------------
(***************************************************************************)
(* live_runtime.main's loop: a poll captures the input, lets the Runtime   *)
(* Monitor hear what changed in it, captures again when a planning is      *)
(* admitted, services the execution boundary, and runs the planning, which *)
(* services the boundary too and may be superseded by what that proves.    *)
(*                                                                         *)
(* What a capture says is abstracted to a version of the world: everything *)
(* material_replanning compares, from prices to daily ownership.  Resets   *)
(* and accepted routes change it as well.                                  *)
(***************************************************************************)
EXTENDS RuntimeMonitor, Naturals

CONSTANTS MaxWorld,  \* bound: versions of the world
          Faults     \* the faults this instance allows

ASSUME LiveCycleAssumption == MaxWorld \in Nat /\ Faults \subseteq {"crash"}

VARIABLES
    world,      \* the version of what a capture would see
    resetAsked, \* the Event planning_reset_requested
    pc,         \* the loop's next step
    planned,    \* previous_signature is known
    bundle,     \* the version the current bundle was captured at
    observed,   \* the version material_replanning has last compared
    force,      \* force_runtime_replan
    monitor,    \* RuntimeMonitorSession
    expired,    \* the stabilisation deadline has passed
    completed,  \* the running planning's result: execution_succeeded
    answered    \* history: the version the last applied planning started from

vars == <<world, resetAsked, pc, planned, bundle, observed, force, monitor,
          expired, completed, answered>>

PCs == {"wait", "observe", "recapture", "boundary", "recapture_completion",
        "publish", "recapture_route", "decide", "planning", "finish"}

TypeOK ==
    /\ world \in 1 .. MaxWorld + 1
    /\ resetAsked \in BOOLEAN
    /\ pc \in PCs
    /\ planned \in BOOLEAN /\ force \in BOOLEAN
    /\ bundle \in 0 .. world /\ observed \in 0 .. world /\ answered \in 0 .. world
    /\ monitor \in Session
    /\ expired \in BOOLEAN /\ completed \in BOOLEAN

Init ==
    /\ world = 1 /\ resetAsked = FALSE
    /\ pc = "wait" /\ planned = FALSE
    /\ bundle = 0 /\ observed = 0 /\ force = FALSE
    /\ monitor = NewSession /\ expired = FALSE
    /\ completed = FALSE /\ answered = 0

-----------------------------------------------------------------------------
(* Steps of the loop *)

Poll ==
    /\ pc = "wait"
    /\ planned' = (planned /\ ~resetAsked) /\ resetAsked' = FALSE
    /\ bundle' = world
    /\ pc' = "observe"
    /\ UNCHANGED <<world, observed, force, monitor, expired, completed, answered>>

\* The first planning and an explicit reset ask in every poll until one is done.
RequestsOf(version) ==
    (IF version # observed THEN {"change"} ELSE {})
        \cup (IF planned THEN {} ELSE {"start"})

ObserveInput ==
    /\ pc = "observe"
    /\ monitor' = Observe(monitor, RequestsOf(bundle), expired)
    /\ observed' = bundle
    /\ force' = FreshSnapshotRequired(monitor')
    /\ pc' = IF force' THEN "recapture" ELSE "boundary"
    /\ UNCHANGED <<world, resetAsked, planned, bundle, expired, completed, answered>>

AfterRecapture == [recapture |-> "boundary", recapture_completion |-> "publish",
                   recapture_route |-> "decide"]

Recapture ==
    /\ pc \in DOMAIN AfterRecapture
    /\ bundle' = world
    /\ pc' = AfterRecapture[pc]
    /\ UNCHANGED <<world, resetAsked, planned, observed, force, monitor, expired,
                   completed, answered>>

\* advance_clock_boundaries reports an outcome or nothing, and may prove that a
\* charge completed, which changes who owns the day.
Completes(completes) ==
    IF completes THEN world <= MaxWorld /\ world' = world + 1 ELSE world' = world

Serviced(completes) ==
    /\ \/ monitor' = monitor
       \/ \E source \in Sources, value \in Outcomes :
            monitor' = ObserveOutcome(monitor, source, value, expired)
    /\ Completes(completes)

ServiceBoundary ==
    /\ pc = "boundary"
    /\ \E completes \in BOOLEAN :
         /\ Serviced(completes)
         /\ pc' = IF completes THEN "recapture_completion" ELSE "publish"
    /\ UNCHANGED <<resetAsked, planned, bundle, observed, force, expired,
                   completed, answered>>

NoRouteAccepted ==
    /\ pc = "publish"
    /\ pc' = "decide"
    /\ UNCHANGED <<world, resetAsked, planned, bundle, observed, force, monitor,
                   expired, completed, answered>>

\* An accepted joint EV route changes ownership on this thread.
RouteAccepted ==
    /\ pc = "publish" /\ world <= MaxWorld
    /\ world' = world + 1
    /\ monitor' = Observe(monitor, {"joint"}, expired)
    /\ force' = FreshSnapshotRequired(monitor')
    /\ planned' = FALSE
    /\ pc' = "recapture_route"
    /\ UNCHANGED <<resetAsked, bundle, observed, expired, completed, answered>>

NoPlanning ==
    /\ pc = "decide" /\ ~force
    /\ pc' = "wait"
    /\ UNCHANGED <<world, resetAsked, planned, bundle, observed, force, monitor,
                   expired, completed, answered>>

\* start_requested_run raises unless the monitor still asks; that would end
\* the loop.
StartPlanning ==
    /\ pc = "decide" /\ force
    /\ MayStart(monitor, expired)
    /\ monitor' = StartPlannerRun(monitor)
    /\ expired' = FALSE
    /\ pc' = "planning"
    /\ UNCHANGED <<world, resetAsked, planned, bundle, observed, force, completed,
                   answered>>

\* A cooperative checkpoint: a completion supersedes the planning.
Checkpoint ==
    /\ pc = "planning"
    /\ \E completes \in BOOLEAN :
         /\ Serviced(completes)
         /\ IF completes THEN pc' = "finish" /\ completed' = FALSE
                         ELSE UNCHANGED <<pc, completed>>
    /\ UNCHANGED <<resetAsked, planned, bundle, observed, force, expired, answered>>

\* The result is applied: no outcome is reported, or one that is or is not a
\* success.  A completion it proves is left to the next poll.
ApplyResult ==
    /\ pc = "planning"
    /\ \E completes \in BOOLEAN : Completes(completes)
    /\ \/ monitor' = monitor /\ completed' = TRUE
       \/ \E source \in Sources, value \in Outcomes \ {"replan_required"} :
            /\ monitor' = ObserveOutcome(monitor, source, value, expired)
            /\ completed' = (value \notin Failures)
    /\ answered' = bundle
    /\ pc' = "finish"
    /\ UNCHANGED <<resetAsked, planned, bundle, observed, force, expired>>

FinishPlanning ==
    /\ pc = "finish"
    /\ monitor' = FinishRequestedRun(monitor, completed)
    /\ planned' = (planned \/ completed)
    /\ pc' = "wait"
    /\ UNCHANGED <<world, resetAsked, bundle, observed, force, expired, completed,
                   answered>>

Loop ==
    \/ Poll \/ ObserveInput \/ Recapture \/ ServiceBoundary
    \/ NoRouteAccepted \/ RouteAccepted
    \/ NoPlanning \/ StartPlanning \/ Checkpoint \/ ApplyResult \/ FinishPlanning

-----------------------------------------------------------------------------
(* The world *)

WorldChanges ==
    /\ world <= MaxWorld
    /\ world' = world + 1
    /\ UNCHANGED <<resetAsked, pc, planned, bundle, observed, force, monitor,
                   expired, completed, answered>>

\* A reset from the HTTP thread.  The reset of a mode override does not take
\* the planning barrier, so it may come between any two steps of the loop.
ResetRequested ==
    /\ world <= MaxWorld
    /\ world' = world + 1 /\ resetAsked' = TRUE
    /\ UNCHANGED <<pc, planned, bundle, observed, force, monitor, expired,
                   completed, answered>>

StabilisationElapses ==
    /\ monitor.planner = "stabilising" /\ ~expired
    /\ expired' = TRUE
    /\ UNCHANGED <<world, resetAsked, pc, planned, bundle, observed, force, monitor,
                   completed, answered>>

\* The process stops, by itself or by an exception no step catches.
Crash ==
    /\ "crash" \in Faults
    /\ resetAsked' = FALSE
    /\ pc' = "wait" /\ planned' = FALSE
    /\ bundle' = 0 /\ observed' = 0 /\ force' = FALSE
    /\ monitor' = NewSession /\ expired' = FALSE /\ completed' = FALSE
    /\ UNCHANGED <<world, answered>>

Next == Loop \/ WorldChanges \/ ResetRequested \/ StabilisationElapses \/ Crash

Spec == Init /\ [][Next]_vars

\* The loop never ends, a planning is bounded (it returns or raises), and five
\* seconds pass.
FairSpec ==
    /\ Spec
    /\ WF_vars(Loop) /\ WF_vars(ApplyResult) /\ WF_vars(StabilisationElapses)

-----------------------------------------------------------------------------
(* Properties *)

\* A planning that was admitted may start: whatever the boundary reported and
\* the route acceptance changed since, start_requested_run does not raise.
AdmissionStands ==
    pc \in {"recapture", "boundary", "recapture_completion", "publish",
            "recapture_route", "decide"} /\ force
        => monitor.planner = "idle" /\ monitor.requests # {}

\* A change that was compared is not forgotten: a planning was made from it, or
\* is running on a capture that has it, or is asked for, or something newer
\* will ask at the next poll.
NoChangeForgotten ==
    observed > answered =>
        \/ monitor.requests # {}
        \/ pc = "planning" /\ bundle >= observed
        \/ world > observed

\* Once the world is at rest and the process runs on, the last planning was
\* made from all of it.
EventuallyAnswered == []<><<Crash>>_vars \/ <>[](answered = world)

\* When all that a source ever reports is the same failure, planning stops: a
\* failure asks for one planning, not for one after the other.
FailureDoesNotLoop == <>[](monitor.planner # "running")

\* The same, unless no planning succeeds after a start or a reset: until one
\* does, every poll asks for the first one again.
FailureDoesNotLoopAfterSuccess ==
    []<>~planned \/ <>[](monitor.planner # "running")
=============================================================================
