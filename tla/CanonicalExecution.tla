------------------------- MODULE CanonicalExecution -------------------------
(***************************************************************************)
(* CanonicalExecutionRuntime: how the due segment of a saved daily plan    *)
(* becomes, or does not become, one mode command to the battery, and what  *)
(* the electric-vehicle (EV) isolation guard, the SOC limits and the       *)
(* pending feedback make of it on the way.                                 *)
(*                                                                         *)
(* One call of the runtime is one action: it runs on one thread.  Vendor   *)
(* modes map one to one to execution primitives, so a mode is written as   *)
(* its primitive.  Instants are those at which reports were measured: a     *)
(* live capture carries the newest one, a fallback those of its planning.   *)
(***************************************************************************)
EXTENDS Integers

CONSTANTS
    None,
    Mapped,       \* primitives the capability evidence has a mode for
    IdleConfirm,  \* 30 seconds of idle readings, in ticks
    IdleGap,      \* 180 seconds, the longest gap idle readings bridge
    MaxNow,       \* bound: the last instant
    Captures,     \* bound: the captures this instance enumerates
    Faults        \* the faults this instance allows

AllFaults ==
    {"crash",           \* the process stops and is restarted
     "save_error",      \* saving the EV exclusion raises OSError
     "command_raises",  \* the adapter raises
     "command_fails",   \* the adapter answers dispatch_failed, executed or not
     "command_lost",    \* a command accepted is never obeyed
     "no_daily_plan"}   \* planning may end in the guarded fallback

Charging == {"CHARGE_AT_POWER", "BALANCE_CHARGE_ONLY"}
OnlyDischarging == {"DISCHARGE_AT_POWER", "BALANCE_DISCHARGE_ONLY"}
Primitives == Charging \cup OnlyDischarging \cup {"BALANCE_BIDIRECTIONAL", "STANDBY"}
MayDischarge == OnlyDischarging \cup {"BALANCE_BIDIRECTIONAL"}

-----------------------------------------------------------------------------
(* What a Planning Input snapshot can say *)

EvReports ==
    {"none",            \* no policy was published
     "charging",        \* more than 5 W
     "unseen_window",   \* inside the session's window without a measurement
     "idle",            \* up to 5 W, fresh and physical
     "doubtful_idle",   \* up to 5 W, not fresh or not physical
     "zero",            \* 0 W, fresh and physical
     "unproven_zero"}   \* 0 W, not fresh or not physical, outside the window
EvActive == {"charging", "unseen_window", "doubtful_idle"}

Capture ==
    [due: Primitives \cup {None},   \* the due segment, after the market guard
     guards: {"refuse",             \* a guard before the EV guard refuses
              "refuse_late",        \* lineage, capability or power, after it
              "pass"},
     soc: {"unknown", "reserve", "middle", "ceiling", "full"},
     ev: EvReports,
     control: BOOLEAN]              \* the corrected meter is proven fresh

Instants == 0 .. MaxNow

\* What a planning keeps of its capture: the selector, when the EV was measured, and
\* whether the battery could be given BALANCE_CHARGE_ONLY.
Evidence == [ev: EvReports, control: BOOLEAN, mode: Mapped, at: Instants,
             spare: BOOLEAN]

IdleReadings == [since: Instants, last: Instants]

ASSUME CanonicalExecutionAssumption ==
    /\ Mapped \subseteq Primitives
    /\ IdleConfirm \in Nat \ {0} /\ IdleGap \in Nat /\ MaxNow \in Nat
    /\ Captures \subseteq Capture
    /\ Faults \subseteq AllFaults
    /\ None \notin Primitives \cup Int \cup Evidence \cup IdleReadings

VARIABLES
    now,
    selector,   \* the mode Home Assistant shows
    flight,     \* a command received and not yet visible, or None
    pending,    \* _pending_vendor_mode
    suspended,  \* _daily_execution_suspended
    excluded,   \* the scope is in _ev_exclusion_scopes
    idle,       \* _ev_idle_observations: the first and the last one, or None
    saved,      \* ev_exclusion_scopes in the commitment store
    planning,   \* what the input of the running planning says, or None
    outcome,    \* the primitive this step's call settled on, None if it refused, and, of
                \* one that may discharge, whether the meter was proven
    astray,     \* history: the awaited command was lost, or one answered as
                \* failed was received after it
    overtaken,  \* history: the guard read a capture later than that input
    seen,       \* history: of the reports the guard has read, the newest one
                \* has EV activity, or it leaves an earlier activity open
    charged,    \* history: when the newest charging the guard read was measured
    bypassed    \* history: since the guard last read activity, a fallback acted on
                \* older evidence than it had read, or the latch could not be saved

command == <<selector, flight, pending, astray>>
latch == <<excluded, idle, saved>>
history == <<overtaken, seen, charged, bypassed>>
vars == <<now, command, suspended, latch, planning, outcome, history>>

NoOutcome == [primitive |-> None, control |-> FALSE]

\* What the call of this instant is given of a capture.
Taken(c) ==
    [due |-> c.due, guards |-> c.guards, soc |-> c.soc, ev |-> c.ev,
     control |-> c.control, at |-> now,
     spare |-> "BALANCE_CHARGE_ONLY" \in Mapped /\ c.soc \notin {"unknown", "ceiling", "full"}]
EvidenceOf(s) ==
    [ev |-> s.ev, control |-> s.control, mode |-> selector, spare |-> s.spare,
     at |-> IF s.ev \in {"idle", "charging"} THEN s.at ELSE 0]   \* of others nobody asks

\* The types, and the link they have with the mapping: whatever replaces a primitive on
\* its way, only a mode the capability evidence maps is commanded, awaited or answered.
TypeOK ==
    /\ now \in Instants
    /\ selector \in Mapped
    /\ flight \in Mapped \cup {None}
    /\ pending \in Mapped \cup {None}
    /\ suspended \in BOOLEAN /\ excluded \in BOOLEAN /\ saved \in BOOLEAN
    /\ idle \in IdleReadings \cup {None}
    /\ planning \in Evidence \cup {None}
    /\ outcome \in [primitive: Mapped \cup {None}, control: BOOLEAN]
    /\ astray \in BOOLEAN
    /\ overtaken \in BOOLEAN /\ seen \in BOOLEAN /\ bypassed \in BOOLEAN
    /\ charged \in Instants \cup {None}

Init ==
    /\ now = 0
    /\ selector \in Mapped /\ flight = None
    /\ pending = None /\ suspended = TRUE
    /\ excluded = FALSE /\ idle = None /\ saved = FALSE
    /\ planning = None /\ outcome = NoOutcome
    /\ astray = FALSE /\ overtaken = FALSE /\ seen = FALSE
    /\ charged = None /\ bypassed = FALSE

-----------------------------------------------------------------------------
(* _ev_primitive: the latch, and what it makes of a primitive.  s is a       *)
(* capture or the evidence a planning was given.                             *)

\* Readings chain up over the slow planning poll, never over a longer gap, and never
\* backwards, as a fallback's older report would.
Chained(s) ==
    [since |-> IF idle # None /\ s.at \in idle.last .. idle.last + IdleGap
               THEN idle.since ELSE s.at,
     last |-> s.at]

\* Mutant: other reports leave the idle readings as they are.
IdleKept(s) == IF s.ev # "idle" THEN idle ELSE Chained(s)

IdleAfter(s) == IF s.ev # "idle" THEN None ELSE Chained(s)

ExcludedAfter(s) ==
    \/ s.ev \in EvActive
    \/ s.ev = "idle" /\ s.at - Chained(s).since < IdleConfirm
    \/ s.ev \in {"none", "unproven_zero"} /\ excluded

\* Control evidence comes with a policy.
Controlled(s) == s.control /\ s.ev # "none"

Isolated(s, p) ==
    CASE p = "DISCHARGE_AT_POWER" -> "STANDBY"
      [] p = "BALANCE_DISCHARGE_ONLY" /\ ~Controlled(s) -> "STANDBY"
      [] p = "BALANCE_BIDIRECTIONAL" /\ ~Controlled(s) ->
            IF s.spare THEN "BALANCE_CHARGE_ONLY" ELSE "STANDBY"
      [] OTHER -> p

EvPrimitive(s, p) == IF ExcludedAfter(s) THEN Isolated(s, p) ELSE p

SeenAfter(s) == s.ev \in EvActive \/ (s.ev \notin {"zero", "idle"} /\ seen)

ChargedAfter(s) ==
    IF s.ev = "charging" /\ (charged = None \/ charged < s.at) THEN s.at ELSE charged

\* The exclusion is saved before the guard answers; _ev_exclusion_dirty never
\* outlives the call, because a save that fails ends the process (SaveFails).
GuardReads(s) ==
    /\ excluded' = ExcludedAfter(s)
    /\ idle' = IdleAfter(s)
    /\ saved' = IF excluded' # excluded THEN excluded' ELSE saved

GuardSkipped == UNCHANGED <<latch, seen, charged, bypassed>>

-----------------------------------------------------------------------------
(* advance_committed_boundary for a due daily segment *)

AfterReserve(s, p) ==
    IF s.soc = "reserve" /\ p \in OnlyDischarging THEN "STANDBY" ELSE p
FullChargeReached(s, p) == s.soc = "full" /\ p \in Charging

\* Mutant: the full-charge replacement is not guarded.
FinalUnguarded(s) ==
    LET p == AfterReserve(s, EvPrimitive(s, s.due))
    IN  IF FullChargeReached(s, p) THEN "BALANCE_BIDIRECTIONAL" ELSE p

\* The full-charge replacement goes through the EV guard once more.
Final(s) ==
    LET p == AfterReserve(s, EvPrimitive(s, s.due))
    IN  IF FullChargeReached(s, p) THEN EvPrimitive(s, "BALANCE_BIDIRECTIONAL") ELSE p

EvStops(s) ==
    /\ Final(s) = "STANDBY"
    /\ \/ EvPrimitive(s, s.due) # s.due
       \/ FullChargeReached(s, AfterReserve(s, EvPrimitive(s, s.due)))

\* execution_soc_unavailable, _below_segment_minimum, _above_segment_maximum
SocBlocked(s, p) ==
    \/ s.soc = "unknown"
    \/ p \in OnlyDischarging /\ s.soc = "reserve"
    \/ p \in Charging /\ s.soc \in {"ceiling", "full"}

\* Without a storage state the guard runs first, to find an EV safe stop.
EvSafeStop(s) == s.soc = "unknown" /\ EvPrimitive(s, "DISCHARGE_AT_POWER") = "STANDBY"
GuardReached(s, admitted) ==
    s.soc = "unknown" \/ (admitted /\ s.due # None /\ s.guards # "refuse")

\* Mutant: the replaced primitive is commanded whether it is mapped or not.
ProceedsUnmapped(s, admitted) ==
    /\ admitted /\ s.due # None /\ s.guards = "pass"
    /\ s.soc = "unknown" => EvSafeStop(s)

Proceeds(s, admitted) ==
    /\ admitted /\ s.due # None /\ s.guards = "pass"
    /\ s.soc = "unknown" => EvSafeStop(s)
    /\ Final(s) \in Mapped

Answers(s, p) ==
    outcome' = [primitive |-> p, control |-> p \in MayDischarge /\ Controlled(s)]

Refuses(s) ==
    /\ Answers(s, None)
    /\ UNCHANGED command

\* In these, shown is the selector mode the call was given.
AlreadyActive(s, shown, p) ==
    /\ shown = p
    /\ pending' = None /\ astray' = FALSE
    /\ Answers(s, p)
    /\ UNCHANGED <<selector, flight>>

\* _feedback_status: the same command is not sent twice, before the feedback
\* timeout or after it; only what is reported differs.
AwaitsFeedback(s, shown, p) ==
    /\ shown # p /\ pending = p
    /\ Answers(s, p)
    /\ UNCHANGED command

\* bound: one command in flight
MayDispatch(shown, p) == shown # p /\ pending # p /\ flight = None

Dispatched(s, shown, p) ==
    /\ MayDispatch(shown, p)
    /\ flight' = p /\ pending' = p /\ astray' = FALSE
    /\ Answers(s, p)
    /\ UNCHANGED selector

\* Mutant: the mode is pending although the adapter raised.
RaisesPending(s, shown, p) ==
    /\ "command_raises" \in Faults /\ MayDispatch(shown, p)
    /\ pending' = p
    /\ Answers(s, p)
    /\ UNCHANGED <<selector, flight, astray>>

\* The adapter raises before it sends: the pending mode is dropped.
DispatchRaises(s, shown, p) ==
    /\ "command_raises" \in Faults /\ MayDispatch(shown, p)
    /\ pending' = None /\ astray' = FALSE
    /\ Answers(s, p)
    /\ UNCHANGED <<selector, flight>>

\* The adapter answers dispatch_failed: the pending mode stays what it was, although a
\* timeout or a lost answer does not say that the command was not received.
DispatchFails(s, shown, p) ==
    /\ "command_fails" \in Faults /\ MayDispatch(shown, p)
    /\ Answers(s, p)
    /\ \/ UNCHANGED <<flight, astray>>
       \/ flight' = p /\ astray' = (astray \/ pending # None)
    /\ UNCHANGED <<selector, pending>>

Delivers(s, shown, p) ==
    \/ AlreadyActive(s, shown, p) \/ AwaitsFeedback(s, shown, p)
    \/ Dispatched(s, shown, p) \/ DispatchRaises(s, shown, p) \/ DispatchFails(s, shown, p)

Boundary(s, admitted) ==
    /\ IF GuardReached(s, admitted)
       THEN /\ GuardReads(s)
            /\ seen' = SeenAfter(s) /\ charged' = ChargedAfter(s)
            /\ bypassed' = (bypassed /\ s.ev \notin EvActive)
       ELSE GuardSkipped
    /\ UNCHANGED now
    /\ IF /\ Proceeds(s, admitted)
          /\ selector = Final(s) \/ EvStops(s) \/ ~SocBlocked(s, Final(s))
       THEN Delivers(s, selector, Final(s))
       ELSE Refuses(s)

-----------------------------------------------------------------------------
(* The loop's calls *)

\* The poll checks the boundary; the same capture may then be planned from.
AdvanceCommittedBoundary(s) ==
    /\ planning = None
    /\ Boundary(s, ~suspended)
    /\ planning' \in {None, EvidenceOf(s)} /\ overtaken' = FALSE
    /\ UNCHANGED suspended

\* checkpoint: a completion it proves supersedes the planning.
Checkpoint(s) ==
    /\ planning # None
    /\ Boundary(s, ~suspended)
    /\ \/ /\ UNCHANGED planning
          /\ overtaken' = (overtaken \/ GuardReached(s, ~suspended))
       \/ planning' = None /\ overtaken' = FALSE
    /\ UNCHANGED suspended

\* live_plan_ready: admitted, and checked against a fresh capture.
ApplyCommitted(s) ==
    /\ planning # None
    /\ Boundary(s, TRUE)
    /\ suspended' = FALSE /\ planning' = None /\ overtaken' = FALSE

\* live_fallback_ready: no daily plan is admitted, and the battery goes to its
\* guarded neutral mode, on the evidence the planning was given, measured when it was.
FallbackReads ==
    /\ "no_daily_plan" \in Faults
    /\ planning # None
    /\ seen' = IF overtaken THEN seen \/ planning.ev \in EvActive
               ELSE SeenAfter(planning)
    /\ charged' = ChargedAfter(planning)

ApplyFallback ==
    /\ FallbackReads
    /\ suspended' = TRUE /\ planning' = None
    /\ GuardReads(planning)
    /\ LET p == EvPrimitive(planning, "BALANCE_BIDIRECTIONAL")
       IN  IF p \in Mapped THEN Delivers(planning, planning.mode, p) ELSE Refuses(planning)
    /\ bypassed' = ((bypassed \/ overtaken) /\ planning.ev \notin EvActive)
    /\ overtaken' = FALSE
    /\ UNCHANGED now

\* Any other end of a planning commands nothing and admits nothing new; when a
\* completed charge cannot be recorded, an earlier admission stays.
ApplyNothing ==
    /\ planning # None
    /\ suspended' \in {suspended, TRUE} /\ planning' = None
    /\ Refuses(planning)
    /\ overtaken' = FALSE
    /\ UNCHANGED <<now, latch, seen, charged, bypassed>>

-----------------------------------------------------------------------------
(* The rest of the process, and the world *)

\* Stored plans carry no admission across a restart; the exclusion is loaded.
Restart ==
    /\ pending' = None /\ astray' = FALSE /\ suspended' = TRUE
    /\ excluded' = saved /\ idle' = None
    /\ planning' = None /\ outcome' = NoOutcome
    /\ overtaken' = FALSE
    /\ UNCHANGED <<now, selector, flight, saved>>

Crash ==
    /\ "crash" \in Faults
    /\ Restart
    /\ UNCHANGED <<seen, charged, bypassed>>

\* save_ev_exclusion_scopes raises out of the call and nothing catches it: in a look at
\* the boundary, in the application of a plan, and in the fallback.
SaveFails(s) ==
    /\ "save_error" \in Faults
    /\ GuardReached(s, ~suspended) \/ (planning # None /\ GuardReached(s, TRUE))
    /\ ExcludedAfter(s) # excluded
    /\ Restart
    /\ seen' = SeenAfter(s) /\ charged' = ChargedAfter(s)
    /\ bypassed' = TRUE

FallbackSaveFails ==
    /\ "save_error" \in Faults
    /\ FallbackReads
    /\ ExcludedAfter(planning) # excluded
    /\ Restart
    /\ bypassed' = TRUE

\* An accepted planning reset.
ResetPendingState ==
    /\ pending # None /\ pending' = None /\ astray' = FALSE
    /\ UNCHANGED <<now, selector, flight, suspended, latch, planning, history>>
    /\ outcome' = NoOutcome

Tick ==
    /\ now < MaxNow
    /\ now' = now + 1
    /\ UNCHANGED <<command, suspended, latch, planning, history>>
    /\ outcome' = NoOutcome

SelectorFollows ==
    /\ flight # None
    /\ selector' = flight /\ flight' = None
    /\ UNCHANGED <<now, pending, astray, suspended, latch, planning, history>>
    /\ outcome' = NoOutcome

\* Nothing tells the process.
CommandIsLost ==
    /\ "command_lost" \in Faults
    /\ flight # None
    /\ flight' = None /\ astray' = (astray \/ pending = flight)
    /\ UNCHANGED <<now, selector, pending, suspended, latch, planning, history>>
    /\ outcome' = NoOutcome

Call(s) == AdvanceCommittedBoundary(s) \/ Checkpoint(s) \/ ApplyCommitted(s)

Next ==
    \/ \E c \in Captures : Call(Taken(c)) \/ SaveFails(Taken(c))
    \/ ApplyFallback \/ FallbackSaveFails \/ ApplyNothing
    \/ Tick \/ SelectorFollows \/ CommandIsLost \/ Crash \/ ResetPendingState

Spec == Init /\ [][Next]_vars

-----------------------------------------------------------------------------
(* Properties *)

\* Once the guard has seen EV activity, and until a newer report it reads says
\* that the EV stopped, no call settles on fixed discharge, nor, without fresh
\* proof that the meter is corrected, on any mode that may discharge: through
\* the reserve stop, the full-charge replacement, the fallback and restarts.  Two
\* ways past the latch are known: a fallback on older evidence than the guard has
\* read, and a latch that could not be saved, lost with the process.
EvIsolated ==
    seen /\ ~bypassed =>
        /\ outcome.primitive # "DISCHARGE_AT_POWER"
        /\ outcome.primitive \in MayDischarge => outcome.control

\* Idle readings end the exclusion only when no charging the guard read was measured less
\* than the confirmation time before the last of them.  A fallback that replays older
\* evidence than the guard has read breaks this, and is left out as above: its report
\* starts the readings before the charging that ended them.
IdleRelease == excluded /\ ~excluded' /\ idle' # None
IdleReleaseAfterQuiet ==
    [][IdleRelease /\ ~bypassed' =>
         charged' = None \/ idle'.last - charged' >= IdleConfirm]_vars

\* The mode whose feedback is awaited was sent, and is on its way or there, unless Home
\* Assistant lost it or received a later command that was answered as failed: a call never
\* waits for a command that nobody sent, which would never be sent.
AwaitedIsComing == astray \/ pending \in {None, flight, selector}
=============================================================================
