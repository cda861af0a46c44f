------------------------------ MODULE EVSession ------------------------------
(***************************************************************************)
(* Energy Devices' EVSessionManager: one charger, its open session and the *)
(* advice it is planned on, and tick, the only code that commands the plug. *)
(*                                                                         *)
(* Every call runs under one RLock and writes one document to sqlite, so a *)
(* call is a step and a restart finds the document of the last one; tick   *)
(* saves its intent before it commands, so a stop in between is a command  *)
(* that was lost.  The plug, its user, the meter and the car move between   *)
(* the calls, and what tick is told of the plug is what was last reported. *)
(*                                                                         *)
(* Times are ages in units that keep the order of the code's limits: a      *)
(* command's age stops at Retry (10 s), the end of charging must stand for  *)
(* EndWait (60 s) and low power for LowWait (300 s).  Measured energy,      *)
(* start_status and error are shown to the user and are left out.           *)
(***************************************************************************)
EXTENDS Naturals

CONSTANTS
    None,
    Features,      \* what this instance's user and house do, of AllFeatures
    MaxRequests,   \* bound: requests for advice that are ever made
    MaxRevision,   \* bound: revisions of the first request; each later one has one less
    MaxStamp,      \* bound: distinct advices, in the order of generated_at
    Retry,         \* ten seconds
    EndWait,       \* one minute
    LowWait        \* five minutes

AllFeatures ==
    {"recognition",   \* cars are found by their power
     "plan",          \* a recognized session is planned by its user
     "direct",        \* "Nu laden"
     "advice",        \* advice is requested and may be executed
     "vehicle",       \* ev_vehicle_state_entity is configured
     "window",        \* a planned window begins and ends
     "meter",         \* fresh measurements of its power arrive
     "hand",          \* its user turns the plug
     "unavailable",   \* the plug's state may be missing
     "delay",         \* a command may show its effect later
     "loss"}          \* a command may fail or be lost

OPEN == {"recognized", "planned", "active", "interrupted"}
CLOSED == {"completed", "cancelled"}
Phases == {"none", "before", "inside", "after"}
Commands == {"turn_on", "turn_off"}
Switch == {"on", "off"}

\* What identifies an advice; joint is whether it names a battery route to adopt.
Advice == [session_id: 1..MaxRequests, request_revision: 1..MaxRevision,
           stamp: 1..MaxStamp, joint: BOOLEAN]
Message == [execution_status: {"advice", "blocked", "committed"}, advice: Advice]
Request == [session_id: 1..MaxRequests, request_revision: 1..MaxRevision + 1,
            state: {"requested", "accepted", "executing", "cancelled"}]

Age(limit) == 0..limit \cup {None}

Session ==
    [state: OPEN \cup CLOSED,
     kind: {"recognized", "direct", "advice"},
     accepted: Advice \cup {None},
     phase: Phases,               \* now, seen from planned_start and planned_end
     confirmed: BOOLEAN, joint_pending: BOOLEAN, owns_switch: BOOLEAN,
     manual_pause: BOOLEAN, cancel_requested: BOOLEAN, complete_requested: BOOLEAN,
     command: Commands \cup {None}, commandAge: 0..Retry,
     switch_state: Switch \cup {"unavailable", None}, on_observed: BOOLEAN,
     low: Age(LowWait),
     vehicle_active: BOOLEAN, activeSinceCommand: BOOLEAN,
     vehicle_end: Age(EndWait), vehicle_stop: BOOLEAN]

ASSUME EVSessionAssumption ==
    /\ Features \subseteq AllFeatures
    /\ MaxRequests \in Nat /\ MaxRevision \in Nat \ {0} /\ MaxStamp \in Nat
    /\ Retry \in Nat \ {0} /\ EndWait \in Nat /\ LowWait \in Nat
    /\ None \notin Nat \cup Advice \cup Session \cup Request
               \cup Commands \cup Switch \cup {"unavailable"}

VARIABLES
    session,          \* the newest session, open or closed
    request,          \* charging_request
    minted,           \* session identities given to requests so far
    advice,           \* charging_advice
    profile,          \* whether a profile is saved
    resume_verified,
    plug,             \* what the plug does
    report,           \* what was last reported of it
    edge,             \* it was reported on since a tick last saw it on, for the car's events
    wire,             \* the command on its way to it
    userOff           \* history: the user turned off a run that tick had seen on

document == <<session, request, minted, advice, profile, resume_verified>>
charger == <<plug, report, edge, wire>>
vars == <<document, charger, userOff>>

Types ==
    /\ session \in Session \cup {None}
    /\ request \in Request \cup {None} /\ minted \in 0..MaxRequests
    /\ advice \in Advice \cup {None}
    /\ profile \in BOOLEAN /\ resume_verified \in BOOLEAN
    /\ plug \in Switch /\ report \in Switch /\ edge \in BOOLEAN
    /\ wire \in Switch \cup {None} /\ userOff \in BOOLEAN

\* A command is out only of a run that owns the plug; the end of charging is timed
\* only of a car that was seen charging in this run, and only a timed end stops it.
Linked(s) ==
    /\ s.command # None => s.owns_switch
    /\ s.vehicle_end # None => s.vehicle_active
    /\ s.vehicle_stop => s.vehicle_end # None

\* The types, and that nothing of an earlier run of the plug is left in a session.
TypeOK == Types /\ (session # None => Linked(session))

Init ==
    /\ session = None /\ request = None /\ minted = 0 /\ advice = None
    /\ profile = FALSE /\ resume_verified = FALSE
    /\ plug = "off" /\ report = "off" /\ edge = FALSE /\ wire = None
    /\ userOff = FALSE

-----------------------------------------------------------------------------
(* The document.                                                           *)

Opened == session # None /\ session.state \in OPEN   \* current(state) is not None

NewSession(state, kind, phase) ==
    [state |-> state, kind |-> kind, accepted |-> None, phase |-> phase,
     confirmed |-> kind = "direct", joint_pending |-> FALSE, owns_switch |-> FALSE,
     manual_pause |-> FALSE, cancel_requested |-> FALSE, complete_requested |-> FALSE,
     command |-> None, commandAge |-> Retry,
     switch_state |-> None, on_observed |-> FALSE, low |-> None,
     vehicle_active |-> FALSE, activeSinceCommand |-> FALSE,
     vehicle_end |-> None, vehicle_stop |-> FALSE]

\* invalidate_advice, of the request
Invalidated ==
    IF request # None /\ request.state = "requested"
    THEN [request EXCEPT !.state = "cancelled", !.request_revision = @ + 1]
    ELSE request

-----------------------------------------------------------------------------
(* action: what the user asks for.                                         *)

\* Mutant: a new request takes the identity of the one before it.
RequestSameAdvice ==
    /\ "advice" \in Features /\ ~Opened /\ profile
    /\ request # None => request.state # "requested"
    /\ minted' = 1
    /\ request' = [session_id |-> 1, request_revision |-> 1, state |-> "requested"]
    /\ advice' = None
    /\ UNCHANGED <<session, profile, resume_verified, charger, userOff>>

\* A request of the same identity gets a new revision; one that nobody waits for
\* any more is replaced by a new identity.
RequestAdvice ==
    /\ "advice" \in Features /\ ~Opened /\ profile
    /\ \/ /\ request # None /\ request.state = "requested"
          /\ request.session_id + request.request_revision <= MaxRevision
          /\ request' = [request EXCEPT !.request_revision = @ + 1]
          /\ UNCHANGED minted
       \/ /\ request # None => request.state # "requested"
          /\ minted < MaxRequests
          /\ minted' = minted + 1
          /\ request' = [session_id |-> minted', request_revision |-> 1,
                         state |-> "requested"]
    /\ advice' = None
    /\ UNCHANGED <<session, profile, resume_verified, charger, userOff>>

CancelAdvice ==
    /\ IF Opened /\ session.joint_pending
       THEN /\ session' = [session EXCEPT !.state = "cancelled", !.confirmed = FALSE]
            /\ request' = IF request = None THEN None
                          ELSE [request EXCEPT !.state = "cancelled"]
       ELSE session' = session /\ request' = Invalidated
    /\ advice' = None
    /\ UNCHANGED <<minted, profile, resume_verified, charger, userOff>>

SaveProfile ==
    /\ profile' = TRUE
    /\ UNCHANGED <<minted, session, request, advice, resume_verified, charger, userOff>>

StartNow ==
    /\ "direct" \in Features /\ ~Opened /\ profile
    /\ session' = NewSession("planned", "direct", "inside")
    /\ request' = Invalidated /\ advice' = None
    /\ userOff' = FALSE
    /\ UNCHANGED <<minted, profile, resume_verified, charger>>

\* The displayed advice is the current one, still fresh, with one slot that has
\* not begun more than a minute ago.  A joint advice waits for its receipt.
ExecuteAdvice(phase) ==
    /\ advice # None /\ request # None /\ request.state = "requested"
    /\ ~Opened /\ profile /\ (phase = "before" \/ "window" \in Features)
    /\ session' = [NewSession("planned", "advice", phase) EXCEPT
                       !.accepted = advice, !.confirmed = ~advice.joint,
                       !.joint_pending = advice.joint]
    /\ request' = [request EXCEPT !.state = "accepted",
                                  !.request_revision = advice.request_revision]
    /\ advice' = None
    /\ userOff' = FALSE
    /\ UNCHANGED <<minted, profile, resume_verified, charger>>

VerifyResume ==
    /\ "plan" \in Features
    /\ resume_verified' = TRUE
    /\ UNCHANGED <<minted, session, request, advice, profile, charger, userOff>>

\* Of a session that tick recognized.  What the session already went through
\* (cancel_requested, complete_requested, ownership, the car's events) stays.
Plan ==
    /\ "plan" \in Features /\ Opened /\ resume_verified
    /\ session.accepted = None /\ session.state # "active"
    /\ session' = [session EXCEPT !.state = "planned", !.phase = "before",
                       !.confirmed = TRUE, !.command = None, !.commandAge = Retry,
                       !.manual_pause = FALSE]
    /\ userOff' = FALSE
    /\ UNCHANGED <<minted, request, advice, profile, resume_verified, charger>>

Resume ==
    /\ Opened /\ session.confirmed
    /\ session' = [session EXCEPT !.manual_pause = FALSE]
    /\ userOff' = FALSE
    /\ UNCHANGED <<minted, request, advice, profile, resume_verified, charger>>

Cancel ==
    /\ Opened
    /\ session' = [session EXCEPT !.cancel_requested = TRUE]
    /\ request' = IF session.joint_pending /\ request # None
                  THEN [request EXCEPT !.state = "cancelled"] ELSE request
    /\ UNCHANGED <<minted, advice, profile, resume_verified, charger, userOff>>

\* A start with another meter or switch; refused while a session is open.
Reconfigure ==
    /\ ~Opened
    /\ resume_verified' = FALSE /\ profile' = FALSE
    /\ request' = None /\ advice' = None
    /\ UNCHANGED <<minted, session, charger, userOff>>

\* What needs no advice.
ByHand ==
    \/ CancelAdvice \/ SaveProfile \/ StartNow
    \/ VerifyResume \/ Plan \/ Resume \/ Cancel \/ Reconfigure

User ==
    \/ ByHand \/ RequestAdvice
    \/ \E phase \in {"before", "inside"} : ExecuteAdvice(phase)

-----------------------------------------------------------------------------
(* The exchange with HEMS.                                                 *)

\* advice_exchange: what is sent; a physical session ends a request that waits.
AdviceExchange ==
    /\ IF Opened /\ ~session.joint_pending
       THEN request' = Invalidated /\ advice' = None
       ELSE UNCHANGED <<request, advice>>
    /\ UNCHANGED <<minted, session, profile, resume_verified, charger, userOff>>

Envelope == [request |-> request',
             selected |-> IF Opened THEN session.accepted ELSE None]

\* receive_advice on a message of HEMS: for the request that waits, and not older
\* than the advice at hand.
MatchesRequest(m) ==
    /\ m.execution_status = "advice"
    /\ request # None /\ request.state = "requested" /\ ~Opened
    /\ m.advice.session_id = request.session_id
    /\ m.advice.request_revision = request.request_revision
    /\ advice # None => advice.stamp <= m.advice.stamp

TakeAdvice(m) ==
    /\ MatchesRequest(m)
    /\ advice' = m.advice
    /\ UNCHANGED <<session, request, minted, profile, resume_verified, charger, userOff>>

\* A receipt must be for what the user executed, and in time for its slot.
MatchesExecuted(m) ==
    /\ Opened /\ session.accepted # None /\ session.accepted.joint
    /\ m.advice = session.accepted
    /\ request # None

MatchesReceipt(m) ==
    /\ m.execution_status = "committed"
    /\ MatchesExecuted(m) /\ request.state \in {"accepted", "executing"}
    /\ ~session.cancel_requested
    /\ session.joint_pending => session.phase = "before"

TakeReceipt(m) ==
    /\ MatchesReceipt(m)
    /\ session' = [session EXCEPT !.confirmed = TRUE, !.joint_pending = FALSE]
    /\ request' = [request EXCEPT !.state = "executing"]
    /\ UNCHANGED <<minted, advice, profile, resume_verified, charger, userOff>>

ReceiveAdvice(m) == TakeAdvice(m) \/ TakeReceipt(m)

-----------------------------------------------------------------------------
(* tick, as the changes it makes to the session in the order it makes them. *)
(* i is what ev_poll_once read before it took the lock.                    *)

Reading ==
    [switch: Switch \cup {"unavailable"},
     power: {"none", "low", "high"},       \* fresh, and below or above 100 W
     car: {"active", "ended", "stale", "other"},
                                           \* stale: an event of another time
     carAfter: BOOLEAN]                    \* an event after the last command

Close(s, state) == [s EXCEPT !.state = state, !.confirmed = FALSE, !.command = None]

Ordered(s, command) ==
    [s EXCEPT !.command = command, !.commandAge = 0, !.owns_switch = TRUE,
              !.activeSinceCommand = FALSE]

Since(age) == IF age = None THEN 0 ELSE age   \* setdefault of a time

\* vehicle_auto_off: a reset by a new switch-on, then the car's event.
NewOn(i) == edge /\ i.switch = "on"

\* Mutant: the decision to stop outlives the switch-on that begins a new run.
VehicleResetTimes(s, i) ==
    IF NewOn(i) \/ "vehicle" \notin Features
    THEN [s EXCEPT !.vehicle_active = FALSE, !.vehicle_end = None]
    ELSE s

VehicleReset(s, i) ==
    IF NewOn(i) \/ "vehicle" \notin Features
    THEN [s EXCEPT !.vehicle_active = FALSE, !.vehicle_end = None, !.vehicle_stop = FALSE]
    ELSE s

FreshCar(s, i, value) == i.car = value /\ i.switch = "on" /\ s.phase # "before"

ValidEnd(s, i) ==
    /\ FreshCar(s, i, "ended") /\ s.vehicle_active
    /\ s.command = "turn_off" => s.activeSinceCommand

VehicleEvent(s, i) ==
    IF FreshCar(s, i, "active")
    THEN [s EXCEPT !.vehicle_active = TRUE, !.activeSinceCommand = i.carAfter,
                   !.vehicle_end = None, !.vehicle_stop = FALSE]
    ELSE IF s.vehicle_stop THEN s
    ELSE IF ValidEnd(s, i)
    THEN [s EXCEPT !.vehicle_end = Since(@), !.vehicle_stop = Since(s.vehicle_end) >= EndWait]
    ELSE [s EXCEPT !.vehicle_end = None,
                   !.vehicle_active = @ /\ i.switch = "on" /\ i.car # "other"]

VehicleStop(s, i) ==
    IF i.switch = "on" /\ s.commandAge >= Retry THEN Ordered(s, "turn_off") ELSE s

\* Mutant: low power ends the session without its plug being switched off.
MeasuredEnds(s, i) ==
    CASE i.power = "high" -> [s EXCEPT !.low = None, !.state = "active"]
      [] i.power = "low" /\ i.switch = "on" /\ s.state = "active" ->
            [s EXCEPT !.low = Since(@),
                      !.state = IF Since(s.low) >= LowWait THEN "completed" ELSE @]
      [] OTHER -> [s EXCEPT !.low = None]

\* The meter: charging, or low power that lasts.
Measured(s, i) ==
    CASE i.power = "none" -> [s EXCEPT !.low = None]
      [] i.power = "high" ->
            [s EXCEPT !.low = None,
                      !.state = IF s.state = "planned"
                                   /\ ~(s.owns_switch /\ s.phase \in {"inside", "after"})
                                THEN "planned" ELSE "active"]
      [] i.power = "low" /\ i.switch = "on" /\ s.state = "active" ->
            LET ended == Since(s.low) >= LowWait
            IN  [s EXCEPT !.low = Since(@),
                          !.complete_requested = @ \/ (ended /\ s.owns_switch),
                          !.state = IF ended /\ ~s.owns_switch THEN "completed" ELSE @]
      [] OTHER -> s

\* Mutant: an off is noticed only once the session was charging.
InterruptedCharging(s, i) ==
    LET offActive == i.switch = "off" /\ s.state = "active"
    IN  [s EXCEPT !.switch_state = i.switch,
                  !.state = IF offActive THEN "interrupted" ELSE @,
                  !.manual_pause = @ \/ (offActive /\ s.owns_switch
                                            /\ s.command # "turn_off")]

\* Somebody else switched the plug off.
Interrupted(s, i) ==
    LET direct == s.kind \in {"direct", "advice"}
        ours == ~s.owns_switch \/ s.command = "turn_off"
        offAfterOn == /\ direct /\ i.switch = "off" /\ s.switch_state # "off"
                      /\ s.on_observed /\ ~ours
        offActive == i.switch = "off" /\ s.state = "active"
    IN  [s EXCEPT !.switch_state = i.switch,
                  !.on_observed = @ \/ (direct /\ i.switch = "on"),
                  !.state = IF offAfterOn \/ offActive THEN "interrupted" ELSE @,
                  !.manual_pause = @ \/ offAfterOn \/ (offActive /\ ~ours)]

\* What the executor wants of the plug: on, off or nothing.
Stop(s) == s.cancel_requested \/ s.complete_requested \/ s.phase \in {"none", "after"}

Desired(s) ==
    CASE Stop(s) \/ (s.phase = "before" /\ s.accepted # None) -> "off"
      [] ~Stop(s) /\ s.phase = "inside" /\ ~s.manual_pause -> "on"
      [] OTHER -> None

Reached(s) ==
    IF Stop(s) THEN Close(s, IF s.cancel_requested THEN "cancelled" ELSE "completed")
    ELSE IF Desired(s) = "off" THEN [s EXCEPT !.command = None]
    ELSE [s EXCEPT !.command = None, !.owns_switch = TRUE,
                   !.state = IF @ = "planned" THEN "interrupted" ELSE @]

MayOrder(s, i) ==
    \/ Desired(s) = "off"
    \/ (resume_verified \/ s.kind \in {"direct", "advice"}) /\ i.switch # "unavailable"

\* Mutant: a session that waits for its receipt is carried out too.
ExecutedPending(s, i) ==
    IF Desired(s) = None THEN s
    ELSE IF Desired(s) = i.switch THEN Reached(s)
    ELSE IF MayOrder(s, i) /\ s.commandAge >= Retry
    THEN Ordered(s, IF Desired(s) = "on" THEN "turn_on" ELSE "turn_off")
    ELSE s

Executed(s, i) ==
    IF ~(s.confirmed \/ s.cancel_requested) \/ Desired(s) = None THEN s
    ELSE IF Desired(s) = i.switch THEN Reached(s)
    ELSE IF MayOrder(s, i) /\ s.commandAge >= Retry
    THEN Ordered(s, IF Desired(s) = "on" THEN "turn_on" ELSE "turn_off")
    ELSE s

\* The session after a tick, of the newest session or a recognized one.  A closed
\* session is still watched for the end of charging and gets nothing else.
Ticked(before, i) ==
    LET s == VehicleReset(before, i)
        seen == VehicleEvent(s, i)
    IN  IF s.vehicle_stop /\ i.switch = "off"
        THEN [Close(s, "completed") EXCEPT !.vehicle_stop = FALSE,
                  !.vehicle_end = None, !.vehicle_active = FALSE]
        ELSE IF seen.vehicle_stop THEN VehicleStop(seen, i)
        ELSE IF before.state \in OPEN
        THEN Executed(Interrupted(Measured(seen, i), i), i)
        ELSE seen

Orders(before, after) == after.commandAge = 0 /\ before.commandAge # 0

\* What becomes of a command: carried out, on its way, or lost.
Dispatch(command) ==
    LET value == IF command = "turn_on" THEN "on" ELSE "off" IN
    \/ "delay" \in Features /\ wire' = value /\ plug' = plug
    \/ plug' = value /\ wire' = None
    \/ "loss" \in Features /\ wire' = wire /\ plug' = plug

Tick(i, recognized) ==
    LET before == IF recognized THEN NewSession("recognized", "recognized", "none")
                  ELSE session
    IN  /\ recognized => ~Opened /\ i.switch = "on" /\ "recognition" \in Features
        /\ before # None
        /\ session' = Ticked(before, i)
        /\ edge' = (edge /\ i.switch # "on")
        /\ IF Orders(before, session') THEN Dispatch(session'.command)
           ELSE UNCHANGED <<plug, wire>>
        /\ userOff' = (userOff /\ ~recognized)
        /\ UNCHANGED <<minted, request, advice, profile, resume_verified, report>>

\* Readings the plug's report and the house allow.
Readings ==
    {i \in Reading :
        /\ i.switch \in {report} \cup {x \in {"unavailable"} : "unavailable" \in Features}
        /\ "meter" \notin Features => i.power = "none"
        /\ "vehicle" \notin Features => i.car = "other" /\ i.carAfter
        /\ i.car # "active" => i.carAfter}

Ticks == \E i \in Readings : Tick(i, FALSE) \/ (i.power = "high" /\ Tick(i, TRUE))

-----------------------------------------------------------------------------
(* The house: time, the plug and the hand of its user.                      *)

Older(age, limit) == IF age = None \/ age = limit THEN age ELSE age + 1

\* One unit of time; the window may begin or end with it.
Elapse(phase) ==
    /\ session # None
    /\ \/ phase = session.phase
       \/ /\ "window" \in Features
          /\ <<session.phase, phase>> \in
               {<<"before", "inside">>, <<"before", "after">>, <<"inside", "after">>}
    /\ session' = [session EXCEPT !.phase = phase,
                       !.commandAge = Older(@, Retry), !.low = Older(@, LowWait),
                       !.vehicle_end = Older(@, EndWait)]
    /\ UNCHANGED <<minted, request, advice, profile, resume_verified, charger, userOff>>

PlugObeys ==
    /\ wire # None
    /\ plug' = wire /\ wire' = None
    /\ UNCHANGED <<document, report, edge, userOff>>

PlugReports ==
    /\ report # plug
    /\ report' = plug
    /\ edge' = ("vehicle" \in Features /\ (edge \/ plug = "on"))
    /\ UNCHANGED <<document, plug, wire, userOff>>

\* userOff holds of a run of ours that tick has seen on.
UserTurns ==
    /\ "hand" \in Features
    /\ plug' = IF plug = "on" THEN "off" ELSE "on"
    /\ userOff' = /\ plug = "on" /\ report = "on" /\ Opened
                  /\ session.confirmed /\ session.owns_switch
                  /\ session.phase = "inside" /\ session.command # "turn_off"
                  /\ session.switch_state = "on"
    /\ UNCHANGED <<document, report, edge, wire>>

House == (\E phase \in Phases : Elapse(phase)) \/ PlugObeys \/ PlugReports \/ UserTurns

-----------------------------------------------------------------------------
(* The manager without HEMS, which is asked for no advice, and beside any  *)
(* HEMS at all, whose messages come from anywhere.  EVJoint puts it beside *)
(* the HEMS of this repository.                                            *)

Manager == User \/ Ticks \/ House

Alone == ByHand \/ Ticks \/ House

AloneSpec == Init /\ [][Alone]_vars

Next == Manager \/ AdviceExchange \/ \E m \in Message : ReceiveAdvice(m)

Spec == Init /\ [][Next]_vars

-----------------------------------------------------------------------------
(* Properties.                                                             *)

OrdersOn ==
    /\ session # None /\ session' # None
    /\ Orders(session, session') /\ session'.command = "turn_on"
Closes == Opened /\ session'.state \in CLOSED

\* "Manual off is respected even before the first charging sample": after the user
\* has turned off a running session that was started from the dashboard or from
\* an advice, tick does not order the plug on until the user resumes.
ManualOffStands == [][OrdersOn => ~userOff \/ session.kind = "recognized"]_vars

\* A run that tick commanded is over only when the plug was reported off, whatever
\* asked for its end: the deadline, low power, the car or the user.
OwnedRunEndsOff ==
    [][Closes /\ session.owns_switch /\ ~session.joint_pending => report = "off"]_vars

\* Cancelling leaves the plug off: "Explicit cancellation turns the plug off and
\* waits for confirmation".
CancelLeavesOff == [][Closes /\ session.cancel_requested => plug' = "off"]_vars

\* A request that still waits for an advice is not the one an accepted advice was
\* for: no advice is executed twice, through any cancellation, revision or restart.
RequestIsNew ==
    session # None /\ session.accepted # None /\ request # None
        /\ request.state = "requested"
    => session.accepted.session_id # request.session_id

\* A session that waits for its receipt has its request behind it, and has no power
\* from tick: it is not confirmed and was not ordered on.
PendingIsUnpowered ==
    Opened /\ session.joint_pending =>
        /\ ~session.confirmed /\ session.command # "turn_on"
        /\ request # None /\ request.session_id = session.accepted.session_id
        /\ request.state = "accepted" \/ session.cancel_requested
=============================================================================
