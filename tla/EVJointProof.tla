---------------------------- MODULE EVJointProof ----------------------------
(***************************************************************************)
(* Proofs about EVSession and EVJoint, for every feature, timing and bound,*)
(* every number of requests, revisions and advices and every set of faults.*)
(*                                                                         *)
(* First the session manager beside any HEMS: the types, that a run tick   *)
(* commanded ends with the plug reported off, that a manual off stands, and*)
(* what a joint advice waits for.  The invariant says why a plug that its  *)
(* user turned off is not ordered on: until tick sees it off the run has   *)
(* seen it on, and a command to switch it off that is under way has the end*)
(* of charging behind it.                                                  *)
(*                                                                         *)
(* Then both programs together, which implement EVAcceptance.  Their       *)
(* invariant relates the copies to what they are copies of: a selection on *)
(* its way was chosen, a receipt on its way is in the store, and what was  *)
(* chosen before is withdrawn by the time something else is.               *)
(***************************************************************************)
EXTENDS EVJoint, TLAPS

-----------------------------------------------------------------------------
(* The session manager: why a manual off stands *)


\* A direct run that was seen on says so.
OnIsObserved ==
    session # None /\ session.kind # "recognized" /\ session.switch_state = "on"
        => session.on_observed

AwaitsOff(s) ==
    /\ s.confirmed /\ s.owns_switch /\ s.phase = "inside"
    /\ s.on_observed /\ s.switch_state # "off"
    /\ s.command = "turn_off" => s.vehicle_stop

Held(s) == s.manual_pause \/ Stop(s) \/ AwaitsOff(s)

UserOffHolds == userOff /\ Opened /\ session.kind # "recognized" => Held(session)

\* Without the car's events no charge is ended by them.
NoVehicleStop(s) == "vehicle" \notin Features => ~s.vehicle_stop

\* Requests and advices in the order of their identities.
IdentitiesGrow ==
    /\ request # None =>
          /\ request.session_id <= minted
          /\ request.state = "requested" => request.request_revision <= MaxRevision
    /\ advice # None => request # None /\ advice.session_id = request.session_id
    /\ session # None /\ session.accepted # None => session.accepted.session_id <= minted

AcceptedWhenPending ==
    session # None /\ session.joint_pending => session.accepted # None

IInv == /\ Types /\ OnIsObserved /\ UserOffHolds
        /\ session # None => NoVehicleStop(session)
        /\ IdentitiesGrow /\ RequestIsNew
        /\ AcceptedWhenPending /\ PendingIsUnpowered

-----------------------------------------------------------------------------
(* Types: a session stays one through each part of a tick. *)

LEMMA AgesAre ==
    ASSUME NEW limit \in Nat
    PROVE  /\ 0 \in Age(limit) /\ None \in Age(limit)
           /\ \A age \in Age(limit) :
                 /\ Older(age, limit) \in Age(limit)
                 /\ Since(age) \in 0..limit /\ Since(age) \in Age(limit)
BY EVSessionAssumption DEF Age, Older, Since

LEMMA Limits == /\ Retry \in Nat \ {0} /\ EndWait \in Nat /\ LowWait \in Nat
                /\ 0 \in 0..Retry /\ Retry \in 0..Retry
BY EVSessionAssumption

LEMMA NewSessionType ==
    ASSUME NEW state \in OPEN \cup CLOSED, NEW kind \in {"recognized", "direct", "advice"},
           NEW phase \in Phases
    PROVE  NewSession(state, kind, phase) \in Session
BY Limits, AgesAre DEF NewSession, Session

LEMMA CloseType ==
    ASSUME NEW s \in Session, NEW state \in CLOSED
    PROVE  Close(s, state) \in Session
BY DEF Close, Session

LEMMA OrderedType ==
    ASSUME NEW s \in Session, NEW command \in Commands
    PROVE  Ordered(s, command) \in Session
BY Limits DEF Ordered, Session

LEMMA VehicleResetType ==
    ASSUME NEW s \in Session, NEW i \in Reading
    PROVE  VehicleReset(s, i) \in Session
<1>1. None \in Age(EndWait)
  BY Limits, AgesAre
<1>2. [s EXCEPT !.vehicle_active = FALSE, !.vehicle_end = None, !.vehicle_stop = FALSE]
        \in Session
  BY <1>1 DEF Session
<1> QED
  BY <1>2 DEF VehicleReset

LEMMA VehicleEventType ==
    ASSUME NEW s \in Session, NEW i \in Reading
    PROVE  VehicleEvent(s, i) \in Session
<1>1. s.vehicle_end \in Age(EndWait) /\ s.vehicle_active \in BOOLEAN
  BY DEF Session
<1>2. None \in Age(EndWait) /\ Since(s.vehicle_end) \in Age(EndWait)
  BY <1>1, Limits, AgesAre
<1>3. (Since(s.vehicle_end) >= EndWait) \in BOOLEAN
      /\ (s.vehicle_active /\ i.switch = "on" /\ i.car # "other") \in BOOLEAN
      /\ i.carAfter \in BOOLEAN
  BY DEF Reading
<1>4. [s EXCEPT !.vehicle_active = TRUE, !.activeSinceCommand = i.carAfter,
                !.vehicle_end = None, !.vehicle_stop = FALSE] \in Session
  BY <1>2, <1>3 DEF Session
<1>5. [s EXCEPT !.vehicle_end = Since(@), !.vehicle_stop = Since(s.vehicle_end) >= EndWait]
        \in Session
  BY <1>2, <1>3 DEF Session
<1>6. [s EXCEPT !.vehicle_end = None,
                !.vehicle_active = @ /\ i.switch = "on" /\ i.car # "other"] \in Session
  <2>1. ASSUME NEW a \in BOOLEAN
        PROVE  [s EXCEPT !.vehicle_end = None, !.vehicle_active = a] \in Session
    BY <1>2 DEF Session
  <2> QED
    BY <1>3, <2>1
<1> QED
  BY <1>4, <1>5, <1>6 DEF VehicleEvent

LEMMA MeasuredType ==
    ASSUME NEW s \in Session, NEW i \in Reading
    PROVE  Measured(s, i) \in Session
<1>1. None \in Age(LowWait) /\ Since(s.low) \in Age(LowWait)
  BY Limits, AgesAre DEF Session
<1>2. "planned" \in OPEN /\ "active" \in OPEN /\ "completed" \in CLOSED
  BY DEF OPEN, CLOSED
<1>3. ASSUME NEW b \in BOOLEAN, NEW state \in OPEN \cup CLOSED, NEW low \in Age(LowWait)
      PROVE  /\ [s EXCEPT !.low = low] \in Session
             /\ [s EXCEPT !.low = low, !.state = state] \in Session
             /\ [s EXCEPT !.low = low, !.complete_requested = b, !.state = state] \in Session
  <2>1. [s EXCEPT !.low = low] \in Session
    BY DEF Session
  <2>2. [s EXCEPT !.low = low, !.state = state] \in Session
    BY DEF Session
  <2>3. [s EXCEPT !.low = low, !.complete_requested = b, !.state = state] \in Session
    BY DEF Session
  <2> QED
    BY <2>1, <2>2, <2>3
<1>4. s.state \in OPEN \cup CLOSED /\ s.complete_requested \in BOOLEAN
  BY DEF Session
<1>5. CASE i.power = "none"
  <2>1. Measured(s, i) = [s EXCEPT !.low = None]
    BY <1>5 DEF Measured
  <2> QED
    BY <1>1, <1>3, <1>4, <2>1
<1>6. CASE i.power = "high"
  BY <1>1, <1>2, <1>3, <1>6 DEF Measured
<1>7. CASE i.power = "low"
  <2> DEFINE ended == Since(s.low) >= LowWait
             b == s.complete_requested \/ (ended /\ s.owns_switch)
             state == IF ended /\ ~s.owns_switch THEN "completed" ELSE s.state
  <2>1. b \in BOOLEAN /\ state \in OPEN \cup CLOSED
    BY <1>2, <1>4
  <2>2. Measured(s, i) \in
          {s, [s EXCEPT !.low = Since(@), !.complete_requested = b, !.state = state]}
    BY <1>7 DEF Measured, Session
  <2>3. [s EXCEPT !.low = Since(@), !.complete_requested = b, !.state = state] \in Session
    BY <1>1, <1>3, <2>1
  <2> QED
    BY <2>2, <2>3
<1> QED
  BY <1>5, <1>6, <1>7 DEF Reading

LEMMA InterruptedType ==
    ASSUME NEW s \in Session, NEW i \in Reading
    PROVE  Interrupted(s, i) \in Session
<1>1. \A b \in BOOLEAN, c \in BOOLEAN, state \in OPEN \cup CLOSED :
        [s EXCEPT !.switch_state = i.switch, !.on_observed = b,
                  !.state = state, !.manual_pause = c] \in Session
  BY DEF Session, Reading
<1>2. "interrupted" \in OPEN /\ s.state \in OPEN \cup CLOSED
  BY DEF OPEN, Session
<1> QED
  BY <1>1, <1>2 DEF Interrupted

LEMMA ExecutedType ==
    ASSUME NEW s \in Session, NEW i \in Reading
    PROVE  Executed(s, i) \in Session
<1>1. "cancelled" \in CLOSED /\ "completed" \in CLOSED /\ "interrupted" \in OPEN
      /\ "turn_on" \in Commands /\ "turn_off" \in Commands
  BY DEF CLOSED, OPEN, Commands
<1>2. Reached(s) \in Session
  <2>1. [s EXCEPT !.command = None] \in Session
    BY DEF Session
  <2>2. [s EXCEPT !.command = None, !.owns_switch = TRUE,
                  !.state = IF @ = "planned" THEN "interrupted" ELSE @] \in Session
    BY <1>1 DEF Session
  <2> QED
    BY <1>1, <2>1, <2>2, CloseType DEF Reached
<1> QED
  BY <1>1, <1>2, OrderedType DEF Executed

LEMMA TickedType ==
    ASSUME NEW before \in Session, NEW i \in Reading
    PROVE  Ticked(before, i) \in Session
<1> DEFINE s == VehicleReset(before, i)
           seen == VehicleEvent(s, i)
<1>1. s \in Session /\ seen \in Session
  BY VehicleResetType, VehicleEventType
<1> HIDE DEF s, seen
<1>2. [Close(s, "completed") EXCEPT !.vehicle_stop = FALSE,
          !.vehicle_end = None, !.vehicle_active = FALSE] \in Session
  <2>1. Close(s, "completed") \in Session
    BY <1>1, CloseType DEF CLOSED
  <2> QED
    BY <2>1, Limits, AgesAre DEF Session
<1>3. VehicleStop(seen, i) \in Session
  BY <1>1, OrderedType DEF VehicleStop, Commands
<1>4. Executed(Interrupted(Measured(seen, i), i), i) \in Session
  BY <1>1, MeasuredType, InterruptedType, ExecutedType
<1> QED
  BY <1>1, <1>2, <1>3, <1>4 DEF Ticked, s, seen

-----------------------------------------------------------------------------
(* What the parts of a tick keep. *)

\* No part of a tick touches these.
Same(s, t) ==
    /\ t.kind = s.kind /\ t.accepted = s.accepted /\ t.phase = s.phase
    /\ t.joint_pending = s.joint_pending /\ t.cancel_requested = s.cancel_requested

\* Up to the executor these are not touched either.
SameRun(s, t) ==
    /\ Same(s, t) /\ t.confirmed = s.confirmed /\ t.owns_switch = s.owns_switch
    /\ t.command = s.command /\ t.commandAge = s.commandAge

LEMMA VehicleResetKeeps ==
    ASSUME NEW s \in Session, NEW i \in Reading
    PROVE  LET t == VehicleReset(s, i) IN
           /\ SameRun(s, t) /\ t.state = s.state /\ t.manual_pause = s.manual_pause
           /\ t.complete_requested = s.complete_requested
           /\ t.switch_state = s.switch_state /\ t.on_observed = s.on_observed
           /\ i.switch # "on" /\ "vehicle" \in Features => t = s
BY DEF VehicleReset, Same, SameRun, NewOn, Session

LEMMA VehicleEventKeeps ==
    ASSUME NEW s \in Session, NEW i \in Reading
    PROVE  LET t == VehicleEvent(s, i) IN
           /\ SameRun(s, t) /\ t.state = s.state /\ t.manual_pause = s.manual_pause
           /\ t.complete_requested = s.complete_requested
           /\ t.switch_state = s.switch_state /\ t.on_observed = s.on_observed
           /\ i.switch # "on" => t.vehicle_stop = s.vehicle_stop
BY DEF VehicleEvent, Same, SameRun, FreshCar, ValidEnd, Session

LEMMA MeasuredKeeps ==
    ASSUME NEW s \in Session, NEW i \in Reading
    PROVE  LET t == Measured(s, i) IN
           /\ SameRun(s, t) /\ t.manual_pause = s.manual_pause
           /\ t.switch_state = s.switch_state /\ t.on_observed = s.on_observed
           /\ t.vehicle_stop = s.vehicle_stop
           /\ s.complete_requested => t.complete_requested
           /\ s.state \in OPEN /\ (s.owns_switch \/ i.switch # "on") => t.state \in OPEN
<1>1. CASE i.power = "none"
  BY <1>1 DEF Measured, Same, SameRun, Session
<1>2. CASE i.power = "high"
  BY <1>2 DEF Measured, Same, SameRun, Session, OPEN
<1>3. CASE i.power = "low" /\ i.switch = "on" /\ s.state = "active"
  BY <1>3 DEF Measured, Same, SameRun, Session, OPEN
<1>4. CASE i.power = "low" /\ ~(i.switch = "on" /\ s.state = "active")
  BY <1>4 DEF Measured, Same, SameRun
<1> QED
  BY <1>1, <1>2, <1>3, <1>4 DEF Reading

LEMMA InterruptedKeeps ==
    ASSUME NEW s \in Session, NEW i \in Reading
    PROVE  LET t == Interrupted(s, i) IN
           /\ SameRun(s, t) /\ t.complete_requested = s.complete_requested
           /\ t.vehicle_stop = s.vehicle_stop
           /\ t.switch_state = i.switch
           /\ s.on_observed => t.on_observed
           /\ s.kind # "recognized" /\ i.switch = "on" => t.on_observed
           /\ s.manual_pause => t.manual_pause
           /\ s.state \in OPEN => t.state \in OPEN
           /\ /\ s.kind # "recognized" /\ i.switch = "off" /\ s.on_observed
              /\ s.switch_state # "off" /\ s.owns_switch /\ s.command # "turn_off"
              => t.manual_pause
BY DEF Interrupted, Same, SameRun, Session, OPEN

\* What the executor makes of s, given what it read.
Execution(s, i, t) ==
    /\ Same(s, t) /\ t.manual_pause = s.manual_pause
    /\ t.complete_requested = s.complete_requested
    /\ t.switch_state = s.switch_state /\ t.on_observed = s.on_observed
    /\ t.vehicle_stop = s.vehicle_stop
    /\ t.state \in CLOSED /\ s.state \in OPEN => i.switch = "off" /\ Stop(s)
    /\ t.state \in OPEN => t.confirmed = s.confirmed
    /\ s.owns_switch => t.owns_switch
    /\ t.commandAge # s.commandAge => t.commandAge = 0
    /\ \/ t.command \in {s.command, None}
       \/ t.command \in Commands /\ s.commandAge # 0 /\ t.commandAge = 0
    /\ t.commandAge = 0 /\ s.commandAge # 0 /\ t.command = "turn_on" =>
          /\ s.confirmed /\ ~Stop(s) /\ ~s.manual_pause /\ i.switch = "off"
          /\ s.phase = "inside" /\ t.state = s.state
    /\ s.confirmed /\ ~Stop(s) /\ ~s.manual_pause /\ s.phase = "inside" =>
          /\ i.switch = "on" => t.command = None
          /\ i.switch = "unavailable" => t.command = s.command

LEMMA ExecutedKeeps ==
    ASSUME NEW s \in Session, NEW i \in Reading
    PROVE  Execution(s, i, Executed(s, i))
<1> SUFFICES ASSUME NEW t, t = Executed(s, i) PROVE Execution(s, i, t)
  OBVIOUS
<1>1. Stop(s) => Desired(s) = "off"
  BY DEF Desired
<1>2. Desired(s) = "on" => ~Stop(s) /\ s.phase = "inside" /\ ~s.manual_pause
  BY EVSessionAssumption DEF Desired, Switch
<1>3. ~Stop(s) /\ ~s.manual_pause /\ s.phase = "inside" => Desired(s) = "on"
  BY DEF Desired
<1>4. CASE ~(s.confirmed \/ s.cancel_requested) \/ Desired(s) = None
  <2>1. t = s
    BY <1>4 DEF Executed
  <2>2. ~(s.confirmed /\ ~Stop(s) /\ ~s.manual_pause /\ s.phase = "inside")
    BY <1>3, <1>4, EVSessionAssumption DEF Switch
  <2> QED
    BY <2>1, <2>2 DEF Execution, Same, OPEN, CLOSED
<1>5. CASE (s.confirmed \/ s.cancel_requested) /\ Desired(s) # None /\ Desired(s) = i.switch
  <2>1. t = Reached(s)
    BY <1>5 DEF Executed
  <2>2. CASE Stop(s)
    <3>1. t = Close(s, IF s.cancel_requested THEN "cancelled" ELSE "completed")
      BY <2>1, <2>2 DEF Reached
    <3> QED
      BY <1>1, <1>5, <2>2, <3>1, EVSessionAssumption
         DEF Execution, Close, Same, Session, OPEN, CLOSED, Commands
  <2>3. CASE ~Stop(s) /\ Desired(s) = "off"
    <3>1. t = [s EXCEPT !.command = None]
      BY <2>1, <2>3 DEF Reached
    <3> QED
      BY <1>5, <2>3, <3>1, EVSessionAssumption DEF Execution, Same, Session, OPEN, CLOSED, Commands
  <2>4. CASE ~Stop(s) /\ Desired(s) # "off"
    <3>1. t = [s EXCEPT !.command = None, !.owns_switch = TRUE,
                        !.state = IF @ = "planned" THEN "interrupted" ELSE @]
      BY <2>1, <2>4 DEF Reached
    <3>2. i.switch = "on"
      BY <1>5, <2>4 DEF Desired
    <3>3. /\ Same(s, t) /\ t.manual_pause = s.manual_pause
          /\ t.complete_requested = s.complete_requested
          /\ t.switch_state = s.switch_state /\ t.on_observed = s.on_observed
          /\ t.vehicle_stop = s.vehicle_stop /\ t.confirmed = s.confirmed
          /\ t.owns_switch = TRUE /\ t.commandAge = s.commandAge /\ t.command = None
      BY <3>1 DEF Same, Session
    <3>4. s.state \in OPEN => t.state \notin CLOSED
      BY <3>1 DEF Session, OPEN, CLOSED
    <3>5. None # "turn_on"
      BY EVSessionAssumption DEF Commands
    <3> QED
      BY <3>2, <3>3, <3>4, <3>5 DEF Execution, Same
  <2> QED
    BY <2>2, <2>3, <2>4
<1>6. CASE /\ s.confirmed \/ s.cancel_requested
           /\ Desired(s) # None /\ Desired(s) # i.switch
  <2> DEFINE command == IF Desired(s) = "on" THEN "turn_on" ELSE "turn_off"
  <2>1. t = IF MayOrder(s, i) /\ s.commandAge >= Retry THEN Ordered(s, command) ELSE s
    BY <1>6 DEF Executed
  <2>2. CASE t = s
    BY <1>3, <1>6, <2>2 DEF Execution, Same, OPEN, CLOSED
  <2>3. CASE t = Ordered(s, command) /\ MayOrder(s, i) /\ s.commandAge >= Retry
    <3>1. Desired(s) = "on" => i.switch = "off" /\ s.confirmed
      BY <1>2, <1>6, <2>3 DEF MayOrder, Reading, Switch, Stop
    <3>2. Ordered(s, command).command = command
      BY DEF Ordered, Session
    <3>3. Ordered(s, command).commandAge = 0
      BY DEF Ordered, Session
    <3>4. /\ Same(s, Ordered(s, command))
          /\ Ordered(s, command).state = s.state
          /\ Ordered(s, command).manual_pause = s.manual_pause
          /\ Ordered(s, command).complete_requested = s.complete_requested
          /\ Ordered(s, command).switch_state = s.switch_state
          /\ Ordered(s, command).on_observed = s.on_observed
          /\ Ordered(s, command).vehicle_stop = s.vehicle_stop
          /\ Ordered(s, command).confirmed = s.confirmed
          /\ Ordered(s, command).owns_switch = TRUE
      BY DEF Ordered, Same, Session
    <3>5. s.commandAge # 0 /\ command \in Commands
      BY <2>3, EVSessionAssumption DEF Session, Commands
    <3>6. s.state \in OPEN => s.state \notin CLOSED
      BY DEF OPEN, CLOSED
    <3> QED
      BY <1>2, <1>3, <1>6, <2>3, <3>1, <3>2, <3>3, <3>4, <3>5, <3>6 DEF Execution, Same
  <2> QED
    BY <2>1, <2>2, <2>3
<1> QED
  BY <1>4, <1>5, <1>6

\* What a tick makes of s.
Tock(s, i, t) ==
    /\ Same(s, t) /\ NoVehicleStop(t)
    /\ t.state \in OPEN => s.state \in OPEN
    /\ t.state \in CLOSED /\ s.state \in OPEN /\ s.owns_switch => i.switch = "off"
    /\ Orders(s, t) /\ t.command = "turn_on" =>
          /\ s.state \in OPEN /\ s.confirmed /\ s.phase = "inside" /\ ~s.cancel_requested
          /\ t.state \in OPEN
          /\ s.kind # "recognized" => ~Held(s)
    /\ s.state \in OPEN /\ t.state \in OPEN =>
          /\ t.confirmed = s.confirmed
          /\ ~s.confirmed /\ s.command # "turn_on" => t.command # "turn_on"
          /\ s.kind # "recognized" /\ Held(s) => Held(t)
    /\ s.kind # "recognized" /\ (s.switch_state = "on" => s.on_observed) =>
          (t.switch_state = "on" => t.on_observed)

LEMMA TickedKeeps ==
    ASSUME NEW before \in Session, NoVehicleStop(before), NEW i \in Readings
    PROVE  Tock(before, i, Ticked(before, i))
<1> SUFFICES ASSUME NEW t, t = Ticked(before, i) PROVE Tock(before, i, t)
  OBVIOUS
<1> i \in Reading /\ ("vehicle" \notin Features => i.car = "other")
  BY DEF Readings
<1> DEFINE s == VehicleReset(before, i)
           seen == VehicleEvent(s, i)
           m == Measured(seen, i)
           e == Interrupted(m, i)
<1>1. s \in Session /\ seen \in Session /\ m \in Session /\ e \in Session
  BY VehicleResetType, VehicleEventType, MeasuredType, InterruptedType
<1>2. /\ SameRun(before, s) /\ s.state = before.state /\ s.manual_pause = before.manual_pause
      /\ s.complete_requested = before.complete_requested
      /\ s.switch_state = before.switch_state /\ s.on_observed = before.on_observed
      /\ i.switch # "on" => s.vehicle_stop = before.vehicle_stop
      /\ NoVehicleStop(s)
  <2>1. "vehicle" \notin Features => s.vehicle_stop = FALSE
    BY DEF VehicleReset, Session
  <2> QED
    BY <2>1, VehicleResetKeeps DEF NoVehicleStop, Session
<1>3. /\ SameRun(s, seen) /\ seen.state = s.state /\ seen.manual_pause = s.manual_pause
      /\ seen.complete_requested = s.complete_requested
      /\ seen.switch_state = s.switch_state /\ seen.on_observed = s.on_observed
      /\ i.switch # "on" => seen.vehicle_stop = s.vehicle_stop
      /\ NoVehicleStop(seen)
  <2>1. i.car = "other" => seen.vehicle_stop = s.vehicle_stop
    BY <1>1 DEF VehicleEvent, FreshCar, ValidEnd, Session
  <2> QED
    BY <1>1, <1>2, <2>1, VehicleEventKeeps DEF NoVehicleStop
<1> HIDE DEF s, seen, m, e
<1>4. /\ SameRun(before, seen) /\ seen.state = before.state
      /\ seen.manual_pause = before.manual_pause
      /\ seen.complete_requested = before.complete_requested
      /\ seen.switch_state = before.switch_state /\ seen.on_observed = before.on_observed
      /\ i.switch # "on" => seen.vehicle_stop = before.vehicle_stop
  BY <1>2, <1>3 DEF SameRun, Same
<1>5. CASE s.vehicle_stop /\ i.switch = "off"
  <2> DEFINE c == Close(s, "completed")
  <2>1. t = [c EXCEPT !.vehicle_stop = FALSE, !.vehicle_end = None, !.vehicle_active = FALSE]
    BY <1>5 DEF Ticked, s
  <2>2. c \in Session
    BY <1>1, CloseType DEF CLOSED
  <2>21. /\ c.state = "completed" /\ Same(s, c) /\ c.commandAge = s.commandAge
         /\ c.switch_state = s.switch_state /\ c.on_observed = s.on_observed
    BY <1>1 DEF Close, Same, Session
  <2> HIDE DEF c
  <2>3. /\ t.state = "completed" /\ Same(s, t) /\ t.commandAge = s.commandAge
        /\ t.switch_state = s.switch_state /\ t.on_observed = s.on_observed
        /\ t.vehicle_stop = FALSE
    BY <2>1, <2>2, <2>21 DEF Same, Session
  <2>4. ~Orders(before, t)
    BY <1>2, <2>3 DEF Orders, SameRun
  <2> QED
    BY <1>2, <1>5, <2>3, <2>4 DEF Tock, Same, SameRun, NoVehicleStop, OPEN
<1>6. CASE ~(s.vehicle_stop /\ i.switch = "off") /\ seen.vehicle_stop
  <2>1. t = VehicleStop(seen, i)
    BY <1>6 DEF Ticked, s, seen
  <2>2. CASE t = seen
    <3>1. Held(before) => Held(t)
      BY <1>4, <1>6, <2>2 DEF Held, AwaitsOff, Stop, SameRun, Same
    <3>2. ~Orders(before, t)
      BY <1>4, <2>2 DEF Orders, SameRun
    <3> QED
      BY <1>3, <1>4, <2>2, <3>1, <3>2 DEF Tock, SameRun, Same, OPEN, CLOSED
  <2>3. CASE t = Ordered(seen, "turn_off")
    <3>1. /\ Same(seen, t) /\ t.command = "turn_off" /\ t.state = seen.state
          /\ t.confirmed = seen.confirmed /\ t.owns_switch = TRUE
          /\ t.manual_pause = seen.manual_pause /\ t.vehicle_stop = seen.vehicle_stop
          /\ t.complete_requested = seen.complete_requested
          /\ t.switch_state = seen.switch_state /\ t.on_observed = seen.on_observed
      BY <1>1, <2>3 DEF Ordered, Same, Session
    <3>2. Held(before) => Held(t)
      BY <1>4, <1>6, <3>1 DEF Held, AwaitsOff, Stop, SameRun, Same
    <3> QED
      BY <1>3, <1>4, <3>1, <3>2 DEF Tock, SameRun, Same, NoVehicleStop, OPEN, CLOSED
  <2> QED
    BY <2>1, <2>2, <2>3 DEF VehicleStop
<1>7. CASE ~seen.vehicle_stop /\ ~(s.vehicle_stop /\ i.switch = "off")
           /\ before.state \in OPEN
  <2>1. t = Executed(e, i)
    BY <1>7 DEF Ticked, s, seen, m, e
  <2>2. /\ SameRun(seen, m) /\ m.manual_pause = seen.manual_pause
        /\ m.switch_state = seen.switch_state /\ m.on_observed = seen.on_observed
        /\ m.vehicle_stop = seen.vehicle_stop
        /\ seen.complete_requested => m.complete_requested
        /\ seen.state \in OPEN /\ (seen.owns_switch \/ i.switch # "on") => m.state \in OPEN
    BY <1>1, MeasuredKeeps DEF m
  <2>3. /\ SameRun(m, e) /\ e.complete_requested = m.complete_requested
        /\ e.vehicle_stop = m.vehicle_stop /\ e.switch_state = i.switch
        /\ m.on_observed => e.on_observed
        /\ m.kind # "recognized" /\ i.switch = "on" => e.on_observed
        /\ m.manual_pause => e.manual_pause
        /\ m.state \in OPEN => e.state \in OPEN
        /\ /\ m.kind # "recognized" /\ i.switch = "off" /\ m.on_observed
           /\ m.switch_state # "off" /\ m.owns_switch /\ m.command # "turn_off"
           => e.manual_pause
    BY <1>1, InterruptedKeeps DEF e
  <2>4. Execution(e, i, t)
    BY <1>1, <2>1, ExecutedKeeps
  <2>5. SameRun(before, e) /\ Same(before, t)
    BY <1>4, <2>2, <2>3, <2>4 DEF SameRun, Same, Execution
  <2>6. /\ t.vehicle_stop = seen.vehicle_stop /\ NoVehicleStop(t)
    BY <1>3, <2>2, <2>3, <2>4 DEF Execution, NoVehicleStop
  <2>7. Stop(before) => Stop(e)
    BY <1>4, <2>2, <2>3, <2>5 DEF Stop, SameRun, Same
  <2>8. AwaitsOff(before) /\ before.kind # "recognized" /\ i.switch = "off" => e.manual_pause
    <3> SUFFICES ASSUME AwaitsOff(before), before.kind # "recognized", i.switch = "off"
                 PROVE  e.manual_pause
      OBVIOUS
    <3>1. before.command # "turn_off"
      BY <1>2, <1>7 DEF AwaitsOff
    <3> QED
      BY <1>4, <2>2, <2>3, <3>1 DEF AwaitsOff, SameRun, Same
  <2>9. Orders(before, t) /\ t.command = "turn_on" =>
          /\ before.confirmed /\ before.phase = "inside" /\ ~before.cancel_requested
          /\ t.state \in OPEN
          /\ before.kind # "recognized" => ~Held(before)
    <3> SUFFICES ASSUME Orders(before, t), t.command = "turn_on"
                 PROVE  /\ before.confirmed /\ before.phase = "inside"
                        /\ ~before.cancel_requested /\ t.state \in OPEN
                        /\ before.kind # "recognized" => ~Held(before)
      OBVIOUS
    <3>1. e.confirmed /\ ~Stop(e) /\ ~e.manual_pause /\ i.switch = "off" /\ e.phase = "inside"
      BY <2>4, <2>5 DEF Orders, Execution, SameRun
    <3>2. before.manual_pause => e.manual_pause
      BY <1>4, <2>2, <2>3
    <3>3. t.state = e.state
      BY <2>4, <2>5 DEF Orders, Execution, SameRun
    <3>4. e.state \in OPEN
      BY <1>4, <1>7, <2>2, <2>3, <3>1
    <3> QED
      BY <2>5, <2>7, <2>8, <3>1, <3>2, <3>3, <3>4 DEF Held, SameRun, Same, Stop
  <2>10. ASSUME t.state \in OPEN
         PROVE  /\ t.confirmed = before.confirmed
                /\ ~before.confirmed /\ before.command # "turn_on" => t.command # "turn_on"
                /\ before.kind # "recognized" /\ Held(before) => Held(t)
    <3>1. t.confirmed = before.confirmed
      BY <2>4, <2>5, <2>10 DEF Execution, SameRun
    <3>2. ~before.confirmed /\ before.command # "turn_on" => t.command # "turn_on"
      BY <2>4, <2>5, EVSessionAssumption DEF Execution, SameRun, Commands
    <3>3. before.kind # "recognized" /\ Held(before) => Held(t)
      <4> SUFFICES ASSUME before.kind # "recognized", Held(before),
                          ~t.manual_pause, ~Stop(t)
                   PROVE  AwaitsOff(t)
        BY DEF Held
      <4>1. ~e.manual_pause /\ ~Stop(e)
        BY <2>4 DEF Execution, Stop, Same
      <4>2. AwaitsOff(before)
        BY <1>4, <2>2, <2>3, <2>7, <4>1 DEF Held
      <4>3. i.switch # "off"
        BY <2>8, <4>1, <4>2
      <4>4. e.confirmed /\ e.owns_switch /\ e.phase = "inside" /\ e.on_observed
        BY <1>4, <2>2, <2>3, <2>5, <4>2 DEF AwaitsOff, SameRun, Same
      <4>5. /\ t.owns_switch /\ t.phase = "inside" /\ t.on_observed /\ t.switch_state # "off"
            /\ t.confirmed
        BY <2>3, <2>4, <2>10, <4>3, <4>4 DEF Execution, Same
      <4>6. CASE i.switch = "on"
        BY <2>4, <4>1, <4>4, <4>5, <4>6, EVSessionAssumption DEF Execution, AwaitsOff, Commands
      <4>7. CASE i.switch = "unavailable"
        <5>1. t.command = before.command
          BY <2>4, <2>5, <4>1, <4>4, <4>7 DEF Execution, SameRun
        <5>2. before.command # "turn_off"
          BY <1>4, <1>7, <4>2, <4>7 DEF AwaitsOff
        <5> QED
          BY <4>5, <5>1, <5>2 DEF AwaitsOff
      <4> QED
        BY <4>3, <4>6, <4>7 DEF Reading, Switch
    <3> QED
      BY <3>1, <3>2, <3>3
  <2>11. t.state \in CLOSED /\ before.owns_switch => i.switch = "off"
    <3> SUFFICES ASSUME t.state \in CLOSED, before.owns_switch PROVE i.switch = "off"
      OBVIOUS
    <3>1. e.state \in OPEN
      BY <1>4, <1>7, <2>2, <2>3 DEF SameRun
    <3> QED
      BY <2>4, <3>1 DEF Execution
  <2>12. before.kind # "recognized" /\ (before.switch_state = "on" => before.on_observed) =>
          (t.switch_state = "on" => t.on_observed)
    BY <1>4, <2>2, <2>3, <2>4 DEF Execution, SameRun, Same
  <2> QED
    BY <1>7, <2>5, <2>6, <2>9, <2>10, <2>11, <2>12 DEF Tock
<1>8. CASE ~seen.vehicle_stop /\ ~(s.vehicle_stop /\ i.switch = "off")
           /\ before.state \notin OPEN
  <2>1. t = seen
    BY <1>8 DEF Ticked, s, seen
  <2>2. ~Orders(before, t)
    BY <1>4, <2>1 DEF Orders, SameRun
  <2> QED
    BY <1>3, <1>4, <1>8, <2>1, <2>2 DEF Tock, SameRun, Same
<1> QED
  BY <1>5, <1>6, <1>7, <1>8
-----------------------------------------------------------------------------
(* The invariant, action by action. *)

THEOREM InitIInv == Init => IInv
<1> SUFFICES ASSUME Init PROVE IInv
  OBVIOUS
<1> USE DEF Init
<1>1. minted \in 0..MaxRequests
  BY EVSessionAssumption
<1>2. Types
  BY <1>1 DEF Types, Switch
<1> QED
  BY <1>2 DEF IInv, OnIsObserved, UserOffHolds, IdentitiesGrow, RequestIsNew,
              AcceptedWhenPending, PendingIsUnpowered, Opened

\* A step that leaves the session, the request and the advice alone.
LEMMA OutsideKeeps ==
    ASSUME IInv, Types', UNCHANGED <<session, request, minted, advice>>,
           userOff' => userOff
    PROVE  IInv'
<1>1. OnIsObserved' /\ (session # None => NoVehicleStop(session))'
  BY DEF IInv, OnIsObserved, NoVehicleStop
<1>2. UserOffHolds'
  BY DEF IInv, UserOffHolds, Opened, Held, Stop, AwaitsOff
<1>3. IdentitiesGrow' /\ RequestIsNew' /\ AcceptedWhenPending'
  BY DEF IInv, IdentitiesGrow, RequestIsNew, AcceptedWhenPending
<1>4. PendingIsUnpowered'
  BY DEF IInv, PendingIsUnpowered, Opened
<1> QED
  BY <1>1, <1>2, <1>3, <1>4 DEF IInv

LEMMA InvalidatedType ==
    ASSUME request \in Request \cup {None}, IdentitiesGrow, minted \in Nat
    PROVE  /\ Invalidated \in Request \cup {None}
           /\ Invalidated = None <=> request = None
           /\ request # None =>
                 /\ Invalidated.session_id = request.session_id
                 /\ Invalidated.state # "requested"
                 /\ request.state # "requested" => Invalidated = request
<1>1. CASE request # None /\ request.state = "requested"
  <2>1. Invalidated = [request EXCEPT !.state = "cancelled", !.request_revision = @ + 1]
    BY <1>1 DEF Invalidated
  <2>2. request.request_revision + 1 \in 1..MaxRevision + 1
    BY <1>1, EVSessionAssumption DEF IdentitiesGrow, Request
  <2>3. Invalidated \in Request
    BY <1>1, <2>1, <2>2 DEF Request
  <2>4. None \notin Request
    BY EVSessionAssumption
  <2>5. Invalidated.session_id = request.session_id /\ Invalidated.state = "cancelled"
    BY <1>1, <2>1 DEF Request
  <2> QED
    BY <1>1, <2>3, <2>4, <2>5
<1>2. CASE ~(request # None /\ request.state = "requested")
  BY <1>2 DEF Invalidated
<1> QED
  BY <1>1, <1>2

LEMMA RequestAdviceKeeps == IInv /\ RequestAdvice => IInv'
<1> SUFFICES ASSUME IInv, RequestAdvice PROVE IInv'
  OBVIOUS
<1>1. request' \in Request /\ request'.state = "requested" /\ minted' \in 0..MaxRequests
  BY EVSessionAssumption DEF IInv, Types, RequestAdvice, Request
<1>2. Types'
  BY <1>1 DEF IInv, Types, RequestAdvice, charger
<1>3. minted' >= minted /\ minted \in Nat /\ minted' \in Nat
  BY <1>1, EVSessionAssumption DEF IInv, Types, RequestAdvice
<1>4. request'.session_id <= minted' /\ request'.request_revision <= MaxRevision
  <2>1. CASE request # None /\ request.state = "requested"
                /\ request' = [request EXCEPT !.request_revision = @ + 1]
                /\ request.session_id + request.request_revision <= MaxRevision
                /\ minted' = minted
    <3>1. request.session_id \in 1..MaxRequests /\ request.request_revision \in 1..MaxRevision + 1
      BY <2>1 DEF IInv, Types, Request
    <3>2. request.request_revision + 1 <= MaxRevision
      BY <2>1, <3>1, EVSessionAssumption
    <3> QED
      BY <2>1, <3>1, <3>2 DEF IInv, Types, Request, IdentitiesGrow
  <2>2. CASE /\ minted' = minted + 1
             /\ request' = [session_id |-> minted', request_revision |-> 1,
                            state |-> "requested"]
    <3>1. request'.session_id = minted' /\ request'.request_revision = 1
      BY <2>2
    <3> QED
      BY <1>3, <3>1, EVSessionAssumption
  <2> QED
    BY <2>1, <2>2 DEF RequestAdvice
<1>5. session # None /\ session.accepted # None => session.accepted.session_id \in Nat
  BY DEF IInv, Types, Session, Advice
<1>6. IdentitiesGrow'
  BY <1>3, <1>4, <1>5 DEF IInv, IdentitiesGrow, RequestAdvice
<1>7. RequestIsNew'
  <2> SUFFICES ASSUME session # None, session.accepted # None
               PROVE  session.accepted.session_id # request'.session_id
    BY DEF RequestIsNew, RequestAdvice
  <2>1. session.accepted.session_id <= minted
    BY DEF IInv, IdentitiesGrow
  <2>2. CASE request # None /\ request.state = "requested"
                /\ request' = [request EXCEPT !.request_revision = @ + 1]
    BY <2>2 DEF IInv, Types, Request, RequestIsNew
  <2>3. CASE request'.session_id = minted + 1
    BY <1>3, <1>5, <2>1, <2>3
  <2> QED
    BY <2>2, <2>3 DEF RequestAdvice
<1>8. UserOffHolds' /\ PendingIsUnpowered'
  BY DEF UserOffHolds, PendingIsUnpowered, Opened, RequestAdvice
<1>9. OnIsObserved' /\ AcceptedWhenPending' /\ (session # None => NoVehicleStop(session))'
  BY DEF IInv, OnIsObserved, AcceptedWhenPending, NoVehicleStop, RequestAdvice
<1> QED
  BY <1>2, <1>6, <1>7, <1>8, <1>9 DEF IInv

LEMMA MintedIsNat == Types => minted \in Nat
BY EVSessionAssumption DEF Types

\* A request that ends keeps its identity.
Ended(r) ==
    /\ r \in Request \cup {None} /\ (r = None <=> request = None)
    /\ request # None => r.session_id = request.session_id /\ r.state # "requested"

LEMMA EndedRequest ==
    ASSUME IInv
    PROVE  /\ Ended(Invalidated)
           /\ request # None => Ended([request EXCEPT !.state = "cancelled"])
           /\ request # None /\ request.state # "requested" => Invalidated = request
<1>1. Ended(Invalidated)
  BY InvalidatedType, MintedIsNat DEF IInv, Types, Ended
<1>2. ASSUME request # None
      PROVE  Ended([request EXCEPT !.state = "cancelled"])
  <2>1. [request EXCEPT !.state = "cancelled"] \in Request
    BY <1>2 DEF IInv, Types, Request
  <2>2. None \notin Request
    BY EVSessionAssumption
  <2>3. /\ [request EXCEPT !.state = "cancelled"].session_id = request.session_id
        /\ [request EXCEPT !.state = "cancelled"].state = "cancelled"
    BY <1>2 DEF IInv, Types, Request
  <2> QED
    BY <1>2, <2>1, <2>2, <2>3 DEF Ended
<1>3. request # None /\ request.state # "requested" => Invalidated = request
  BY DEF Invalidated
<1> QED
  BY <1>1, <1>2, <1>3

LEMMA CancelAdviceKeeps == IInv /\ CancelAdvice => IInv'
<1> SUFFICES ASSUME IInv, CancelAdvice PROVE IInv'
  OBVIOUS
<1> USE DEF CancelAdvice, charger
<1>1. CASE Opened /\ session.joint_pending
  <2>1. session' \in Session /\ session'.state = "cancelled"
        /\ Same(session, session') /\ session'.switch_state = session.switch_state
        /\ session'.on_observed = session.on_observed
        /\ session'.vehicle_stop = session.vehicle_stop
    <3>1. session' = [session EXCEPT !.state = "cancelled", !.confirmed = FALSE]
      BY <1>1
    <3>2. session \in Session
      BY <1>1 DEF IInv, Types, Opened
    <3> QED
      BY <3>1, <3>2 DEF Same, Session, CLOSED
  <2>2. ~Opened'
    BY <2>1 DEF Opened, OPEN
  <2>3. Ended(request')
    BY <1>1, EndedRequest DEF Ended
  <2>4. Types'
    BY <2>1, <2>3 DEF IInv, Types, Ended
  <2>5. session # None
    BY <1>1 DEF Opened
  <2>6. OnIsObserved' /\ AcceptedWhenPending' /\ (session # None => NoVehicleStop(session))'
    BY <2>1, <2>5 DEF IInv, OnIsObserved, AcceptedWhenPending, NoVehicleStop, Same
  <2>7. IdentitiesGrow' /\ RequestIsNew'
    BY <2>1, <2>3, <2>5 DEF IInv, IdentitiesGrow, RequestIsNew, Same, Ended
  <2> QED
    BY <2>2, <2>4, <2>6, <2>7 DEF IInv, UserOffHolds, PendingIsUnpowered
<1>2. CASE ~(Opened /\ session.joint_pending)
  <2>1. session' = session /\ request' = Invalidated /\ Ended(request')
    BY <1>2, EndedRequest
  <2>2. Types'
    BY <2>1 DEF IInv, Types, Ended
  <2>3. UserOffHolds' /\ OnIsObserved' /\ AcceptedWhenPending'
        /\ (session # None => NoVehicleStop(session))'
    BY <2>1 DEF IInv, UserOffHolds, OnIsObserved, AcceptedWhenPending, Opened, Held, Stop,
                AwaitsOff, NoVehicleStop
  <2>4. IdentitiesGrow' /\ RequestIsNew'
    BY <2>1 DEF IInv, IdentitiesGrow, RequestIsNew, Ended
  <2>5. PendingIsUnpowered'
    BY <1>2, <2>1 DEF PendingIsUnpowered, Opened
  <2> QED
    BY <2>2, <2>3, <2>4, <2>5 DEF IInv
<1> QED
  BY <1>1, <1>2

LEMMA SaveProfileKeeps == IInv /\ SaveProfile => IInv'
<1> SUFFICES ASSUME IInv, SaveProfile PROVE IInv'
  OBVIOUS
<1>1. Types'
  BY DEF IInv, Types, SaveProfile, charger
<1> QED
  BY <1>1, OutsideKeeps DEF SaveProfile

LEMMA VerifyResumeKeeps == IInv /\ VerifyResume => IInv'
<1> SUFFICES ASSUME IInv, VerifyResume PROVE IInv'
  OBVIOUS
<1>1. Types'
  BY DEF IInv, Types, VerifyResume, charger
<1> QED
  BY <1>1, OutsideKeeps DEF VerifyResume

LEMMA StartNowKeeps == IInv /\ StartNow => IInv'
<1> SUFFICES ASSUME IInv, StartNow PROVE IInv'
  OBVIOUS
<1> USE DEF StartNow, charger
<1>1. session' \in Session
  BY NewSessionType DEF OPEN, Phases
<1>2. /\ session'.accepted = None /\ session'.joint_pending = FALSE
      /\ session'.switch_state = None /\ session'.vehicle_stop = FALSE
  BY DEF NewSession
<1>3. Ended(request')
  BY EndedRequest
<1>4. Types'
  BY <1>1, <1>3 DEF IInv, Types, Ended
<1>5. None # "on"
  BY EVSessionAssumption DEF Switch
<1>6. OnIsObserved' /\ AcceptedWhenPending' /\ UserOffHolds' /\ PendingIsUnpowered'
      /\ (session # None => NoVehicleStop(session))'
  BY <1>2, <1>5 DEF OnIsObserved, AcceptedWhenPending, UserOffHolds, PendingIsUnpowered,
                    NoVehicleStop
<1>7. IdentitiesGrow' /\ RequestIsNew'
  BY <1>2, <1>3 DEF IInv, IdentitiesGrow, RequestIsNew, Ended
<1> QED
  BY <1>4, <1>6, <1>7 DEF IInv

\* The session that executes an advice.
LEMMA ExecutedAdvice ==
    ASSUME NEW phase \in {"before", "inside"}, IInv, ExecuteAdvice(phase)
    PROVE  /\ advice \in Advice /\ request \in Request /\ advice # None /\ request # None
           /\ session' \in Session
           /\ session'.accepted = advice /\ session'.confirmed = ~advice.joint
           /\ session'.joint_pending = advice.joint /\ session'.command = None
           /\ session'.switch_state = None /\ session'.vehicle_stop = FALSE
           /\ session'.state = "planned" /\ session'.cancel_requested = FALSE
           /\ session'.commandAge = Retry
<1>1. advice \in Advice /\ request \in Request /\ advice # None /\ request # None
  BY DEF IInv, Types, ExecuteAdvice
<1> DEFINE new == NewSession("planned", "advice", phase)
<1>2. new \in Session
  BY NewSessionType DEF OPEN, Phases
<1>3. /\ new.command = None /\ new.cancel_requested = FALSE /\ new.switch_state = None
      /\ new.vehicle_stop = FALSE /\ new.state = "planned" /\ new.commandAge = Retry
  BY DEF NewSession
<1>4. session' = [new EXCEPT !.accepted = advice, !.confirmed = ~advice.joint,
                             !.joint_pending = advice.joint]
  BY DEF ExecuteAdvice
<1> HIDE DEF new
<1>5. advice.joint \in BOOLEAN /\ (~advice.joint) \in BOOLEAN
  BY <1>1 DEF Advice
<1>6. session' \in Session
  <2>1. \A a \in Advice, b \in BOOLEAN, c \in BOOLEAN :
          [new EXCEPT !.accepted = a, !.confirmed = b, !.joint_pending = c] \in Session
    BY <1>2 DEF Session
  <2>2. [new EXCEPT !.accepted = advice, !.confirmed = ~advice.joint,
                    !.joint_pending = advice.joint] \in Session
    BY ONLY <1>1, <1>5, <2>1, Zenon
  <2> QED
    BY <1>4, <2>2
<1> QED
  BY <1>1, <1>2, <1>3, <1>4, <1>6 DEF Session

LEMMA ExecuteAdviceKeeps ==
    ASSUME NEW phase \in {"before", "inside"}, IInv, ExecuteAdvice(phase)
    PROVE  IInv'
<1> USE DEF ExecuteAdvice, charger
<1>1. advice \in Advice /\ request \in Request /\ advice # None /\ request # None
  BY ExecutedAdvice
<1>5. advice.request_revision \in 1..MaxRevision + 1
  BY <1>1, EVSessionAssumption DEF Advice
<1>6. session' \in Session
  BY ExecutedAdvice
<1>7. /\ session'.accepted = advice /\ session'.confirmed = ~advice.joint
      /\ session'.joint_pending = advice.joint /\ session'.command = None
      /\ session'.switch_state = None /\ session'.vehicle_stop = FALSE
  BY ExecutedAdvice
<1>8. request' \in Request /\ request'.session_id = request.session_id
      /\ request'.state = "accepted"
  BY <1>1, <1>5 DEF Request
<1>9. None \notin Request /\ None \notin Session /\ None # "on" /\ None # "turn_on"
  BY EVSessionAssumption DEF Switch, Commands
<1>10. Types'
  BY <1>6, <1>8 DEF IInv, Types
<1>11. OnIsObserved' /\ AcceptedWhenPending' /\ UserOffHolds'
       /\ (session # None => NoVehicleStop(session))'
  BY <1>1, <1>7, <1>9 DEF OnIsObserved, AcceptedWhenPending, UserOffHolds, NoVehicleStop
<1>12. IdentitiesGrow' /\ RequestIsNew'
  BY <1>1, <1>7, <1>8 DEF IInv, IdentitiesGrow, RequestIsNew
<1>13. PendingIsUnpowered'
  BY <1>1, <1>7, <1>8, <1>9 DEF IInv, IdentitiesGrow, PendingIsUnpowered
<1> QED
  BY <1>10, <1>11, <1>12, <1>13 DEF IInv

\* The session after a step that is not a tick.
Alike(s, t) ==
    /\ s \in Session /\ t \in Session
    /\ t.kind = s.kind /\ t.accepted = s.accepted
    /\ t.switch_state = s.switch_state /\ t.on_observed = s.on_observed
    /\ t.vehicle_stop = s.vehicle_stop
    /\ t.joint_pending => s.joint_pending

LEMMA AlikeKeeps ==
    ASSUME IInv, session # None, Alike(session, session'), UNCHANGED <<minted, advice>>,
           request' = request \/ Ended(request')
    PROVE  /\ OnIsObserved' /\ AcceptedWhenPending' /\ IdentitiesGrow' /\ RequestIsNew'
           /\ (session # None => NoVehicleStop(session))'
<1>1. OnIsObserved' /\ AcceptedWhenPending' /\ (session # None => NoVehicleStop(session))'
  BY DEF IInv, OnIsObserved, AcceptedWhenPending, NoVehicleStop, Alike
<1>2. IdentitiesGrow' /\ RequestIsNew'
  BY DEF IInv, IdentitiesGrow, RequestIsNew, Alike, Ended
<1> QED
  BY <1>1, <1>2

LEMMA PlanType == IInv /\ Plan => session \in Session /\ session' \in Session
<1> SUFFICES ASSUME IInv, Plan PROVE session \in Session /\ session' \in Session
  OBVIOUS
<1> USE DEF Plan
<1>1. session \in Session
  BY DEF IInv, Types, Opened
<1>2. session' \in Session
  <2>1. "planned" \in OPEN \cup CLOSED /\ "before" \in Phases
    BY DEF OPEN, Phases
  <2>2. Retry \in 0..Retry /\ TRUE \in BOOLEAN /\ FALSE \in BOOLEAN
    BY Limits
  <2>3. [session EXCEPT !.state = "planned", !.phase = "before", !.confirmed = TRUE,
           !.command = None, !.commandAge = Retry, !.manual_pause = FALSE] \in Session
    BY ONLY <1>1, <2>1, <2>2 DEF Session
  <2> QED
    BY <2>3
<1> QED
  BY <1>1, <1>2

LEMMA PlanKeeps == IInv /\ Plan => IInv'
<1> SUFFICES ASSUME IInv, Plan PROVE IInv'
  OBVIOUS
<1> USE DEF Plan, charger
<1>1. session \in Session /\ session # None
  BY DEF IInv, Types, Opened
<1>2. session' \in Session
  BY PlanType
<1>3. Alike(session, session') /\ session'.joint_pending = session.joint_pending
  BY <1>1, <1>2 DEF Alike, Session
<1>4. ~session.joint_pending
  BY <1>1 DEF IInv, AcceptedWhenPending
<1>5. Types'
  BY <1>2 DEF IInv, Types
<1>6. UserOffHolds' /\ PendingIsUnpowered'
  BY <1>3, <1>4 DEF UserOffHolds, PendingIsUnpowered
<1> QED
  BY <1>1, <1>3, <1>5, <1>6, AlikeKeeps DEF IInv

LEMMA ResumeKeeps == IInv /\ Resume => IInv'
<1> SUFFICES ASSUME IInv, Resume PROVE IInv'
  OBVIOUS
<1> USE DEF Resume, charger
<1>1. session \in Session /\ session # None
  BY DEF IInv, Types, Opened
<1>2. session' \in Session
  BY <1>1 DEF Session
<1>3. Alike(session, session') /\ session'.joint_pending = session.joint_pending
  BY <1>1, <1>2 DEF Alike, Session
<1>4. ~session.joint_pending
  BY <1>1 DEF IInv, PendingIsUnpowered
<1>5. Types'
  BY <1>2 DEF IInv, Types
<1>6. UserOffHolds' /\ PendingIsUnpowered'
  BY <1>3, <1>4 DEF UserOffHolds, PendingIsUnpowered
<1> QED
  BY <1>1, <1>3, <1>5, <1>6, AlikeKeeps DEF IInv

LEMMA CancelKeeps == IInv /\ Cancel => IInv'
<1> SUFFICES ASSUME IInv, Cancel PROVE IInv'
  OBVIOUS
<1> USE DEF Cancel, charger
<1>1. session \in Session /\ session # None
  BY DEF IInv, Types, Opened
<1>2. session' \in Session
  BY <1>1 DEF Session
<1>3. /\ Alike(session, session') /\ session'.joint_pending = session.joint_pending
      /\ session'.confirmed = session.confirmed /\ session'.command = session.command
      /\ session'.cancel_requested = TRUE /\ session'.state = session.state
  BY <1>1, <1>2 DEF Alike, Session
<1>4. request' = request \/ Ended(request')
  BY EndedRequest
<1>5. Types'
  BY <1>2, <1>4 DEF IInv, Types, Ended
<1>6. UserOffHolds'
  BY <1>3 DEF UserOffHolds, Held, Stop
<1>7. PendingIsUnpowered'
  BY <1>1, <1>3, <1>4 DEF IInv, PendingIsUnpowered, Opened, Alike, Ended
<1> QED
  BY <1>1, <1>3, <1>4, <1>5, <1>6, <1>7, AlikeKeeps DEF IInv

LEMMA ReconfigureKeeps == IInv /\ Reconfigure => IInv'
<1> SUFFICES ASSUME IInv, Reconfigure PROVE IInv'
  OBVIOUS
<1> USE DEF Reconfigure, charger
<1>1. Types'
  BY DEF IInv, Types
<1>2. UserOffHolds' /\ PendingIsUnpowered'
  BY DEF UserOffHolds, PendingIsUnpowered, Opened
<1>3. OnIsObserved' /\ AcceptedWhenPending' /\ IdentitiesGrow' /\ RequestIsNew'
      /\ (session # None => NoVehicleStop(session))'
  BY DEF IInv, OnIsObserved, AcceptedWhenPending, IdentitiesGrow, RequestIsNew, NoVehicleStop
<1> QED
  BY <1>1, <1>2, <1>3 DEF IInv

LEMMA AdviceExchangeKeeps == IInv /\ AdviceExchange => IInv'
<1> SUFFICES ASSUME IInv, AdviceExchange PROVE IInv'
  OBVIOUS
<1> USE DEF AdviceExchange, charger
<1>1. CASE Opened /\ ~session.joint_pending
  <2>1. Ended(request') /\ advice' = None /\ session' = session /\ minted' = minted
        /\ userOff' = userOff
    BY <1>1, EndedRequest
  <2>2. Types'
    BY <2>1 DEF IInv, Types, Ended
  <2>3. UserOffHolds' /\ OnIsObserved' /\ AcceptedWhenPending'
        /\ (session # None => NoVehicleStop(session))'
    BY <2>1 DEF IInv, UserOffHolds, OnIsObserved, AcceptedWhenPending, Opened, Held, Stop,
                AwaitsOff, NoVehicleStop
  <2>4. IdentitiesGrow' /\ RequestIsNew' /\ PendingIsUnpowered'
    BY <1>1, <2>1 DEF IInv, IdentitiesGrow, RequestIsNew, PendingIsUnpowered, Opened, Ended
  <2> QED
    BY <2>2, <2>3, <2>4 DEF IInv
<1>2. CASE ~(Opened /\ ~session.joint_pending)
  <2>1. Types'
    BY <1>2 DEF IInv, Types
  <2> QED
    BY <1>2, <2>1, OutsideKeeps
<1> QED
  BY <1>1, <1>2

LEMMA TakeAdviceKeeps ==
    ASSUME NEW m \in Message, IInv, TakeAdvice(m)
    PROVE  IInv'
<1> USE DEF TakeAdvice, charger
<1>1. m.advice \in Advice
  BY DEF Message
<1>2. Types'
  BY <1>1 DEF IInv, Types
<1>3. IdentitiesGrow' /\ RequestIsNew'
  BY DEF IInv, IdentitiesGrow, RequestIsNew, MatchesRequest
<1>4. UserOffHolds' /\ OnIsObserved' /\ AcceptedWhenPending' /\ PendingIsUnpowered'
      /\ (session # None => NoVehicleStop(session))'
  BY DEF IInv, UserOffHolds, OnIsObserved, AcceptedWhenPending, PendingIsUnpowered, Opened,
         Held, Stop, AwaitsOff, NoVehicleStop
<1> QED
  BY <1>2, <1>3, <1>4 DEF IInv

LEMMA TakeReceiptKeeps ==
    ASSUME NEW m \in Message, IInv, TakeReceipt(m)
    PROVE  IInv'
<1> USE DEF TakeReceipt, charger
<1>1. session \in Session /\ session # None /\ request \in Request /\ request # None
  BY DEF IInv, Types, Opened, MatchesReceipt, MatchesExecuted
<1>2. session' \in Session
  BY <1>1 DEF Session
<1>3. /\ Alike(session, session') /\ session'.joint_pending = FALSE
      /\ session'.confirmed = TRUE /\ session'.command = session.command
      /\ session'.cancel_requested = session.cancel_requested /\ session'.state = session.state
      /\ session'.complete_requested = session.complete_requested
      /\ session'.phase = session.phase /\ session'.manual_pause = session.manual_pause
      /\ session'.owns_switch = session.owns_switch
  BY <1>1, <1>2 DEF Alike, Session
<1>4. request' \in Request /\ request'.session_id = request.session_id
      /\ request'.state = "executing"
  BY <1>1 DEF Request
<1>5. None \notin Request /\ None \notin Session
  BY EVSessionAssumption
<1>6. Ended(request')
  BY <1>1, <1>4, <1>5 DEF Ended
<1>7. Types'
  BY <1>2, <1>4 DEF IInv, Types
<1>8. UserOffHolds'
  BY <1>1, <1>3 DEF IInv, UserOffHolds, Opened, Held, Stop, AwaitsOff, Alike
<1>9. PendingIsUnpowered'
  BY <1>3 DEF PendingIsUnpowered
<1> QED
  BY <1>1, <1>3, <1>6, <1>7, <1>8, <1>9, AlikeKeeps DEF IInv

LEMMA DispatchType ==
    ASSUME IInv, NEW command \in Commands, Dispatch(command)
    PROVE  plug' \in Switch /\ wire' \in Switch \cup {None}
BY DEF IInv, Types, Dispatch, Switch

\* A command that was just given is one.
LEMMA OrderIsCommand ==
    ASSUME NEW before \in Session, NEW i \in Reading, Orders(before, Ticked(before, i))
    PROVE  Ticked(before, i).command \in Commands
<1> SUFFICES ASSUME NEW t, t = Ticked(before, i), Orders(before, t)
             PROVE  t.command \in Commands
  OBVIOUS
<1> DEFINE s == VehicleReset(before, i)
           seen == VehicleEvent(s, i)
           m == Measured(seen, i)
           e == Interrupted(m, i)
           c == Close(s, "completed")
<1>1. s \in Session /\ seen \in Session /\ m \in Session /\ e \in Session
  BY VehicleResetType, VehicleEventType, MeasuredType, InterruptedType
<1>2. s.commandAge = before.commandAge
  BY VehicleResetKeeps DEF SameRun
<1>3. seen.commandAge = before.commandAge
  BY <1>1, <1>2, VehicleEventKeeps DEF SameRun
<1>4. e.commandAge = before.commandAge
  BY <1>1, <1>3, MeasuredKeeps, InterruptedKeeps DEF SameRun
<1>5. /\ \/ t = [c EXCEPT !.vehicle_stop = FALSE, !.vehicle_end = None,
                          !.vehicle_active = FALSE]
         \/ t = VehicleStop(seen, i) \/ t = Executed(e, i) \/ t = seen
  BY DEF Ticked
<1> HIDE DEF s, seen, m, e, c
<1>6. ASSUME t = [c EXCEPT !.vehicle_stop = FALSE, !.vehicle_end = None,
                           !.vehicle_active = FALSE]
      PROVE  FALSE
  <2>1. c \in Session
    BY <1>1, CloseType DEF c, CLOSED
  <2>2. c.commandAge = s.commandAge
    BY <1>1 DEF c, Close, Session
  <2> QED
    BY <1>2, <1>6, <2>1, <2>2 DEF Orders, Session
<1>7. ASSUME t = VehicleStop(seen, i)
      PROVE  t.command \in Commands
  <2>1. t # seen
    BY <1>3 DEF Orders
  <2> QED
    BY <1>1, <1>7, <2>1 DEF VehicleStop, Ordered, Session, Commands
<1>8. ASSUME t = Executed(e, i)
      PROVE  t.command \in Commands
  <2>1. t # e /\ t # Close(e, "cancelled") /\ t # Close(e, "completed")
        /\ t # [e EXCEPT !.command = None]
        /\ t # [e EXCEPT !.command = None, !.owns_switch = TRUE,
                         !.state = IF @ = "planned" THEN "interrupted" ELSE @]
    BY <1>1, <1>4 DEF Orders, Close, Session
  <2>2. t = Ordered(e, "turn_on") \/ t = Ordered(e, "turn_off")
    BY <1>8, <2>1 DEF Executed, Reached
  <2> QED
    BY <1>1, <2>2 DEF Ordered, Session, Commands
<1> QED
  BY <1>3, <1>5, <1>6, <1>7, <1>8 DEF Orders

LEMMA TickKeeps ==
    ASSUME NEW i \in Readings, NEW recognized \in BOOLEAN, IInv, Tick(i, recognized)
    PROVE  IInv'
<1> i \in Reading
  BY DEF Readings
<1> DEFINE before == IF recognized THEN NewSession("recognized", "recognized", "none")
                     ELSE session
<1>1. before \in Session /\ NoVehicleStop(before) /\ session' = Ticked(before, i)
  <2>1. CASE recognized
    <3>1. before \in Session
      BY <2>1, NewSessionType DEF OPEN, Phases
    <3>2. before.vehicle_stop = FALSE
      BY <2>1 DEF NewSession
    <3> QED
      BY <3>1, <3>2 DEF NoVehicleStop, Tick
  <2>2. CASE ~recognized
    BY <2>2 DEF IInv, Types, Tick
  <2> QED
    BY <2>1, <2>2
<1>2. /\ recognized => /\ before.kind = "recognized" /\ before.accepted = None
                       /\ before.joint_pending = FALSE
      /\ ~recognized => before = session
  BY DEF NewSession
<1>3. /\ recognized => ~Opened
      /\ IF Orders(before, session') THEN Dispatch(session'.command)
         ELSE UNCHANGED <<plug, wire>>
      /\ edge' = (edge /\ i.switch # "on") /\ userOff' = (userOff /\ ~recognized)
      /\ UNCHANGED <<minted, request, advice, profile, resume_verified, report>>
  BY DEF Tick
<1> HIDE DEF before
<1>4. session' \in Session /\ Tock(before, i, session')
  BY <1>1, TickedType, TickedKeeps
<1>5. plug' \in Switch /\ wire' \in Switch \cup {None}
  <2>1. CASE Orders(before, session')
    BY <1>1, <1>3, <2>1, OrderIsCommand, DispatchType
  <2>2. CASE ~Orders(before, session')
    BY <1>3, <2>2 DEF IInv, Types
  <2> QED
    BY <2>1, <2>2
<1>6. Types'
  <2>1. edge' \in BOOLEAN /\ userOff' \in BOOLEAN
    BY <1>3
  <2> QED
    BY <1>3, <1>4, <1>5, <2>1 DEF IInv, Types
<1>7. None \notin Session
  BY EVSessionAssumption
<1>8. /\ session'.kind = before.kind /\ session'.accepted = before.accepted
      /\ session'.joint_pending = before.joint_pending
      /\ session'.cancel_requested = before.cancel_requested
      /\ session'.state \in OPEN => before.state \in OPEN
  BY <1>4 DEF Tock, Same
<1>9. CASE recognized
  <2>1. session'.kind = "recognized" /\ session'.accepted = None
        /\ session'.joint_pending = FALSE
    BY <1>2, <1>8, <1>9
  <2>2. OnIsObserved' /\ UserOffHolds' /\ AcceptedWhenPending' /\ PendingIsUnpowered'
        /\ (session # None => NoVehicleStop(session))'
    BY <1>3, <1>4, <1>9, <2>1 DEF OnIsObserved, UserOffHolds, AcceptedWhenPending,
       PendingIsUnpowered, NoVehicleStop, Tock
  <2>3. IdentitiesGrow' /\ RequestIsNew'
    BY <1>3, <2>1 DEF IInv, IdentitiesGrow, RequestIsNew
  <2> QED
    BY <1>6, <2>2, <2>3 DEF IInv
<1>10. CASE ~recognized
  <2>1. before = session /\ session # None
    BY <1>1, <1>2, <1>7, <1>10
  <2>2. OnIsObserved' /\ AcceptedWhenPending' /\ (session # None => NoVehicleStop(session))'
    BY <1>4, <1>8, <2>1 DEF IInv, OnIsObserved, AcceptedWhenPending, NoVehicleStop, Tock
  <2>3. UserOffHolds'
    BY <1>3, <1>4, <1>8, <2>1 DEF IInv, UserOffHolds, Opened, Tock
  <2>4. IdentitiesGrow' /\ RequestIsNew'
    BY <1>3, <1>8, <2>1 DEF IInv, IdentitiesGrow, RequestIsNew
  <2>5. PendingIsUnpowered'
    BY <1>3, <1>4, <1>8, <2>1 DEF IInv, PendingIsUnpowered, Opened, Tock
  <2> QED
    BY <1>6, <2>2, <2>3, <2>4, <2>5 DEF IInv
<1> QED
  BY <1>9, <1>10

LEMMA ElapseType ==
    ASSUME NEW phase \in Phases, IInv, Elapse(phase)
    PROVE  session \in Session /\ session' \in Session
<1> USE DEF Elapse
<1>1. session \in Session
  BY DEF IInv, Types
<1>2. /\ Older(session.commandAge, Retry) \in 0..Retry
      /\ Older(session.low, LowWait) \in Age(LowWait)
      /\ Older(session.vehicle_end, EndWait) \in Age(EndWait)
  BY <1>1, Limits, AgesAre, EVSessionAssumption DEF Session, Older
<1>3. session' = [session EXCEPT !.phase = phase,
                       !.commandAge = Older(@, Retry), !.low = Older(@, LowWait),
                       !.vehicle_end = Older(@, EndWait)]
  OBVIOUS
<1>4. session' \in Session
  BY ONLY <1>1, <1>2, <1>3, phase \in Phases DEF Session
<1> QED
  BY <1>1, <1>4

LEMMA ElapseKeeps ==
    ASSUME NEW phase \in Phases, IInv, Elapse(phase)
    PROVE  IInv'
<1> USE DEF Elapse, charger
<1>1. session \in Session /\ session # None
  BY DEF IInv, Types
<1>3. session' = [session EXCEPT !.phase = phase,
                       !.commandAge = Older(@, Retry), !.low = Older(@, LowWait),
                       !.vehicle_end = Older(@, EndWait)]
  OBVIOUS
<1>4. session' \in Session
  BY ElapseType
<1>5. /\ Alike(session, session') /\ session'.joint_pending = session.joint_pending
      /\ session'.confirmed = session.confirmed /\ session'.command = session.command
      /\ session'.cancel_requested = session.cancel_requested /\ session'.state = session.state
      /\ session'.complete_requested = session.complete_requested
      /\ session'.phase = phase /\ session'.manual_pause = session.manual_pause
      /\ session'.owns_switch = session.owns_switch
  BY <1>1, <1>3, <1>4 DEF Alike, Session
<1>6. Types'
  BY <1>4 DEF IInv, Types
<1>7. UserOffHolds'
  <2> SUFFICES ASSUME userOff, Opened, session.kind # "recognized" PROVE Held(session')
    BY <1>1, <1>5 DEF UserOffHolds, Opened, Alike
  <2>1. Held(session)
    BY DEF IInv, UserOffHolds
  <2> QED
    BY <1>5, <2>1 DEF Held, Stop, AwaitsOff, Alike
<1>8. PendingIsUnpowered'
  BY <1>1, <1>5 DEF IInv, PendingIsUnpowered, Opened, Alike
<1> QED
  BY <1>1, <1>5, <1>6, <1>7, <1>8, AlikeKeeps DEF IInv

LEMMA PlugObeysKeeps == IInv /\ PlugObeys => IInv'
<1> SUFFICES ASSUME IInv, PlugObeys PROVE IInv'
  OBVIOUS
<1>1. Types'
  BY DEF IInv, Types, PlugObeys, document
<1> QED
  BY <1>1, OutsideKeeps DEF PlugObeys, document

LEMMA PlugReportsKeeps == IInv /\ PlugReports => IInv'
<1> SUFFICES ASSUME IInv, PlugReports PROVE IInv'
  OBVIOUS
<1>1. edge' \in BOOLEAN
  BY DEF PlugReports
<1>2. Types'
  BY <1>1 DEF IInv, Types, PlugReports, document
<1> QED
  BY <1>2, OutsideKeeps DEF PlugReports, document

LEMMA UserTurnsKeeps == IInv /\ UserTurns => IInv'
<1> SUFFICES ASSUME IInv, UserTurns PROVE IInv'
  OBVIOUS
<1> USE DEF UserTurns, document
<1>1. userOff' \in BOOLEAN /\ plug' \in Switch
  BY DEF Switch
<1>2. Types'
  BY <1>1 DEF IInv, Types
<1>3. UserOffHolds'
  <2> SUFFICES ASSUME userOff', Opened, session.kind # "recognized" PROVE Held(session)
    BY DEF UserOffHolds, Opened, Held, Stop, AwaitsOff
  <2> QED
    BY DEF IInv, OnIsObserved, Opened, Held, AwaitsOff
<1>4. OnIsObserved' /\ AcceptedWhenPending' /\ IdentitiesGrow' /\ RequestIsNew'
      /\ (session # None => NoVehicleStop(session))'
  BY DEF IInv, OnIsObserved, AcceptedWhenPending, IdentitiesGrow, RequestIsNew, NoVehicleStop
<1>5. PendingIsUnpowered'
  BY DEF IInv, PendingIsUnpowered, Opened
<1> QED
  BY <1>2, <1>3, <1>4, <1>5 DEF IInv

\* The actions that neither tick nor let time pass.
LEMMA OthersKeep ==
    ASSUME IInv,
           User \/ AdviceExchange \/ PlugObeys \/ PlugReports \/ UserTurns
             \/ \E m \in Message : ReceiveAdvice(m)
    PROVE  IInv'
BY RequestAdviceKeeps, CancelAdviceKeeps, SaveProfileKeeps, StartNowKeeps, ExecuteAdviceKeeps,
   VerifyResumeKeeps, PlanKeeps, ResumeKeeps, CancelKeeps, ReconfigureKeeps,
   AdviceExchangeKeeps, TakeAdviceKeeps, TakeReceiptKeeps, PlugObeysKeeps, PlugReportsKeeps,
   UserTurnsKeeps DEF User, ByHand, ReceiveAdvice

LEMMA NextIInv == IInv /\ [Next]_vars => IInv'
<1> SUFFICES ASSUME IInv, [Next]_vars PROVE IInv'
  OBVIOUS
<1>1. CASE User \/ AdviceExchange \/ PlugObeys \/ PlugReports \/ UserTurns
             \/ \E m \in Message : ReceiveAdvice(m)
  BY <1>1, OthersKeep
<1>2. CASE Ticks
  BY <1>2, TickKeeps DEF Ticks
<1>3. CASE \E phase \in Phases : Elapse(phase)
  BY <1>3, ElapseKeeps
<1>4. CASE UNCHANGED vars
  <2>1. Types'
    BY <1>4 DEF IInv, Types, vars, document, charger
  <2> QED
    BY <1>4, <2>1, OutsideKeeps DEF vars, document
<1> QED
  BY <1>1, <1>2, <1>3, <1>4 DEF Next, Manager, House

\* The inductive invariant holds of every behaviour of the manager.
THEOREM Invariance == Spec => []IInv
BY InitIInv, NextIInv, PTL DEF Spec

-----------------------------------------------------------------------------
(* Nothing of an earlier run of the plug is left in a session. *)

LEMMA NewSessionLinked ==
    ASSUME NEW state, NEW kind, NEW phase
    PROVE  Linked(NewSession(state, kind, phase))
BY DEF Linked, NewSession

LEMMA CloseLinked ==
    ASSUME NEW s \in Session, Linked(s), NEW state \in OPEN \cup CLOSED
    PROVE  Linked(Close(s, state))
BY DEF Linked, Close, Session

LEMMA OrderedLinked ==
    ASSUME NEW s \in Session, Linked(s), NEW command \in Commands
    PROVE  Linked(Ordered(s, command))
BY DEF Linked, Ordered, Session

LEMMA VehicleLinked ==
    ASSUME NEW before \in Session, Linked(before), NEW i \in Reading
    PROVE  /\ Linked(VehicleReset(before, i))
           /\ Linked(VehicleEvent(VehicleReset(before, i), i))
<1> DEFINE s == VehicleReset(before, i)
<1>1. s \in Session
  BY VehicleResetType
<1>2. Linked(s)
  BY DEF Linked, VehicleReset, Session
<1> HIDE DEF s
<1>3. Since(s.vehicle_end) \in Age(EndWait) /\ Since(s.vehicle_end) # None
  BY <1>1, AgesAre, EVSessionAssumption DEF Session
<1>4. Linked(VehicleEvent(s, i))
  <2>1. CASE FreshCar(s, i, "active")
    BY <1>1, <1>2, <2>1 DEF Linked, VehicleEvent, Session
  <2>2. CASE ~FreshCar(s, i, "active") /\ s.vehicle_stop
    BY <1>2, <2>2 DEF VehicleEvent
  <2>3. CASE ~FreshCar(s, i, "active") /\ ~s.vehicle_stop /\ ValidEnd(s, i)
    <3>1. s.vehicle_active
      BY <2>3 DEF ValidEnd
    <3> QED
      BY <1>1, <1>2, <1>3, <2>3, <3>1 DEF Linked, VehicleEvent, Session
  <2>4. CASE ~FreshCar(s, i, "active") /\ ~s.vehicle_stop /\ ~ValidEnd(s, i)
    BY <1>1, <1>2, <2>4 DEF Linked, VehicleEvent, Session
  <2> QED
    BY <2>1, <2>2, <2>3, <2>4
<1> QED
  BY <1>2, <1>4 DEF s

LEMMA MeasuredLinked ==
    ASSUME NEW s \in Session, Linked(s), NEW i \in Reading
    PROVE  Linked(Interrupted(Measured(s, i), i))
<1>1. Measured(s, i) \in Session
  BY MeasuredType
<1>2. Linked(Measured(s, i))
  BY DEF Linked, Measured, Session
<1> QED
  BY <1>1, <1>2 DEF Linked, Interrupted, Session

LEMMA ExecutedLinked ==
    ASSUME NEW s \in Session, Linked(s), NEW i \in Reading
    PROVE  Linked(Executed(s, i))
<1>1. /\ Linked(Ordered(s, "turn_on")) /\ Linked(Ordered(s, "turn_off"))
  BY OrderedLinked DEF Commands
<1>2. Linked(Reached(s))
  <2>1. Linked(Close(s, "cancelled")) /\ Linked(Close(s, "completed"))
    BY CloseLinked DEF CLOSED
  <2>2. /\ Linked([s EXCEPT !.command = None])
        /\ Linked([s EXCEPT !.command = None, !.owns_switch = TRUE,
                            !.state = IF @ = "planned" THEN "interrupted" ELSE @])
    BY DEF Linked, Session
  <2> QED
    BY <2>1, <2>2 DEF Reached
<1> QED
  BY <1>1, <1>2 DEF Executed

LEMMA TickedLinked ==
    ASSUME NEW before \in Session, Linked(before), NEW i \in Reading
    PROVE  Linked(Ticked(before, i))
<1> DEFINE s == VehicleReset(before, i)
           seen == VehicleEvent(s, i)
           c == Close(s, "completed")
           done == [c EXCEPT !.vehicle_stop = FALSE, !.vehicle_end = None,
                             !.vehicle_active = FALSE]
           e == Interrupted(Measured(seen, i), i)
<1>1. s \in Session /\ seen \in Session /\ e \in Session
  BY VehicleResetType, VehicleEventType, MeasuredType, InterruptedType
<1>2. Linked(s) /\ Linked(seen) /\ Linked(e)
  BY <1>1, VehicleLinked, MeasuredLinked
<1>3. Linked(done)
  <2>1. c \in Session /\ Linked(c)
    BY <1>1, <1>2, CloseType, CloseLinked DEF CLOSED
  <2> HIDE DEF c
  <2> QED
    BY <2>1 DEF Linked, Session
<1>4. Linked(VehicleStop(seen, i))
  BY <1>1, <1>2, OrderedLinked DEF VehicleStop, Commands
<1>5. Linked(Executed(e, i))
  BY <1>1, <1>2, ExecutedLinked
<1>6. Ticked(before, i) \in {done, VehicleStop(seen, i), Executed(e, i), seen}
  BY DEF Ticked
<1> HIDE DEF done, seen, e
<1> QED
  BY <1>2, <1>3, <1>4, <1>5, <1>6

SessionLinked == session # None => Linked(session)

LEMMA NextLinked == Types /\ SessionLinked /\ [Next]_vars => SessionLinked'
<1> SUFFICES ASSUME Types, SessionLinked, [Next]_vars, session' # None
             PROVE  Linked(session')
  BY DEF SessionLinked
<1>1. session # None => session \in Session /\ Linked(session)
  BY DEF Types, SessionLinked
<1>2. CASE UNCHANGED session
  BY <1>1, <1>2
<1>3. CASE User
  <2>1. CASE Opened /\ CancelAdvice
    BY <1>1, <2>1 DEF Opened, CancelAdvice, Linked, Session
  <2>2. CASE StartNow \/ \E phase \in {"before", "inside"} : ExecuteAdvice(phase)
    <3>1. CASE StartNow
      BY <3>1, NewSessionLinked DEF StartNow
    <3>2. ASSUME NEW phase \in {"before", "inside"}, ExecuteAdvice(phase)
          PROVE  Linked(session')
      <4> DEFINE n == NewSession("planned", "advice", phase)
      <4>1. n \in Session /\ Linked(n)
        BY NewSessionType, NewSessionLinked DEF OPEN, Phases
      <4>2. session' = [n EXCEPT !.accepted = advice, !.confirmed = ~advice.joint,
                                 !.joint_pending = advice.joint]
        BY <3>2 DEF ExecuteAdvice
      <4> HIDE DEF n
      <4> QED
        BY <4>1, <4>2 DEF Linked, Session
    <3> QED
      BY <2>2, <3>1, <3>2
  <2>3. CASE Plan \/ Resume \/ Cancel
    BY <1>1, <2>3 DEF Plan, Resume, Cancel, Opened, Linked, Session
  <2>4. CASE UNCHANGED session
    BY <1>1, <2>4
  <2> QED
    BY <1>3, <2>1, <2>2, <2>3, <2>4 DEF User, ByHand, CancelAdvice, SaveProfile,
       VerifyResume, Reconfigure, RequestAdvice
<1>4. CASE Ticks
  <2>1. PICK i \in Readings, recognized \in BOOLEAN : Tick(i, recognized)
    BY <1>4 DEF Ticks
  <2>2. i \in Reading
    BY DEF Readings
  <2> DEFINE before == IF recognized THEN NewSession("recognized", "recognized", "none")
                       ELSE session
  <2>3. before \in Session /\ Linked(before)
    <3>1. NewSession("recognized", "recognized", "none") \in Session
      BY NewSessionType DEF OPEN, Phases
    <3> QED
      BY <1>1, <2>1, <3>1, NewSessionLinked DEF Tick
  <2>4. session' = Ticked(before, i)
    BY <2>1 DEF Tick
  <2> HIDE DEF before
  <2> QED
    BY <2>2, <2>3, <2>4, TickedLinked
<1>5. CASE \E phase \in Phases : Elapse(phase)
  <2>1. PICK phase \in Phases : Elapse(phase)
    BY <1>5
  <2>2. session \in Session /\ Linked(session)
    BY <1>1, <2>1 DEF Elapse
  <2>3. Older(session.vehicle_end, EndWait) # None <=> session.vehicle_end # None
    BY <2>2, EVSessionAssumption DEF Older, Session, Age
  <2>4. /\ session'.command = session.command /\ session'.owns_switch = session.owns_switch
        /\ session'.vehicle_active = session.vehicle_active
        /\ session'.vehicle_stop = session.vehicle_stop
        /\ session'.vehicle_end = Older(session.vehicle_end, EndWait)
    BY <2>1, <2>2 DEF Elapse, Session
  <2> QED
    BY <2>2, <2>3, <2>4 DEF Linked
<1>6. CASE \E m \in Message : ReceiveAdvice(m)
  BY <1>1, <1>2, <1>6 DEF ReceiveAdvice, TakeAdvice, TakeReceipt, MatchesReceipt,
     MatchesExecuted, Opened, Linked, Session
<1> QED
  BY <1>2, <1>3, <1>4, <1>5, <1>6 DEF Next, Manager, House, AdviceExchange, PlugObeys,
     PlugReports, UserTurns, vars, document

\* Every variable stays in its type, and nothing of an earlier run of the plug is left
\* in a session: no command of a run that does not own it, and no time or decision of
\* the car's from before the switch-on; whatever the features, timings and bounds.
THEOREM TypesHold == Spec => []TypeOK
<1>1. Init => SessionLinked
  BY DEF Init, SessionLinked
<1>2. IInv => Types
  BY DEF IInv
<1>3. Types /\ SessionLinked => TypeOK
  BY DEF TypeOK, SessionLinked
<1> QED
  BY <1>1, <1>2, <1>3, Invariance, NextLinked, PTL DEF Spec

\* No advice is executed for a request that is still being waited for: through any
\* cancellation, revision, reconfiguration or restart a new request is a new one.
THEOREM RequestsAreNew == Spec => []RequestIsNew
<1>1. IInv => RequestIsNew
  BY DEF IInv
<1> QED
  BY <1>1, Invariance, PTL

\* A session that waits for its receipt has its request behind it and no power.
THEOREM PendingHasNoPower == Spec => []PendingIsUnpowered
<1>1. IInv => PendingIsUnpowered
  BY DEF IInv
<1> QED
  BY <1>1, Invariance, PTL

-----------------------------------------------------------------------------
(* What a step may never do. *)

\* The steps that are not a tick give no command and, but for a cancelled advice
\* that waits for its receipt, end no session.
LEMMA OthersAreQuiet ==
    ASSUME IInv,
           User \/ AdviceExchange \/ PlugObeys \/ PlugReports \/ UserTurns
             \/ (\E m \in Message : ReceiveAdvice(m))
             \/ (\E phase \in Phases : Elapse(phase)) \/ UNCHANGED vars
    PROVE  /\ ~OrdersOn
           /\ Closes => session.joint_pending
<1>1. Retry # 0 /\ \A age \in 0..Retry : age # 0 => Older(age, Retry) # 0
  BY EVSessionAssumption DEF Older
<1>3. session # None => session \in Session
  BY DEF IInv, Types
<1>4. CASE session' = session
  BY <1>4 DEF OrdersOn, Orders, Closes, Opened, OPEN, CLOSED
<1>5. CASE CancelAdvice
  <2>1. CASE Opened /\ session.joint_pending
    BY <1>3, <1>5, <2>1 DEF CancelAdvice, OrdersOn, Orders, Opened, Session
  <2>2. CASE ~(Opened /\ session.joint_pending)
    BY <1>4, <1>5, <2>2 DEF CancelAdvice
  <2> QED
    BY <2>1, <2>2
<1>6. CASE StartNow
  <2>1. NewSession("planned", "direct", "inside").commandAge = Retry
    BY DEF NewSession
  <2>2. session'.commandAge # 0
    BY <1>1, <1>6, <2>1 DEF StartNow
  <2> QED
    BY <1>6, <2>2 DEF StartNow, OrdersOn, Orders, Closes
<1>7. CASE \E phase \in {"before", "inside"} : ExecuteAdvice(phase)
  <2> PICK phase \in {"before", "inside"} : ExecuteAdvice(phase)
    BY <1>7
  <2>2. session'.commandAge = Retry
    BY ExecutedAdvice
  <2> QED
    BY <1>1, <2>2 DEF ExecuteAdvice, OrdersOn, Orders, Closes
<1>8. CASE Plan
  BY <1>1, <1>3, <1>8 DEF Plan, OrdersOn, Orders, Closes, Opened, Session, CLOSED
<1>9. CASE Resume \/ Cancel \/ \E m \in Message : TakeReceipt(m)
  BY <1>3, <1>9 DEF Resume, Cancel, TakeReceipt, MatchesReceipt, MatchesExecuted,
     OrdersOn, Orders, Closes, Opened, Session, OPEN, CLOSED
<1>10. CASE \E phase \in Phases : Elapse(phase)
  <2> PICK phase \in Phases : Elapse(phase)
    BY <1>10
  <2>1. session \in Session /\ session.commandAge \in 0..Retry
    BY <1>3 DEF Elapse, Session
  <2>2. /\ session'.commandAge = Older(session.commandAge, Retry)
        /\ session'.state = session.state
    BY <2>1 DEF Elapse, Session
  <2> QED
    BY <1>1, <2>1, <2>2 DEF OrdersOn, Orders, Closes, Opened, OPEN, CLOSED
<1> QED
  BY <1>4, <1>5, <1>6, <1>7, <1>8, <1>9, <1>10
     DEF User, ByHand, RequestAdvice, SaveProfile, VerifyResume, Reconfigure, AdviceExchange,
         TakeAdvice, ReceiveAdvice, PlugObeys, PlugReports, UserTurns, document, vars

\* What a tick makes of the newest session, or of one it recognized.
LEMMA TickIsTock ==
    ASSUME NEW i \in Readings, NEW recognized \in BOOLEAN, IInv, Tick(i, recognized)
    PROVE  /\ session' \in Session
           /\ recognized =>
                /\ ~Opened /\ session'.accepted = None
                /\ ~(session'.commandAge = 0 /\ session'.command = "turn_on")
           /\ ~recognized => session \in Session /\ Tock(session, i, session')
<1> DEFINE before == IF recognized THEN NewSession("recognized", "recognized", "none")
                     ELSE session
<1>1. i \in Reading /\ session' = Ticked(before, i)
  BY DEF Readings, Tick
<1>2. CASE recognized
  <2>1. before \in Session
    BY <1>2, NewSessionType DEF OPEN, Phases
  <2>2. /\ before.vehicle_stop = FALSE /\ before.commandAge # 0
        /\ before.confirmed = FALSE /\ before.accepted = None
    BY <1>2, EVSessionAssumption DEF NewSession
  <2> HIDE DEF before
  <2>3. Tock(before, i, session') /\ session' \in Session
    BY <1>1, <2>1, <2>2, TickedKeeps, TickedType DEF NoVehicleStop
  <2>4. ~(session'.commandAge = 0 /\ session'.command = "turn_on")
    BY <2>2, <2>3 DEF Tock, Orders
  <2>5. session'.accepted = None
    BY <2>2, <2>3 DEF Tock, Same
  <2> QED
    BY <1>2, <2>3, <2>4, <2>5 DEF Tick
<1>3. CASE ~recognized
  <2>1. session \in Session /\ NoVehicleStop(session)
    BY <1>3 DEF IInv, Types, Tick
  <2> QED
    BY <1>1, <1>3, <2>1, TickedKeeps, TickedType
<1> QED
  BY <1>2, <1>3

LEMMA StepKeepsPromises ==
    ASSUME IInv, [Next]_vars
    PROVE  /\ OrdersOn => ~userOff \/ session.kind = "recognized"
           /\ Closes /\ session.owns_switch /\ ~session.joint_pending => report = "off"
<1>1. CASE Ticks
  <2> PICK i \in Readings, recognized \in BOOLEAN : Tick(i, recognized)
    BY <1>1 DEF Ticks
  <2>1. CASE recognized
    BY <2>1, TickIsTock DEF OrdersOn, Orders, Closes
  <2>2. CASE ~recognized
    <3>1. Tock(session, i, session') /\ session \in Session
      BY <2>2, TickIsTock
    <3>2. ASSUME OrdersOn
          PROVE  ~userOff \/ session.kind = "recognized"
      BY <3>1, <3>2 DEF OrdersOn, Tock, IInv, UserOffHolds, Opened
    <3>3. ASSUME Closes, session.owns_switch
          PROVE  report = "off"
      <4>1. i.switch = "off"
        BY <3>1, <3>3 DEF Closes, Opened, Tock
      <4> QED
        BY <4>1 DEF Readings
    <3> QED
      BY <3>2, <3>3
  <2> QED
    BY <2>1, <2>2
<1>2. CASE ~Ticks
  BY <1>2, OthersAreQuiet DEF Next, Manager, House
<1> QED
  BY <1>1, <1>2

\* After its user turned off a running session, tick does not order the plug on
\* until the user resumes: through every report, delay, loss and event of the car.
THEOREM ManualOffIsRespected == Spec => ManualOffStands
<1>1. IInv /\ [Next]_vars => [OrdersOn => ~userOff \/ session.kind = "recognized"]_vars
  BY StepKeepsPromises
<1> QED
  BY <1>1, Invariance, PTL DEF Spec, ManualOffStands

\* A run that tick commanded is over only when the plug was reported off.
THEOREM OwnedRunsEndOff == Spec => OwnedRunEndsOff
<1>1. IInv /\ [Next]_vars =>
        [Closes /\ session.owns_switch /\ ~session.joint_pending => report = "off"]_vars
  BY StepKeepsPromises
<1> QED
  BY <1>1, Invariance, PTL DEF Spec, OwnedRunEndsOff

-----------------------------------------------------------------------------
(* Both programs: what the copies are copies of *)


BoundSet == {r.advice : r \in receipts}

\* Who owns the lock and where it is tell what the copies are.
CopiesAreTyped ==
    /\ edStep = "idle" => held = None
    /\ edStep = "publish" => held \in Envelopes
    /\ edStep = "receive" => held \in Message
    /\ hemsStep = "assess" => envelope \in Envelopes /\ Waiting(envelope)
    /\ hemsStep \in {"accept", "commit", "block"} => envelope \in Envelopes /\ Accepted(envelope)

\* A selection that is sent, published or read was chosen, and a request that waits
\* was one.
Known(e) ==
    /\ e \in Envelopes /\ e.selected # None /\ e.selected.joint => e.selected \in chosen
    /\ e \in Envelopes /\ Waiting(e) => e.request.request_revision <= MaxRevision

SelectionsAreChosen ==
    Known(sensor) /\ Known(envelope) /\ (edStep = "publish" => Known(held))

\* A receipt that is being written, published or received is in the store.
Kept(m) == m \in Message /\ m.execution_status = "committed" => m.advice \in BoundSet

ReceiptsAreKept ==
    /\ Kept(answer) /\ (edStep = "receive" => Kept(held))
    /\ hemsStep = "commit" => Selected \in BoundSet

\* What was chosen belongs to requests that nobody waits for.
ChosenIsOld ==
    \A a \in chosen :
        /\ a.session_id <= minted
        /\ request # None /\ request.state = "requested" => a.session_id # request.session_id

\* The session's advice and the history that EVAcceptance speaks of.
HistoryFollows ==
    /\ Joint(session) \subseteq chosen /\ withdrawn \subseteq chosen
    /\ Over(session) => Joint(session) \subseteq withdrawn
    /\ Opened /\ ~session.cancel_requested =>
          /\ chosen \subseteq withdrawn \cup Joint(session)
          /\ withdrawn \cap Joint(session) = {}
    /\ ~(Opened /\ ~session.cancel_requested) => chosen \subseteq withdrawn

JInv == /\ IInv /\ JointTypeOK /\ CopiesAreTyped
        /\ SelectionsAreChosen /\ ReceiptsAreKept /\ BoundSet \subseteq chosen
        /\ ChosenIsOld /\ HistoryFollows /\ ConfirmedIsBound

-----------------------------------------------------------------------------
(* What any step of Energy Devices makes of the session and the request. *)

\* The same session goes on, or ends.
Follows(s, t) ==
    /\ s \in Session /\ t \in Session
    /\ t.accepted = s.accepted
    /\ t.state \in OPEN => s.state \in OPEN
    /\ s.cancel_requested => t.cancel_requested

\* A session without an advice is opened.
OpensPlain == ~Opened /\ session' \in Session /\ session'.accepted = None

\* The advice at hand is executed.
OpensJoint ==
    /\ ~Opened /\ session' \in Session /\ session'.accepted = advice /\ advice \in Advice
    /\ request \in Request /\ request.state = "requested"
    /\ advice.session_id = request.session_id
    /\ session'.state \in OPEN /\ ~session'.cancel_requested
    /\ session'.confirmed = ~advice.joint

SessionStep ==
    \/ session' = session
    \/ OpensPlain
    \/ OpensJoint
    \/ Follows(session, session')

\* A request of which an advice may still be executed was one, or is new.
RequestStep ==
    /\ minted' >= minted /\ minted \in Nat /\ minted' \in Nat
    /\ request' # None /\ request'.state = "requested" =>
          \/ /\ request # None /\ request.state = "requested"
             /\ request'.session_id = request.session_id
          \/ request'.session_id > minted
    /\ OpensJoint /\ request' # None => request'.state # "requested"

LEMMA EverySessionStep ==
    ASSUME IInv, [Next]_vars
    PROVE  SessionStep
<1>1. session # None => session \in Session
  BY DEF IInv, Types
<1>4. CASE CancelAdvice
  <2>1. CASE Opened /\ session.joint_pending
    <3>1. session \in Session
      BY <1>1, <2>1 DEF Opened
    <3>2. session' = [session EXCEPT !.state = "cancelled", !.confirmed = FALSE]
      BY <1>4, <2>1 DEF CancelAdvice
    <3> QED
      BY <3>1, <3>2 DEF SessionStep, Follows, Session, OPEN, CLOSED
  <2>2. CASE ~(Opened /\ session.joint_pending)
    BY <1>4, <2>2 DEF CancelAdvice, SessionStep
  <2> QED
    BY <2>1, <2>2
<1>5. CASE StartNow
  <2>1. NewSession("planned", "direct", "inside") \in Session
    BY NewSessionType DEF OPEN, Phases
  <2>2. NewSession("planned", "direct", "inside").accepted = None
    BY DEF NewSession
  <2> QED
    BY <1>5, <2>1, <2>2 DEF StartNow, SessionStep, OpensPlain
<1>6. CASE \E phase \in {"before", "inside"} : ExecuteAdvice(phase)
  <2> PICK phase \in {"before", "inside"} : ExecuteAdvice(phase)
    BY <1>6
  <2>6. advice \in Advice /\ request \in Request /\ advice.session_id = request.session_id
        /\ request.state = "requested" /\ ~Opened
    BY DEF ExecuteAdvice, IInv, Types, IdentitiesGrow
  <2> QED
    BY <2>6, ExecutedAdvice DEF SessionStep, OpensJoint, OPEN
<1>7. CASE Plan
  <2>1. session \in Session /\ session' \in Session
    BY <1>7, PlanType
  <2> QED
    BY <1>7, <2>1 DEF Plan, Opened, SessionStep, Follows, Session, OPEN
<1>8. CASE Resume \/ Cancel \/ \E m \in Message : TakeReceipt(m)
  <2>1. session \in Session
    BY <1>1, <1>8 DEF Resume, Cancel, TakeReceipt, MatchesReceipt, MatchesExecuted, Opened
  <2>2. session' \in Session
    <3>1. CASE Resume
      BY <2>1, <3>1 DEF Resume, Session
    <3>2. CASE Cancel
      BY <2>1, <3>2 DEF Cancel, Session
    <3>3. CASE \E m \in Message : TakeReceipt(m)
      <4>1. session' = [session EXCEPT !.confirmed = TRUE, !.joint_pending = FALSE]
        BY <3>3 DEF TakeReceipt
      <4> QED
        BY ONLY <2>1, <4>1 DEF Session
    <3> QED
      BY <1>8, <3>1, <3>2, <3>3
  <2> QED
    BY <1>8, <2>1, <2>2 DEF Resume, Cancel, TakeReceipt, SessionStep, Follows, Session
<1>10. CASE \E phase \in Phases : Elapse(phase)
  <2> PICK phase \in Phases : Elapse(phase)
    BY <1>10
  <2>1. session \in Session /\ session' \in Session
    BY ElapseType
  <2> QED
    BY <2>1 DEF Elapse, SessionStep, Follows, Session
<1>9. CASE Ticks
  <2> PICK i \in Readings, recognized \in BOOLEAN : Tick(i, recognized)
    BY <1>9 DEF Ticks
  <2>1. CASE recognized
    BY <2>1, TickIsTock DEF SessionStep, OpensPlain
  <2>2. CASE ~recognized
    BY <2>2, TickIsTock DEF SessionStep, Follows, Tock, Same
  <2> QED
    BY <2>1, <2>2
<1> QED
  BY <1>4, <1>5, <1>6, <1>7, <1>8, <1>9, <1>10
     DEF Next, Manager, House, User, ByHand, RequestAdvice, SaveProfile, VerifyResume, Reconfigure,
         AdviceExchange, TakeAdvice, ReceiveAdvice, PlugObeys, PlugReports, UserTurns,
         document, vars, SessionStep

LEMMA EveryRequestStep ==
    ASSUME IInv, [Next]_vars
    PROVE  RequestStep
<1>1. minted \in Nat /\ IInv'
  BY MintedIsNat, NextIInv DEF IInv
<1>2. minted' \in Nat
  BY <1>1, EVSessionAssumption DEF IInv, Types
<1>3. request # None => request \in Request
  BY DEF IInv, Types
<1>4. CASE RequestAdvice
  <2>1. session' = session /\ ~Opened /\ ~(session' # None /\ session'.state \in OPEN)
    BY <1>4 DEF RequestAdvice, Opened
  <2>2. minted' >= minted
    BY <1>1, <1>4 DEF RequestAdvice
  <2>3. request' # None /\ request'.state = "requested" =>
          \/ /\ request # None /\ request.state = "requested"
             /\ request'.session_id = request.session_id
          \/ request'.session_id > minted
    BY <1>1, <1>3, <1>4 DEF RequestAdvice, Request
  <2>4. ~OpensJoint
    <3>1. session' # None \/ ~OpensJoint
      BY EVSessionAssumption DEF OpensJoint
    <3> QED
      BY <2>1, <3>1 DEF OpensJoint
  <2> QED
    BY <1>1, <1>2, <2>2, <2>3, <2>4 DEF RequestStep
<1>5. ASSUME minted' = minted, request' = request, ~OpensJoint
      PROVE  RequestStep
  BY <1>1, <1>2, <1>5 DEF RequestStep
<1>6. ASSUME minted' = minted, request' = None \/ request'.state # "requested"
      PROVE  RequestStep
  BY <1>1, <1>2, <1>6 DEF RequestStep
<1>7. ASSUME session' = session
      PROVE  ~OpensJoint
  BY <1>7, EVSessionAssumption DEF OpensJoint, Opened
<1>8. Ended(Invalidated)
  BY EndedRequest
<1>9. CASE CancelAdvice \/ StartNow \/ Reconfigure \/ AdviceExchange
  BY <1>3, <1>5, <1>6, <1>7, <1>8, <1>9
     DEF CancelAdvice, StartNow, Reconfigure, AdviceExchange, Ended, Request
<1>10. CASE \E phase \in {"before", "inside"} : ExecuteAdvice(phase)
  BY <1>3, <1>6, <1>10 DEF ExecuteAdvice, Request
<1>11. CASE Plan \/ Resume \/ Cancel \/ (\E m \in Message : TakeReceipt(m))
            \/ (\E phase \in Phases : Elapse(phase))
  <2>1. ~OpensJoint
    <3>1. CASE Plan \/ Resume \/ Cancel \/ (\E m \in Message : TakeReceipt(m))
      BY <3>1 DEF Plan, Resume, Cancel, TakeReceipt, MatchesReceipt, MatchesExecuted, OpensJoint
    <3>2. CASE \E phase \in Phases : Elapse(phase)
      <4> PICK phase \in Phases : Elapse(phase)
        BY <3>2
      <4>1. session \in Session /\ session'.state = session.state /\ session # None
        BY ElapseType DEF Elapse, Session
      <4> QED
        BY <4>1 DEF OpensJoint, Opened
    <3> QED
      BY <1>11, <3>1, <3>2
  <2>2. CASE Cancel \/ \E m \in Message : TakeReceipt(m)
    BY <1>3, <1>5, <1>6, <2>1, <2>2 DEF Cancel, TakeReceipt, MatchesReceipt, MatchesExecuted,
       Request
  <2>3. CASE Plan \/ Resume \/ \E phase \in Phases : Elapse(phase)
    BY <1>5, <2>1, <2>3 DEF Plan, Resume, Elapse
  <2> QED
    BY <1>11, <2>2, <2>3
<1>12. CASE Ticks
  <2> PICK i \in Readings, recognized \in BOOLEAN : Tick(i, recognized)
    BY <1>12 DEF Ticks
  <2>1. minted' = minted /\ request' = request
    BY DEF Tick
  <2>2. ~OpensJoint
    <3>1. CASE recognized
      BY <3>1, TickIsTock, EVSessionAssumption DEF OpensJoint
    <3>2. CASE ~recognized
      <4>1. session \in Session /\ Tock(session, i, session') /\ session # None
        BY <3>2, TickIsTock, EVSessionAssumption
      <4> QED
        BY <4>1 DEF Tock, OpensJoint, Opened
    <3> QED
      BY <3>1, <3>2
  <2> QED
    BY <1>5, <2>1, <2>2
<1> QED
  BY <1>4, <1>5, <1>7, <1>9, <1>10, <1>11, <1>12
     DEF Next, Manager, House, User, ByHand, SaveProfile, VerifyResume, TakeAdvice, ReceiveAdvice,
         PlugObeys, PlugReports, UserTurns, document, vars

-----------------------------------------------------------------------------
(* The history follows the session. *)

LEMMA JointIs ==
    ASSUME NEW s \in Session
    PROVE  /\ s # None
           /\ s.accepted # None /\ s.accepted.joint => Joint(s) = {s.accepted}
           /\ ~(s.accepted # None /\ s.accepted.joint) => Joint(s) = {}
           /\ Joint(s) \subseteq Advice
           /\ Over(s) <=> s.state \in CLOSED \/ s.cancel_requested
           /\ s.state \in OPEN <=> s.state \notin CLOSED
BY EVSessionAssumption DEF Joint, Over, Session, OPEN, CLOSED

LEMMA HistoryKeeps ==
    ASSUME IInv, ChosenIsOld, HistoryFollows, SessionStep, Recorded
    PROVE  HistoryFollows'
<1>1. session \in Session \cup {None} /\ (session # None => session \in Session)
  BY DEF IInv, Types
<1>2. CASE session' = session
  BY <1>2 DEF HistoryFollows, Recorded, Opened, Joint, Over
<1>3. CASE OpensPlain
  <2>1. Joint(session') = {} /\ session' # None
    BY <1>3, JointIs DEF OpensPlain
  <2>2. chosen' = chosen /\ withdrawn' = withdrawn
    BY <2>1 DEF Recorded
  <2>3. chosen \subseteq withdrawn
    BY <1>3 DEF OpensPlain, HistoryFollows
  <2> QED
    BY <2>1, <2>2, <2>3 DEF HistoryFollows
<1>4. CASE OpensJoint
  <2>1. session' \in Session /\ session' # None /\ ~Over(session')
    BY <1>4, JointIs DEF OpensJoint
  <2>2. withdrawn' = withdrawn /\ chosen' = chosen \cup Joint(session')
    BY <2>1 DEF Recorded
  <2>3. Joint(session') \subseteq {advice}
    BY <1>4, <2>1, JointIs DEF OpensJoint
  <2>4. advice \notin chosen
    BY <1>4, EVSessionAssumption DEF OpensJoint, ChosenIsOld
  <2>5. chosen \subseteq withdrawn /\ withdrawn \subseteq chosen
    BY <1>4 DEF OpensJoint, HistoryFollows
  <2>6. Opened' /\ ~session'.cancel_requested
    BY <1>4, <2>1 DEF OpensJoint, Opened
  <2> QED
    BY <2>1, <2>2, <2>3, <2>4, <2>5, <2>6 DEF HistoryFollows
<1>5. CASE Follows(session, session')
  <2>1. Joint(session') = Joint(session) /\ session # None /\ session' # None
    BY <1>5, JointIs DEF Follows
  <2>2. chosen' = chosen
    BY <2>1 DEF Recorded, HistoryFollows
  <2>3. CASE Over(session')
    <3>1. withdrawn' = withdrawn \cup Joint(session)
      BY <2>1, <2>3 DEF Recorded
    <3>2. ~(Opened' /\ ~session'.cancel_requested)
      BY <1>5, <2>3, JointIs DEF Follows, Opened
    <3> QED
      BY <2>1, <2>2, <3>1, <3>2 DEF HistoryFollows
  <2>4. CASE ~Over(session')
    <3>1. withdrawn' = withdrawn
      BY <2>4 DEF Recorded
    <3>2. Opened /\ ~session.cancel_requested
      BY <1>5, <2>1, <2>4, JointIs DEF Follows, Opened
    <3>3. Opened' /\ ~session'.cancel_requested
      BY <1>5, <2>1, <2>4, JointIs DEF Follows, Opened
    <3> QED
      BY <2>1, <2>2, <2>4, <3>1, <3>2, <3>3 DEF HistoryFollows
  <2> QED
    BY <2>3, <2>4
<1> QED
  BY <1>2, <1>3, <1>4, <1>5 DEF SessionStep

LEMMA ChosenKeeps ==
    ASSUME IInv, chosen \subseteq Advice, ChosenIsOld, HistoryFollows, SessionStep,
           RequestStep, Recorded
    PROVE  ChosenIsOld'
<1> SUFFICES ASSUME NEW a \in chosen'
             PROVE  /\ a.session_id <= minted'
                    /\ request' # None /\ request'.state = "requested"
                         => a.session_id # request'.session_id
  BY DEF ChosenIsOld
<1>1. ASSUME a \in chosen
      PROVE  /\ a.session_id <= minted'
             /\ request' # None /\ request'.state = "requested"
                  => a.session_id # request'.session_id
  <2>1. a.session_id \in Nat /\ a.session_id <= minted
    BY <1>1 DEF ChosenIsOld, Advice
  <2>3. a.session_id <= minted'
    BY <2>1 DEF RequestStep
  <2>4. ASSUME request' # None, request'.state = "requested",
               request # None, request.state = "requested",
               request'.session_id = request.session_id
        PROVE  a.session_id # request'.session_id
    BY <1>1, <2>4 DEF ChosenIsOld
  <2>5. ASSUME request'.session_id > minted, request'.session_id = a.session_id
        PROVE  FALSE
    BY <2>1, <2>5 DEF RequestStep
  <2> QED
    BY <2>3, <2>4, <2>5 DEF RequestStep
<1>2. CASE a \notin chosen
  <2>1. a \in Joint(session')
    BY <1>2 DEF Recorded
  <2>2. ~(session' = session)
    BY <1>2, <2>1 DEF HistoryFollows
  <2>3. ~OpensPlain
    BY <2>1, JointIs DEF OpensPlain
  <2>4. ~Follows(session, session')
    BY <1>2, <2>1, JointIs DEF HistoryFollows, Follows
  <2>5. OpensJoint
    BY <2>2, <2>3, <2>4 DEF SessionStep
  <2>6. a = advice
    BY <2>1, <2>5, JointIs DEF OpensJoint
  <2>7. a.session_id = request.session_id /\ a.session_id \in Nat /\ request # None
    BY <2>5, <2>6, EVSessionAssumption DEF OpensJoint, Advice
  <2>8. a.session_id <= minted
    BY <2>7 DEF IInv, IdentitiesGrow
  <2> QED
    BY <2>5, <2>7, <2>8 DEF RequestStep
<1> QED
  BY <1>1, <1>2

-----------------------------------------------------------------------------
(* The copies, step by step. *)

OwnTypes ==
    /\ edStep \in {"idle", "publish", "fetch", "receive"}
    /\ held \in Envelopes \cup Message \cup {None}
    /\ sensor \in Envelopes \cup {None} /\ answer \in Message \cup {None}
    /\ hemsStep \in {"idle", "assess", "accept", "commit", "block"}
    /\ envelope \in Envelopes \cup {None} /\ current \in BOOLEAN
    /\ stamps \in 0..MaxStamp /\ proofs \subseteq OfPlan /\ receipts \subseteq OfPlan
    /\ told \in BOOLEAN

HistoryTypes == chosen \subseteq Advice /\ powered \subseteq Advice /\ withdrawn \subseteq Advice

Copies == /\ OwnTypes /\ CopiesAreTyped /\ SelectionsAreChosen /\ ReceiptsAreKept
          /\ BoundSet \subseteq chosen

LEMMA JInvParts ==
    JInv <=> /\ IInv /\ HistoryTypes /\ Copies /\ ChosenIsOld /\ HistoryFollows
             /\ ConfirmedIsBound
BY DEF JInv, JointTypeOK, OwnTypes, HistoryTypes, Copies, IInv

LEMMA NoneIsNone ==
    None \notin Envelopes /\ None \notin Message /\ None \notin Advice /\ None \notin Request
    /\ None \notin Session
BY EVSessionAssumption, EVJointAssumption

LEMMA ManagerSteps ==
    ASSUME JInv, JointNext
    PROVE  [Next]_vars
BY DEF JInv, CopiesAreTyped, JointNext, Local, Exchange, Publish, Fetch, Receive, TakeBlocked,
       ExchangeEnds, Hems, AssessRead, AssessEnds, AssessPublish, AcceptRead, AcceptDecide,
       AcceptEnds, AcceptPublish, AcceptPublishFails, Replan, Crash, Next, Manager

LEMMA ManagerKeeps ==
    ASSUME JInv, JointNext
    PROVE  /\ IInv' /\ HistoryFollows' /\ ChosenIsOld' /\ HistoryTypes'
           /\ chosen \subseteq chosen'
<1>1. IInv /\ IInv' /\ SessionStep /\ RequestStep /\ Recorded
  BY ManagerSteps, NextIInv, EverySessionStep, EveryRequestStep DEF JInv, JointNext
<1>2. chosen \subseteq Advice /\ powered \subseteq Advice /\ withdrawn \subseteq Advice
  BY DEF JInv, JointTypeOK
<1>3. HistoryFollows' /\ ChosenIsOld'
  BY <1>1, <1>2, HistoryKeeps, ChosenKeeps DEF JInv
<1>4. Joint(session') \subseteq Advice
  <2>1. CASE session' \in Session
    BY <2>1, JointIs
  <2>2. CASE session' = None
    BY <2>2 DEF Joint
  <2> QED
    BY <1>1, <2>1, <2>2 DEF IInv, Types
<1>5. HistoryTypes' /\ chosen \subseteq chosen'
  BY <1>1, <1>2, <1>4 DEF HistoryTypes, Recorded
<1> QED
  BY <1>1, <1>3, <1>5

\* A step that leaves the copies alone but for told.
LEMMA CopiesStay ==
    ASSUME Copies, chosen \subseteq chosen', told' \in BOOLEAN,
           UNCHANGED <<exchange, advisor, receipts>>
    PROVE  Copies'
<1> USE DEF exchange, advisor
<1>1. OwnTypes' /\ CopiesAreTyped'
  BY DEF Copies, OwnTypes, CopiesAreTyped, Waiting, Accepted
<1>2. SelectionsAreChosen' /\ ReceiptsAreKept' /\ (BoundSet \subseteq chosen)'
  BY DEF Copies, SelectionsAreChosen, ReceiptsAreKept, Known, Kept, BoundSet, Selected
<1> QED
  BY <1>1, <1>2 DEF Copies

LEMMA ExchangeKeeps ==
    ASSUME JInv, Exchange, Recorded, IInv', chosen \subseteq chosen'
    PROVE  Copies'
<1> USE DEF Exchange
<1>1. session' = session /\ (session # None => session \in Session)
  BY DEF JInv, IInv, Types, AdviceExchange
<1>2. request' \in Request \cup {None}
  BY DEF IInv, Types
<1>3. held' \in Envelopes /\ held'.selected = IF Opened THEN session.accepted ELSE None
  <2>1. Opened => session.accepted \in Advice \cup {None}
    BY <1>1 DEF Opened, Session
  <2> QED
    BY <1>2, <2>1 DEF Envelope, Envelopes
<1>4. held'.selected # None /\ held'.selected.joint => held'.selected \in chosen'
  <2>1. Joint(session) \subseteq chosen
    BY DEF JInv, HistoryFollows
  <2> QED
    BY <1>1, <1>3, <2>1, JointIs DEF Opened
<1>5. OwnTypes' /\ CopiesAreTyped'
  BY <1>3 DEF JInv, JointTypeOK, OwnTypes, CopiesAreTyped, Waiting, Accepted, advisor
<1>8. Waiting(held') => held'.request.request_revision <= MaxRevision
  BY DEF IInv, IdentitiesGrow, Waiting, Envelope
<1>6. SelectionsAreChosen'
  BY <1>4, <1>8 DEF JInv, SelectionsAreChosen, Known, advisor
<1>7. ReceiptsAreKept' /\ (BoundSet \subseteq chosen)'
  BY DEF JInv, ReceiptsAreKept, Kept, BoundSet, Selected, advisor
<1> QED
  BY <1>5, <1>6, <1>7 DEF Copies

LEMMA WireKeeps ==
    ASSUME JInv, Publish \/ Fetch \/ ExchangeEnds, chosen \subseteq chosen'
    PROVE  Copies'
<1>1. CASE Publish
  <2>1. held \in Envelopes
    BY <1>1 DEF Publish, JInv, CopiesAreTyped
  <2>2. OwnTypes' /\ CopiesAreTyped'
    BY <1>1, <2>1 DEF Publish, JInv, JointTypeOK, OwnTypes, CopiesAreTyped, Waiting, Accepted,
       advisor
  <2>3. SelectionsAreChosen' /\ ReceiptsAreKept' /\ (BoundSet \subseteq chosen)'
    BY <1>1, <2>1 DEF Publish, JInv, SelectionsAreChosen, ReceiptsAreKept, Known, Kept, BoundSet,
       Selected, advisor
  <2> QED
    BY <2>2, <2>3 DEF Copies
<1>2. CASE Fetch
  <2>1. OwnTypes' /\ CopiesAreTyped'
    BY <1>2 DEF Fetch, JInv, JointTypeOK, OwnTypes, CopiesAreTyped, Waiting, Accepted, advisor
  <2>2. SelectionsAreChosen' /\ ReceiptsAreKept' /\ (BoundSet \subseteq chosen)'
    BY <1>2 DEF Fetch, JInv, SelectionsAreChosen, ReceiptsAreKept, Known, Kept, BoundSet,
       Selected, advisor
  <2> QED
    BY <2>1, <2>2 DEF Copies
<1>3. CASE ExchangeEnds
  <2>1. OwnTypes' /\ CopiesAreTyped'
    BY <1>3 DEF ExchangeEnds, JInv, JointTypeOK, OwnTypes, CopiesAreTyped, Waiting, Accepted,
       advisor
  <2>2. SelectionsAreChosen' /\ ReceiptsAreKept' /\ (BoundSet \subseteq chosen)'
    BY <1>3 DEF ExchangeEnds, JInv, SelectionsAreChosen, ReceiptsAreKept, Known, Kept, BoundSet,
       Selected, advisor
  <2> QED
    BY <2>1, <2>2 DEF Copies
<1> QED
  BY <1>1, <1>2, <1>3

LEMMA ReceiveKeeps ==
    ASSUME JInv, Receive, chosen \subseteq chosen'
    PROVE  Copies'
<1>1. told' \in BOOLEAN
  BY DEF Receive, TakeBlocked, JInv, JointTypeOK
<1>2. OwnTypes' /\ CopiesAreTyped'
  BY <1>1 DEF Receive, JInv, JointTypeOK, OwnTypes, CopiesAreTyped, Waiting, Accepted, advisor
<1>3. SelectionsAreChosen' /\ ReceiptsAreKept' /\ (BoundSet \subseteq chosen)'
  BY DEF Receive, JInv, SelectionsAreChosen, ReceiptsAreKept, Known, Kept, BoundSet,
     Selected, advisor
<1> QED
  BY <1>2, <1>3 DEF Copies

LEMMA LocalKeeps ==
    ASSUME JInv, Local, chosen \subseteq chosen'
    PROVE  Copies'
<1>1. told' \in BOOLEAN
  BY DEF Local
<1> QED
  BY <1>1, CopiesStay, JInvParts DEF Local

\* Of a plan that is no longer active the selections are the same.
LEMMA NoLongerSame ==
    ASSUME NEW set, set \subseteq OfPlan
    PROVE  /\ NoLonger(set) \subseteq OfPlan
           /\ {r.advice : r \in NoLonger(set)} = {r.advice : r \in set}
<1>1. \A x \in set : [x EXCEPT !.current = FALSE] \in OfPlan
                     /\ [x EXCEPT !.current = FALSE].advice = x.advice
  BY DEF OfPlan
<1> QED
  BY <1>1 DEF NoLonger

LEMMA AssessKeeps ==
    ASSUME JInv, AssessRead \/ AssessEnds \/ (\E joint \in BOOLEAN : AssessPublish(joint)),
           chosen \subseteq chosen'
    PROVE  Copies'
<1>1. CASE AssessRead
  <2>1. sensor \in Envelopes
    BY <1>1 DEF AssessRead, Waiting, JInv, JointTypeOK
  <2>2. OwnTypes' /\ CopiesAreTyped'
    BY <1>1, <2>1 DEF AssessRead, JInv, JointTypeOK, OwnTypes, CopiesAreTyped, Waiting, exchange
  <2>3. SelectionsAreChosen' /\ ReceiptsAreKept' /\ (BoundSet \subseteq chosen)'
    BY <1>1 DEF AssessRead, JInv, SelectionsAreChosen, ReceiptsAreKept, Known, Kept, BoundSet,
       Selected, exchange
  <2> QED
    BY <2>2, <2>3 DEF Copies
<1>2. CASE AssessEnds
  <2>1. OwnTypes' /\ CopiesAreTyped'
    BY <1>2 DEF AssessEnds, JInv, JointTypeOK, OwnTypes, CopiesAreTyped, exchange
  <2>2. SelectionsAreChosen' /\ ReceiptsAreKept' /\ (BoundSet \subseteq chosen)'
    BY <1>2, NoneIsNone DEF AssessEnds, JInv, SelectionsAreChosen, ReceiptsAreKept, Known, Kept,
       BoundSet, Selected, exchange
  <2> QED
    BY <2>1, <2>2 DEF Copies
<1>3. CASE \E joint \in BOOLEAN : AssessPublish(joint)
  <2> PICK joint \in BOOLEAN : AssessPublish(joint)
    BY <1>3
  <2>1. envelope \in Envelopes /\ envelope.request \in Request
        /\ envelope.request.state = "requested"
    BY DEF AssessPublish, JInv, CopiesAreTyped, Waiting, Envelopes
  <2>2. envelope.request.request_revision \in 1..MaxRevision
    <3>1. envelope.request.request_revision \in 1..MaxRevision + 1
      BY <2>1 DEF Request
    <3>2. envelope.request.request_revision <= MaxRevision
      BY <2>1 DEF AssessPublish, JInv, CopiesAreTyped, SelectionsAreChosen, Known
    <3> QED
      BY <3>1, <3>2, EVSessionAssumption
  <2>3. Assessed(joint) \in Advice /\ stamps' \in 0..MaxStamp
    <3>1. stamps' \in 1..MaxStamp
      BY EVSessionAssumption DEF AssessPublish, JInv, JointTypeOK
    <3>2. envelope.request.session_id \in 1..MaxRequests
      BY <2>1 DEF Request
    <3>3. stamps' \in 0..MaxStamp
      BY <3>1
    <3> QED
      BY <2>2, <3>1, <3>2, <3>3 DEF Assessed, Advice
  <2>4. proofs' \subseteq OfPlan /\ answer' \in Message \cup {None}
    <3>1. [advice |-> Assessed(joint), current |-> current] \in OfPlan
      BY <2>3 DEF OfPlan, JInv, JointTypeOK
    <3>2. [execution_status |-> "advice", advice |-> Assessed(joint)] \in Message
      BY <2>3 DEF Message
    <3> QED
      BY <3>1, <3>2 DEF AssessPublish, JInv, JointTypeOK
  <2>5. OwnTypes' /\ CopiesAreTyped'
    BY <2>3, <2>4 DEF AssessPublish, JInv, JointTypeOK, OwnTypes, CopiesAreTyped
  <2>6. answer' \in Message /\ answer'.execution_status = "committed" =>
          answer'.advice \in BoundSet'
    BY DEF AssessPublish, JInv, ReceiptsAreKept, Kept, BoundSet
  <2>7. SelectionsAreChosen' /\ ReceiptsAreKept' /\ (BoundSet \subseteq chosen)'
    BY <2>6, NoneIsNone DEF AssessPublish, JInv, SelectionsAreChosen, ReceiptsAreKept, Known,
       Kept, BoundSet, Selected
  <2> QED
    BY <2>5, <2>7 DEF Copies
<1> QED
  BY <1>1, <1>2, <1>3

\* What accept_pending does to the store: it stays, or the selection is bound.
StoreStep ==
    /\ receipts' \subseteq OfPlan /\ proofs' \subseteq OfPlan
    /\ hemsStep' \in {"commit", "block"}
    /\ \/ BoundSet' = BoundSet /\ (hemsStep' = "commit" => Selected \in BoundSet)
       \/ BoundSet' = BoundSet \cup {Selected} /\ Selected \notin BoundSet

LEMMA DecideStores ==
    ASSUME JInv, AcceptDecide
    PROVE  StoreStep
<1>1. receipts \subseteq OfPlan /\ proofs \subseteq OfPlan
  BY DEF JInv, JointTypeOK
<1>2. envelope \in Envelopes /\ envelope.selected \in Advice
  BY DEF JInv, CopiesAreTyped, AcceptDecide, Accepted, Envelopes
<1>3. Bound \subseteq OfPlan /\ {r.advice : r \in Bound} = {Selected}
  BY <1>2 DEF Bound, OfPlan, Selected
<1>4. /\ NoLonger(receipts) \subseteq OfPlan /\ NoLonger(proofs) \subseteq OfPlan
      /\ {r.advice : r \in NoLonger(receipts)} = BoundSet
  BY <1>1, NoLongerSame DEF BoundSet
<1>5. CASE FALSE \in SlotPassed /\ Receipt # {} /\ Committed
  <2>1. Selected \in BoundSet
    BY <1>5 DEF Receipt, BoundSet
  <2> QED
    BY <1>1, <1>5, <2>1 DEF Committed, StoreStep, BoundSet
<1>6. CASE FALSE \in SlotPassed /\ Adopt
  <2>1. Selected \notin BoundSet /\ hemsStep' = "commit"
    BY <1>6 DEF Adopt, BoundSet
  <2>2. CASE receipts' = receipts \cup Bound /\ UNCHANGED proofs
    <3>1. BoundSet' = BoundSet \cup {r.advice : r \in Bound}
      BY <2>2 DEF BoundSet
    <3> QED
      BY <1>1, <1>3, <2>1, <2>2, <3>1 DEF StoreStep
  <2>3. CASE receipts' = NoLonger(receipts) \cup Bound /\ proofs' = NoLonger(proofs)
    <3>1. BoundSet' = {r.advice : r \in NoLonger(receipts)} \cup {r.advice : r \in Bound}
      BY <2>3 DEF BoundSet
    <3> QED
      BY <1>3, <1>4, <2>1, <2>3, <3>1 DEF StoreStep
  <2> QED
    BY <1>6, <2>2, <2>3 DEF Adopt
<1>7. CASE Refused /\ hemsStep' = "block" /\ UNCHANGED <<receipts, proofs>>
  BY <1>1, <1>7 DEF StoreStep, BoundSet
<1> QED
  BY <1>5, <1>6, <1>7 DEF AcceptDecide

LEMMA AcceptKeeps ==
    ASSUME JInv,
           AcceptRead \/ AcceptDecide \/ AcceptEnds \/ AcceptPublish \/ AcceptPublishFails,
           chosen \subseteq chosen'
    PROVE  Copies'
<1>1. CASE AcceptRead
  <2>1. sensor \in Envelopes
    BY <1>1 DEF AcceptRead, Accepted, JInv, JointTypeOK
  <2>2. OwnTypes' /\ CopiesAreTyped'
    BY <1>1, <2>1 DEF AcceptRead, JInv, JointTypeOK, OwnTypes, CopiesAreTyped, Accepted, exchange
  <2>3. SelectionsAreChosen' /\ ReceiptsAreKept' /\ (BoundSet \subseteq chosen)'
    BY <1>1 DEF AcceptRead, JInv, SelectionsAreChosen, ReceiptsAreKept, Known, Kept, BoundSet,
       Selected, exchange
  <2> QED
    BY <2>2, <2>3 DEF Copies
<1>2. CASE AcceptDecide
  <2>1. StoreStep
    BY <1>2, DecideStores
  <2>2. envelope \in Envelopes /\ Accepted(envelope) /\ Selected \in chosen
    BY <1>2 DEF AcceptDecide, JInv, CopiesAreTyped, SelectionsAreChosen, Known, Accepted,
       Selected
  <2>3. Selected' = Selected /\ BoundSet \subseteq BoundSet'
    BY <1>2, <2>1 DEF AcceptDecide, Selected, StoreStep
  <2>4. OwnTypes' /\ CopiesAreTyped'
    BY <1>2, <2>1, <2>2 DEF AcceptDecide, StoreStep, JInv, JointTypeOK, OwnTypes,
       CopiesAreTyped, exchange
  <2>5. SelectionsAreChosen'
    BY <1>2 DEF AcceptDecide, JInv, SelectionsAreChosen, Known, exchange
  <2>6. ReceiptsAreKept'
    BY <1>2, <2>1, <2>3 DEF AcceptDecide, StoreStep, JInv, ReceiptsAreKept, Kept, exchange
  <2>7. BoundSet' \subseteq chosen'
    BY <2>1, <2>2 DEF StoreStep, JInv
  <2> QED
    BY <2>4, <2>5, <2>6, <2>7 DEF Copies
<1>3. CASE AcceptEnds
  <2>1. OwnTypes' /\ CopiesAreTyped'
    BY <1>3 DEF AcceptEnds, JInv, JointTypeOK, OwnTypes, CopiesAreTyped, exchange
  <2>2. SelectionsAreChosen' /\ ReceiptsAreKept' /\ (BoundSet \subseteq chosen)'
    BY <1>3, NoneIsNone DEF AcceptEnds, JInv, SelectionsAreChosen, ReceiptsAreKept, Known, Kept,
       BoundSet, Selected, exchange
  <2> QED
    BY <2>1, <2>2 DEF Copies
<1>4. CASE AcceptPublish
  <2>1. Selected \in Advice
    BY <1>4 DEF AcceptPublish, JInv, CopiesAreTyped, Accepted, Envelopes, Selected
  <2>2. /\ answer' \in Message /\ answer'.advice = Selected
        /\ answer'.execution_status = "committed" => hemsStep = "commit"
    <3>1. answer' = [execution_status |-> IF hemsStep = "commit" THEN "committed"
                                          ELSE "blocked", advice |-> Selected]
      BY <1>4 DEF AcceptPublish
    <3> QED
      BY <2>1, <3>1 DEF Message
  <2>3. OwnTypes' /\ CopiesAreTyped'
    BY <1>4, <2>2 DEF AcceptPublish, JInv, JointTypeOK, OwnTypes, CopiesAreTyped
  <2>4. SelectionsAreChosen'
    BY <1>4, NoneIsNone DEF AcceptPublish, JInv, SelectionsAreChosen, Known
  <2>5. BoundSet' = BoundSet /\ BoundSet' \subseteq chosen'
    BY <1>4 DEF AcceptPublish, JInv, BoundSet
  <2>6. ReceiptsAreKept'
    BY <1>4, <2>2, <2>5 DEF AcceptPublish, JInv, ReceiptsAreKept, Kept
  <2> QED
    BY <2>3, <2>4, <2>5, <2>6 DEF Copies
<1>5. CASE AcceptPublishFails
  <2>1. OwnTypes' /\ CopiesAreTyped'
    BY <1>5 DEF AcceptPublishFails, JInv, JointTypeOK, OwnTypes, CopiesAreTyped, exchange
  <2>2. SelectionsAreChosen' /\ ReceiptsAreKept' /\ (BoundSet \subseteq chosen)'
    BY <1>5, NoneIsNone DEF AcceptPublishFails, JInv, SelectionsAreChosen, ReceiptsAreKept, Known,
       Kept, BoundSet, Selected, exchange
  <2> QED
    BY <2>1, <2>2 DEF Copies
<1> QED
  BY <1>1, <1>2, <1>3, <1>4, <1>5

LEMMA PlansKeep ==
    ASSUME JInv, Replan \/ Crash, chosen \subseteq chosen'
    PROVE  Copies'
<1>1. receipts \subseteq OfPlan /\ proofs \subseteq OfPlan
  BY DEF JInv, JointTypeOK
<1>2. /\ receipts' \subseteq OfPlan /\ proofs' \subseteq OfPlan /\ BoundSet' = BoundSet
  <2>1. CASE Replan
    BY <1>1, <2>1, NoLongerSame DEF Replan, BoundSet
  <2>2. CASE Crash
    BY <1>1, <2>2 DEF Crash, BoundSet
  <2> QED
    BY <2>1, <2>2
<1>3. OwnTypes' /\ CopiesAreTyped'
  BY <1>2 DEF Replan, Crash, JInv, JointTypeOK, OwnTypes, CopiesAreTyped, exchange
<1>4. SelectionsAreChosen'
  BY NoneIsNone DEF Replan, Crash, JInv, SelectionsAreChosen, Known, exchange
<1>5. ReceiptsAreKept'
  BY <1>2 DEF Replan, Crash, JInv, ReceiptsAreKept, Kept, Selected, exchange
<1> QED
  BY <1>2, <1>3, <1>4, <1>5 DEF Copies, JInv

LEMMA CopiesKeep ==
    ASSUME JInv, JointNext
    PROVE  Copies' /\ BoundSet \subseteq BoundSet'
<1>1. IInv' /\ chosen \subseteq chosen' /\ Recorded
  BY ManagerKeeps DEF JointNext
<1>2. Copies'
  BY <1>1, ExchangeKeeps, WireKeeps, ReceiveKeeps, LocalKeeps, AssessKeeps, AcceptKeeps,
     PlansKeep DEF JointNext, Hems
<1>3. BoundSet \subseteq BoundSet'
  <2>1. CASE AcceptDecide
    BY <2>1, DecideStores DEF StoreStep
  <2>2. CASE Replan
    BY <2>2, NoLongerSame DEF Replan, BoundSet, JInv, JointTypeOK
  <2>3. CASE receipts' = receipts
    BY <2>3 DEF BoundSet
  <2> QED
    BY <2>1, <2>2, <2>3 DEF JointNext, Local, Exchange, Publish, Fetch, Receive, ExchangeEnds,
       Hems, AssessRead, AssessEnds, AssessPublish, AcceptRead, AcceptEnds, AcceptPublish,
       AcceptPublishFails, Crash
<1> QED
  BY <1>2, <1>3

-----------------------------------------------------------------------------
(* Power follows the store. *)

\* Only a receipt confirms a joint session.
LEMMA ConfirmsNothing ==
    ASSUME IInv,
           \/ User \/ Ticks \/ House \/ AdviceExchange \/ UNCHANGED vars
           \/ \E m \in Message : TakeAdvice(m),
           Opened', session'.confirmed, Joint(session') # {}
    PROVE  Opened /\ session.confirmed /\ session'.accepted = session.accepted
<1>1. session # None => session \in Session
  BY DEF IInv, Types
<1>2. CASE session' = session
  BY <1>2 DEF Opened
<1>3. CASE CancelAdvice
  BY <1>1, <1>2, <1>3 DEF CancelAdvice, Opened, Session, OPEN
<1>4. ~StartNow
  <2>1. NewSession("planned", "direct", "inside").accepted = None
    BY DEF NewSession
  <2> QED
    BY <2>1 DEF StartNow, Joint
<1>5. ASSUME NEW phase \in {"before", "inside"}, ExecuteAdvice(phase)
      PROVE  FALSE
  BY <1>5, ExecutedAdvice DEF Joint
<1>6. ~Plan
  BY <1>1 DEF Plan, Opened, Session, Joint
<1>7. CASE Resume \/ Cancel
  BY <1>1, <1>7 DEF Resume, Cancel, Opened, Session
<1>8. CASE \E phase \in Phases : Elapse(phase)
  <2> PICK phase \in Phases : Elapse(phase)
    BY <1>8
  <2>1. session \in Session /\ session # None
    BY ElapseType DEF Elapse
  <2> QED
    BY <2>1 DEF Elapse, Opened, Session
<1>9. CASE Ticks
  <2> PICK i \in Readings, recognized \in BOOLEAN : Tick(i, recognized)
    BY <1>9 DEF Ticks
  <2>1. CASE recognized
    BY <2>1, TickIsTock DEF Joint
  <2>2. CASE ~recognized
    BY <2>2, TickIsTock, NoneIsNone DEF Tock, Same, Opened
  <2> QED
    BY <2>1, <2>2
<1> QED
  BY <1>2, <1>3, <1>4, <1>5, <1>6, <1>7, <1>8, <1>9
     DEF User, ByHand, House, RequestAdvice, SaveProfile, VerifyResume, Reconfigure, AdviceExchange,
         TakeAdvice, PlugObeys, PlugReports, UserTurns, document, vars

LEMMA ConfirmedKeeps ==
    ASSUME JInv, JointNext
    PROVE  ConfirmedIsBound'
<1> SUFFICES ASSUME Opened', session'.confirmed, Joint(session') # {}
             PROVE  session'.accepted \in BoundSet'
  BY DEF ConfirmedIsBound, BoundSet
<1>1. BoundSet \subseteq BoundSet'
  BY CopiesKeep
<1>2. ASSUME Opened /\ session.confirmed /\ session'.accepted = session.accepted
      PROVE  session'.accepted \in BoundSet'
  <2>1. session # None /\ Joint(session) # {}
    BY <1>2 DEF Opened, Joint
  <2> QED
    BY <1>1, <1>2, <2>1 DEF JInv, ConfirmedIsBound, BoundSet
<1>3. CASE Receive /\ TakeReceipt(held)
  <2>1. held \in Message /\ held.execution_status = "committed" /\ Kept(held)
        /\ held.advice = session.accepted /\ session \in Session
    BY <1>3 DEF Receive, TakeReceipt, MatchesReceipt, MatchesExecuted, JInv, CopiesAreTyped,
       ReceiptsAreKept, IInv, Types, Opened
  <2>2. session' = [session EXCEPT !.confirmed = TRUE, !.joint_pending = FALSE]
    BY <1>3 DEF TakeReceipt
  <2>3. session'.accepted = session.accepted
    BY <2>1, <2>2 DEF Session
  <2> QED
    BY <1>1, <2>1, <2>3 DEF Kept
<1>4. CASE ~(Receive /\ TakeReceipt(held))
  <2>1. \/ User \/ Ticks \/ House \/ AdviceExchange \/ UNCHANGED vars
        \/ \E m \in Message : TakeAdvice(m)
    BY <1>4 DEF JInv, CopiesAreTyped, JointNext, Local, Manager, Exchange, Publish, Fetch, Receive,
       ReceiveAdvice, TakeBlocked, ExchangeEnds, Hems, AssessRead, AssessEnds, AssessPublish,
       AcceptRead, AcceptDecide, AcceptEnds, AcceptPublish, AcceptPublishFails, Replan, Crash
  <2>2. IInv
    BY DEF JInv
  <2> QED
    BY <1>2, <2>1, <2>2, ConfirmsNothing
<1> QED
  BY <1>3, <1>4

LEMMA InitJInv == JointInit => JInv
<1> SUFFICES ASSUME JointInit PROVE JInv
  OBVIOUS
<1> USE DEF JointInit
<1>1. IInv
  BY InitIInv
<1>2. stamps \in 0..MaxStamp
  BY EVSessionAssumption
<1>3. session = None
  BY DEF Init
<1> QED
  BY <1>1, <1>2, <1>3, NoneIsNone
     DEF JInv, IInv, JointTypeOK, CopiesAreTyped, SelectionsAreChosen, Known, ReceiptsAreKept,
         Kept, BoundSet, ChosenIsOld, HistoryFollows, ConfirmedIsBound, Joint, Over, Opened

LEMMA NextJInv == JInv /\ [JointNext]_allvars => JInv'
<1> SUFFICES ASSUME JInv, [JointNext]_allvars PROVE JInv'
  OBVIOUS
<1>1. CASE JointNext
  <2>1. IInv' /\ HistoryFollows' /\ ChosenIsOld' /\ HistoryTypes' /\ Copies' /\ ConfirmedIsBound'
    BY <1>1, ManagerKeeps, CopiesKeep, ConfirmedKeeps
  <2> QED
    BY <2>1 DEF JInv, JointTypeOK, OwnTypes, HistoryTypes, Copies, IInv
<1>2. CASE UNCHANGED allvars
  <2>1. IInv'
    BY <1>2, NextIInv DEF JInv, allvars
  <2>2. HistoryFollows' /\ ChosenIsOld' /\ HistoryTypes' /\ ConfirmedIsBound'
    BY <1>2 DEF JInv, JointTypeOK, HistoryFollows, ChosenIsOld, HistoryTypes, ConfirmedIsBound,
       Joint, Over, Opened, allvars, vars, document, history
  <2>3. Copies'
    BY <1>2, JInvParts, CopiesStay DEF allvars, history, JInv, JointTypeOK
  <2> QED
    BY <2>1, <2>2, <2>3 DEF JInv, JointTypeOK, OwnTypes, HistoryTypes, Copies, IInv
<1> QED
  BY <1>1, <1>2

\* The inductive invariant of both programs together.
THEOREM JointInvariance == JointSpec => []JInv
BY InitJInv, NextJInv, PTL DEF JointSpec

\* The types of both programs' state, for every instance.
THEOREM JointTypesHold == JointSpec => []JointTypeOK
<1>1. JInv => JointTypeOK
  BY DEF JInv
<1> QED
  BY <1>1, JointInvariance, PTL

\* A session that may take power has its receipt in HEMS's store, through every copy,
\* lost message, crash and other plan.
THEOREM ConfirmedRunsAreBound == JointSpec => []ConfirmedIsBound
<1>1. JInv => ConfirmedIsBound
  BY DEF JInv
<1> QED
  BY <1>1, JointInvariance, PTL

\* What the manager promises beside any HEMS it promises beside this one: a new
\* request is a new one, and a session that waits for its receipt has no power.
THEOREM JointSessionsHold == JointSpec => [](RequestIsNew /\ PendingIsUnpowered)
<1>1. JInv => RequestIsNew /\ PendingIsUnpowered
  BY DEF JInv, IInv
<1> QED
  BY <1>1, JointInvariance, PTL

-----------------------------------------------------------------------------
(* Both programs implement EVAcceptance. *)

LEMMA OrderedIsBound ==
    ASSUME JInv, JointNext, OrdersOn
    PROVE  /\ chosen' = chosen /\ withdrawn' = withdrawn /\ BoundSet' = BoundSet
           /\ Joint(session') # {} => session'.accepted \in BoundSet \ withdrawn
<1>1. IInv /\ Recorded
  BY DEF JInv, JointNext
<1>2. Ticks
  <2>1. [Next]_vars
    BY ManagerSteps
  <2> QED
    BY <1>1, <2>1, OthersAreQuiet DEF Next, Manager, House
<1>3. PICK i \in Readings, recognized \in BOOLEAN : Tick(i, recognized)
  BY <1>2 DEF Ticks
<1>4. ~recognized
  BY <1>1, <1>3, TickIsTock DEF OrdersOn, Orders
<1>5. /\ session \in Session /\ session' \in Session /\ Tock(session, i, session')
  BY <1>1, <1>3, <1>4, TickIsTock
<1>6. /\ session.state \in OPEN /\ session.confirmed /\ ~session.cancel_requested
      /\ session'.state \in OPEN /\ session'.accepted = session.accepted
      /\ session'.cancel_requested = session.cancel_requested
  BY <1>5 DEF OrdersOn, Tock, Same
<1>7. Joint(session') = Joint(session) /\ ~Over(session') /\ Opened
  BY <1>5, <1>6, JointIs DEF Opened
<1>8. chosen' = chosen /\ withdrawn' = withdrawn
  BY <1>1, <1>7 DEF Recorded, JInv, HistoryFollows
<1>9. BoundSet' = BoundSet
  <2>1. session' # session
    BY DEF OrdersOn, Orders
  <2>2. receipts' = receipts
    BY <2>1 DEF JointNext, Local, Exchange, AdviceExchange, Publish, Fetch, Receive, ExchangeEnds,
       Hems, AssessRead, AssessEnds, AssessPublish, AcceptRead, AcceptDecide, AcceptEnds,
       AcceptPublish, AcceptPublishFails, Replan, Crash, vars, document
  <2> QED
    BY <2>2 DEF BoundSet
<1>10. Joint(session') # {} => session'.accepted \in BoundSet \ withdrawn
  <2> SUFFICES ASSUME Joint(session) # {} PROVE session.accepted \in BoundSet \ withdrawn
    BY <1>6, <1>7
  <2>1. session.accepted \in BoundSet
    BY <1>6, <1>7 DEF JInv, ConfirmedIsBound, BoundSet
  <2>2. Joint(session) = {session.accepted}
    BY <1>5, JointIs
  <2>3. withdrawn \cap Joint(session) = {}
    BY <1>6, <1>7 DEF JInv, HistoryFollows
  <2> QED
    BY <2>1, <2>2, <2>3
<1> QED
  BY <1>8, <1>9, <1>10

\* The steps that bind nothing and order nothing on choose or withdraw at most one.
LEMMA QuietStep ==
    ASSUME JInv, SessionStep, Recorded, ~OrdersOn
    PROVE  /\ powered' = powered
           /\ \/ UNCHANGED <<chosen, withdrawn>>
              \/ \E a \in Advice :
                    /\ chosen \subseteq withdrawn /\ a \notin chosen
                    /\ chosen' = chosen \cup {a} /\ withdrawn' = withdrawn
                    /\ session' # session
              \/ \E a \in chosen :
                    /\ a \in Advice
                    /\ chosen' = chosen /\ withdrawn' = withdrawn \cup {a}
                    /\ session' # session
<1>1. powered' = powered
  BY DEF Recorded
<1>2. CASE session' = session
  BY <1>1, <1>2 DEF JInv, HistoryFollows, Recorded, Over, Joint
<1>3. CASE OpensPlain
  <2>1. Joint(session') = {}
    BY <1>3, JointIs DEF OpensPlain
  <2> QED
    BY <1>1, <2>1 DEF Recorded
<1>4. CASE OpensJoint
  <2>1. session' \in Session /\ ~Over(session')
    BY <1>4, JointIs DEF OpensJoint
  <2>2. advice \notin chosen /\ advice \in Advice
    BY <1>4, NoneIsNone DEF OpensJoint, JInv, ChosenIsOld
  <2>3. chosen \subseteq withdrawn
    BY <1>4 DEF OpensJoint, JInv, HistoryFollows
  <2>4. Joint(session') = {} \/ Joint(session') = {advice}
    BY <1>4, <2>1, JointIs DEF OpensJoint
  <2>5. session' # session
    BY <1>4, <2>1, JointIs DEF OpensJoint, Opened
  <2> QED
    BY <1>1, <2>1, <2>2, <2>3, <2>4, <2>5 DEF Recorded
<1>5. CASE Follows(session, session') /\ session' # session
  <2>1. Joint(session') = Joint(session) /\ Joint(session) \subseteq chosen
    BY <1>5, JointIs DEF Follows, JInv, HistoryFollows
  <2>2. chosen' = chosen
    BY <2>1 DEF Recorded
  <2>3. CASE Over(session') /\ Joint(session') # {}
    <3>1. Joint(session') = {session'.accepted} /\ session'.accepted \in Advice
      BY <1>5, <2>3, JointIs DEF Follows
    <3> QED
      BY <1>1, <1>5, <2>1, <2>2, <2>3, <3>1 DEF Recorded
  <2>4. CASE ~(Over(session') /\ Joint(session') # {})
    BY <1>1, <2>2, <2>4 DEF Recorded
  <2> QED
    BY <2>3, <2>4
<1> QED
  BY <1>2, <1>3, <1>4, <1>5 DEF SessionStep

LEMMA StepImplements ==
    ASSUME JInv, JointNext
    PROVE  [Acceptance!Next]_(Acceptance!promise)
<1> USE DEF Acceptance!Next, Acceptance!Choose, Acceptance!Bind, Acceptance!Power,
            Acceptance!Withdraw, Acceptance!promise
<1>1. SessionStep /\ Recorded
  BY ManagerSteps, EverySessionStep DEF JInv, JointNext
<1>2. Acceptance!promise = <<chosen, BoundSet, powered, withdrawn>>
  BY DEF BoundSet
<1>3. CASE OrdersOn
  <2>1. /\ chosen' = chosen /\ withdrawn' = withdrawn /\ BoundSet' = BoundSet
        /\ Joint(session') # {} => session'.accepted \in BoundSet \ withdrawn
    BY <1>3, OrderedIsBound
  <2>2. CASE Joint(session') = {}
    <3>1. powered' = powered
      BY <1>1, <2>2 DEF Recorded
    <3> QED
      BY <2>1, <3>1 DEF BoundSet
  <2>3. CASE Joint(session') # {}
    <3>1. session'.accepted \in Advice
      BY <2>1, <2>3 DEF JInv, JointTypeOK
    <3>2. powered' = powered \cup {session'.accepted}
      BY <1>1, <1>3, <2>3 DEF Recorded, Joint
    <3>3. Acceptance!Power(session'.accepted)
      BY <2>1, <2>3, <3>2 DEF BoundSet
    <3> QED
      BY <3>1, <3>3
  <2> QED
    BY <2>2, <2>3
<1>4. CASE ~OrdersOn /\ AcceptDecide
  <2>1. StoreStep /\ session' = session
    BY <1>4, DecideStores DEF AcceptDecide, vars, document
  <2>2. UNCHANGED <<chosen, powered, withdrawn>>
    BY <1>1, <1>4, <2>1, QuietStep
  <2>3. Selected \in chosen /\ Selected \in Advice
    BY <1>4 DEF AcceptDecide, JInv, JointTypeOK, CopiesAreTyped, SelectionsAreChosen, Known,
       Accepted, Selected
  <2>4. CASE BoundSet' = BoundSet
    BY <2>2, <2>4 DEF BoundSet
  <2>5. CASE BoundSet' = BoundSet \cup {Selected} /\ Selected \notin BoundSet
    <3>1. Acceptance!Bind(Selected)
      BY <2>2, <2>3, <2>5 DEF BoundSet
    <3> QED
      BY <2>3, <3>1
  <2> QED
    BY <2>1, <2>4, <2>5 DEF StoreStep
<1>5. CASE ~OrdersOn /\ ~AcceptDecide
  <2>1. BoundSet' = BoundSet
    <3>1. CASE Replan
      BY <3>1, NoLongerSame DEF Replan, BoundSet, JInv, JointTypeOK
    <3>2. CASE receipts' = receipts
      BY <3>2 DEF BoundSet
    <3> QED
      BY <1>5, <3>1, <3>2 DEF JointNext, Local, Exchange, Publish, Fetch, Receive, ExchangeEnds,
         Hems, AssessRead, AssessEnds, AssessPublish, AcceptRead, AcceptEnds, AcceptPublish,
         AcceptPublishFails, Crash
  <2>2. powered' = powered
    BY <1>1, <1>5, QuietStep
  <2>3. CASE UNCHANGED <<chosen, withdrawn>>
    BY <2>1, <2>2, <2>3 DEF BoundSet
  <2>4. ASSUME NEW a \in Advice, chosen \subseteq withdrawn, a \notin chosen,
               chosen' = chosen \cup {a}, withdrawn' = withdrawn
        PROVE  Acceptance!Choose(a)
    BY <2>1, <2>2, <2>4 DEF BoundSet
  <2>5. ASSUME NEW a \in chosen, a \in Advice, chosen' = chosen,
               withdrawn' = withdrawn \cup {a}
        PROVE  Acceptance!Withdraw(a)
    BY <2>1, <2>2, <2>5 DEF BoundSet
  <2> QED
    BY <1>1, <1>5, <2>3, <2>4, <2>5, QuietStep
<1> QED
  BY <1>3, <1>4, <1>5

\* One advice is executed at a time, a route is bound only to an executed advice and
\* once, and the charger is ordered on only for a bound one that was not withdrawn.
THEOREM BothImplementAcceptance == JointSpec => ImplementsAcceptance
<1>1. JointInit => Acceptance!Init
  BY DEF JointInit, Acceptance!Init
<1>2. JInv /\ [JointNext]_allvars => [Acceptance!Next]_(Acceptance!promise)
  <2>1. CASE JointNext
    BY <2>1, StepImplements
  <2>2. CASE UNCHANGED allvars
    BY <2>2 DEF allvars, history, Acceptance!promise
  <2> QED
    BY <2>1, <2>2
<1> QED
  BY <1>1, <1>2, JointInvariance, PTL DEF JointSpec, ImplementsAcceptance, Acceptance!Spec
=============================================================================
