---------------------- MODULE CanonicalExecutionProof ----------------------
(***************************************************************************)
(* What CanonicalExecution promises for any mapping of modes, any captures *)
(* and any times, under every fault: that only mapped modes are commanded,  *)
(* that an awaited command was sent, that the battery is isolated from the  *)
(* EV, and that idle readings end that isolation only after a quiet as long *)
(* as they confirm.                                                         *)
(***************************************************************************)
EXTENDS CanonicalExecution, TLAPS

(* What a call is given *)

Snapshot ==
    [due: Primitives \cup {None}, guards: {"refuse", "refuse_late", "pass"},
     soc: {"unknown", "reserve", "middle", "ceiling", "full"}, ev: EvReports,
     control: BOOLEAN, at: Instants, spare: BOOLEAN]

LEMMA TakenType ==
    ASSUME TypeOK, NEW c \in Captures
    PROVE  Taken(c) \in Snapshot /\ Taken(c).at = now
<1>1. c \in Capture /\ now \in Instants
  BY CanonicalExecutionAssumption DEF TypeOK
<1>2. ("BALANCE_CHARGE_ONLY" \in Mapped /\ c.soc \notin {"unknown", "ceiling", "full"}) \in BOOLEAN
  OBVIOUS
<1> QED  BY <1>1, <1>2 DEF Taken, Capture, Snapshot

(* The operators of the EV guard *)

\* While the exclusion holds, what the guard makes of any primitive is isolated.
LEMMA GuardIsolates ==
    ASSUME NEW s, NEW p \in Primitives, ExcludedAfter(s)
    PROVE  /\ EvPrimitive(s, p) \in Primitives
           /\ EvPrimitive(s, p) # "DISCHARGE_AT_POWER"
           /\ EvPrimitive(s, p) \in MayDischarge => Controlled(s)
  BY DEF EvPrimitive, Isolated, Primitives, MayDischarge, Charging, OnlyDischarging

LEMMA GuardType ==
    ASSUME NEW s, NEW p \in Primitives
    PROVE  EvPrimitive(s, p) \in Primitives
  BY DEF EvPrimitive, Isolated, Primitives, Charging, OnlyDischarging

\* So are the reserve stop and the full-charge replacement that follow it.
LEMMA FinalIsolates ==
    ASSUME NEW s, s.due \in Primitives, ExcludedAfter(s)
    PROVE  /\ Final(s) # "DISCHARGE_AT_POWER"
           /\ Final(s) \in MayDischarge => Controlled(s)
<1> DEFINE p == EvPrimitive(s, s.due)
<1>1. p \in Primitives /\ p # "DISCHARGE_AT_POWER" /\ (p \in MayDischarge => Controlled(s))
  BY GuardIsolates
<1>2. AfterReserve(s, p) \in {p, "STANDBY"}
  BY DEF AfterReserve
<1>3. "BALANCE_BIDIRECTIONAL" \in Primitives /\ "STANDBY" \notin MayDischarge
  BY DEF Primitives, MayDischarge, OnlyDischarging
<1>4. Final(s) \in {AfterReserve(s, p), EvPrimitive(s, "BALANCE_BIDIRECTIONAL")}
  BY DEF Final
<1> HIDE DEF p
<1>5. CASE Final(s) = AfterReserve(s, p)
  BY <1>1, <1>2, <1>3, <1>5
<1>6. CASE Final(s) = EvPrimitive(s, "BALANCE_BIDIRECTIONAL")
  BY <1>3, <1>6, GuardIsolates
<1> QED  BY <1>4, <1>5, <1>6

LEMMA FinalType ==
    ASSUME NEW s, s.due \in Primitives
    PROVE  Final(s) \in Primitives
  BY GuardType DEF Final, AfterReserve, Primitives, Charging, OnlyDischarging

-----------------------------------------------------------------------------
(* EV isolation *)

\* Why: the latch is closed as long as activity stands, what is saved is what is
\* latched, so a restart finds it closed, and every answer went through it.
IsolationInv ==
    /\ seen /\ ~bypassed => excluded
    /\ saved = excluded
    /\ EvIsolated

\* A call that answers without a primitive, and leaves the latch alone, is safe.
LEMMA NoneIsSafe == None # "DISCHARGE_AT_POWER" /\ None \notin MayDischarge
  BY CanonicalExecutionAssumption DEF Primitives, MayDischarge, OnlyDischarging

LEMMA SeenIsExcluded ==
    ASSUME NEW s, s.ev \in EvReports, SeenAfter(s), seen /\ ~bypassed => excluded,
           ~(bypassed /\ s.ev \notin EvActive)
    PROVE  ExcludedAfter(s)
  BY DEF SeenAfter, ExcludedAfter, EvReports, EvActive

LEMMA BoundaryIsolates ==
    ASSUME IsolationInv, excluded \in BOOLEAN, NEW s \in Snapshot, NEW admitted \in BOOLEAN,
           Boundary(s, admitted)
    PROVE  IsolationInv'
<1>1. CASE GuardReached(s, admitted)
  <2>1. /\ excluded' = ExcludedAfter(s)
        /\ saved' = IF excluded' # excluded THEN excluded' ELSE saved
        /\ seen' = SeenAfter(s) /\ bypassed' = (bypassed /\ s.ev \notin EvActive)
    BY <1>1 DEF Boundary, GuardReads
  <2>2. (seen /\ ~bypassed => excluded) /\ saved = excluded
    BY DEF IsolationInv
  <2>3. SeenAfter(s) /\ ~bypassed' => ExcludedAfter(s)
    BY <2>1, <2>2, SeenIsExcluded DEF Snapshot
  <2>4. saved' = excluded'
    BY <2>1, <2>2
  <2>5. CASE outcome'.primitive = None
    BY <2>1, <2>3, <2>4, <2>5, NoneIsSafe DEF IsolationInv, EvIsolated
  <2>6. CASE /\ s.due \in Primitives
             /\ Answers(s, Final(s))
    <3>1. /\ outcome'.primitive = Final(s)
          /\ outcome'.control = (Final(s) \in MayDischarge /\ Controlled(s))
      BY <2>6 DEF Answers
    <3>2. ExcludedAfter(s) => /\ Final(s) # "DISCHARGE_AT_POWER"
                              /\ Final(s) \in MayDischarge => Controlled(s)
      BY <2>6, FinalIsolates
    <3> QED  BY <2>1, <2>3, <2>4, <3>1, <3>2 DEF IsolationInv, EvIsolated
  <2>7. Refuses(s) \/ (Proceeds(s, admitted) /\ Delivers(s, selector, Final(s)))
    BY DEF Boundary
  <2>8. Refuses(s) => outcome'.primitive = None
    BY DEF Refuses, Answers
  <2>9. Proceeds(s, admitted) => s.due \in Primitives
    BY DEF Proceeds, Snapshot
  <2>10. Delivers(s, selector, Final(s)) => Answers(s, Final(s))
    BY DEF Delivers, AlreadyActive, AwaitsFeedback, Dispatched, DispatchRaises,
           DispatchFails
  <2> QED  BY <2>5, <2>6, <2>7, <2>8, <2>9, <2>10
<1>2. CASE ~GuardReached(s, admitted)
  <2>1. ~Proceeds(s, admitted)
    BY <1>2 DEF GuardReached, Proceeds
  <2>2. outcome'.primitive = None
    BY <2>1 DEF Boundary, Refuses, Answers
  <2>3. UNCHANGED <<excluded, saved, seen, bypassed>>
    BY <1>2 DEF Boundary, GuardSkipped, latch
  <2> QED  BY <2>2, <2>3, NoneIsSafe DEF IsolationInv, EvIsolated
<1> QED  BY <1>1, <1>2

-----------------------------------------------------------------------------
(* Type correctness *)

Answered == [primitive: Mapped \cup {None}, control: BOOLEAN]

\* What the guard and the answer of a call leave of the state is well typed;
\* s is a capture or the evidence a planning was given.
LEMMA GuardReadsType ==
    ASSUME TypeOK, NEW s, s.at \in Instants, GuardReads(s)
    PROVE  excluded' \in BOOLEAN /\ saved' \in BOOLEAN /\ idle' \in IdleReadings \cup {None}
<1>1. ExcludedAfter(s) \in BOOLEAN
  BY DEF ExcludedAfter
<1>2. IdleAfter(s) \in IdleReadings \cup {None}
  BY DEF IdleAfter, Chained, IdleReadings, TypeOK
<1> QED  BY <1>1, <1>2 DEF GuardReads, TypeOK

\* Every answer settles on a mapped mode, or refuses.
LEMMA DeliversType ==
    ASSUME TypeOK, NEW s, NEW shown, NEW p \in Mapped, s.control \in BOOLEAN,
           Delivers(s, shown, p)
    PROVE  /\ flight' \in Mapped \cup {None} /\ pending' \in Mapped \cup {None}
           /\ selector' \in Mapped /\ astray' \in BOOLEAN
           /\ outcome' \in Answered
<1> DEFINE proven == p \in MayDischarge /\ Controlled(s)
<1>1. proven \in BOOLEAN
  BY DEF Controlled
<1>2. outcome' \in Answered
  <2>1. Answers(s, p)
    BY DEF Delivers, AlreadyActive, AwaitsFeedback, Dispatched, DispatchRaises, DispatchFails
  <2>2. outcome' = [primitive |-> p, control |-> proven]
    BY <2>1 DEF Answers
  <2> HIDE DEF proven
  <2> QED  BY <1>1, <2>2 DEF Answered
<1>3. /\ flight' \in Mapped \cup {None} /\ pending' \in Mapped \cup {None}
      /\ selector' \in Mapped /\ astray' \in BOOLEAN
  BY DEF Delivers, AlreadyActive, AwaitsFeedback, Dispatched, DispatchRaises,
         DispatchFails, command, TypeOK
<1> QED  BY <1>2, <1>3

LEMMA RefusesType ==
    ASSUME TypeOK, NEW s, s.control \in BOOLEAN, Refuses(s)
    PROVE  /\ flight' \in Mapped \cup {None} /\ pending' \in Mapped \cup {None}
           /\ selector' \in Mapped /\ astray' \in BOOLEAN
           /\ outcome' \in Answered
  BY DEF Refuses, Answers, Controlled, Answered, command, TypeOK

LEMMA ChargedType ==
    ASSUME TypeOK, NEW s, s.at \in Instants
    PROVE  ChargedAfter(s) \in Instants \cup {None}
  BY DEF ChargedAfter, TypeOK

LEMMA BoundaryType ==
    ASSUME TypeOK, NEW s \in Snapshot, NEW admitted \in BOOLEAN, Boundary(s, admitted)
    PROVE  /\ flight' \in Mapped \cup {None} /\ pending' \in Mapped \cup {None}
           /\ selector' \in Mapped /\ astray' \in BOOLEAN
           /\ outcome' \in Answered
           /\ excluded' \in BOOLEAN /\ saved' \in BOOLEAN
           /\ idle' \in IdleReadings \cup {None}
           /\ seen' \in BOOLEAN /\ bypassed' \in BOOLEAN
           /\ charged' \in Instants \cup {None} /\ now' \in Instants
<1>1. s.control \in BOOLEAN /\ s.at \in Instants
  BY DEF Snapshot
<1>2. Refuses(s) \/ (Final(s) \in Mapped /\ Delivers(s, selector, Final(s)))
  BY DEF Boundary, Proceeds
<1>3. /\ flight' \in Mapped \cup {None} /\ pending' \in Mapped \cup {None}
      /\ selector' \in Mapped /\ astray' \in BOOLEAN
      /\ outcome' \in Answered
  BY <1>1, <1>2, DeliversType, RefusesType
<1>4. /\ excluded' \in BOOLEAN /\ saved' \in BOOLEAN /\ idle' \in IdleReadings \cup {None}
      /\ seen' \in BOOLEAN /\ bypassed' \in BOOLEAN /\ charged' \in Instants \cup {None}
  <2>1. CASE GuardReached(s, admitted)
    BY <2>1, <1>1, GuardReadsType, ChargedType DEF Boundary, SeenAfter
  <2>2. CASE ~GuardReached(s, admitted)
    BY <2>2 DEF Boundary, GuardSkipped, latch, TypeOK
  <2> QED  BY <2>1, <2>2
<1>5. now' \in Instants
  BY DEF Boundary, TypeOK
<1> QED  BY <1>3, <1>4, <1>5

LEMMA NoOutcomeType == NoOutcome \in Answered
  BY DEF NoOutcome, Answered

LEMMA RestartType ==
    ASSUME TypeOK, Restart, seen' \in BOOLEAN, bypassed' \in BOOLEAN,
           charged' \in Instants \cup {None}
    PROVE  TypeOK'
  BY NoOutcomeType DEF Restart, TypeOK, Answered

LEMMA NextType == TypeOK /\ [Next]_vars => TypeOK'
<1> SUFFICES ASSUME TypeOK, [Next]_vars PROVE TypeOK'
  OBVIOUS
<1>0. NoOutcome \in Answered
  BY NoOutcomeType
<1>1. ASSUME NEW c \in Captures, Call(Taken(c))
      PROVE  TypeOK'
  <2> DEFINE s == Taken(c)
  <2>1. s \in Snapshot
    BY TakenType
  <2> HIDE DEF s
  <2>2. Call(s)
    BY <1>1 DEF s
  <2>3. PICK admitted \in BOOLEAN : Boundary(s, admitted)
    BY <2>2 DEF Call, AdvanceCommittedBoundary, Checkpoint, ApplyCommitted, TypeOK
  <2>4. EvidenceOf(s) \in Evidence
    <3>1. 0 \in Instants
      BY CanonicalExecutionAssumption DEF Instants
    <3> QED  BY <2>1, <3>1 DEF EvidenceOf, Evidence, Snapshot, TypeOK
  <2>5. /\ suspended' \in BOOLEAN /\ overtaken' \in BOOLEAN
        /\ planning' \in Evidence \cup {None}
    BY <2>2, <2>4 DEF Call, AdvanceCommittedBoundary, Checkpoint, ApplyCommitted, TypeOK
  <2> QED  BY <2>1, <2>3, <2>5, BoundaryType DEF TypeOK, Answered
<1>2. ASSUME NEW c \in Captures, SaveFails(Taken(c))
      PROVE  TypeOK'
  <2>1. seen' \in BOOLEAN /\ bypassed' \in BOOLEAN
    BY <1>2 DEF SaveFails, SeenAfter
  <2>2. Taken(c).at \in Instants
    BY TakenType DEF TypeOK
  <2>3. charged' \in Instants \cup {None}
    BY <1>2, <2>2, ChargedType DEF SaveFails
  <2> QED  BY <1>2, <2>1, <2>3, RestartType DEF SaveFails
<1>3. ASSUME FallbackReads
      PROVE  /\ planning \in Evidence /\ planning.at \in Instants
             /\ planning.control \in BOOLEAN
             /\ seen' \in BOOLEAN /\ charged' \in Instants \cup {None}
  <2>1. planning \in Evidence
    BY <1>3 DEF FallbackReads, TypeOK
  <2>2. planning.at \in Instants /\ planning.control \in BOOLEAN
    BY <2>1 DEF Evidence
  <2>3. seen' \in BOOLEAN
    BY <1>3 DEF FallbackReads, SeenAfter, TypeOK
  <2> QED  BY <1>3, <2>1, <2>2, <2>3, ChargedType DEF FallbackReads
<1>4. CASE ApplyFallback
  <2> DEFINE p == EvPrimitive(planning, "BALANCE_BIDIRECTIONAL")
  <2>1. FallbackReads /\ GuardReads(planning)
    BY <1>4 DEF ApplyFallback
  <2>2. Refuses(planning) \/ (p \in Mapped /\ Delivers(planning, planning.mode, p))
    BY <1>4 DEF ApplyFallback
  <2>3. bypassed' \in BOOLEAN
    BY <1>4 DEF ApplyFallback
  <2> HIDE DEF p
  <2>4. /\ flight' \in Mapped \cup {None} /\ pending' \in Mapped \cup {None}
        /\ selector' \in Mapped /\ astray' \in BOOLEAN
        /\ outcome' \in Answered
    BY <1>3, <2>1, <2>2, DeliversType, RefusesType
  <2>5. /\ excluded' \in BOOLEAN /\ saved' \in BOOLEAN /\ idle' \in IdleReadings \cup {None}
    BY <1>3, <2>1, GuardReadsType
  <2> QED  BY <1>3, <1>4, <2>1, <2>3, <2>4, <2>5 DEF ApplyFallback, TypeOK, Answered
<1>5. CASE FallbackSaveFails
  <2>1. FallbackReads /\ Restart /\ bypassed' \in BOOLEAN
    BY <1>5 DEF FallbackSaveFails
  <2> QED  BY <1>3, <2>1, RestartType
<1>6. CASE ApplyNothing
  <2>1. planning.control \in BOOLEAN
    BY <1>6 DEF ApplyNothing, TypeOK, Evidence
  <2>2. /\ flight' \in Mapped \cup {None} /\ pending' \in Mapped \cup {None}
        /\ selector' \in Mapped /\ astray' \in BOOLEAN
        /\ outcome' \in Answered
    BY <1>6, <2>1, RefusesType DEF ApplyNothing
  <2> QED  BY <1>6, <2>2 DEF ApplyNothing, latch, TypeOK, Answered
<1>7. CASE Tick
  <2>1. now' \in Instants
    BY <1>7, CanonicalExecutionAssumption DEF Tick, TypeOK, Instants
  <2> QED  BY <1>7, <1>0, <2>1 DEF Tick, command, latch, history, TypeOK, Answered
<1>8. CASE SelectorFollows \/ CommandIsLost \/ ResetPendingState
  <2>1. /\ outcome' \in Answered /\ UNCHANGED <<now, suspended, latch, planning, history>>
    BY <1>0, <1>8 DEF SelectorFollows, CommandIsLost, ResetPendingState
  <2>2. /\ selector' \in Mapped /\ astray' \in BOOLEAN
        /\ flight' \in Mapped \cup {None} /\ pending' \in Mapped \cup {None}
    <3>1. CASE SelectorFollows
      BY <3>1 DEF SelectorFollows, TypeOK
    <3>2. CASE CommandIsLost
      BY <3>2 DEF CommandIsLost, TypeOK
    <3>3. CASE ResetPendingState
      BY <3>3 DEF ResetPendingState, TypeOK
    <3> QED  BY <1>8, <3>1, <3>2, <3>3
  <2> QED  BY <2>1, <2>2 DEF latch, history, TypeOK, Answered
<1>9. CASE Crash
  BY <1>9, RestartType DEF Crash, TypeOK
<1>10. CASE UNCHANGED vars
  BY <1>10 DEF vars, command, latch, history, TypeOK
<1> QED
  BY <1>1, <1>2, <1>4, <1>5, <1>6, <1>7, <1>8, <1>9, <1>10 DEF Next

LEMMA InitType == Init => TypeOK
<1>1. 0 \in Instants
  BY CanonicalExecutionAssumption DEF Instants
<1> QED  BY <1>1, NoOutcomeType DEF Init, TypeOK, Answered

\* The runtime's state keeps its type through every call, failure and restart, and whatever
\* the guards make of a primitive, only a mapped mode is sent, awaited or answered.
THEOREM TypeCorrect == Spec => []TypeOK
<1> QED  BY InitType, NextType, PTL DEF Spec

-----------------------------------------------------------------------------
(* EV isolation, through restarts and failed commands *)

\* The fallback reads the evidence of its planning, which no newer report overtook,
\* and its answer went through the guard too.
LEMMA FallbackIsolates ==
    ASSUME TypeOK, IsolationInv, ApplyFallback
    PROVE  IsolationInv'
<1> DEFINE p == EvPrimitive(planning, "BALANCE_BIDIRECTIONAL")
<1>1. planning \in Evidence /\ planning.ev \in EvReports
  BY DEF ApplyFallback, FallbackReads, TypeOK, Evidence
<1>2. /\ excluded' = ExcludedAfter(planning)
      /\ saved' = IF excluded' # excluded THEN excluded' ELSE saved
      /\ seen' = IF overtaken THEN seen \/ planning.ev \in EvActive
                 ELSE SeenAfter(planning)
      /\ bypassed' = ((bypassed \/ overtaken) /\ planning.ev \notin EvActive)
  BY DEF ApplyFallback, FallbackReads, GuardReads
<1>3. (seen /\ ~bypassed => excluded) /\ saved = excluded
  BY DEF IsolationInv
<1>4. planning.ev \in EvActive => ExcludedAfter(planning)
  BY DEF ExcludedAfter
<1>5. seen' /\ ~bypassed' => excluded'
  <2>1. CASE planning.ev \in EvActive
    BY <2>1, <1>2, <1>4
  <2>2. CASE planning.ev \notin EvActive
    BY <2>2, <1>1, <1>2, <1>3, SeenIsExcluded
  <2> QED  BY <2>1, <2>2
<1>6. saved' = excluded'
  BY <1>2, <1>3
<1>7. "BALANCE_BIDIRECTIONAL" \in Primitives
  BY DEF Primitives
<1>8. ExcludedAfter(planning) => /\ p # "DISCHARGE_AT_POWER"
                                 /\ p \in MayDischarge => Controlled(planning)
  BY <1>7, GuardIsolates
<1>9. Refuses(planning) \/ Delivers(planning, planning.mode, p)
  BY DEF ApplyFallback
<1> HIDE DEF p
<1>10. CASE Refuses(planning)
  BY <1>10, <1>5, <1>6, NoneIsSafe DEF Refuses, Answers, IsolationInv, EvIsolated
<1>11. CASE Delivers(planning, planning.mode, p)
  <2>1. Answers(planning, p)
    BY <1>11 DEF Delivers, AlreadyActive, AwaitsFeedback, Dispatched, DispatchRaises,
                 DispatchFails
  <2>2. outcome'.primitive = p /\ outcome'.control = (p \in MayDischarge /\ Controlled(planning))
    BY <2>1 DEF Answers
  <2> QED  BY <2>2, <1>2, <1>5, <1>6, <1>8 DEF IsolationInv, EvIsolated
<1> QED  BY <1>9, <1>10, <1>11

LEMMA NextIsolates == TypeOK /\ IsolationInv /\ [Next]_vars => IsolationInv'
<1> SUFFICES ASSUME TypeOK, IsolationInv, [Next]_vars PROVE IsolationInv'
  OBVIOUS
<1>1. ASSUME NEW c \in Captures, Call(Taken(c))
      PROVE  IsolationInv'
  <2>1. PICK admitted \in BOOLEAN : Boundary(Taken(c), admitted)
    BY <1>1 DEF Call, AdvanceCommittedBoundary, Checkpoint, ApplyCommitted, TypeOK
  <2>2. Taken(c) \in Snapshot
    BY TakenType
  <2> QED  BY <2>1, <2>2, BoundaryIsolates DEF TypeOK
<1>2. ASSUME Restart, bypassed' = TRUE
      PROVE  IsolationInv'
  <2>1. outcome'.primitive = None
    BY <1>2 DEF Restart, NoOutcome
  <2> QED  BY <1>2, <2>1 DEF Restart, IsolationInv, EvIsolated
<1>3. CASE ApplyFallback
  BY <1>3, FallbackIsolates
<1>4. CASE \/ FallbackSaveFails
           \/ \E c \in Captures : SaveFails(Taken(c))
  BY <1>2, <1>4 DEF FallbackSaveFails, SaveFails
<1>5. CASE ApplyNothing
  <2>1. outcome'.primitive = None
    BY <1>5 DEF ApplyNothing, Refuses, Answers
  <2> QED  BY <1>5, <2>1, NoneIsSafe DEF ApplyNothing, latch, IsolationInv, EvIsolated
<1>6. CASE Crash
  <2>1. outcome'.primitive = None
    BY <1>6 DEF Crash, Restart, NoOutcome
  <2> QED
    BY <1>6, <2>1, NoneIsSafe DEF Crash, Restart, IsolationInv, EvIsolated
<1>7. CASE Tick \/ SelectorFollows \/ CommandIsLost \/ ResetPendingState
  <2>1. outcome'.primitive = None /\ UNCHANGED <<latch, history>>
    BY <1>7 DEF Tick, SelectorFollows, CommandIsLost, ResetPendingState, NoOutcome
  <2> QED  BY <2>1, NoneIsSafe DEF latch, history, IsolationInv, EvIsolated
<1>8. CASE UNCHANGED vars
  BY <1>8 DEF vars, latch, history, IsolationInv, EvIsolated
<1> QED  BY <1>1, <1>3, <1>4, <1>5, <1>6, <1>7, <1>8 DEF Next

\* Whatever fails: as long as no fallback acted on older evidence than the guard
\* had read, and no latch was lost with a save, the battery never serves an EV the
\* guard has seen, not through the SOC stops, a lost report, a failed command or a
\* restart.
THEOREM EvIsIsolated == Spec => []EvIsolated
<1>1. Init => IsolationInv
  BY DEF Init, IsolationInv, EvIsolated
<1>2. TypeOK /\ IsolationInv /\ [Next]_vars => IsolationInv'
  BY NextIsolates
<1>3. IsolationInv => EvIsolated
  BY DEF IsolationInv
<1> QED  BY <1>1, <1>2, <1>3, TypeCorrect, PTL DEF Spec

-----------------------------------------------------------------------------
(* No call waits for a command nobody sent *)

\* Why: as long as nothing went astray since the awaited command was accepted, nothing else
\* is in flight while it is awaited.
AwaitInv ==
    /\ astray \in BOOLEAN
    /\ ~astray => /\ pending \in {None, flight, selector}
                  /\ flight # None => pending \in {None, flight}

LEMMA DeliveryAwaits ==
    ASSUME AwaitInv, NEW s, NEW shown, NEW p,
           Refuses(s) \/ Delivers(s, shown, p)
    PROVE  AwaitInv'
<1>1. CASE Refuses(s) \/ AwaitsFeedback(s, shown, p)
  BY <1>1 DEF AwaitInv, Refuses, AwaitsFeedback, command
<1>2. CASE AlreadyActive(s, shown, p) \/ Dispatched(s, shown, p) \/ DispatchRaises(s, shown, p)
  BY <1>2 DEF AwaitInv, AlreadyActive, Dispatched, DispatchRaises
<1>3. CASE DispatchFails(s, shown, p)
  <2>1. UNCHANGED <<selector, pending>>
    BY <1>3 DEF DispatchFails
  <2>2. CASE UNCHANGED <<flight, astray>>
    BY <2>1, <2>2 DEF AwaitInv
  <2>3. CASE flight' = p /\ astray' = (astray \/ pending # None)
    BY <2>1, <2>3 DEF AwaitInv
  <2> QED  BY <1>3, <2>2, <2>3 DEF DispatchFails
<1> QED  BY <1>1, <1>2, <1>3 DEF Delivers

LEMMA NextAwaits == AwaitInv /\ [Next]_vars => AwaitInv'
<1> SUFFICES ASSUME AwaitInv, [Next]_vars PROVE AwaitInv'
  OBVIOUS
<1>1. ASSUME NEW c \in Captures, Call(Taken(c))
      PROVE  AwaitInv'
  <2>1. Refuses(Taken(c)) \/ Delivers(Taken(c), selector, Final(Taken(c)))
    BY <1>1 DEF Call, AdvanceCommittedBoundary, Checkpoint, ApplyCommitted, Boundary
  <2> QED  BY <2>1, DeliveryAwaits
<1>2. ASSUME Restart
      PROVE  AwaitInv'
  BY <1>2 DEF Restart, AwaitInv
<1>3. CASE ApplyFallback
  <2>1. Refuses(planning) \/ Delivers(planning, planning.mode,
                                     EvPrimitive(planning, "BALANCE_BIDIRECTIONAL"))
    BY <1>3 DEF ApplyFallback
  <2> QED  BY <2>1, DeliveryAwaits
<1>4. CASE ApplyNothing
  BY <1>4, DeliveryAwaits DEF ApplyNothing
<1>5. CASE \/ Crash \/ FallbackSaveFails
           \/ \E c \in Captures : SaveFails(Taken(c))
  BY <1>2, <1>5 DEF Crash, FallbackSaveFails, SaveFails
<1>6. CASE SelectorFollows \/ CommandIsLost \/ ResetPendingState
  BY <1>6 DEF SelectorFollows, CommandIsLost, ResetPendingState, AwaitInv
<1>7. CASE Tick
  BY <1>7 DEF Tick, command, AwaitInv
<1>8. CASE UNCHANGED vars
  BY <1>8 DEF vars, command, AwaitInv
<1> QED  BY <1>1, <1>3, <1>4, <1>5, <1>6, <1>7, <1>8 DEF Next

\* Whatever fails, and after any restart: a call only ever waits for a command that was
\* accepted, and that is on its way or has arrived unless Home Assistant lost it, or
\* received after it one that was answered as failed.
THEOREM AwaitedIsAlwaysComing == Spec => []AwaitedIsComing
<1>1. Init => AwaitInv
  BY DEF Init, AwaitInv
<1>2. AwaitInv => AwaitedIsComing
  BY DEF AwaitInv, AwaitedIsComing
<1> QED  BY <1>1, <1>2, NextAwaits, PTL DEF Spec

-----------------------------------------------------------------------------
(* Idle readings do not end the exclusion before the EV has been quiet *)

SinceCharged(t) == charged = None \/ charged <= t

\* Why: a chain of idle readings begins after the newest charging the guard read, because
\* every report of charging breaks it, and what a planning knows of idleness is no older than
\* that charging, unless the guard read a later capture meanwhile.
QuietInv ==
    /\ TypeOK
    /\ SinceCharged(now)
    /\ planning # None => /\ planning.at <= now
                          /\ ~overtaken /\ planning.ev = "idle" => SinceCharged(planning.at)
    /\ idle # None /\ ~bypassed => SinceCharged(idle.since)

LEMMA InstantsAreIntegers == Instants \subseteq Int /\ None \notin Instants /\ None \notin IdleReadings
  BY CanonicalExecutionAssumption DEF Instants

QuietRelease ==
    IdleRelease /\ ~bypassed' => charged' = None \/ idle'.last - charged' >= IdleConfirm

\* What a reading makes of the chain, and when it ends the exclusion.
LEMMA ReadingKeepsQuiet ==
    ASSUME QuietInv, NEW s, s.at \in Instants, s.at <= now,
           GuardReads(s), charged' = ChargedAfter(s), now' = now,
           s.ev = "idle" /\ ~bypassed' => ~bypassed /\ SinceCharged(s.at)
    PROVE  /\ SinceCharged(now)'
           /\ idle' # None /\ ~bypassed' => SinceCharged(idle.since)'
           /\ QuietRelease
<1>1. /\ now \in Int /\ s.at \in Int
      /\ charged # None => charged \in Int /\ charged <= now
      /\ idle # None => idle.since \in Int /\ idle.last \in Int
      /\ IdleConfirm \in Int
  <2>1. now \in Instants /\ charged \in Instants \cup {None} /\ SinceCharged(now)
    BY DEF QuietInv, TypeOK
  <2>2. idle # None => idle.since \in Instants /\ idle.last \in Instants
    BY DEF QuietInv, TypeOK, IdleReadings
  <2>3. IdleConfirm \in Int
    BY CanonicalExecutionAssumption
  <2> QED  BY <2>1, <2>2, <2>3, InstantsAreIntegers DEF SinceCharged
<1>2. SinceCharged(now)'
  BY <1>1 DEF ChargedAfter, SinceCharged
<1>3. CASE s.ev = "idle"
  <2>1. charged' = charged /\ idle' = Chained(s)
    BY <1>3 DEF GuardReads, IdleAfter, ChargedAfter
  <2>2. /\ idle'.last = s.at
        /\ idle'.since = s.at \/ (idle # None /\ idle'.since = idle.since)
    BY <2>1 DEF Chained
  <2>3. ~bypassed' => SinceCharged(idle.since)'
    BY <1>3, <2>1, <2>2 DEF QuietInv, SinceCharged
  <2>4. ~excluded' => s.at - idle'.since >= IdleConfirm
    <3>1. ~excluded' => ~(s.at - Chained(s).since < IdleConfirm)
      BY <1>3 DEF GuardReads, ExcludedAfter
    <3> QED  BY <1>1, <2>1, <2>2, <3>1
  <2>5. QuietRelease
    BY <1>1, <2>1, <2>2, <2>3, <2>4 DEF QuietRelease, IdleRelease, SinceCharged
  <2> QED  BY <1>2, <2>3, <2>5
<1>4. CASE s.ev # "idle"
  BY <1>2, <1>4 DEF GuardReads, IdleAfter, QuietRelease, IdleRelease
<1> QED  BY <1>3, <1>4

\* A restart forgets the readings.
LEMMA RestartKeepsQuiet ==
    ASSUME QuietInv, TypeOK', Restart, NEW s, s.at \in Instants, s.at <= now,
           charged' \in {charged, ChargedAfter(s)}
    PROVE  QuietInv' /\ QuietRelease
<1>1. planning' = None /\ idle' = None /\ now' = now
  BY DEF Restart
<1>2. SinceCharged(now)'
  BY <1>1 DEF QuietInv, SinceCharged, ChargedAfter
<1> QED  BY <1>1, <1>2 DEF QuietInv, QuietRelease, IdleRelease, SinceCharged

LEMMA CallKeepsQuiet ==
    ASSUME QuietInv, NEW c \in Captures, Call(Taken(c)), TypeOK'
    PROVE  QuietInv' /\ QuietRelease
<1> DEFINE s == Taken(c)
<1>1. s \in Snapshot /\ s.at = now /\ now \in Instants
  BY TakenType DEF QuietInv, TypeOK
<1> HIDE DEF s
<1>2. Call(s)
  BY DEF s
<1>3. PICK admitted \in BOOLEAN :
          /\ Boundary(s, admitted)
          /\ planning # None /\ planning' # None =>
                 overtaken' = (overtaken \/ GuardReached(s, admitted))
  BY <1>2 DEF Call, AdvanceCommittedBoundary, Checkpoint, ApplyCommitted, QuietInv, TypeOK
<1>4. \/ planning' = None
      \/ planning = None /\ planning' = EvidenceOf(s)
      \/ planning # None /\ planning' = planning
  BY <1>2 DEF Call, AdvanceCommittedBoundary, Checkpoint, ApplyCommitted
<1>5. now' = now
  BY <1>3 DEF Boundary
<1>6. now \in Int /\ 0 <= now /\ now <= now
  BY <1>1, CanonicalExecutionAssumption DEF Instants
<1>7. CASE GuardReached(s, admitted)
  <2>1. /\ GuardReads(s) /\ charged' = ChargedAfter(s)
        /\ bypassed' = (bypassed /\ s.ev \notin EvActive)
    BY <1>3, <1>7 DEF Boundary
  <2>2. s.ev = "idle" /\ ~bypassed' => ~bypassed /\ SinceCharged(s.at)
    BY <1>1, <2>1 DEF EvActive, QuietInv
  <2>3. /\ SinceCharged(now)'
        /\ idle' # None /\ ~bypassed' => SinceCharged(idle.since)'
        /\ QuietRelease
    BY <1>1, <1>5, <1>6, <2>1, <2>2, ReadingKeepsQuiet
  <2>4. planning' # None => /\ planning'.at <= now'
                            /\ ~overtaken' /\ planning'.ev = "idle" => SinceCharged(planning.at)'
    <3>1. CASE planning = None /\ planning' = EvidenceOf(s)
      BY <1>1, <1>5, <1>6, <2>3, <3>1 DEF EvidenceOf, SinceCharged
    <3>2. CASE planning # None /\ planning' = planning
      BY <1>3, <1>5, <1>7, <3>2 DEF QuietInv
    <3> QED  BY <1>4, <3>1, <3>2
  <2> QED  BY <2>3, <2>4 DEF QuietInv
<1>8. CASE ~GuardReached(s, admitted)
  <2>1. UNCHANGED <<excluded, idle, charged, bypassed>>
    BY <1>3, <1>8 DEF Boundary, GuardSkipped, latch
  <2>2. planning' # None => /\ planning'.at <= now'
                            /\ ~overtaken' /\ planning'.ev = "idle" => SinceCharged(planning.at)'
    <3>1. CASE planning = None /\ planning' = EvidenceOf(s)
      BY <1>1, <1>5, <1>6, <2>1, <3>1 DEF EvidenceOf, SinceCharged, QuietInv
    <3>2. CASE planning # None /\ planning' = planning
      BY <1>3, <1>5, <1>8, <2>1, <3>2 DEF QuietInv, SinceCharged
    <3> QED  BY <1>4, <3>1, <3>2
  <2>3. QuietRelease
    BY <2>1 DEF QuietRelease, IdleRelease
  <2> QED  BY <1>5, <2>1, <2>2, <2>3 DEF QuietInv, SinceCharged
<1> QED  BY <1>7, <1>8

LEMMA NextQuiet == QuietInv /\ [Next]_vars => QuietInv' /\ QuietRelease
<1> SUFFICES ASSUME QuietInv, [Next]_vars PROVE QuietInv' /\ QuietRelease
  OBVIOUS
<1>1. TypeOK'
  BY NextType DEF QuietInv
<1>2. CASE \E c \in Captures : Call(Taken(c))
  BY <1>1, <1>2, CallKeepsQuiet
<1>3. CASE \E c \in Captures : SaveFails(Taken(c))
  <2>1. PICK c \in Captures : SaveFails(Taken(c))
    BY <1>3
  <2>2. Taken(c).at \in Instants /\ Taken(c).at <= now
    BY TakenType, InstantsAreIntegers DEF QuietInv, TypeOK
  <2> QED  BY <1>1, <2>1, <2>2, RestartKeepsQuiet DEF SaveFails
<1>4. ASSUME FallbackReads
      PROVE  planning # None /\ planning.at \in Instants /\ planning.at <= now
  BY <1>4 DEF FallbackReads, QuietInv, TypeOK, Evidence
<1>5. CASE ApplyFallback
  <2>1. /\ GuardReads(planning) /\ charged' = ChargedAfter(planning) /\ now' = now
        /\ bypassed' = ((bypassed \/ overtaken) /\ planning.ev \notin EvActive)
        /\ planning' = None /\ FallbackReads
    BY <1>5 DEF ApplyFallback, FallbackReads
  <2>2. planning.ev = "idle" /\ ~bypassed' => ~bypassed /\ SinceCharged(planning.at)
    BY <1>4, <2>1 DEF EvActive, QuietInv
  <2>3. /\ SinceCharged(now)'
        /\ idle' # None /\ ~bypassed' => SinceCharged(idle.since)'
        /\ QuietRelease
    BY <1>4, <2>1, <2>2, ReadingKeepsQuiet
  <2> QED  BY <1>1, <2>1, <2>3 DEF QuietInv
<1>6. CASE FallbackSaveFails
  <2>1. FallbackReads /\ Restart /\ charged' = ChargedAfter(planning)
    BY <1>6 DEF FallbackSaveFails, FallbackReads
  <2> QED  BY <1>1, <1>4, <2>1, RestartKeepsQuiet
<1>7. CASE ApplyNothing
  BY <1>1, <1>7 DEF ApplyNothing, latch, QuietInv, SinceCharged, QuietRelease, IdleRelease
<1>8. CASE Crash
  BY <1>1, <1>8 DEF Crash, Restart, QuietInv, SinceCharged, QuietRelease, IdleRelease
<1>9. CASE Tick
  <2>1. now \in Int /\ now' = now + 1 /\ UNCHANGED <<latch, planning, history>>
    BY <1>9, InstantsAreIntegers DEF Tick, QuietInv, TypeOK
  <2>2. charged = None \/ charged \in Int
    BY InstantsAreIntegers DEF QuietInv, TypeOK
  <2>3. planning # None => planning.at \in Int
    BY InstantsAreIntegers DEF QuietInv, TypeOK, Evidence
  <2> QED
    BY <1>1, <2>1, <2>2, <2>3
       DEF latch, history, QuietInv, SinceCharged, QuietRelease, IdleRelease
<1>10. CASE SelectorFollows \/ CommandIsLost \/ ResetPendingState
  <2>1. UNCHANGED <<now, latch, planning, history>>
    BY <1>10 DEF SelectorFollows, CommandIsLost, ResetPendingState
  <2> QED
    BY <1>1, <2>1 DEF latch, history, QuietInv, SinceCharged, QuietRelease, IdleRelease
<1>11. CASE UNCHANGED vars
  BY <1>1, <1>11 DEF vars, latch, history, QuietInv, SinceCharged, QuietRelease, IdleRelease
<1> QED
  BY <1>2, <1>3, <1>5, <1>6, <1>7, <1>8, <1>9, <1>10, <1>11 DEF Next

\* Whatever fails: an exclusion ends on idle readings only when every charging the guard
\* read was measured at least the confirmation time before the last of them, however the
\* readings were spread over calls, gaps and restarts; a fallback that replays evidence
\* older than what the guard had read is the exception.
THEOREM IdleReadingsRelease == Spec => IdleReleaseAfterQuiet
<1>1. Init => QuietInv
  <2>1. Init => TypeOK
    BY InitType
  <2> QED  BY <2>1 DEF Init, QuietInv, SinceCharged
<1>2. QuietInv /\ [Next]_vars =>
        [IdleRelease /\ ~bypassed' =>
             charged' = None \/ idle'.last - charged' >= IdleConfirm]_vars
  BY NextQuiet DEF QuietRelease
<1>3. QuietInv /\ [Next]_vars => QuietInv'
  BY NextQuiet
<1> QED  BY <1>1, <1>2, <1>3, PTL DEF Spec, IdleReleaseAfterQuiet
=============================================================================
