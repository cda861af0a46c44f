------------------------ MODULE RegulationGuardProof ------------------------
(***************************************************************************)
(* Proofs about RegulationGuard: the guard's types, that it compares only   *)
(* what was transmitted, that a wrong correction stands, and that HEMS does  *)
(* not rely on a latched guard.                                            *)
(***************************************************************************)
EXTENDS RegulationGuard, TLAPS

LEMMA OlderIsAge ==
    ASSUME NEW limit \in Nat, NEW age \in Age(limit)
    PROVE  Older(age, limit) \in Age(limit)
BY RegulationGuardAssumption DEF Older, Age

LEMMA SinceIsAge ==
    ASSUME NEW limit \in Nat, NEW age \in Age(limit)
    PROVE  Since(age) \in 0..limit /\ Since(age) \in Age(limit)
BY RegulationGuardAssumption DEF Since, Age

LEMMA ZeroIsAge ==
    ASSUME NEW limit \in Nat
    PROVE  0 \in Age(limit) /\ None \in Age(limit)
BY DEF Age

LEMMA UnprovenType ==
    ASSUME NEW g \in Guard
    PROVE  Unproven(g) \in Guard
<1> 0 \in 0..Confirm /\ {} \in SUBSET Offer
  BY RegulationGuardAssumption
<1> None \in Age(Stable) /\ None \in Age(Trial)
  BY DEF Age
<1> QED
  BY DEF Unproven, Guard

LEMMA MeasuredType ==
    ASSUME NEW g \in Guard, NEW i \in Poll
    PROVE  Measured(g, i) \in Guard
<1> i.age \in Age(Loss)
  BY RegulationGuardAssumption DEF Age, Poll
<1> QED
  BY DEF Measured, Guard

LEMMA SteadyType ==
    ASSUME NEW g \in Guard, NEW i \in Poll
    PROVE  Steady(g, i) \in Guard /\ (Valid(i) => Steady(g, i).since \in 0..Stable)
<1> DEFINE kept == IF Valid(i) /\ Continuous(g) THEN g ELSE Unproven(g)
<1>1. kept \in Guard
  BY UnprovenType
<1>2. Since(kept.since) \in 0..Stable /\ Since(kept.since) \in Age(Stable)
  BY <1>1, SinceIsAge, RegulationGuardAssumption DEF Guard
<1>3. 0 \in Age(Fresh + 1) /\ None \in Age(Stable)
  BY ZeroIsAge, RegulationGuardAssumption
<1> QED
  BY <1>1, <1>2, <1>3 DEF Steady, Guard

LEMMA TriedType ==
    ASSUME NEW s \in Guard, NEW g \in Guard, NEW i \in Poll
    PROVE  Tried(s, g, i) \in Guard
<1>1. i.reported \in Age(Fresh + 1)
  BY RegulationGuardAssumption DEF Age, Poll
<1>2. s.matches \in 0..Confirm /\ Confirm \in 0..Confirm /\ 0 \in 0..Confirm
  BY RegulationGuardAssumption DEF Guard
<1>3. s.matches # Confirm => s.matches + 1 \in 0..Confirm
  BY <1>2, RegulationGuardAssumption
<1> QED
  BY <1>1, <1>2, <1>3 DEF Tried, Guard

LEMMA JudgedType ==
    ASSUME NEW t \in Guard
    PROVE  Judged(t) \in Guard
<1>1. Unproven(t) \in Guard
  BY UnprovenType
<1>2. 0 \in 0..Confirm
  BY RegulationGuardAssumption
<1>3. /\ None \in Age(Stable) /\ None \in Age(Trial) /\ None \in Age(Mismatch)
      /\ None \in Age(Loss)
  BY DEF Age
<1>4. Released(t) \in Guard
  BY <1>2, <1>3 DEF Released, Guard
<1> QED
  BY <1>1, <1>4 DEF Judged

LEMMA RecoveredType ==
    ASSUME NEW s \in Guard, NEW g \in Guard, NEW i \in Poll
    PROVE  Recovered(s, g, i) \in Guard
<1>1. Judged(Tried(s, g, i)) \in Guard
  BY TriedType, JudgedType
<1>2. 0 \in Age(Trial) /\ {} \in SUBSET Offer
  BY ZeroIsAge, RegulationGuardAssumption
<1>3. [s EXCEPT !.probe = 0, !.offers = {}] \in Guard
  BY <1>2 DEF Guard
<1> QED
  BY <1>1, <1>3 DEF Recovered

LEMMA WatchedType ==
    ASSUME NEW g \in Guard, NEW i \in Poll,
           NEW matched \in BOOLEAN, NEW comparable \in BOOLEAN
    PROVE  Watched(g, i, matched, comparable) \in Guard
<1>1. MissingSince(g, i) \in Age(Loss)
  <2>1. g.missing \in Age(Loss) /\ g.valid \in Age(Loss)
    BY DEF Guard
  <2>2. 0 \in Age(Loss) /\ None \in Age(Loss)
    BY ZeroIsAge, RegulationGuardAssumption
  <2> QED
    BY <2>1, <2>2 DEF MissingSince
<1>2. BadSince(g, i, matched, comparable) \in Age(Mismatch)
  <2>1. g.bad \in Age(Mismatch) /\ Since(g.bad) \in Age(Mismatch)
    BY SinceIsAge, RegulationGuardAssumption DEF Guard
  <2>2. None \in Age(Mismatch)
    BY DEF Age
  <2> QED
    BY <2>1, <2>2 DEF BadSince
<1> DEFINE w == [g EXCEPT !.missing = MissingSince(g, i),
                          !.bad = BadSince(g, i, matched, comparable)]
<1>3. w \in Guard
  BY <1>1, <1>2 DEF Guard
<1>4. \A r \in Reasons \cup {None} : [w EXCEPT !.latched = r] \in Guard
  BY <1>3 DEF Guard
<1>5. MISMATCH \in Reasons /\ LOSS \in Reasons
  BY DEF Reasons
<1> QED
  BY <1>4, <1>5 DEF Watched

LEMMA CheckedType ==
    ASSUME NEW g \in Guard, NEW i \in Poll
    PROVE  Checked(g, i) \in Guard
<1> DEFINE m == Measured(g, i)
           r == IF Recovers(g) THEN Recovered(Steady(m, i), m, i) ELSE m
<1>1. m \in Guard
  BY MeasuredType
<1>2. r \in Guard
  BY <1>1, SteadyType, RecoveredType
<1>3. Matched(g, i) \in BOOLEAN /\ Comparable(g) \in BOOLEAN
  BY DEF Matched, Comparable
<1> HIDE DEF m, r
<1>4. Watched(r, i, Matched(g, i), Comparable(g)) \in Guard
  BY <1>2, <1>3, WatchedType
<1> QED
  BY <1>2, <1>4 DEF Checked, m, r

LEMMA OfferedType ==
    ASSUME NEW g \in Guard, NEW i \in Poll
    PROVE  Offered(g, i) \in Guard
<1>1. [age |-> 0, value |-> i.candidate, sent |-> Permits(g)] \in Offer
  BY RegulationGuardAssumption DEF Offer, Poll, Permits
<1>2. g.offers \cup {[age |-> 0, value |-> i.candidate, sent |-> Permits(g)]}
        \in SUBSET Offer
  BY <1>1 DEF Guard
<1> QED
  BY <1>2 DEF Offered, Guard

-----------------------------------------------------------------------------
(* What one check does to a guard. *)

\* Only a latched loss is on trial.
TrialIsOfLoss(g) == g.latched # LOSS => g.probe = None

LEMMA SteadyKeeps ==
    ASSUME NEW g \in Guard, NEW i \in Poll
    PROVE  LET s == Steady(g, i) IN
           /\ s.latched = g.latched
           /\ \/ s.probe = g.probe /\ s.offers = g.offers
              \/ s.probe = None /\ s.offers = {}
BY DEF Steady, Unproven, Guard

LEMMA TriedKeeps ==
    ASSUME NEW s \in Guard, NEW g \in Guard, NEW i \in Poll
    PROVE  /\ Tried(s, g, i).latched = s.latched
           /\ Tried(s, g, i).probe = s.probe /\ Tried(s, g, i).offers = s.offers
           /\ Tried(s, g, i).matches = Confirm => Matched(g, i)
BY RegulationGuardAssumption DEF Tried, Guard, Confirmed

\* After a trial a loss is still latched, or it is released because the consumer
\* showed an offered value.
LEMMA RecoveredKeeps ==
    ASSUME NEW s \in Guard, s.latched = LOSS, NEW g \in Guard, NEW i \in Poll
    PROVE  LET r == Recovered(s, g, i) IN
           /\ r.latched = LOSS /\ r.probe # None =>
                 \/ r.offers = {}
                 \/ s.probe # None /\ r.offers = s.offers
           /\ r.latched # LOSS =>
                 /\ r.latched = None /\ r.probe = None /\ r.missing = None /\ r.bad = None
                 /\ s.probe # None /\ r.offers = s.offers
                 /\ Valid(i) /\ Matched(g, i)
<1> DEFINE t == Tried(s, g, i)
<1>1. t \in Guard
  BY TriedType
<1>2. /\ t.latched = LOSS /\ t.probe = s.probe /\ t.offers = s.offers
      /\ t.matches = Confirm => Matched(g, i)
  BY TriedKeeps
<1>3. CASE ~MayTry(s, i)
  BY <1>3 DEF Recovered, Guard
<1>4. CASE MayTry(s, i) /\ s.probe = None
  BY <1>4 DEF Recovered, Guard
<1>5. CASE MayTry(s, i) /\ s.probe # None
  <2>1. Recovered(s, g, i) = Judged(t)
    BY <1>5 DEF Recovered
  <2> HIDE DEF t
  <2>2. CASE t.matches = Confirm
    <3>1. Judged(t) = Released(t)
      BY <2>2 DEF Judged
    <3>2. /\ Released(t).latched = None /\ Released(t).probe = None
          /\ Released(t).missing = None /\ Released(t).bad = None
          /\ Released(t).offers = t.offers
      BY <1>1 DEF Released, Guard
    <3> QED
      BY <1>2, <1>5, <2>1, <2>2, <3>1, <3>2, RegulationGuardAssumption
         DEF MayTry, LOSS, Reasons
  <2>3. CASE t.matches # Confirm
    BY <1>1, <1>2, <1>5, <2>1, <2>3 DEF Judged, Unproven, Guard
  <2> QED
    BY <2>2, <2>3
<1> QED
  BY <1>3, <1>4, <1>5

LEMMA WatchedKeeps ==
    ASSUME NEW g \in Guard, NEW i \in Poll,
           NEW matched \in BOOLEAN, NEW comparable \in BOOLEAN
    PROVE  LET w == Watched(g, i, matched, comparable) IN
           /\ w.probe = g.probe /\ w.offers = g.offers
           /\ w.latched \in {None, LOSS, MISMATCH}
           /\ Valid(i) /\ matched => w.latched = None
<1> DEFINE w == [g EXCEPT !.missing = MissingSince(g, i),
                          !.bad = BadSince(g, i, matched, comparable)]
<1>1. w.probe = g.probe /\ w.offers = g.offers
  BY DEF Guard
<1>2. Valid(i) /\ matched => w.missing = None /\ w.bad = None
  BY DEF Valid, Lost, Usable, MissingSince, BadSince, Guard
<1>3. \A r : /\ [w EXCEPT !.latched = r].latched = r
             /\ [w EXCEPT !.latched = r].probe = w.probe
             /\ [w EXCEPT !.latched = r].offers = w.offers
  BY DEF Guard
<1>4. Valid(i) /\ matched => ~LossDue(w) /\ ~WrongDue(w, i, comparable)
  BY <1>2 DEF LossDue, WrongDue
<1> QED
  BY <1>1, <1>3, <1>4 DEF Watched

LEMMA MeasuredKeeps ==
    ASSUME NEW g \in Guard, NEW i \in Poll
    PROVE  /\ Measured(g, i).latched = g.latched /\ Measured(g, i).probe = g.probe
           /\ Measured(g, i).offers = g.offers
           /\ Matched(Measured(g, i), i) = Matched(g, i)
BY DEF Measured, Matched, Guard

LEMMA CheckedKeeps ==
    ASSUME NEW g \in Guard, TrialIsOfLoss(g), NEW i \in Poll
    PROVE  LET c == Checked(g, i) IN
           /\ TrialIsOfLoss(c)
           /\ Permits(c) =>
                 \/ c.offers = {}
                 \/ Permits(g) /\ c.offers = g.offers
           /\ g.latched \notin {None, LOSS} => c.latched = g.latched
           /\ g.latched = LOSS => c.latched \in {None, LOSS}
<1> DEFINE m == Measured(g, i)
           s == Steady(m, i)
           w(r) == Watched(r, i, Matched(g, i), Comparable(g))
<1>1. m \in Guard /\ s \in Guard
  BY MeasuredType, SteadyType
<1>2. /\ m.latched = g.latched /\ m.probe = g.probe /\ m.offers = g.offers
      /\ Matched(m, i) = Matched(g, i)
  BY MeasuredKeeps
<1>3. /\ s.latched = m.latched
      /\ \/ s.probe = m.probe /\ s.offers = m.offers
         \/ s.probe = None /\ s.offers = {}
  BY <1>1, SteadyKeeps
<1>4. Matched(g, i) \in BOOLEAN /\ Comparable(g) \in BOOLEAN
  BY DEF Matched, Comparable
<1>5. None # LOSS /\ MISMATCH # LOSS
  BY RegulationGuardAssumption DEF LOSS, MISMATCH, Reasons
<1>6. ASSUME NEW r \in Guard
      PROVE  /\ w(r).probe = r.probe /\ w(r).offers = r.offers
             /\ w(r).latched \in {None, LOSS, MISMATCH}
             /\ Valid(i) /\ Matched(g, i) => w(r).latched = None
  BY <1>4, <1>6, WatchedKeeps
<1>7. CASE g.latched \notin {None, LOSS}
  <2>1. Checked(g, i) = m
    BY <1>2, <1>7 DEF Checked, Recovers
  <2> QED
    BY <2>1, <1>2, <1>7 DEF TrialIsOfLoss, Permits, Recovering
<1>8. CASE g.latched = None
  <2>1. Checked(g, i) = w(m)
    BY <1>2, <1>5, <1>8 DEF Checked, Recovers
  <2>2. /\ w(m).probe = m.probe /\ w(m).offers = m.offers
    BY <1>1, <1>6
  <2> HIDE DEF w, m
  <2> QED
    BY <2>1, <2>2, <1>2, <1>5, <1>8 DEF TrialIsOfLoss, Permits
<1>9. CASE g.latched = LOSS
  <2> DEFINE r == Recovered(s, m, i)
  <2>1. r \in Guard
    BY <1>1, RecoveredType
  <2>2. /\ r.latched = LOSS /\ r.probe # None =>
              \/ r.offers = {}
              \/ s.probe # None /\ r.offers = s.offers
        /\ r.latched # LOSS =>
              /\ r.latched = None /\ r.probe = None
              /\ s.probe # None /\ r.offers = s.offers
              /\ Valid(i) /\ Matched(m, i)
    BY <1>1, <1>2, <1>3, <1>9, RecoveredKeeps
  <2>3. Checked(g, i) = IF r.latched = None THEN w(r) ELSE r
    BY <1>9 DEF Checked, Recovers
  <2>4. /\ w(r).probe = r.probe /\ w(r).offers = r.offers
        /\ Valid(i) /\ Matched(g, i) => w(r).latched = None
    BY <2>1, <1>6
  <2> HIDE DEF w, r, s, m
  <2>5. CASE r.latched = LOSS
    BY <2>2, <2>3, <2>5, <1>2, <1>3, <1>5, <1>9 DEF TrialIsOfLoss, Permits, Recovering
  <2>6. CASE r.latched # LOSS
    BY <2>2, <2>3, <2>4, <2>6, <1>2, <1>3, <1>5, <1>9
       DEF TrialIsOfLoss, Permits, Recovering
  <2> QED
    BY <2>5, <2>6
<1> QED
  BY <1>7, <1>8, <1>9

-----------------------------------------------------------------------------
(* The invariant. *)

\* What is on file is latched, and HEMS relies on nothing measured after the latch.
FileIsLatched == file # None => guard.latched # None
ReliesOnBefore == relies # None /\ guard.latched # None => latchedFor <= relies

IInv ==
    /\ Types /\ TrialIsOfLoss(guard) /\ ComparesTransmitted
    /\ FileIsLatched /\ ReliesOnBefore

LEMMA StartedType ==
    ASSUME NEW f \in Reasons \cup {"corrupt", None}
    PROVE  /\ Started(f) \in Guard
           /\ Started(f).probe = None /\ Started(f).offers = {}
           /\ Started(f).latched # None <=> f # None
<1>1. /\ None \in Age(Stable) /\ None \in Age(Fresh + 1) /\ None \in Age(Trial)
      /\ None \in Age(Mismatch) /\ None \in Age(Loss)
  BY DEF Age
<1>2. 0 \in 0..Confirm /\ {} \in SUBSET Offer
  BY RegulationGuardAssumption
<1>3. UNREADABLE \in Reasons /\ UNREADABLE # None /\ None \notin Reasons /\ None # "corrupt"
  BY RegulationGuardAssumption DEF Reasons
<1> QED
  BY <1>1, <1>2, <1>3 DEF Started, Guard

LEMMA InitIInv == Init => IInv
<1> SUFFICES ASSUME Init PROVE IInv
  OBVIOUS
<1>1. file \in Reasons \cup {"corrupt", None} /\ guard = Started(file)
  BY DEF Init
<1>2. /\ guard \in Guard /\ guard.probe = None /\ guard.offers = {}
      /\ guard.latched # None <=> file # None
  BY <1>1, StartedType
<1>3. Types
  <2>1. 0 \in 0..Fresh + 1
    BY RegulationGuardAssumption
  <2> QED
    BY <1>1, <1>2, <2>1 DEF Init, Types
<1> QED
  BY <1>2, <1>3 DEF Init, IInv, TrialIsOfLoss, ComparesTransmitted, FileIsLatched,
                    ReliesOnBefore

LEMMA UpdatedType ==
    ASSUME Types, NEW g \in Guard, NEW i \in Poll
    PROVE  Updated(g, i) \in Snapshot
<1>1. i.candidate \in Candidates /\ i.age \in 0..Grace + 1
  BY RegulationGuardAssumption DEF Poll
<1>2. 0 \in 0..Fresh + 1 /\ 0 \in 0..Grace + 1
  BY RegulationGuardAssumption
<1>3. MayHold(g) => lastGood \in Good
  BY DEF MayHold, Types
<1> QED
  BY <1>1, <1>2, <1>3 DEF Updated, Blocked, Snapshot, Good

\* What is published is no ground to rely on a latched guard.
LEMMA LatchIsNoGround ==
    ASSUME NEW g \in Guard, g.latched # None, NEW i \in Poll
    PROVE  Ground(g, Updated(g, i)) = None
<1>1. CASE Recovering(g)
  BY <1>1 DEF Ground
<1>2. CASE ~Recovering(g)
  BY <1>2 DEF Ground, Updated, Permits, MayHold, Blocked
<1> QED
  BY <1>1, <1>2

LEMMA OfferedKeeps ==
    ASSUME NEW g \in Guard, NEW i \in Poll
    PROVE  /\ Offered(g, i).latched = g.latched /\ Offered(g, i).probe = g.probe
           /\ \A o \in Offered(g, i).offers : o \in g.offers \/ o.sent = Permits(g)
BY DEF Offered, Guard

LEMMA PollIInv ==
    ASSUME IInv, NEW i \in Poll, RegulationPoll(i)
    PROVE  IInv'
<1> USE DEF IInv
<1> DEFINE g == Checked(guard, i)
<1>1. guard \in Guard /\ g \in Guard
  BY CheckedType DEF Types
<1>2. /\ TrialIsOfLoss(g)
      /\ Permits(g) =>
            \/ g.offers = {}
            \/ Permits(guard) /\ g.offers = guard.offers
      /\ guard.latched # None /\ g.latched # None => g.latched = guard.latched
  BY <1>1, CheckedKeeps
<1> HIDE DEF g
<1>3. /\ guard' = Offered(g, i) /\ snapshot' = Updated(g, i)
      /\ lastGood' = IF i.status = "ready" /\ Permits(g)
                     THEN [value |-> i.candidate, measured |-> i.age] ELSE lastGood
      /\ relies' = Ground(g, Updated(g, i)) \/ relies' = relies
      /\ file' = IF g.latched # guard.latched THEN g.latched ELSE file
      /\ latchedFor' = IF g.latched # None /\ guard.latched = None THEN 0 ELSE latchedFor
      /\ polled' = TRUE /\ completed' = TRUE /\ enabled' = enabled
  BY DEF RegulationPoll, Store, LatchedFor, g
<1>4. /\ Offered(g, i).latched = g.latched /\ Offered(g, i).probe = g.probe
      /\ \A o \in Offered(g, i).offers : o \in g.offers \/ o.sent = Permits(g)
  BY <1>1, OfferedKeeps
<1>5. Types'
  <2>1. Offered(g, i) \in Guard /\ Updated(g, i) \in Snapshot
    BY <1>1, OfferedType, UpdatedType
  <2>2. [value |-> i.candidate, measured |-> i.age] \in Good
    BY RegulationGuardAssumption DEF Good, Poll
  <2>3. Ground(g, Updated(g, i)) \in 0..Fresh \cup {None}
    BY <2>1, RegulationGuardAssumption DEF Ground, Snapshot
  <2>4. g.latched \in Reasons \cup {None} /\ 0 \in 0..Fresh + 1
    BY <1>1, RegulationGuardAssumption DEF Guard
  <2> QED
    BY <1>3, <2>1, <2>2, <2>3, <2>4 DEF Types
<1>6. TrialIsOfLoss(guard)'
  BY <1>2, <1>3, <1>4 DEF TrialIsOfLoss
<1>7. ComparesTransmitted'
  <2>1. Permits(Offered(g, i)) <=> Permits(g)
    BY <1>4 DEF Permits, Recovering
  <2> QED
    BY <1>2, <1>3, <1>4, <2>1 DEF ComparesTransmitted
<1>8. FileIsLatched'
  BY <1>2, <1>3, <1>4 DEF FileIsLatched
<1>9. ReliesOnBefore'
  <2>1. g.latched # None => relies' = None \/ relies' = relies
    BY <1>1, <1>3, LatchIsNoGround
  <2>2. relies # None => relies >= 0
    BY RegulationGuardAssumption DEF Types
  <2> QED
    BY <1>2, <1>3, <1>4, <2>1, <2>2 DEF ReliesOnBefore
<1> QED
  BY <1>5, <1>6, <1>7, <1>8, <1>9

LEMMA RaisesIInv ==
    ASSUME IInv, NEW i \in Poll, PollRaises(i)
    PROVE  IInv'
<1> USE DEF IInv
<1> DEFINE g == Checked(guard, i)
           t == Tried(Steady(Measured(guard, i), i), guard, i)
<1>1. guard \in Guard /\ g \in Guard /\ t \in Guard
  BY CheckedType, MeasuredType, SteadyType, TriedType DEF Types
<1>2. /\ TrialIsOfLoss(g)
      /\ guard.latched \notin {None, LOSS} => g.latched = guard.latched
  BY <1>1, CheckedKeeps
<1>3. /\ t.latched = guard.latched
      /\ \/ t.probe = guard.probe /\ t.offers = guard.offers
         \/ t.probe = None /\ t.offers = {}
  <2> DEFINE m == Measured(guard, i)
             st == Steady(m, i)
  <2>1. m \in Guard /\ st \in Guard
    BY <1>1, MeasuredType, SteadyType
  <2>2. m.latched = guard.latched /\ m.probe = guard.probe /\ m.offers = guard.offers
    BY <1>1, MeasuredKeeps
  <2>3. /\ st.latched = m.latched
        /\ \/ st.probe = m.probe /\ st.offers = m.offers
           \/ st.probe = None /\ st.offers = {}
    BY <2>1, SteadyKeeps
  <2>4. t.latched = st.latched /\ t.probe = st.probe /\ t.offers = st.offers
    BY <1>1, <2>1, TriedKeeps
  <2> HIDE DEF m, st, t
  <2> QED
    BY <2>2, <2>3, <2>4
<1> HIDE DEF g, t
<1>4. /\ latchedFor' = IF guard'.latched # None /\ guard.latched = None THEN 0 ELSE latchedFor
      /\ polled' = TRUE /\ completed' = FALSE /\ enabled' = enabled
      /\ snapshot' = snapshot /\ lastGood' = lastGood /\ relies' = relies
  BY DEF PollRaises, LatchedFor
<1>5. 0 \in 0..Fresh + 1 /\ (relies # None => relies >= 0)
  BY RegulationGuardAssumption DEF Types
<1>6. LOSS \in Reasons /\ MISMATCH \in Reasons /\ LOSS # None /\ MISMATCH # None
  BY RegulationGuardAssumption DEF Reasons
<1>7. RaisesIn(g, i)
  BY DEF PollRaises, g
<1>8. CASE guard.latched = None /\ g.latched = MISMATCH /\ guard' = g
           /\ file' = IF LossDue(g) THEN LOSS ELSE file
  <2>1. g.probe = None /\ ~Permits(g)
    BY <1>2, <1>6, <1>8 DEF TrialIsOfLoss, Permits, Recovering, LOSS, MISMATCH
  <2> QED
    BY <1>1, <1>4, <1>5, <1>6, <1>8, <2>1
       DEF Types, TrialIsOfLoss, ComparesTransmitted, FileIsLatched, ReliesOnBefore
<1>9. CASE guard.latched = None /\ LossDue(g) /\ file' = file
           /\ guard' = [g EXCEPT !.latched = LOSS, !.bad = guard.bad]
  <2>1. /\ guard' \in Guard /\ guard'.latched = LOSS /\ guard'.probe = g.probe
        /\ guard'.offers = g.offers
    BY <1>1, <1>6, <1>9 DEF Guard
  <2>2. ComparesTransmitted'
    <3>1. guard.probe = None
      BY <1>6, <1>9 DEF TrialIsOfLoss
    <3>2. Recovers(guard) = FALSE
      BY <1>6, <1>9 DEF Recovers
    <3>3. g.probe = None
      <4>1. g = IF Measured(guard, i).latched = None
                THEN Watched(Measured(guard, i), i, Matched(guard, i), Comparable(guard))
                ELSE Measured(guard, i)
        BY <3>2 DEF g, Checked
      <4>2. Matched(guard, i) \in BOOLEAN /\ Comparable(guard) \in BOOLEAN
        BY DEF Matched, Comparable
      <4> QED
        BY <1>1, <3>1, <4>1, <4>2, MeasuredType, MeasuredKeeps, WatchedKeeps
    <3> QED
      BY <2>1, <3>3, <1>6 DEF ComparesTransmitted, Permits, Recovering
  <2> QED
    BY <1>4, <1>5, <1>6, <1>9, <2>1, <2>2
       DEF Types, TrialIsOfLoss, FileIsLatched, ReliesOnBefore
<1>10. CASE guard.latched # None /\ g.latched = None /\ guard' = t /\ file' = file
  <2>1. Permits(t) => Permits(guard) /\ t.offers = guard.offers
    BY <1>3, <1>10 DEF Permits, Recovering
  <2> QED
    BY <1>1, <1>3, <1>4, <1>5, <1>10, <2>1
       DEF Types, TrialIsOfLoss, ComparesTransmitted, FileIsLatched, ReliesOnBefore
<1> QED
  BY <1>7, <1>8, <1>9, <1>10 DEF RaisesIn, t

LEMMA ElapseIInv ==
    ASSUME IInv, Elapse
    PROVE  IInv'
<1> USE DEF IInv
<1>1. guard \in Guard /\ snapshot \in Snapshot \cup {None} /\ lastGood \in Good \cup {None}
  BY DEF Types
<1> DEFINE aged == {[o EXCEPT !.age = @ + 1] : o \in {p \in guard.offers : p.age < Transfer}}
<1>2. aged \in SUBSET Offer
  BY <1>1, RegulationGuardAssumption DEF Guard, Offer
<1>3. \A o \in aged : \E p \in guard.offers : o.sent = p.sent
  BY <1>1 DEF Guard, Offer
<1> HIDE DEF aged
<1>4. guard' = [guard EXCEPT
           !.since = Older(@, Stable), !.previous = Older(@, Fresh + 1),
           !.probe = Older(@, Trial), !.consumer = Older(@, Fresh + 1),
           !.bad = Older(@, Mismatch), !.missing = Older(@, Loss),
           !.valid = Older(@, Loss), !.offers = aged]
  BY DEF Elapse, aged
<1>5. /\ guard' \in Guard /\ guard'.latched = guard.latched /\ guard'.offers = aged
      /\ guard.probe = None <=> guard'.probe = None
  <2>1. /\ Older(guard.since, Stable) \in Age(Stable)
        /\ Older(guard.previous, Fresh + 1) \in Age(Fresh + 1)
        /\ Older(guard.probe, Trial) \in Age(Trial)
        /\ Older(guard.consumer, Fresh + 1) \in Age(Fresh + 1)
        /\ Older(guard.bad, Mismatch) \in Age(Mismatch)
        /\ Older(guard.missing, Loss) \in Age(Loss)
        /\ Older(guard.valid, Loss) \in Age(Loss)
    BY <1>1, OlderIsAge, RegulationGuardAssumption DEF Guard
  <2>2. guard.probe = None <=> Older(guard.probe, Trial) = None
    BY <1>1, RegulationGuardAssumption DEF Older, Guard, Age
  <2> QED
    BY <1>1, <1>2, <1>4, <2>1, <2>2 DEF Guard
<1>6. /\ relies' = IF relies \in {None, Fresh} THEN None ELSE relies + 1
      /\ latchedFor' = Older(latchedFor, Fresh + 1)
      /\ polled' = FALSE /\ enabled' = enabled /\ file' = file /\ completed' = completed
  BY DEF Elapse
<1>7. snapshot' \in Snapshot \cup {None}
  <2>1. CASE snapshot = None
    BY <2>1 DEF Elapse
  <2>2. CASE snapshot # None
    <3>1. /\ Older(snapshot.evaluated, Fresh + 1) \in 0..Fresh + 1
          /\ Older(snapshot.measured, Grace + 1) \in 0..Grace + 1
      BY <1>1, <2>2, RegulationGuardAssumption DEF Older, Snapshot
    <3> QED
      BY <1>1, <2>2, <3>1 DEF Elapse, Snapshot
  <2> QED
    BY <2>1, <2>2
<1>8. lastGood' \in Good \cup {None}
  <2>1. CASE lastGood = None
    BY <2>1 DEF Elapse
  <2>2. CASE lastGood # None
    <3>1. Older(lastGood.measured, Grace + 1) \in 0..Grace + 1
      BY <1>1, <2>2, RegulationGuardAssumption DEF Older, Good
    <3> QED
      BY <1>1, <2>2, <3>1 DEF Elapse, Good
  <2> QED
    BY <2>1, <2>2
<1>9. /\ relies' \in 0..Fresh \cup {None} /\ latchedFor' \in 0..Fresh + 1
      /\ relies' # None => relies # None /\ relies' = relies + 1
      /\ latchedFor' \in {latchedFor, latchedFor + 1}
  BY <1>6, RegulationGuardAssumption DEF Types, Older
<1>10. Types'
  BY <1>5, <1>6, <1>7, <1>8, <1>9 DEF Types
<1>11. ReliesOnBefore'
  BY <1>5, <1>9, RegulationGuardAssumption DEF ReliesOnBefore, Types
<1>12. ComparesTransmitted'
  BY <1>3, <1>5 DEF ComparesTransmitted, Permits, Recovering
<1> QED
  BY <1>5, <1>6, <1>10, <1>11, <1>12 DEF TrialIsOfLoss, FileIsLatched

LEMMA RestartIInv ==
    ASSUME IInv, NEW on \in BOOLEAN, Restart(on)
    PROVE  IInv'
<1> USE DEF IInv
<1>1. /\ file' = (IF on THEN file ELSE None) /\ guard' = Started(file')
      /\ enabled' = on /\ snapshot' = None /\ lastGood' = None
      /\ polled' = FALSE /\ completed' = FALSE
      /\ relies' = relies /\ latchedFor' = latchedFor
  BY DEF Restart
<1>2. file' \in Reasons \cup {"corrupt", None}
  BY <1>1 DEF Types
<1>3. /\ guard' \in Guard /\ guard'.probe = None /\ guard'.offers = {}
      /\ guard'.latched # None <=> file' # None
  BY <1>1, <1>2, StartedType
<1>4. Types'
  BY <1>1, <1>2, <1>3 DEF Types
<1>5. FileIsLatched' /\ ReliesOnBefore'
  BY <1>1, <1>3 DEF FileIsLatched, ReliesOnBefore
<1> QED
  BY <1>3, <1>4, <1>5 DEF TrialIsOfLoss, ComparesTransmitted

LEMMA NextIInv == IInv /\ [Next]_vars => IInv'
<1> SUFFICES ASSUME IInv, [Next]_vars PROVE IInv'
  OBVIOUS
<1>1. Polls \subseteq Poll
  BY DEF Polls
<1>2. CASE \E i \in Polls : RegulationPoll(i) \/ PollRaises(i)
  BY <1>1, <1>2, PollIInv, RaisesIInv
<1>3. CASE Elapse
  BY <1>3, ElapseIInv
<1>4. CASE \E on \in BOOLEAN : Restart(on)
  BY <1>4, RestartIInv
<1>5. CASE UNCHANGED vars
  BY <1>5 DEF IInv, vars, Types, TrialIsOfLoss, ComparesTransmitted, FileIsLatched,
              ReliesOnBefore, Permits, Recovering
<1> QED
  BY <1>2, <1>3, <1>4, <1>5 DEF Next

THEOREM Invariance == Spec => []IInv
<1> QED
  BY InitIInv, NextIInv, PTL DEF Spec

-----------------------------------------------------------------------------
(* Nothing of a trial outlives it. *)

LEMMA MeasuredOnTrial ==
    ASSUME NEW g \in Guard, OnTrial(g), NEW i \in Poll
    PROVE  OnTrial(Measured(g, i))
BY DEF OnTrial, Measured, Guard

LEMMA SteadyOnTrial ==
    ASSUME NEW g \in Guard, OnTrial(g), NEW i \in Poll
    PROVE  OnTrial(Steady(g, i))
<1>1. 0 \in Nat /\ ~(0 > 0) /\ None \notin Nat
  BY RegulationGuardAssumption
<1>2. Since(g.since) \in Nat
  BY SinceIsAge, RegulationGuardAssumption DEF Guard
<1>3. CASE Valid(i) /\ Continuous(g)
  BY <1>1, <1>2, <1>3 DEF OnTrial, Steady, Guard
<1>4. CASE ~(Valid(i) /\ Continuous(g))
  BY <1>1, <1>4 DEF OnTrial, Steady, Unproven, Guard
<1> QED
  BY <1>3, <1>4

LEMMA TriedOnTrial ==
    ASSUME NEW s \in Guard, OnTrial(s), s.probe # None, NEW g \in Guard, NEW i \in Poll
    PROVE  OnTrial(Tried(s, g, i))
BY DEF OnTrial, Tried, Guard

LEMMA JudgedOnTrial ==
    ASSUME NEW t \in Guard, OnTrial(t)
    PROVE  OnTrial(Judged(t))
<1>1. ~(0 > 0)
  OBVIOUS
<1>2. OnTrial(Released(t)) /\ OnTrial(Unproven(t))
  BY <1>1 DEF OnTrial, Released, Unproven, Guard
<1> QED
  BY <1>2 DEF Judged

LEMMA RecoveredOnTrial ==
    ASSUME NEW s \in Guard, OnTrial(s), s.latched = LOSS, NEW g \in Guard, NEW i \in Poll,
           Valid(i) => s.since \in 0..Stable
    PROVE  OnTrial(Recovered(s, g, i))
<1>1. CASE ~MayTry(s, i)
  BY <1>1 DEF Recovered
<1>2. CASE MayTry(s, i) /\ s.probe = None
  <2>1. s.since # None
    BY <1>2, RegulationGuardAssumption DEF MayTry
  <2> QED
    BY <1>2, <2>1, RegulationGuardAssumption DEF Recovered, OnTrial, Guard
<1>3. CASE MayTry(s, i) /\ s.probe # None
  BY <1>3, TriedType, TriedOnTrial, JudgedOnTrial DEF Recovered
<1> QED
  BY <1>1, <1>2, <1>3

LEMMA WatchedOnTrial ==
    ASSUME NEW g \in Guard, OnTrial(g), g.latched = None, NEW i \in Poll,
           NEW matched \in BOOLEAN, NEW comparable \in BOOLEAN
    PROVE  OnTrial(Watched(g, i, matched, comparable))
<1>1. g.probe = None
  BY RegulationGuardAssumption DEF OnTrial, LOSS, Reasons
<1>2. Watched(g, i, matched, comparable).matches = g.matches
  BY DEF Watched, Guard
<1> QED
  BY <1>1, <1>2, WatchedKeeps DEF OnTrial

LEMMA CheckedOnTrial ==
    ASSUME NEW g \in Guard, OnTrial(g), NEW i \in Poll
    PROVE  OnTrial(Checked(g, i))
<1> DEFINE m == Measured(g, i)
           s == Steady(m, i)
           r == IF Recovers(g) THEN Recovered(s, m, i) ELSE m
<1>1. m \in Guard /\ OnTrial(m) /\ m.latched = g.latched
  BY MeasuredType, MeasuredOnTrial, MeasuredKeeps
<1>2. s \in Guard /\ OnTrial(s) /\ s.latched = m.latched /\ (Valid(i) => s.since \in 0..Stable)
  BY <1>1, SteadyType, SteadyOnTrial, SteadyKeeps
<1>3. r \in Guard /\ OnTrial(r)
  BY <1>1, <1>2, RecoveredType, RecoveredOnTrial DEF Recovers
<1>4. Matched(g, i) \in BOOLEAN /\ Comparable(g) \in BOOLEAN
  BY DEF Matched, Comparable
<1>5. Checked(g, i) = IF r.latched = None
                      THEN Watched(r, i, Matched(g, i), Comparable(g)) ELSE r
  BY DEF Checked
<1> HIDE DEF r
<1> QED
  BY <1>3, <1>4, <1>5, WatchedOnTrial

LEMMA RaisesOnTrial ==
    ASSUME Types, OnTrial(guard), NEW i \in Poll, PollRaises(i)
    PROVE  OnTrial(guard')
<1> DEFINE g == Checked(guard, i)
           m == Measured(guard, i)
           s == Steady(m, i)
<1>1. guard \in Guard /\ g \in Guard /\ OnTrial(g)
  BY CheckedType, CheckedOnTrial DEF Types
<1>2. m \in Guard /\ OnTrial(m) /\ m.latched = guard.latched
  BY <1>1, MeasuredType, MeasuredOnTrial, MeasuredKeeps
<1>3. s \in Guard /\ OnTrial(s) /\ s.latched = m.latched
  BY <1>2, SteadyType, SteadyOnTrial, SteadyKeeps
<1>4. None # LOSS /\ MISMATCH # LOSS
  BY RegulationGuardAssumption DEF LOSS, MISMATCH, Reasons
<1>5. ASSUME g.latched = None, guard.latched # None, guard' = Tried(s, guard, i)
      PROVE  OnTrial(guard')
  <2>1. guard.latched = LOSS
    BY <1>1, <1>5, CheckedKeeps DEF OnTrial, TrialIsOfLoss
  <2> DEFINE r == Recovered(s, m, i)
  <2>2. g = IF r.latched = None
            THEN Watched(r, i, Matched(guard, i), Comparable(guard)) ELSE r
    BY <2>1 DEF Checked, Recovers
  <2>3. r.latched # LOSS
    BY <1>4, <1>5, <2>2
  <2>4. s.probe # None
    BY <1>2, <1>3, <2>1, <2>3, RecoveredKeeps
  <2> HIDE DEF s
  <2> QED
    BY <1>1, <1>3, <1>5, <2>4, TriedOnTrial
<1>6. ASSUME guard.latched = None, guard' = [g EXCEPT !.latched = LOSS, !.bad = guard.bad]
      PROVE  OnTrial(guard')
  <2> HIDE DEF g
  <2> QED
    BY <1>1, <1>6 DEF OnTrial, Guard
<1> HIDE DEF g, m, s
<1>7. RaisesIn(g, i)
  BY DEF PollRaises, g
<1> QED
  BY <1>1, <1>5, <1>6, <1>7 DEF RaisesIn, m, s

LEMMA NextOnTrial == Types /\ OnTrial(guard) /\ [Next]_vars => OnTrial(guard)'
<1> SUFFICES ASSUME Types, OnTrial(guard), [Next]_vars PROVE OnTrial(guard')
  OBVIOUS
<1>1. Polls \subseteq Poll /\ guard \in Guard
  BY DEF Polls, Types
<1>2. ASSUME NEW i \in Polls, RegulationPoll(i)
      PROVE  OnTrial(guard')
  <2>1. guard' = Offered(Checked(guard, i), i)
    BY <1>2 DEF RegulationPoll, Store
  <2>2. Checked(guard, i) \in Guard /\ OnTrial(Checked(guard, i))
    BY <1>1, CheckedType, CheckedOnTrial
  <2> HIDE DEF Checked
  <2> QED
    BY <2>1, <2>2 DEF Offered, OnTrial, Guard
<1>3. ASSUME NEW i \in Polls, PollRaises(i)
      PROVE  OnTrial(guard')
  BY <1>1, <1>3, RaisesOnTrial
<1>4. CASE Elapse
  <2>1. /\ guard.probe # None <=> guard'.probe # None
        /\ guard.since # None <=> guard'.since # None
    BY <1>1, <1>4, RegulationGuardAssumption DEF Elapse, Older, Guard, Age
  <2>2. guard'.latched = guard.latched /\ guard'.matches = guard.matches
    BY <1>1, <1>4 DEF Elapse, Guard
  <2> QED
    BY <2>1, <2>2 DEF OnTrial
<1>5. CASE \E on \in BOOLEAN : Restart(on)
  BY <1>5 DEF Restart, Started, OnTrial
<1>6. CASE UNCHANGED vars
  BY <1>6 DEF vars, OnTrial
<1> QED
  BY <1>2, <1>3, <1>4, <1>5, <1>6 DEF Next

\* The guard, the snapshot and what is published have their types, and nothing of a
\* trial outlives it: a guard that has released its latch is not "recovering" when
\* the next loss latches it, and HEMS is not told to trust it.
THEOREM TypesHold == Spec => []TypeOK
<1>1. Init => OnTrial(guard)
  BY DEF Init, Started, OnTrial
<1>2. IInv => Types
  BY DEF IInv
<1>3. Types /\ OnTrial(guard) => TypeOK
  BY DEF TypeOK
<1> QED
  BY <1>1, <1>2, <1>3, Invariance, NextOnTrial, PTL DEF Spec

\* What the guard compares with the consumer was transmitted, for every tolerance,
\* timing and fault.
THEOREM GuardComparesTransmitted == Spec => []ComparesTransmitted
<1>1. IInv => ComparesTransmitted
  BY DEF IInv
<1> QED
  BY <1>1, Invariance, PTL

\* HEMS relies on a latched guard for no longer than a measurement stays fresh.
THEOREM HemsReliesOnProven == Spec => []ReliesOnProven
<1>1. IInv => ReliesOnProven
  <2> SUFFICES ASSUME IInv, relies # None, guard.latched # None
               PROVE  latchedFor <= Fresh
    BY DEF ReliesOnProven
  <2>1. relies \in 0..Fresh /\ latchedFor \in 0..Fresh + 1 /\ latchedFor <= relies
    BY DEF IInv, Types, ReliesOnBefore
  <2> QED
    BY <2>1, RegulationGuardAssumption
<1> QED
  BY <1>1, Invariance, PTL

\* A wrong correction stands until the user turns the correction off.
THEOREM WrongCorrectionIsFinal == Spec => WrongCorrectionStands
<1> DEFINE Stands ==
      enabled' /\ guard.latched \in {MISMATCH, UNREADABLE}
          /\ guard.latched = Started(file).latched => guard'.latched = guard.latched
<1>1. IInv /\ [Next]_vars => [Stands]_vars
  <2> SUFFICES ASSUME IInv, Next, guard.latched \in {MISMATCH, UNREADABLE}, enabled',
                      guard.latched = Started(file).latched
               PROVE  guard'.latched = guard.latched
    OBVIOUS
  <2>1. guard.latched \notin {None, LOSS} /\ guard \in Guard /\ TrialIsOfLoss(guard)
    BY RegulationGuardAssumption DEF IInv, Types, LOSS, MISMATCH, UNREADABLE, Reasons
  <2>2. ASSUME NEW i \in Polls, RegulationPoll(i)
        PROVE  guard'.latched = guard.latched
    <3>1. i \in Poll
      BY DEF Polls
    <3>2. Checked(guard, i) \in Guard /\ Checked(guard, i).latched = guard.latched
      BY <2>1, <3>1, CheckedType, CheckedKeeps
    <3>3. guard' = Offered(Checked(guard, i), i)
      BY <2>2 DEF RegulationPoll, Store
    <3> QED
      BY <3>1, <3>2, <3>3, OfferedKeeps
  <2>3. ASSUME NEW i \in Polls, PollRaises(i)
        PROVE  guard'.latched = guard.latched
    <3>1. i \in Poll
      BY DEF Polls
    <3>2. Checked(guard, i).latched = guard.latched
      BY <2>1, <3>1, CheckedKeeps
    <3>3. FALSE
      BY <2>1, <2>3, <3>2 DEF PollRaises, RaisesIn
    <3> QED
      BY <3>3
  <2>4. ASSUME Elapse
        PROVE  guard'.latched = guard.latched
    BY <2>1, <2>4 DEF Elapse, Guard
  <2>5. ASSUME NEW on \in BOOLEAN, Restart(on)
        PROVE  guard'.latched = guard.latched
    BY <2>5 DEF Restart
  <2> QED
    BY <2>2, <2>3, <2>4, <2>5 DEF Next
<1> QED
  BY <1>1, Invariance, PTL DEF Spec, WrongCorrectionStands

-----------------------------------------------------------------------------
(* The hold and the latch. *)

\* The last good value is not much older than the gap that the guard counts.
GapCoversHold ==
    guard.latched = None /\ lastGood # None =>
        /\ guard.valid # None /\ guard.valid + Fresh + 1 >= lastGood.measured
        /\ guard.missing # None => guard.missing + Fresh + 1 >= lastGood.measured

HoldInv == GapCoversHold /\ ServesUntilLatched

\* What a check leaves of the times of a guard.
LEMMA CheckedCounts ==
    ASSUME NEW g \in Guard, TrialIsOfLoss(g), NEW i \in Poll
    PROVE  LET c == Checked(g, i) IN
           /\ c.latched = None =>
                /\ c.valid = IF i.status = "ready" THEN i.age ELSE g.valid
                /\ Lost(i) => c.missing # None
                /\ \/ c.missing = None
                   \/ g.latched = None /\ c.missing = g.missing
                   \/ i.status # "ready" /\ c.missing = c.valid
                   \/ c.missing = 0 /\ (i.status = "ready" \/ c.valid = None)
                /\ g.latched # None => i.status = "ready"
           /\ i.status # "ready" => ~Recovering(c)
<1> DEFINE m == Measured(g, i)
           s == Steady(m, i)
           r == IF Recovers(g) THEN Recovered(s, m, i) ELSE m
           w == Watched(r, i, Matched(g, i), Comparable(g))
<1>1. m \in Guard /\ s \in Guard /\ r \in Guard
  BY MeasuredType, SteadyType, RecoveredType
<1>2. /\ m.latched = g.latched /\ m.probe = g.probe /\ m.missing = g.missing
      /\ m.valid = IF i.status = "ready" THEN i.age ELSE g.valid
  BY DEF Measured, Guard
<1>3. s.latched = m.latched /\ s.valid = m.valid /\ (~Valid(i) => s.probe = None)
  BY <1>1 DEF Steady, Unproven, Guard
<1>4. None # LOSS
  BY RegulationGuardAssumption DEF LOSS, Reasons
<1>5. /\ g.latched = LOSS => /\ ~Valid(i) => r = s
                             /\ r.latched = None => r.missing = None /\ Valid(i)
                             /\ r.valid = m.valid
      /\ g.latched # LOSS => r = m
  <2> SUFFICES ASSUME g.latched = LOSS
               PROVE  /\ ~Valid(i) => r = s
                      /\ r.latched = None => r.missing = None /\ Valid(i)
                      /\ r.valid = m.valid
    BY DEF Recovers
  <2>1. r = Recovered(s, m, i)
    BY DEF Recovers
  <2>2. ~Valid(i) => r = s
    BY <2>1 DEF Recovered, MayTry
  <2>3. r.latched = None => r.missing = None /\ Valid(i)
    BY <1>1, <1>2, <1>3, <1>4, <2>1, RecoveredKeeps
  <2>4. r.valid = s.valid
    <3>1. /\ Tried(s, m, i) \in Guard /\ Tried(s, m, i).valid = s.valid
      BY <1>1, TriedType DEF Tried, Guard
    <3>2. Judged(Tried(s, m, i)).valid = Tried(s, m, i).valid
      BY <3>1 DEF Judged, Released, Unproven, Guard
    <3> QED
      BY <1>1, <2>1, <3>1, <3>2 DEF Recovered, Guard
  <2> QED
    BY <1>3, <2>2, <2>3, <2>4
<1>6. Checked(g, i) = IF r.latched = None THEN w ELSE r
  BY DEF Checked
<1>7. /\ w.valid = r.valid /\ w.missing = MissingSince(r, i) /\ w.probe = r.probe
  BY <1>1 DEF Watched, Guard
<1> HIDE DEF m, s, r, w
<1>8. CASE r.latched = None
  <2>1. r.valid = m.valid /\ r.probe = None
    <3>1. CASE g.latched = LOSS
      <4>1. Recovered(s, m, i) = r
        BY <3>1 DEF r, Recovers
      <4> QED
        BY <1>1, <1>2, <1>3, <1>4, <1>5, <1>8, <3>1, <4>1, RecoveredKeeps
    <3>2. CASE g.latched # LOSS
      BY <1>2, <1>5, <3>2 DEF TrialIsOfLoss
    <3> QED
      BY <3>1, <3>2
  <2>2. g.latched = LOSS => r.missing = None /\ Valid(i)
    BY <1>5, <1>8
  <2>3. g.latched # LOSS => r = m /\ g.latched = None
    BY <1>2, <1>5, <1>8
  <2>4. Checked(g, i) = w
    BY <1>6, <1>8
  <2>5. Lost(i) => MissingSince(r, i) # None
    BY RegulationGuardAssumption DEF MissingSince
  <2>6. \/ w.missing = None \/ w.missing = r.missing
        \/ i.status # "ready" /\ w.missing = r.valid
        \/ w.missing = 0 /\ (i.status = "ready" \/ r.valid = None)
    BY <1>7 DEF MissingSince
  <2>7. Valid(i) => i.status = "ready" /\ ~Lost(i)
    BY DEF Valid, Lost
  <2>8. Valid(i) => w.missing = None
    BY <1>7, <2>7 DEF MissingSince
  <2> QED
    BY <1>2, <1>4, <1>7, <2>1, <2>2, <2>3, <2>4, <2>5, <2>6, <2>7, <2>8 DEF Recovering
<1>9. CASE r.latched # None
  <2>1. Checked(g, i) = r
    BY <1>6, <1>9
  <2>2. i.status # "ready" => ~Valid(i)
    BY DEF Valid
  <2>3. g.latched # LOSS => ~Recovering(r)
    BY <1>2, <1>5 DEF Recovering
  <2>4. i.status # "ready" /\ g.latched = LOSS => r.probe = None
    BY <1>3, <1>5, <2>2
  <2> QED
    BY <1>9, <2>1, <2>3, <2>4 DEF Recovering
<1> QED
  BY <1>8, <1>9

LEMMA OfferedTimes ==
    ASSUME NEW g \in Guard, NEW i \in Poll
    PROVE  Offered(g, i).valid = g.valid /\ Offered(g, i).missing = g.missing
BY DEF Offered, Guard

LEMMA PollHoldInv ==
    ASSUME IInv, HoldInv, NEW i \in Poll, RegulationPoll(i)
    PROVE  HoldInv'
<1> USE DEF IInv
<1> DEFINE g == Checked(guard, i)
<1>1. guard \in Guard /\ g \in Guard /\ TrialIsOfLoss(guard)
  BY CheckedType DEF Types
<1>2. /\ g.latched = None =>
           /\ g.valid = IF i.status = "ready" THEN i.age ELSE guard.valid
           /\ Lost(i) => g.missing # None
           /\ \/ g.missing = None
              \/ guard.latched = None /\ g.missing = guard.missing
              \/ i.status # "ready" /\ g.missing = g.valid
              \/ g.missing = 0 /\ (i.status = "ready" \/ g.valid = None)
           /\ guard.latched # None => i.status = "ready"
      /\ i.status # "ready" => ~Recovering(g)
  BY <1>1, CheckedCounts
<1> HIDE DEF g
<1>3. /\ guard' = Offered(g, i) /\ snapshot' = Updated(g, i)
      /\ lastGood' = IF i.status = "ready" /\ Permits(g)
                     THEN [value |-> i.candidate, measured |-> i.age] ELSE lastGood
  BY DEF RegulationPoll, Store, g
<1>4. /\ guard'.latched = g.latched /\ guard'.probe = g.probe
      /\ guard'.valid = g.valid /\ guard'.missing = g.missing
  BY <1>1, <1>3, OfferedKeeps, OfferedTimes
<1>5. /\ i.age \in 0..Fresh + 1 /\ Fresh \in Nat \ {0} /\ Grace \in Nat /\ None \notin Nat
      /\ Loss \in Nat
  BY RegulationGuardAssumption DEF Poll
<1>6. /\ guard.valid \in 0..Loss \cup {None} /\ guard.missing \in 0..Loss \cup {None}
      /\ lastGood # None => lastGood.measured \in 0..Grace + 1
  BY DEF Types, Guard, Age, Good
<1>7. GapCoversHold'
  <2> SUFFICES ASSUME g.latched = None, lastGood' # None
               PROVE  /\ g.valid # None /\ g.valid + Fresh + 1 >= lastGood'.measured
                      /\ g.missing # None => g.missing + Fresh + 1 >= lastGood'.measured
    BY <1>4 DEF GapCoversHold
  <2>1. CASE i.status = "ready"
    <3>1. lastGood'.measured = i.age /\ g.valid = i.age
      BY <1>2, <1>3, <2>1 DEF Permits
    <3>2. /\ g.missing \in 0..Loss \cup {None}
      BY <1>1 DEF Guard, Age
    <3> QED
      BY <1>5, <3>1, <3>2
  <2>2. CASE i.status # "ready"
    <3>1. lastGood' = lastGood /\ g.valid = guard.valid /\ guard.latched = None
      BY <1>2, <1>3, <2>2
    <3>2. /\ guard.valid # None /\ guard.valid + Fresh + 1 >= lastGood.measured
          /\ guard.missing # None => guard.missing + Fresh + 1 >= lastGood.measured
      BY <3>1 DEF HoldInv, GapCoversHold
    <3> QED
      BY <1>2, <2>2, <3>1, <3>2
  <2> QED
    BY <2>1, <2>2
<1>8. ServesUntilLatched'
  <2> SUFFICES ASSUME lastGood' # None
               PROVE  /\ Served' => Permits(guard')
                      /\ Permits(guard') /\ ~Served' =>
                         \/ guard'.missing # None /\ guard'.missing + Fresh + 1 > Grace
                         \/ ~snapshot'.holding /\ snapshot'.measured > Fresh
    BY DEF ServesUntilLatched
  <2>1. Permits(guard') <=> Permits(g)
    BY <1>4 DEF Permits, Recovering
  <2>2. Served' => Permits(guard')
    BY <1>3, <2>1 DEF Served, Updated, Blocked, MayHold, Permits
  <2>3. ASSUME Permits(g), ~Served'
        PROVE  \/ guard'.missing # None /\ guard'.missing + Fresh + 1 > Grace
               \/ ~snapshot'.holding /\ snapshot'.measured > Fresh
    <3>1. i.status = "ready" => ~snapshot'.holding /\ snapshot'.measured > Fresh
      <4> SUFFICES ASSUME i.status = "ready",
                          snapshot'.holding \/ ~(snapshot'.measured > Fresh)
                   PROVE  FALSE
        OBVIOUS
      <4>1. snapshot' = [ready |-> TRUE, holding |-> FALSE, value |-> i.candidate,
                         evaluated |-> 0, measured |-> i.age]
        BY <1>3, <2>3 DEF Updated
      <4>2. snapshot' # None
        <5>1. snapshot' \in Snapshot
          BY <1>1, <1>3, UpdatedType
        <5> QED
          BY <5>1, RegulationGuardAssumption
      <4> QED
        BY <1>5, <2>3, <4>1, <4>2 DEF Served
    <3> SUFFICES ASSUME i.status # "ready"
                 PROVE  guard'.missing # None /\ guard'.missing + Fresh + 1 > Grace
      BY <3>1
    <3>2. g.latched = None /\ lastGood' = lastGood
      BY <1>2, <1>3, <2>3 DEF Permits
    <3>3. lastGood.measured > Grace
      <4> SUFFICES ASSUME lastGood.measured <= Grace PROVE FALSE
        BY <1>5, <1>6, <3>2
      <4>1. snapshot' = [ready |-> TRUE, holding |-> TRUE, value |-> lastGood.value,
                         evaluated |-> 0, measured |-> lastGood.measured]
        BY <1>3, <3>2 DEF Updated, MayHold
      <4>2. snapshot' # None
        <5>1. snapshot' \in Snapshot
          BY <1>1, <1>3, UpdatedType
        <5> QED
          BY <5>1, RegulationGuardAssumption
      <4> QED
        BY <1>5, <2>3, <4>1, <4>2 DEF Served
    <3>4. Lost(i)
      BY DEF Lost
    <3>5. g.missing # None /\ g.missing + Fresh + 1 >= lastGood'.measured
      BY <1>2, <1>4, <1>7, <3>2, <3>4 DEF GapCoversHold
    <3>6. g.missing \in Nat
      BY <1>1, <1>5, <3>5 DEF Guard, Age
    <3> QED
      BY <1>4, <1>5, <1>6, <3>2, <3>3, <3>5, <3>6
  <2> QED
    BY <2>1, <2>2, <2>3
<1> QED
  BY <1>7, <1>8 DEF HoldInv

LEMMA ElapseHoldInv ==
    ASSUME IInv, HoldInv, Elapse
    PROVE  HoldInv'
<1> USE DEF IInv
<1>1. /\ guard'.latched = guard.latched /\ guard'.valid = Older(guard.valid, Loss)
      /\ guard'.missing = Older(guard.missing, Loss)
      /\ polled' = FALSE
  BY DEF Elapse, Types, Guard
<1>2. lastGood' # None =>
        lastGood # None /\ lastGood'.measured = Older(lastGood.measured, Grace + 1)
  BY DEF Elapse, Types, Good
<1>3. /\ guard.valid \in 0..Loss \cup {None} /\ guard.missing \in 0..Loss \cup {None}
      /\ lastGood # None => lastGood.measured \in 0..Grace + 1
  BY DEF Types, Guard, Age, Good
<1>4. ASSUME NEW age \in 0..Loss, NEW good \in 0..Grace + 1, age + Fresh + 1 >= good
      PROVE  /\ Older(age, Loss) # None
             /\ Older(age, Loss) + Fresh + 1 >= Older(good, Grace + 1)
  BY <1>4, RegulationGuardAssumption DEF Older
<1>5. guard'.missing # None => guard.missing # None
  BY <1>1 DEF Older
<1>6. GapCoversHold'
  BY <1>1, <1>2, <1>3, <1>4, <1>5 DEF HoldInv, GapCoversHold
<1> QED
  BY <1>1, <1>6 DEF HoldInv, ServesUntilLatched

LEMMA NextHoldInv == IInv /\ HoldInv /\ [Next]_vars => HoldInv'
<1> SUFFICES ASSUME IInv, HoldInv, [Next]_vars PROVE HoldInv'
  OBVIOUS
<1>1. CASE \E i \in Polls : RegulationPoll(i)
  BY <1>1, PollHoldInv DEF Polls
<1>2. ASSUME NEW i \in Polls, PollRaises(i)
      PROVE  HoldInv'
  <2>1. i \in Poll /\ guard \in Guard
    BY DEF Polls, IInv, Types
  <2>2. Tried(Steady(Measured(guard, i), i), guard, i).latched = guard.latched
    BY <2>1, MeasuredType, MeasuredKeeps, SteadyType, SteadyKeeps, TriedKeeps
  <2>3. Checked(guard, i) \in Guard
    BY <2>1, CheckedType
  <2>4. guard'.latched # None
    BY <1>2, <2>2, <2>3, RegulationGuardAssumption
       DEF PollRaises, RaisesIn, Reasons, LOSS, MISMATCH, Guard
  <2> QED
    BY <1>2, <2>4 DEF PollRaises, HoldInv, GapCoversHold, ServesUntilLatched
<1>3. CASE Elapse
  BY <1>3, ElapseHoldInv
<1>4. CASE \E on \in BOOLEAN : Restart(on)
  BY <1>4 DEF Restart, HoldInv, GapCoversHold, ServesUntilLatched
<1>5. CASE UNCHANGED vars
  BY <1>5 DEF vars, HoldInv, GapCoversHold, ServesUntilLatched, Served, Permits, Recovering
<1> QED
  BY <1>1, <1>2, <1>3, <1>4, <1>5 DEF Next

\* A gap is bridged until the latch is no further away than the age a source may
\* have at its check, and a latch serves nothing, for every length of the gap and
\* every fault.
THEOREM GapIsServedUntilLatched == Spec => []ServesUntilLatched
<1>1. Init => HoldInv
  BY DEF Init, HoldInv, GapCoversHold, ServesUntilLatched
<1>2. HoldInv => ServesUntilLatched
  BY DEF HoldInv
<1> QED
  BY <1>1, <1>2, Invariance, NextHoldInv, PTL DEF Spec
=============================================================================
