------------------------- MODULE SourceControlProof -------------------------
(***************************************************************************)
(* What SourceControl promises for any sources, requests and faults: a     *)
(* request is sent at most once, one command is going on per source, and   *)
(* the schedule sends nothing to a source that a manual choice holds.      *)
(*                                                                         *)
(* The invariant adds what ties the submit in progress to the records: its *)
(* command is recorded as going on before it is sent, and the hold that    *)
(* the guard looked at is the one in force when it is.                     *)
(***************************************************************************)
EXTENDS SourceControl, TLAPS

Recorded == [Ids -> Command \cup {None}]

CallIsOngoing == call.step # "idle" => call.id \in Ids /\ Ongoing(call.id)

SentAreRecorded ==
    /\ \A id \in Ids : sends[id] \in {0, 1} /\ (sends[id] = 1 => records[id] # None)
    /\ \A id \in flight : records[id] # None
    /\ call.step = "send" => sends[call.id] = 0

HoldsAreManual ==
    \A s \in Sources : override[s] \notin Scheduled /\ stored.override[s] \notin Scheduled

SendIsAllowed ==
    call.step = "send" /\ call.id \in Scheduled
      => ~Active(records, override, records[call.id].source)

IInv == /\ TypeOK /\ OneOngoing /\ CallIsOngoing
        /\ SentAreRecorded /\ HoldsAreManual /\ SendIsAllowed

-----------------------------------------------------------------------------
(* The records: what an observation, an expiry or a restart does to them *)

\* A command may end; none is added, moved to another source or taken up again.
Settled(recs) ==
    /\ recs \in Recorded
    /\ \A id \in Ids :
         /\ recs[id] = None <=> records[id] = None
         /\ recs[id] # None => recs[id].source = records[id].source
         /\ recs[id] # None /\ recs[id].status \in PENDING => records[id].status \in PENDING

LEMMA WithStatusSettles ==
    ASSUME IInv, NEW id \in Ids, records[id] # None, NEW status \in Statuses
    PROVE  /\ WithStatus(id, status) \in Command
           /\ WithStatus(id, status) # None
           /\ WithStatus(id, status).source = records[id].source
           /\ WithStatus(id, status).status = status
<1>1. records[id] \in Command
  BY DEF IInv, TypeOK
<1>2. /\ WithStatus(id, status) \in Command
      /\ WithStatus(id, status).source = records[id].source
      /\ WithStatus(id, status).status = status
  BY <1>1 DEF WithStatus, Command
<1> QED  BY <1>2, SourceControlAssumption

\* One command after an observation or an expiry.
LEMMA OneSettles ==
    ASSUME IInv, NEW id \in Ids, NEW seen,
           NEW rec, rec \in {records[id], Expired(id), Observed(id, seen)}
    PROVE  /\ rec \in Command \cup {None}
           /\ rec = None <=> records[id] = None
           /\ rec # None => rec.source = records[id].source
           /\ rec # None /\ rec.status \in PENDING => records[id].status \in PENDING
<1>1. records[id] \in Command \cup {None}
  BY DEF IInv, TypeOK
<1>2. CASE ~Ongoing(id)
  BY <1>1, <1>2 DEF Observed, Expired
<1>3. CASE Ongoing(id)
  <2>1. /\ {"timed_out", "confirmed"} \subseteq Statuses
        /\ records[id] # None /\ records[id].status \in PENDING
    BY <1>3 DEF Ongoing, Statuses
  <2>2. rec \in {records[id], WithStatus(id, "timed_out"), WithStatus(id, "confirmed")}
    BY <1>3 DEF Observed, Expired
  <2> QED  BY <1>1, <2>1, <2>2, WithStatusSettles
<1> QED  BY <1>2, <1>3

LEMMA AllSettle ==
    ASSUME IInv, NEW seen, NEW done \in SUBSET Ids
    PROVE  /\ Settled(records)
           /\ Settled(ObservedRecords(seen))
           /\ Settled([id \in Ids |-> Expired(id)])
           /\ Settled([id \in Ids |-> IF id \in done THEN Observed(id, seen) ELSE records[id]])
<1>1. records \in Recorded
  BY DEF IInv, TypeOK, Recorded
<1>2. Settled(records)
  BY <1>1 DEF Settled
<1>3. Settled(ObservedRecords(seen))
  BY OneSettles DEF Settled, Recorded, ObservedRecords
<1>4. Settled([id \in Ids |-> Expired(id)])
  BY OneSettles DEF Settled, Recorded
<1>5. Settled([id \in Ids |-> IF id \in done THEN Observed(id, seen) ELSE records[id]])
  BY OneSettles DEF Settled, Recorded
<1> QED  BY <1>2, <1>3, <1>4, <1>5

\* One command is going on per source in settled records, too.
LEMMA SettledOneOngoing ==
    ASSUME IInv, NEW recs, Settled(recs), NEW i \in Ids, NEW j \in Ids,
           recs[i] # None, recs[i].status \in PENDING,
           recs[j] # None, recs[j].status \in PENDING, recs[i].source = recs[j].source
    PROVE  i = j
  BY DEF IInv, OneOngoing, Ongoing, Settled

-----------------------------------------------------------------------------
(* The schedule: what a reading and a request do to the holds *)

ManualHolds(held) == held \in Holds /\ \A s \in Sources : held[s] \notin Scheduled

LEMMA ReadingType ==
    ASSUME IInv, NEW seen \in Baselines, NEW recs
    PROVE  /\ ManualHolds(override)
           /\ ManualHolds(stored.override)
           /\ ManualHolds(HeldAfter(recs, seen))
           /\ BaselineAfter(seen) \in Baselines
<1>1. /\ ManualHolds(override)
      /\ ManualHolds(stored.override)
      /\ baseline \in Baselines
  BY DEF IInv, TypeOK, HoldsAreManual, ManualHolds
<1>2. "observed" \notin Scheduled
  BY SourceControlAssumption
<1>3. ManualHolds(HeldAfter(recs, seen))
  BY <1>1, <1>2 DEF HeldAfter, ManualHolds, Holds
<1>4. BaselineAfter(seen) \in Baselines
  BY <1>1 DEF BaselineAfter, Baselines
<1> QED  BY <1>1, <1>3, <1>4

LEMMA HeldByType ==
    ASSUME NEW held, ManualHolds(held), NEW s \in Sources, NEW id \in Ids
    PROVE  ManualHolds(HeldBy(held, s, id))
  BY DEF HeldBy, ManualHolds, Holds

\* Nothing held to begin with, and what a reading saves.
LEMMA SavedType ==
    ASSUME baseline' \in Baselines, ManualHolds(override'), Saved
    PROVE  /\ stored' \in [baseline: Baselines, override: Holds]
           /\ ManualHolds(stored'.override)
  BY DEF Saved, ManualHolds

-----------------------------------------------------------------------------
(* The invariant is inductive *)

LEMMA InitIInv == Init => IInv
<1> SUFFICES ASSUME Init PROVE IInv
  OBVIOUS
<1>1. NoCall \in [step: {"idle", "send", "save"}, id: Ids \cup {None}, status: Statuses]
  BY DEF NoCall, Statuses, PENDING
<1>2. TypeOK
  BY <1>1 DEF Init, TypeOK, Baselines, Holds, NoCall
<1>3. OneOngoing
  BY DEF Init, OneOngoing, Ongoing
<1>4. CallIsOngoing /\ SentAreRecorded /\ SendIsAllowed
  BY DEF Init, NoCall, CallIsOngoing, SentAreRecorded, SendIsAllowed
<1>5. HoldsAreManual
  BY SourceControlAssumption DEF Init, HoldsAreManual
<1> QED  BY <1>2, <1>3, <1>4, <1>5 DEF IInv

\* Every step that leaves no submit in progress and only settles records.
LEMMA SettlingStep ==
    ASSUME IInv, Settled(records'), call' \in {call, NoCall}, call'.step = "idle",
           baseline' \in Baselines, ManualHolds(override'),
           stored' \in [baseline: Baselines, override: Holds],
           ManualHolds(stored'.override),
           UNCHANGED <<device, flight, clock, late, sends>>
    PROVE  IInv'
<1>1. TypeOK'
  BY DEF IInv, TypeOK, Settled, Recorded, ManualHolds, NoCall, device, Statuses, PENDING
<1>2. OneOngoing'
  BY SettledOneOngoing DEF OneOngoing, Ongoing
<1>3. SentAreRecorded'
  <2>1. \A id \in Ids : records'[id] = None <=> records[id] = None
    BY DEF Settled
  <2> QED  BY <2>1 DEF IInv, TypeOK, SentAreRecorded
<1>4. HoldsAreManual'
  BY DEF ManualHolds, HoldsAreManual
<1> QED  BY <1>1, <1>2, <1>3, <1>4 DEF IInv, CallIsOngoing, SendIsAllowed

\* Observe, ShowSources, Resume, HoldEnds and a failed observation settle.
LEMMA ObserveIInv ==
    ASSUME IInv, Observe \/ ObserveAborts \/ ShowSources \/ Resume
                 \/ \E s \in Sources : HoldEnds(s)
    PROVE  IInv'
<1>a. /\ baseline \in Baselines
      /\ stored \in [baseline: Baselines, override: Holds]
  BY DEF IInv, TypeOK
<1>b. ManualHolds(override) /\ ManualHolds(stored.override)
  BY DEF IInv, TypeOK, HoldsAreManual, ManualHolds
<1>1. CASE Observe
  <2>1. PICK seen \in Baselines :
          TakeIn(seen) /\ override' = HeldAfter(ObservedRecords(seen), seen)
    BY <1>1 DEF Observe
  <2>2. Settled(records') /\ baseline' \in Baselines /\ ManualHolds(override')
    BY <2>1, AllSettle, ReadingType DEF TakeIn
  <2> QED  BY <1>1, <2>2, SavedType, SettlingStep DEF Observe
<1>2. CASE ObserveAborts
  <2>1. PICK seen \in Baselines :
          CommandUnsaved(seen) \/ HoldUnsaved(seen) \/ ScheduleUnsaved(seen)
    BY <1>2 DEF ObserveAborts
  <2>2. CASE CommandUnsaved(seen)
    <3>1. PICK done \in SUBSET {id \in Ids : Ongoing(id)} :
            records' = [id \in Ids |-> IF id \in done THEN Observed(id, seen) ELSE records[id]]
      BY <2>2 DEF CommandUnsaved
    <3>2. done \in SUBSET Ids
      OBVIOUS
    <3>3. Settled(records')
      BY <3>1, <3>2, AllSettle
    <3> QED  BY <1>a, <1>b, <1>2, <2>2, <3>3, SettlingStep DEF ObserveAborts, CommandUnsaved, schedule
  <2>3. CASE HoldUnsaved(seen)
    <3>1. Settled(records') /\ ManualHolds(override')
      BY <2>3, AllSettle, ReadingType DEF HoldUnsaved
    <3> QED  BY <1>a, <1>b, <1>2, <2>3, <3>1, SettlingStep DEF ObserveAborts, HoldUnsaved
  <2>4. CASE ScheduleUnsaved(seen)
    <3>1. Settled(records') /\ ManualHolds(override') /\ baseline' \in Baselines
      BY <2>4, AllSettle, ReadingType DEF ScheduleUnsaved
    <3>2. stored' \in [baseline: Baselines, override: Holds] /\ ManualHolds(stored'.override)
      BY <1>a, <1>b, <2>4, <3>1 DEF ScheduleUnsaved, ManualHolds
    <3> QED  BY <1>2, <3>1, <3>2, SettlingStep DEF ObserveAborts
  <2> QED  BY <2>1, <2>2, <2>3, <2>4
<1>3. CASE ShowSources
  <2>1. Settled(records')
    BY <1>3, AllSettle DEF ShowSources
  <2> QED  BY <1>a, <1>b, <1>3, <2>1, SettlingStep DEF ShowSources, schedule
<1>4. CASE Resume
  <2>1. PICK seen \in Baselines : TakeIn(seen)
    BY <1>4 DEF Resume
  <2>2. Settled(records') /\ baseline' \in Baselines
    BY <2>1, AllSettle, ReadingType DEF TakeIn
  <2>3. ManualHolds(override')
    BY <1>4, SourceControlAssumption DEF Resume, ManualHolds, Holds
  <2> QED  BY <1>4, <2>2, <2>3, SavedType, SettlingStep DEF Resume
<1>5. ASSUME NEW s \in Sources, HoldEnds(s) PROVE IInv'
  <2>1. ManualHolds(override') /\ ManualHolds(stored'.override)
    BY <1>a, <1>b, <1>5, SourceControlAssumption DEF HoldEnds, ManualHolds, Holds
  <2>2. stored' \in [baseline: Baselines, override: Holds]
    BY <1>a, <1>5, SourceControlAssumption DEF HoldEnds, Holds
  <2>3. Settled(records')
    BY <1>5, AllSettle DEF HoldEnds
  <2> QED  BY <1>a, <1>5, <2>1, <2>2, <2>3, SettlingStep DEF HoldEnds
<1> QED  BY <1>1, <1>2, <1>3, <1>4, <1>5

\* A restart interrupts what was going on, also the submit in progress.
LEMMA RestartIInv == ASSUME IInv, Restart PROVE IInv'
<1>1. "interrupted" \in Statuses \ PENDING
  BY DEF Statuses, PENDING
<1>2. Settled(records')
  <2>1. records \in Recorded
    BY DEF IInv, TypeOK, Recorded
  <2> QED  BY <1>1, <2>1, WithStatusSettles DEF Restart, Settled, Recorded, Ongoing
<1>3. /\ stored \in [baseline: Baselines, override: Holds]
      /\ ManualHolds(stored.override)
  BY DEF IInv, TypeOK, HoldsAreManual, ManualHolds
<1> QED  BY <1>2, <1>3, SettlingStep DEF Restart, NoCall

\* A new command is recorded: its identifier was free, what it replaces ends.
LEMMA SubmitIInv ==
    ASSUME IInv, NEW id \in Ids, NEW s \in Sources, NEW m \in Modes, Submit(id, s, m)
    PROVE  IInv'
<1>1. PICK seen \in Baselines :
        LET recs == ObservedRecords(seen)
            held == HeldAfter(recs, seen)
        IN  /\ baseline' = BaselineAfter(seen)
            /\ \/ Refuse(recs, held)
               \/ /\ GuardPasses(recs, held, s, id)
                  /\ \/ AlreadySet(recs, held, id, s, m)
                     \/ RecordIntent(recs, held, id, s, m)
                     \/ IntentFails(recs, held, id, s)
  BY DEF Submit
<1> DEFINE recs == ObservedRecords(seen)
           held == HeldAfter(recs, seen)
<1>2. /\ call.step = "idle" /\ records[id] = None
      /\ UNCHANGED <<device, flight, late, sends>>
  BY DEF Submit, Known
<1>3. /\ Settled(recs) /\ recs[id] = None /\ recs \in Recorded
      /\ ManualHolds(held) /\ ManualHolds(HeldBy(held, s, id))
      /\ baseline' \in Baselines
  <2>1. Settled(recs)
    BY AllSettle
  <2>2. ManualHolds(held) /\ baseline' \in Baselines
    BY <1>1, ReadingType
  <2> HIDE DEF recs, held
  <2>3. recs[id] = None /\ recs \in Recorded
    BY <1>2, <2>1 DEF Settled
  <2> QED  BY <2>1, <2>2, <2>3, HeldByType
<1>4. \A status \in Statuses : /\ NewCommand(s, m, status) \in Command
                               /\ NewCommand(s, m, status) # None
  <2>1. \A status \in Statuses : NewCommand(s, m, status) \in Command
    BY DEF NewCommand, Command, IInv, TypeOK
  <2> QED  BY <2>1, SourceControlAssumption
<1> HIDE DEF recs, held
<1>5. CASE Refuse(recs, held)
  BY <1>2, <1>3, <1>5, SavedType, SettlingStep DEF Refuse
<1>6. CASE IntentFails(recs, held, id, s)
  <2>1. ManualHolds(override') /\ Settled(records')
    BY <1>3, <1>6 DEF IntentFails
  <2>2. stored' \in [baseline: Baselines, override: Holds] /\ ManualHolds(stored'.override)
    BY <1>3, <1>6, <2>1, SavedType DEF IntentFails, ManualHolds
  <2> QED  BY <1>2, <1>3, <1>6, <2>1, <2>2, SettlingStep DEF IntentFails
<1>7. ASSUME NEW status \in {"already_set", "sending"}, NEW base \in Recorded,
             Settled(base), base[id] = None,
             records' = [base EXCEPT ![id] = NewCommand(s, m, status)],
             override' = HeldBy(held, s, id), Saved, clock' = clock + 1,
             call' \in [step: {"idle", "send", "save"}, id: Ids \cup {None}, status: Statuses],
             call'.step # "idle" => call'.id = id /\ status = "sending",
             status = "sending" =>
               \A i \in Ids : base[i] # None /\ base[i].source = s => base[i].status \notin PENDING
      PROVE  TypeOK' /\ OneOngoing' /\ CallIsOngoing' /\ SentAreRecorded' /\ HoldsAreManual'
  <2>1. status \in Statuses /\ (status \in PENDING <=> status = "sending")
    BY DEF Statuses, PENDING
  <2>2. /\ records' \in Recorded
        /\ records'[id] = NewCommand(s, m, status)
        /\ \A i \in Ids \ {id} : records'[i] = base[i]
    BY <1>4, <1>7, <2>1 DEF Recorded
  <2>3. ManualHolds(override')
    BY <1>3, <1>7
  <2>4. TypeOK'
    BY <1>2, <1>3, <1>4, <1>7, <2>1, <2>2, <2>3, SavedType
       DEF IInv, TypeOK, Recorded, ManualHolds, device
  <2>5. OneOngoing'
    <3> SUFFICES ASSUME NEW i \in Ids, NEW j \in Ids, Ongoing(i)', Ongoing(j)',
                        records'[i].source = records'[j].source, i # id, i # j
                 PROVE  FALSE
      BY DEF OneOngoing
    <3>1. base[i] # None /\ base[i].status \in PENDING /\ records'[i] = base[i]
      BY <2>2 DEF Ongoing
    <3>2. CASE j # id
      BY <1>7, <2>2, <3>1, <3>2, SettledOneOngoing DEF Ongoing
    <3>3. CASE j = id
      BY <1>7, <2>1, <2>2, <3>1, <3>3 DEF Ongoing, NewCommand
    <3> QED  BY <3>2, <3>3
  <2>6. CallIsOngoing'
    BY <1>4, <1>7, <2>1, <2>2 DEF CallIsOngoing, Ongoing, NewCommand
  <2>7. SentAreRecorded'
    <3>1. \A i \in Ids : records[i] # None => records'[i] # None
      BY <1>2, <1>7, <2>2 DEF Settled
    <3> QED  BY <1>2, <1>7, <3>1 DEF IInv, TypeOK, SentAreRecorded
  <2> QED  BY <2>3, <2>4, <2>5, <2>6, <2>7, <1>7, SavedType, <1>3 DEF ManualHolds, HoldsAreManual
<1>8. CASE AlreadySet(recs, held, id, s, m)
  <2>1. /\ call' = call /\ call \in [step: {"idle", "send", "save"}, id: Ids \cup {None}, status: Statuses]
        /\ records' = [recs EXCEPT ![id] = NewCommand(s, m, "already_set")]
        /\ override' = HeldBy(held, s, id) /\ Saved /\ clock' = clock + 1
    BY <1>8 DEF AlreadySet, IInv, TypeOK
  <2> QED  BY <1>2, <1>3, <1>7, <2>1 DEF IInv, SendIsAllowed
<1>9. CASE RecordIntent(recs, held, id, s, m) /\ GuardPasses(recs, held, s, id)
  <2> DEFINE base == Superseded(recs, s)
  <2>1. /\ base \in Recorded /\ Settled(base) /\ base[id] = None
        /\ \A i \in Ids : base[i] # None /\ base[i].source = s => base[i].status \notin PENDING
        /\ \A i \in Ids : base[i] # None => recs[i] # None
        /\ \A i \in Ids : base[i] # None /\ base[i].status \notin {"failed", "superseded"}
                            => recs[i].status \notin {"failed", "superseded"}
    <3>1. "superseded" \in Statuses \ PENDING /\ "failed" \notin PENDING
      BY DEF Statuses, PENDING
    <3>2. ASSUME NEW i \in Ids, recs[i] # None
          PROVE  LET new == [recs[i] EXCEPT !.status = "superseded"]
                 IN  /\ new \in Command /\ new # None
                     /\ new.source = recs[i].source /\ new.status = "superseded"
      <4>1. recs[i] \in Command
        BY <1>3, <3>2 DEF Recorded
      <4> QED  BY <3>1, <4>1, SourceControlAssumption DEF Command
    <3>3. base \in Recorded
      BY <1>3, <3>2 DEF Recorded, Superseded
    <3> QED  BY <1>3, <3>1, <3>2, <3>3 DEF Superseded, Settled
  <2>2. call' = [step |-> "send", id |-> id, status |-> "sending"]
    BY <1>9 DEF RecordIntent, NoCall
  <2>3. /\ records' = [base EXCEPT ![id] = NewCommand(s, m, "sending")]
        /\ override' = HeldBy(held, s, id) /\ Saved /\ clock' = clock + 1
    BY <1>9 DEF RecordIntent
  <2> HIDE DEF base
  <2>4. call' \in [step: {"idle", "send", "save"}, id: Ids \cup {None}, status: Statuses]
    BY <2>2 DEF Statuses, PENDING
  <2>5. TypeOK' /\ OneOngoing' /\ CallIsOngoing' /\ SentAreRecorded' /\ HoldsAreManual'
    BY <1>7, <2>1, <2>2, <2>3, <2>4
  <2>6. SendIsAllowed'
    <3> SUFFICES ASSUME id \in Scheduled
                 PROVE  ~Active(records, override, records[id].source)'
      BY <2>2 DEF SendIsAllowed
    <3>1. records'[id].source = s /\ override' = held
      BY <2>1, <2>3 DEF NewCommand, HeldBy, Recorded
    <3>2. ~Active(recs, held, s) /\ held[s] \in Ids \cup {"observed", None} /\ held[s] # id
      BY <1>3, <1>9 DEF GuardPasses, ManualHolds, Holds
    <3>3. \A i \in Ids \ {id} : records'[i] = base[i]
      BY <2>1, <2>3 DEF Recorded
    <3> QED  BY <2>1, <3>1, <3>2, <3>3, SourceControlAssumption DEF Active
  <2> QED  BY <2>5, <2>6 DEF IInv
<1> QED  BY <1>1, <1>5, <1>6, <1>8, <1>9 DEF recs, held

\* The call and its answer: the command in progress is still going on.
LEMMA CallIInv == ASSUME IInv, Send \/ Save PROVE IInv'
<1>a. call.id \in Ids /\ Ongoing(call.id) /\ call.id \notin {None}
  BY SourceControlAssumption DEF IInv, CallIsOngoing, Send, SendAccepted, SendRejected,
     SendUncertain, Answered, Save
<1>1. CASE Send
  <2>1. PICK status \in Statuses : Answered(status) /\ flight' \in {flight, flight \cup {call.id}}
    BY <1>1 DEF Send, SendAccepted, SendRejected, SendUncertain, Statuses, PENDING
  <2>2. /\ call.step = "send" /\ sends[call.id] = 0
        /\ call' = [call EXCEPT !.step = "save", !.status = status]
        /\ sends' = [sends EXCEPT ![call.id] = @ + 1]
        /\ UNCHANGED <<device, records, clock, late, schedule>>
    BY <2>1 DEF Answered, IInv, SentAreRecorded
  <2>3. call'.step = "save" /\ call'.id = call.id
    BY <2>2 DEF IInv, TypeOK
  <2>4. TypeOK'
    <3>1. call' \in [step: {"idle", "send", "save"}, id: Ids \cup {None}, status: Statuses]
      BY <2>1, <2>2 DEF IInv, TypeOK
    <3>2. flight' \subseteq Ids /\ sends' \in [Ids -> Nat]
      BY <1>a, <2>1, <2>2 DEF IInv, TypeOK
    <3> QED  BY <1>a, <2>2, <2>3, <3>1, <3>2 DEF IInv, TypeOK, device, schedule, Ongoing
  <2>5. SentAreRecorded'
    BY <1>a, <2>1, <2>2, <2>3 DEF IInv, TypeOK, SentAreRecorded, Ongoing
  <2>6. OneOngoing' /\ CallIsOngoing' /\ HoldsAreManual' /\ SendIsAllowed'
    BY <1>a, <2>2, <2>3 DEF IInv, OneOngoing, CallIsOngoing, HoldsAreManual, SendIsAllowed,
       Ongoing, schedule
  <2> QED  BY <2>4, <2>5, <2>6 DEF IInv
<1>2. CASE Save
  <2>1. /\ records' \in Recorded
        /\ \A i \in Ids : /\ records'[i] = None <=> records[i] = None
                          /\ records'[i] # None => records'[i].source = records[i].source
                          /\ records'[i] # None /\ records'[i].status \in PENDING
                               => records[i].status \in PENDING
    <3>1. records[call.id] \in Command /\ call.status \in Statuses /\ records \in Recorded
      BY <1>a DEF IInv, TypeOK, Recorded, Ongoing
    <3>2. records[call.id].status \in PENDING
      BY <1>a DEF Ongoing
    <3>3. WithStatus(call.id, call.status) \in Command
      BY <1>a, <3>1, WithStatusSettles DEF Ongoing
    <3>4. records' \in {records, [records EXCEPT ![call.id] = WithStatus(call.id, call.status)]}
      BY <1>2 DEF Save, WithStatus
    <3> QED  BY <1>a, <3>1, <3>2, <3>3, <3>4, WithStatusSettles DEF Recorded, Ongoing
  <2>2. Settled(records')
    BY <2>1 DEF Settled
  <2>3. /\ baseline \in Baselines /\ ManualHolds(override) /\ ManualHolds(stored.override)
        /\ stored \in [baseline: Baselines, override: Holds]
    BY DEF IInv, TypeOK, HoldsAreManual, ManualHolds
  <2> QED  BY <1>2, <2>2, <2>3, SettlingStep DEF Save, NoCall, schedule
<1> QED  BY <1>1, <1>2

\* Time and the sources change nothing of the records or the call.
LEMMA WorldIInv ==
    ASSUME IInv, \/ \E id \in Ids : DeadlinePasses(id) \/ SourceObeys(id)
                 \/ \E s \in Sources, m \in Modes : UserTurns(s, m)
    PROVE  IInv'
<1>1. UNCHANGED <<records, clock, call, schedule, sends>>
  BY DEF DeadlinePasses, SourceObeys, UserTurns, Shows
<1>2. flight' \subseteq flight /\ late' \subseteq Ids
  BY DEF IInv, TypeOK, DeadlinePasses, SourceObeys, UserTurns, Shows
<1>3. mode' \in [Sources -> Modes] /\ turned' \in [Sources -> Ids \cup {"user"}]
  <2>1. CASE \E id \in Ids : DeadlinePasses(id)
    BY <2>1 DEF DeadlinePasses, device, IInv, TypeOK
  <2>2. ASSUME NEW id \in Ids, SourceObeys(id)
        PROVE  mode' \in [Sources -> Modes] /\ turned' \in [Sources -> Ids \cup {"user"}]
    <3>1. records[id] \in Command
      BY <2>2 DEF IInv, TypeOK, SentAreRecorded, SourceObeys
    <3> QED  BY <2>2, <3>1 DEF SourceObeys, Shows, IInv, TypeOK, Command
  <2>3. CASE \E s \in Sources, m \in Modes : UserTurns(s, m)
    BY <2>3 DEF UserTurns, Shows, IInv, TypeOK
  <2> QED  BY <2>1, <2>2, <2>3
<1>4. TypeOK'
  BY <1>1, <1>2, <1>3 DEF IInv, TypeOK, schedule
<1> QED  BY <1>1, <1>2, <1>4 DEF IInv, OneOngoing, CallIsOngoing, SentAreRecorded,
            HoldsAreManual, SendIsAllowed, Ongoing, Active, schedule

LEMMA StepIInv == IInv /\ [Next]_vars => IInv'
<1> SUFFICES ASSUME IInv, [Next]_vars PROVE IInv'
  OBVIOUS
<1>1. CASE Observe \/ ObserveAborts \/ ShowSources \/ Resume \/ \E s \in Sources : HoldEnds(s)
  BY <1>1, ObserveIInv
<1>2. CASE \E id \in Ids, s \in Sources, m \in Modes : Submit(id, s, m)
  BY <1>2, SubmitIInv
<1>3. CASE Send \/ Save
  BY <1>3, CallIInv
<1>4. CASE Restart
  BY <1>4, RestartIInv
<1>5. CASE \/ \E id \in Ids : DeadlinePasses(id) \/ SourceObeys(id)
           \/ \E s \in Sources, m \in Modes : UserTurns(s, m)
  BY <1>5, WorldIInv
<1>6. CASE UNCHANGED vars
  BY <1>6 DEF vars, schedule, device, IInv, TypeOK, OneOngoing, CallIsOngoing,
     SentAreRecorded, HoldsAreManual, SendIsAllowed, Ongoing, Active
<1> QED  BY <1>1, <1>2, <1>3, <1>4, <1>5, <1>6 DEF Next

LEMMA Invariant == Spec => []IInv
<1> QED  BY InitIInv, StepIInv, PTL DEF Spec

-----------------------------------------------------------------------------
(* The theorems *)

\* Every variable keeps its type: a submit in progress has its command in the
\* commands table, through failing writes and restarts.
THEOREM TypeCorrect == Spec => []TypeOK
<1>1. IInv => TypeOK
  BY DEF IInv
<1> QED  BY <1>1, Invariant, PTL

\* Control.submit sends a request at most once, however often it is repeated
\* and whatever fails: its record comes first and is never forgotten.
THEOREM RequestsSentOnce == Spec => []SentOnce
<1>1. IInv => SentOnce
  BY DEF IInv, SentAreRecorded, SentOnce
<1> QED  BY <1>1, Invariant, PTL

\* A source has one command that is going on: record_intent ends the one it
\* replaces in the same transaction, and no late save takes it up again.
THEOREM OneCommandPerSource == Spec => []OneOngoing
<1>1. IInv => OneOngoing
  BY DEF IInv
<1> QED  BY <1>1, Invariant, PTL

\* The schedule's guard comes after the fresh reading and nothing of the
\* add-on runs between it and the call, so no scheduled command is sent to a
\* source that a manual choice holds.
THEOREM HoldsRespected == Spec => ScheduleRespectsHolds
<1> DEFINE Respects == \A id \in Ids : sends'[id] > sends[id] /\ id \in Scheduled
                         => ~Active(records, override, records[id].source)
<1>1. IInv /\ [Next]_vars => [Respects]_vars
  <2> SUFFICES ASSUME IInv, Next, NEW id \in Ids, sends'[id] > sends[id], id \in Scheduled
               PROVE  ~Active(records, override, records[id].source)
    OBVIOUS
  <2>1. sends' # sends
    BY DEF IInv, TypeOK
  <2>2. Send
    BY <2>1 DEF Next, Observe, ObserveAborts, ShowSources, Resume, Submit, Save, Restart,
       DeadlinePasses, SourceObeys, HoldEnds, UserTurns, Shows
  <2>3. call.step = "send" /\ call.id = id
    BY <2>2 DEF Send, SendAccepted, SendRejected, SendUncertain, Answered, IInv, TypeOK
  <2> QED  BY <2>3 DEF IInv, SendIsAllowed
<1> QED  BY <1>1, Invariant, PTL DEF Spec, ScheduleRespectsHolds
=============================================================================
