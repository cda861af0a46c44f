---------------------------- MODULE SourceControl ----------------------------
(***************************************************************************)
(* Home Climate's Control and the part of Schedule that watches it: how a  *)
(* request for a heat source becomes one durable command, one call to Home *)
(* Assistant and, later, a confirmation or a timeout; and how a change of  *)
(* the source is told from the effect of such a command.                   *)
(*                                                                         *)
(* Control.lock is held through a whole submit, so nothing of the add-on   *)
(* runs between its steps; the source, its user and the process's end do.  *)
(* A command here sets the mode of a source.                               *)
(***************************************************************************)
EXTENDS Naturals

CONSTANTS
    Sources,   \* the entities of Control.bindings
    Ids,       \* request identifiers
    Scheduled, \* those of the schedule: each of its requests has a fresh one
    Modes,     \* modes of a source, "off" among them
    None,
    Faults     \* the faults this instance allows, a subset of AllFaults

AllFaults ==
    {"restart",        \* the add-on stops and starts
     "rejected",       \* Home Assistant answers with a client error
     "uncertain",      \* the call fails, perhaps after it was executed
     "store_error",    \* a write to the database raises
     "unavailable"}    \* a reading lacks the source

PENDING == {"sending", "awaiting_feedback", "uncertain"}
Statuses == PENDING \cup {"confirmed", "already_set", "superseded", "failed",
                          "timed_out", "interrupted"}

Command == [source: Sources, mode: Modes, status: Statuses, created: Nat,
            sent: BOOLEAN, before: Modes]

Holds == [Sources -> Ids \cup {"observed", None}]
Baselines == [Sources -> Modes \cup {None}]

ASSUME SourceControlAssumption ==
    /\ "off" \in Modes
    /\ None \notin Modes \cup Ids \cup Command
    /\ "observed" \notin Ids \cup {None}
    /\ "user" \notin Ids
    /\ Scheduled \subseteq Ids
    /\ Faults \subseteq AllFaults

VARIABLES
    mode,       \* what each source shows in Home Assistant
    flight,     \* commands accepted and not yet carried out
    records,    \* the commands table
    clock,      \* the time of the next command, in commands
    late,       \* commands whose deadline has passed
    call,       \* the submit in progress
    baseline,   \* Schedule: the mode last observed
    override,   \* Schedule: the manual choice that holds a source: the request
                \* that made it, "observed", or None
    stored,     \* Schedule: both of them as they were last saved
    turned,     \* history: the request that turned the source last, or "user"
    sends       \* history: how often each request was sent

device == <<mode, turned>>
schedule == <<baseline, override, stored>>
vars == <<device, flight, records, clock, late, call, schedule, sends>>

NoCall == [step |-> "idle", id |-> None, status |-> "sending"]

TypeOK ==
    /\ mode \in [Sources -> Modes]
    /\ flight \subseteq Ids /\ late \subseteq Ids
    /\ records \in [Ids -> Command \cup {None}] /\ clock \in Nat
    /\ call \in [step: {"idle", "send", "save"}, id: Ids \cup {None}, status: Statuses]
    /\ call.step # "idle" => call.id \in Ids /\ records[call.id] # None
    /\ baseline \in Baselines /\ override \in Holds
    /\ stored \in [baseline: Baselines, override: Holds]
    /\ turned \in [Sources -> Ids \cup {"user"}]
    /\ sends \in [Ids -> Nat]

Init ==
    /\ mode \in [Sources -> Modes]
    /\ flight = {} /\ late = {}
    /\ records = [id \in Ids |-> None] /\ clock = 0
    /\ call = NoCall
    /\ baseline = [s \in Sources |-> None] /\ override = [s \in Sources |-> None]
    /\ stored = [baseline |-> baseline, override |-> override]
    /\ turned = [s \in Sources |-> "user"]
    /\ sends = [id \in Ids |-> 0]

-----------------------------------------------------------------------------
(* A reading of Home Assistant's states, and what it does to the records *)

Reading(seen) ==
    /\ seen \in [Sources -> Modes \cup {None}]
    /\ \A s \in Sources :
         seen[s] = mode[s] \/ ("unavailable" \in Faults /\ seen[s] = None)

Ongoing(id) == records[id] # None /\ records[id].status \in PENDING

WithStatus(id, status) == [records[id] EXCEPT !.status = status]

\* Mutant: a command whose call was not answered never expires.
ExpiredWhenAnswered(id) ==
    IF Ongoing(id) /\ id \in late /\ records[id].status = "awaiting_feedback"
    THEN WithStatus(id, "timed_out") ELSE records[id]

Expired(id) ==
    IF Ongoing(id) /\ id \in late THEN WithStatus(id, "timed_out") ELSE records[id]

\* expire comes first: a confirmation that is too late is a timeout.
Observed(id, seen) ==
    IF Ongoing(id) /\ id \notin late /\ seen[records[id].source] = records[id].mode
    THEN WithStatus(id, "confirmed") ELSE Expired(id)

ObservedRecords(seen) == [id \in Ids |-> Observed(id, seen)]

\* The newest command of s that may still be settling, in the records of recs.
Own(recs, s, id) ==
    LET Counts(i) == /\ recs[i] # None
                     /\ recs[i].source = s /\ recs[i].sent
                     /\ i \notin late /\ recs[i].status # "failed"
    IN  /\ Counts(id)
        /\ \A i \in Ids : Counts(i) => recs[i].created <= recs[id].created

\* A change of s is a command's own effect, or its source settling back.
Expected(recs, s, shown) ==
    \E id \in Ids :
        /\ Own(recs, s, id)
        /\ \/ shown = recs[id].mode
           \/ recs[id].status \in PENDING /\ shown = recs[id].before

Changed(seen, s) ==
    seen[s] # None /\ baseline[s] # None /\ seen[s] # baseline[s]

HeldAfter(recs, seen) ==
    [s \in Sources |->
        IF Changed(seen, s) /\ ~Expected(recs, s, seen[s]) THEN "observed"
        ELSE override[s]]

BaselineAfter(seen) ==
    [s \in Sources |-> IF seen[s] = None THEN baseline[s] ELSE seen[s]]

Saved == stored' = [baseline |-> baseline', override |-> override']

\* A reading taken in: the records first, then the schedule.
TakeIn(seen) ==
    /\ Reading(seen)
    /\ records' = ObservedRecords(seen)
    /\ baseline' = BaselineAfter(seen)

Observe ==
    /\ call.step = "idle"
    /\ \E seen \in Baselines :
         TakeIn(seen) /\ override' = HeldAfter(ObservedRecords(seen), seen)
    /\ Saved
    /\ UNCHANGED <<device, flight, clock, late, call, sends>>

\* A reading whose taking in ends at a write that raises: of a command, of a
\* new hold, or of the schedule at the end.
CommandUnsaved(seen) ==
    /\ \E done \in SUBSET {id \in Ids : Ongoing(id)} :
         records' = [id \in Ids |-> IF id \in done THEN Observed(id, seen) ELSE records[id]]
    /\ UNCHANGED schedule

HoldUnsaved(seen) ==
    /\ records' = ObservedRecords(seen)
    /\ override' = HeldAfter(records', seen) /\ override' # override
    /\ UNCHANGED <<baseline, stored>>

ScheduleUnsaved(seen) ==
    /\ records' = ObservedRecords(seen)
    /\ override' = HeldAfter(records', seen)
    /\ baseline' = BaselineAfter(seen)
    /\ stored' = IF override' = override THEN stored
                 ELSE [baseline |-> baseline, override |-> override']

ObserveAborts ==
    /\ "store_error" \in Faults /\ call.step = "idle"
    /\ \E seen \in Baselines :
         /\ Reading(seen)
         /\ CommandUnsaved(seen) \/ HoldUnsaved(seen) \/ ScheduleUnsaved(seen)
    /\ UNCHANGED <<device, flight, clock, late, call, sends>>

\* Showing the sources ends what is late, without a reading.
ShowSources ==
    /\ call.step = "idle"
    /\ records' = [id \in Ids |-> Expired(id)]
    /\ UNCHANGED <<device, flight, clock, late, call, schedule, sends>>

-----------------------------------------------------------------------------
(* Control.submit *)

\* What holds a source is given up by a command that failed or never was.
Active(recs, held, s) ==
    CASE held[s] = None -> FALSE
      [] held[s] = "observed" -> TRUE
      [] OTHER -> /\ recs[held[s]] # None
                  /\ recs[held[s]].status \notin {"failed", "superseded"}

\* Mutant: the guard trusts the holds from before the fresh reading.
GuardPassesStale(recs, held, s, id) ==
    id \in Scheduled => ~Active(records, override, s)

\* The schedule's guard, after the fresh reading: the source is not held.
GuardPasses(recs, held, s, id) == id \in Scheduled => ~Active(recs, held, s)

\* Schedule.intent: a manual command holds its source from the start.
HeldBy(held, s, id) == IF id \in Scheduled THEN held ELSE [held EXCEPT ![s] = id]

\* Mutant: the commands that were replaced keep their status.
SupersededInMemory(recs, s) == recs

Superseded(recs, s) ==
    [id \in Ids |->
        IF recs[id] # None /\ recs[id].source = s /\ recs[id].status \in PENDING
        THEN [recs[id] EXCEPT !.status = "superseded"] ELSE recs[id]]

\* Mutant: only a request that is still going on is recognised.
KnownWhileOngoing(id) == Ongoing(id)

\* A request that is already recorded is answered with its record, and one
\* that reuses its identifier for something else is refused.
Known(id) == records[id] # None

OngoingOn(recs, s) ==
    \E id \in Ids :
        recs[id] # None /\ recs[id].source = s /\ recs[id].status \in PENDING

\* Mutant: the mode before the command is not looked at.
BeforeUnset(s, m, status) ==
    [source |-> s, mode |-> m, status |-> status, created |-> clock,
     sent |-> status = "sending", before |-> None]

NewCommand(s, m, status) ==
    [source |-> s, mode |-> m, status |-> status, created |-> clock,
     sent |-> status = "sending", before |-> mode[s]]

\* force_off: an "off" of the schedule is sent to a source that is off, too.
MustSend(recs, s, m, id) ==
    mode[s] # m \/ OngoingOn(recs, s) \/ (id \in Scheduled /\ m = "off")

\* Refused after the fresh reading: no such capability, another command is
\* going on, or the guard finds that the decision no longer stands.
Refuse(recs, held) ==
    records' = recs /\ override' = held /\ Saved /\ UNCHANGED <<clock, call>>

AlreadySet(recs, held, id, s, m) ==
    /\ ~MustSend(recs, s, m, id)
    /\ records' = [recs EXCEPT ![id] = NewCommand(s, m, "already_set")]
    /\ override' = HeldBy(held, s, id) /\ Saved
    /\ clock' = clock + 1
    /\ UNCHANGED call

\* record_intent: the new command and what it replaces, in one transaction.
RecordIntent(recs, held, id, s, m) ==
    /\ MustSend(recs, s, m, id)
    /\ records' = [Superseded(recs, s) EXCEPT ![id] = NewCommand(s, m, "sending")]
    /\ override' = HeldBy(held, s, id) /\ Saved
    /\ clock' = clock + 1
    /\ call' = [NoCall EXCEPT !.step = "send", !.id = id]

\* The write of the hold raises, or the one of the command after it: nothing
\* will be sent.
IntentFails(recs, held, id, s) ==
    /\ "store_error" \in Faults
    /\ records' = recs
    /\ override' = HeldBy(held, s, id)
    /\ Saved \/ stored' = [baseline |-> baseline', override |-> held]
    /\ UNCHANGED <<clock, call>>

Submit(id, s, m) ==
    /\ call.step = "idle" /\ ~Known(id)
    /\ \E seen \in Baselines :
         LET recs == ObservedRecords(seen)
             held == HeldAfter(recs, seen)
         IN  /\ Reading(seen)
             /\ baseline' = BaselineAfter(seen)
             /\ \/ Refuse(recs, held)
                \/ /\ seen[s] # None
                   /\ m = "off" \/ ~OngoingOn(recs, s)
                   /\ GuardPasses(recs, held, s, id)
                   /\ \/ AlreadySet(recs, held, id, s, m)
                      \/ RecordIntent(recs, held, id, s, m)
                      \/ IntentFails(recs, held, id, s)
    /\ UNCHANGED <<device, flight, late, sends>>

Answered(status) ==
    /\ call.step = "send"
    /\ call' = [call EXCEPT !.step = "save", !.status = status]
    /\ sends' = [sends EXCEPT ![call.id] = @ + 1]
    /\ UNCHANGED <<device, records, clock, late, schedule>>

SendAccepted == Answered("awaiting_feedback") /\ flight' = flight \cup {call.id}

SendRejected ==
    "rejected" \in Faults /\ Answered("failed") /\ UNCHANGED flight

SendUncertain ==
    /\ "uncertain" \in Faults /\ Answered("uncertain")
    /\ flight' \in {flight, flight \cup {call.id}}

Send == SendAccepted \/ SendRejected \/ SendUncertain

\* When the answer cannot be saved the command stays "sending".
Save ==
    /\ call.step = "save"
    /\ \/ records' = [records EXCEPT ![call.id].status = call.status]
       \/ "store_error" \in Faults /\ UNCHANGED records
    /\ call' = NoCall
    /\ UNCHANGED <<device, flight, clock, late, schedule, sends>>

-----------------------------------------------------------------------------
(* Time, the sources and the process *)

DeadlinePasses(id) ==
    /\ records[id] # None /\ id \notin late
    /\ late' = late \cup {id}
    /\ UNCHANGED <<device, flight, records, clock, call, schedule, sends>>

Shows(s, m, by) ==
    /\ mode' = [mode EXCEPT ![s] = m]
    /\ turned' = IF m = mode[s] THEN turned ELSE [turned EXCEPT ![s] = by]
    /\ UNCHANGED <<records, clock, late, call, schedule, sends>>

SourceObeys(id) ==
    /\ id \in flight
    /\ flight' = flight \ {id}
    /\ Shows(records[id].source, records[id].mode, id)

UserTurns(s, m) == m # mode[s] /\ Shows(s, m, "user") /\ UNCHANGED flight

\* The button that resumes the schedule gives up every hold, after a reading.
Resume ==
    /\ call.step = "idle"
    /\ \E seen \in Baselines : TakeIn(seen)
    /\ override' = [s \in Sources |-> None]
    /\ Saved
    /\ UNCHANGED <<device, flight, clock, late, call, sends>>

\* The next boundary of the schedule.
HoldEnds(s) ==
    /\ call.step = "idle" /\ override[s] # None
    /\ override' = [override EXCEPT ![s] = None]
    /\ stored' = [stored EXCEPT !.override[s] = None]
    /\ UNCHANGED <<device, flight, records, clock, late, call, baseline, sends>>

\* What was going on is interrupted, never sent again; the schedule is the
\* one last saved.
Restart ==
    /\ "restart" \in Faults
    /\ records' = [id \in Ids |->
                     IF Ongoing(id) THEN WithStatus(id, "interrupted") ELSE records[id]]
    /\ baseline' = stored.baseline /\ override' = stored.override
    /\ call' = NoCall
    /\ UNCHANGED <<device, flight, clock, late, stored, sends>>

Next ==
    \/ Observe \/ ObserveAborts \/ ShowSources \/ Resume
    \/ \E id \in Ids, s \in Sources, m \in Modes : Submit(id, s, m)
    \/ Send \/ Save \/ Restart
    \/ \E id \in Ids : DeadlinePasses(id) \/ SourceObeys(id)
    \/ \E s \in Sources : HoldEnds(s) \/ \E m \in Modes : UserTurns(s, m)

Spec == Init /\ [][Next]_vars

\* The loop looks on, with a reading or without one, a call ends, deadlines
\* pass, and not every write fails.  Nothing is assumed of the sources, their
\* users or Home Assistant's answers.
FairSpec ==
    /\ Spec
    /\ WF_vars(Observe \/ ShowSources) /\ WF_vars(Send) /\ WF_vars(Save)
    /\ \A id \in Ids : WF_vars(DeadlinePasses(id))

-----------------------------------------------------------------------------
(* Properties *)

\* A request is sent at most once: not when it is repeated, not after a
\* failure or a timeout, not by a process that was restarted.
SentOnce == \A id \in Ids : sends[id] <= 1

\* One command is going on per source, although an "off" replaces the one
\* before it and the answer of either may fail to be saved.
OneOngoing ==
    \A i, j \in Ids :
        Ongoing(i) /\ Ongoing(j) /\ records[i].source = records[j].source => i = j

\* The schedule sends nothing to a source while a manual choice holds it, also
\* when the reading that comes with the command is the first to show it.
ScheduleRespectsHolds ==
    [][\A id \in Ids : sends'[id] > sends[id] /\ id \in Scheduled
         => ~Active(records, override, records[id].source)]_vars

\* Every command is confirmed, replaced, interrupted or given up in the end.
EveryCommandEnds == \A id \in Ids : Ongoing(id) ~> ~Ongoing(id)

\* The effect of a command that is not late is never taken for a manual change.
OverrideIsUsers ==
    [][\A s \in Sources :
         override[s] # "observed" /\ override'[s] = "observed"
           => turned[s] = "user" \/ turned[s] \in late]_vars
=============================================================================
