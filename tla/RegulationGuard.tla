--------------------------- MODULE RegulationGuard ---------------------------
(***************************************************************************)
(* Energy Devices' P1 correction: regulation_poll_once computes a candidate, *)
(* CorrectionGuard compares what the consumer shows with what was offered    *)
(* before and latches, RegulationSnapshotStore is what the API serves, and   *)
(* the published policy is what HEMS relies on to let the battery discharge  *)
(* beside a charging EV.                                                    *)
(*                                                                         *)
(* Time is counted in ticks, one poll in each at most; a time is an age that *)
(* stops at the limit it is compared with.  How a candidate is computed      *)
(* (regulation_candidate, RegulationObserver) is one of Candidates.  The    *)
(* deployed minimum of one ready report is always met and is left out.      *)
(***************************************************************************)
EXTENDS Naturals

CONSTANTS
    None,
    Candidates,  \* bound: values a correction takes, more than 50 W apart
    Fresh,       \* three seconds: sources, consumer reports, snapshots, polls
    Transfer,    \* five seconds in which the consumer may show an offer
    Loss,        \* ten seconds without a usable measurement
    Grace,       \* ten seconds a last good value is held: measurement_grace_seconds
    Mismatch,    \* thirty seconds of another value
    Stable,      \* ten seconds of fresh measurements before a trial
    Trial,       \* ten seconds a trial may take
    Confirm,     \* three confirmations end it
    Faults       \* the faults this instance allows

AllFaults ==
    {"restart",   \* the add-on restarts, with correction on or off
     "disk",      \* writing or removing the guard's file raises OSError
     "corrupt",   \* its file is unreadable at the first start
     "publish"}   \* publish_regulation_policy raises

LOSS == "persistent_measurement_loss"
MISMATCH == "offered_correction_mismatch"
UNREADABLE == "guard_state_unreadable"
Reasons == {LOSS, MISMATCH, UNREADABLE}

Age(limit) == 0..limit \cup {None}
Older(age, limit) == IF age = None \/ age = limit THEN age ELSE age + 1
Since(age) == IF age = None THEN 0 ELSE age    \* x = x or now

\* sent: the API served it.
Offer == [age: 0..Transfer, value: Candidates, sent: BOOLEAN]
Guard ==
    [latched: Reasons \cup {None},      \* latched_reason
     since: Age(Stable),                \* recovery_since
     previous: Age(Fresh + 1),          \* recovery_previous
     probe: Age(Trial),                 \* recovery_probe
     matches: 0..Confirm,               \* recovery_matches
     consumer: Age(Fresh + 1),          \* recovery_consumer_at
     bad: Age(Mismatch),                \* bad_since
     missing: Age(Loss),                \* missing_since
     valid: Age(Loss),                  \* last_valid_measurement
     offers: SUBSET Offer]
Good == [value: Candidates, measured: 0..Grace + 1]
Snapshot == [ready: BOOLEAN, holding: BOOLEAN, value: Candidates \cup {None},
             evaluated: 0..Fresh + 1, measured: 0..Grace + 1]

\* What one poll finds: its sources, and what the consumer reports.
Poll ==
    [status: {"ready", "blocked"},
     age: 0..Fresh + 1,                          \* at the check, after its HTTP calls
     candidate: Candidates,
     offered: Candidates \cup {"other", None},   \* other: within 50 W of none
     reported: 0..Fresh \cup {None},             \* None: no fresh report
     fallback: BOOLEAN]

ASSUME RegulationGuardAssumption ==
    /\ Fresh \in Nat \ {0} /\ Transfer \in Nat /\ Loss \in Nat /\ Grace \in Nat
    /\ Fresh <= Grace /\ Grace <= Loss /\ Fresh < Loss
    /\ Mismatch \in Nat /\ Stable \in Nat /\ Trial \in Nat /\ Confirm \in Nat \ {0}
    /\ None \notin Nat \cup Reasons \cup Candidates \cup {"corrupt"} \cup Snapshot \cup Good
    /\ "other" \notin Candidates
    /\ Faults \subseteq AllFaults

VARIABLES
    enabled,     \* regulation_control_enabled of this run
    guard,       \* the CorrectionGuard
    file,        \* picot_ev_regulation_guard.json: a reason, "corrupt" or None
    snapshot,    \* RegulationSnapshotStore._snapshot, or None
    lastGood,    \* _last_good, or None
    relies,      \* age of the measurement that the published policy rests on, or None
    polled,      \* a poll was made in this tick
    completed,   \* and its answer stored
    latchedFor   \* history: ticks since the latch was set

vars == <<enabled, guard, file, snapshot, lastGood, relies, polled, completed, latchedFor>>

Types ==
    /\ enabled \in BOOLEAN /\ guard \in Guard
    /\ file \in Reasons \cup {"corrupt", None}
    /\ snapshot \in Snapshot \cup {None} /\ lastGood \in Good \cup {None}
    /\ relies \in 0..Fresh \cup {None}
    /\ polled \in BOOLEAN /\ completed \in BOOLEAN
    /\ latchedFor \in 0..Fresh + 1

\* Only a latched loss is on trial, after fresh measurements, and only a trial has
\* confirmations; check's "recovering" and what HEMS is told follow the trial.
OnTrial(g) ==
    /\ g.probe # None => g.latched = LOSS /\ g.since # None
    /\ g.matches > 0 => g.probe # None

\* The types, and what recovery leaves behind: nothing of a trial that has ended.
TypeOK == Types /\ OnTrial(guard)

\* CorrectionGuard.__init__, when correction is on.
Started(f) ==
    [latched |-> IF f = "corrupt" THEN UNREADABLE ELSE f, since |-> None,
     previous |-> None, probe |-> None, matches |-> 0, consumer |-> None,
     bad |-> None, missing |-> None, valid |-> None, offers |-> {}]

Init ==
    /\ enabled = TRUE
    /\ file \in {None} \cup {f \in {"corrupt"} : "corrupt" \in Faults}
    /\ guard = Started(file)
    /\ snapshot = None /\ lastGood = None /\ relies = None
    /\ polled = FALSE /\ completed = FALSE /\ latchedFor = 0

-----------------------------------------------------------------------------
(* CorrectionGuard.check.  g is the guard it finds, i the poll.             *)

Usable(i) == i.offered # None
Matched(g, i) == \E o \in g.offers : o.value = i.offered
Comparable(g) == g.offers # {}

\* Mutant: no latch is ever tried again.
RecoversNever(g) == FALSE

\* _recover: a latched loss is tried again, after fresh measurements for Stable,
\* with a trial that Confirm reports of the consumer in a row must prove.
Recovers(g) == g.latched = LOSS
Valid(i) == i.status = "ready" /\ Usable(i) /\ i.age <= Fresh
Continuous(g) == g.previous = None \/ g.previous \in 1..Fresh
Unproven(g) == [g EXCEPT !.since = None, !.probe = None, !.matches = 0, !.offers = {}]

Steady(g, i) ==
    LET kept == IF Valid(i) /\ Continuous(g) THEN g ELSE Unproven(g)
    IN  [kept EXCEPT !.previous = 0, !.since = IF Valid(i) THEN Since(@) ELSE None]

Confirmed(g, i) ==
    /\ Matched(g, i) /\ i.reported # None /\ ~i.fallback
    /\ g.consumer = None \/ i.reported < g.consumer

\* s is the guard after Steady.
Tried(s, g, i) ==
    [s EXCEPT !.consumer = i.reported,
         !.matches = CASE ~Confirmed(g, i) -> 0
                       [] Confirmed(g, i) /\ @ = Confirm -> Confirm
                       [] OTHER -> @ + 1]

\* Mutant: a released loss stays on trial, and a later loss would be "recovering".
ReleasedOnTrial(g) ==
    [g EXCEPT !.latched = None, !.missing = None, !.bad = None,
              !.since = None, !.matches = 0]

Released(g) ==
    [g EXCEPT !.latched = None, !.missing = None, !.bad = None,
              !.since = None, !.probe = None, !.matches = 0]

Judged(t) ==
    IF t.matches = Confirm THEN Released(t)
    ELSE IF t.probe >= Trial THEN Unproven(t) ELSE t

MayTry(s, i) == Valid(i) /\ s.since >= Stable

\* Mutant: the corrections of before the trial are kept to compare with.
RecoveredKeeping(s, g, i) ==
    IF ~MayTry(s, i) THEN s
    ELSE IF s.probe = None THEN [s EXCEPT !.probe = 0]
    ELSE Judged(Tried(s, g, i))

Recovered(s, g, i) ==
    IF ~MayTry(s, i) THEN s
    ELSE IF s.probe = None THEN [s EXCEPT !.probe = 0, !.offers = {}]
    ELSE Judged(Tried(s, g, i))

\* The watch of a guard that is not latched, or no longer.
Lost(i) == i.status # "ready" \/ ~Usable(i)

\* Mutant: every gap starts when it is detected.
MissingFromDetection(g, i) == IF ~Lost(i) THEN None ELSE Since(g.missing)

MissingSince(g, i) ==
    IF ~Lost(i) THEN None
    ELSE IF g.missing # None THEN g.missing
    ELSE IF i.status # "ready" /\ g.valid # None THEN g.valid ELSE 0

BadSince(g, i, matched, comparable) ==
    IF ~comparable \/ matched THEN None
    ELSE IF Usable(i) THEN Since(g.bad) ELSE g.bad

\* Both reasons may be due in one check; the later one stands.
LossDue(g) == g.missing # None /\ g.missing >= Loss
WrongDue(g, i, comparable) == comparable /\ Usable(i) /\ g.bad # None /\ g.bad >= Mismatch

Watched(g, i, matched, comparable) ==
    LET w == [g EXCEPT !.missing = MissingSince(g, i),
                       !.bad = BadSince(g, i, matched, comparable)]
    IN  [w EXCEPT !.latched = CASE WrongDue(w, i, comparable) -> MISMATCH
                                [] ~WrongDue(w, i, comparable) /\ LossDue(w) -> LOSS
                                [] OTHER -> None]

Measured(g, i) == IF i.status = "ready" THEN [g EXCEPT !.valid = i.age] ELSE g

Checked(g, i) ==
    LET m == Measured(g, i)
        r == IF Recovers(g) THEN Recovered(Steady(m, i), m, i) ELSE m
    IN  IF r.latched = None THEN Watched(r, i, Matched(g, i), Comparable(g)) ELSE r

Recovering(g) == g.latched = LOSS /\ g.probe # None
Permits(g) == g.latched = None \/ Recovering(g)

Offered(g, i) ==
    IF i.status = "ready"
    THEN [g EXCEPT !.offers = @ \cup
              {[age |-> 0, value |-> i.candidate, sent |-> Permits(g)]}]
    ELSE g

-----------------------------------------------------------------------------
(* RegulationSnapshotStore.update and read, and what HEMS makes of it.       *)

Blocked == [ready |-> FALSE, holding |-> FALSE, value |-> None,
            evaluated |-> 0, measured |-> 0]

MayHold(g) == g.latched = None /\ lastGood # None /\ lastGood.measured <= Grace

Updated(g, i) ==
    IF i.status = "ready" /\ Permits(g)
    THEN [ready |-> TRUE, holding |-> FALSE, value |-> i.candidate,
          evaluated |-> 0, measured |-> i.age]
    ELSE IF MayHold(g)
    THEN [ready |-> TRUE, holding |-> TRUE, value |-> lastGood.value,
          evaluated |-> 0, measured |-> lastGood.measured]
    ELSE Blocked

Served ==
    /\ snapshot # None /\ snapshot.ready /\ snapshot.evaluated <= Fresh
    /\ snapshot.measured <= IF snapshot.holding THEN Grace ELSE Fresh

\* Mutant: a trial is as good as a correction.
GroundWithTrial(g, s) == IF s.ready /\ s.measured <= Fresh THEN s.measured ELSE None

\* read_external_load_policy: exclusion_control_available, from what is published;
\* a trial is no ground to discharge.
Ground(g, s) ==
    IF s.ready /\ s.measured <= Fresh /\ ~Recovering(g) THEN s.measured ELSE None

-----------------------------------------------------------------------------
Store(g, i) ==
    /\ guard' = Offered(g, i)
    /\ snapshot' = Updated(g, i)
    /\ lastGood' = IF i.status = "ready" /\ Permits(g)
                   THEN [value |-> i.candidate, measured |-> i.age] ELSE lastGood
    /\ \/ relies' = Ground(g, Updated(g, i))
       \/ "publish" \in Faults /\ relies' = relies
    /\ completed' = TRUE

LatchedFor(g) ==
    latchedFor' = IF g.latched # None /\ guard.latched = None THEN 0 ELSE latchedFor

RegulationPoll(i) ==
  \E g \in {Checked(guard, i)} :
    /\ enabled /\ ~polled
    /\ file' = IF g.latched # guard.latched THEN g.latched ELSE file
    /\ Store(g, i) /\ LatchedFor(g)
    /\ polled' = TRUE
    /\ UNCHANGED enabled

\* latch sets the reason before it writes the file, _recover removes the file
\* before it clears the reason; the error ends the poll.
RaisesIn(g, i) ==
    \/ /\ guard.latched = None /\ g.latched = MISMATCH
       /\ guard' = g /\ file' = IF LossDue(g) THEN LOSS ELSE file
    \/ /\ guard.latched = None /\ LossDue(g)
       /\ guard' = [g EXCEPT !.latched = LOSS, !.bad = guard.bad] /\ file' = file
    \/ /\ guard.latched # None /\ g.latched = None
       /\ guard' = Tried(Steady(Measured(guard, i), i), guard, i) /\ file' = file

PollRaises(i) ==
    /\ "disk" \in Faults
    /\ enabled /\ ~polled
    /\ RaisesIn(Checked(guard, i), i)
    /\ LatchedFor(guard')
    /\ polled' = TRUE /\ completed' = FALSE
    /\ UNCHANGED <<enabled, snapshot, lastGood, relies>>

\* One tick.
Elapse ==
    /\ guard' = [guard EXCEPT
           !.since = Older(@, Stable), !.previous = Older(@, Fresh + 1),
           !.probe = Older(@, Trial), !.consumer = Older(@, Fresh + 1),
           !.bad = Older(@, Mismatch), !.missing = Older(@, Loss),
           !.valid = Older(@, Loss),
           !.offers = {[o EXCEPT !.age = @ + 1] : o \in {p \in @ : p.age < Transfer}}]
    /\ snapshot' = IF snapshot = None THEN None
                   ELSE [snapshot EXCEPT !.evaluated = Older(@, Fresh + 1),
                                         !.measured = Older(@, Grace + 1)]
    /\ lastGood' = IF lastGood = None THEN None
                   ELSE [lastGood EXCEPT !.measured = Older(@, Grace + 1)]
    /\ relies' = IF relies \in {None, Fresh} THEN None ELSE relies + 1
    /\ polled' = FALSE
    /\ latchedFor' = Older(latchedFor, Fresh + 1)
    /\ UNCHANGED <<enabled, file, completed>>

\* Mutant: a start reads no latch.
RestartForgets(on) ==
    /\ "restart" \in Faults
    /\ enabled' = on
    /\ file' = IF on THEN file ELSE None
    /\ guard' = Started(None)
    /\ snapshot' = None /\ lastGood' = None
    /\ polled' = FALSE /\ completed' = FALSE
    /\ UNCHANGED <<relies, latchedFor>>

\* With correction off the latch and its file are removed, and a start with the
\* file in place latches.
Restart(on) ==
    /\ "restart" \in Faults
    /\ enabled' = on
    /\ file' = IF on THEN file ELSE None
    /\ guard' = Started(file')
    /\ snapshot' = None /\ lastGood' = None
    /\ polled' = FALSE /\ completed' = FALSE
    /\ UNCHANGED <<relies, latchedFor>>

\* What a blocked poll leaves unread is fixed.
Polls == {i \in Poll : i.status = "blocked" =>
              /\ i.age = 0 /\ i.reported = None /\ i.fallback
              /\ i.candidate = CHOOSE c \in Candidates : TRUE}

Next ==
    \/ \E i \in Polls : RegulationPoll(i) \/ PollRaises(i)
    \/ Elapse \/ (\E on \in BOOLEAN : Restart(on))

Spec == Init /\ [][Next]_vars

-----------------------------------------------------------------------------
(* Properties.                                                             *)

\* The guard compares the consumer's value with corrections that were really
\* transmitted: a value it only computed while it was blocked proves nothing.
ComparesTransmitted == Permits(guard) => \A o \in guard.offers : o.sent

\* A gap in the measurements is bridged or latched, and a latch serves nothing: of
\* what a poll stored the API answers only what the guard permits, and it answers
\* everything else, but a value whose own source is older than Fresh, until the
\* latch is no further away than the age a source may have at its check.
ServesUntilLatched ==
    polled /\ completed /\ lastGood # None =>
        /\ Served => Permits(guard)
        /\ Permits(guard) /\ ~Served =>
            \/ guard.missing # None /\ guard.missing + Fresh + 1 > Grace
            \/ ~snapshot.holding /\ snapshot.measured > Fresh

\* "An already ageing last-good source must not start another ten-second grace
\* period on detection": the guard latches when the hold ends.
LatchMatchesHold ==
    polled /\ completed /\ lastGood # None /\ Permits(guard) => Served

\* A wrong correction or an unreadable record stands, through every restart, until
\* the user turns the correction off.
WrongCorrectionStands ==
    [][enabled' /\ guard.latched \in {MISMATCH, UNREADABLE}
            /\ guard.latched = Started(file).latched
         => guard'.latched = guard.latched]_vars

\* HEMS does not rely on the correction of a latched guard, nor on its trials, once
\* what was published before the latch has aged.
ReliesOnProven == relies # None /\ enabled /\ guard.latched # None => latchedFor <= Fresh

\* A loss of measurements that has passed does not keep the correction off: with a
\* poll in every tick, sources that are fresh and a consumer that shows an offered
\* value when there is one, the latch ends.
HealthyPolls ==
    {i \in Polls : Valid(i) /\ i.reported = 0 /\ ~i.fallback}
Shows(i) == \/ guard.offers = {}
            \/ \E o \in guard.offers : i.offered = o.value
HealthyPoll == \E i \in HealthyPolls : Shows(i) /\ RegulationPoll(i)

AllIsWell == <>[][HealthyPoll \/ (polled /\ Elapse)]_vars
FairSpec == Spec /\ WF_vars(Elapse) /\ WF_vars(HealthyPoll)
LossEnds == AllIsWell => (guard.latched = LOSS ~> guard.latched # LOSS)
=============================================================================
