---------------------------- MODULE ModeControl ----------------------------
(***************************************************************************)
(* Who may change the battery's operating mode: the planner loop of        *)
(* live_runtime.main, the durable provenance runtime it shares with the    *)
(* HTTP threads that serve "give control back", the Home Assistant mode    *)
(* selector, and the user who may turn that selector at any time.          *)
(*                                                                         *)
(* One action is one step another thread can observe: a capture of Home    *)
(* Assistant's states, the read of the provenance runtime's current        *)
(* record, each file system call of its save, the assignment that follows, *)
(* one command.  Nothing serialises the threads (no lock is held by        *)
(* reset_current_manual_override, and the server has a thread for each     *)
(* request), and all save through the same temporary path.  The record     *)
(* fits in the file's buffer, so one write carries it.  The reads of the   *)
(* current record within one call, and the first load, are one step.       *)
(***************************************************************************)
EXTENDS StorageModeProvenance, Sequences

CONSTANTS
    Requests,   \* the HTTP threads that may serve a reset at a time
    NoFile,     \* no document at that path
    Empty,      \* a document that was opened for writing, and truncated
    Corrupt,    \* a document that cannot be decoded
    Unavailable,    \* what the selector shows while its integration is away
    Faults,     \* the faults this instance allows, a subset of AllFaults
    MaxRev,     \* bound: changes of the selector's state
    MaxFlight,  \* bound: commands sent and not yet shown by the selector
    MaxResets   \* bound: accepted presses of the reset button

AllFaults ==
    {"crash",           \* the add-on process stops and is restarted
     "command_error",   \* the transport fails, perhaps after the command ran
     "command_lost",    \* the call is accepted and the device never obeys
     "blind_capture",   \* the selector could not be read for one capture
     "outage",          \* the selector's integration goes away and comes back
     "corrupt_file",    \* the process starts with an unreadable document
     "no_daily_plan"}   \* planning may end in the guarded fallback

Unreadable == {Empty, Corrupt}

ASSUME ModeControlAssumption ==
    /\ "planner" \notin Requests
    /\ NoFile \notin Provenance \cup Unreadable
    /\ Empty # Corrupt /\ Unreadable \cap Provenance = {}
    /\ None \notin Provenance
    /\ Unavailable \in Modes
    /\ Faults \subseteq AllFaults
    /\ MaxRev \in Nat /\ MaxFlight \in Nat /\ MaxResets \in Nat

Threads == {"planner"} \cup Requests
Owners == {"planner", "user", "nobody"}

\* The modes that can be asked for.
Selectable == Modes \ {Unavailable}

VARIABLES
    selector,   \* Home Assistant's mode selector: mode, revision and, for the
                \* properties, who turned it last
    flight,     \* commands accepted and not yet visible in the selector
    disk,       \* the provenance document
    tmp,        \* the temporary document all threads write
    mem,        \* LiveStorageModeProvenanceRuntime._current
    loaded,     \* LiveStorageModeProvenanceRuntime._load_attempted
    txn,        \* per thread: the record being committed, how far, and the
                \* document that its open file is by now
    pc,         \* the planner loop's next step
    phase,      \* why the planner loop is looking at the selector
    snap,       \* the latest Planning Input snapshot's mode and provenance
    planSnap,   \* the immutable snapshot the current planning started from
    pending,    \* CanonicalExecutionRuntime._pending_vendor_mode
    commanded,  \* the mode of the command that is being recorded
    resets      \* accepted resets so far

store == <<disk, tmp, mem, loaded>>
loop == <<pc, phase, snap, planSnap, pending, commanded>>
world == <<selector, flight>>
vars == <<selector, flight, disk, tmp, mem, loaded, txn, pc, phase, snap,
          planSnap, pending, commanded, resets>>

-----------------------------------------------------------------------------

Snapshot == [mode: Modes \cup {None}, rev: Nat, prov: Provenance \cup {None}]
BlindSnapshot == [mode |-> None, rev |-> 0, prov |-> None]

Stages == {"none", "open", "write", "replace", "cleanup", "unlink", "abort", "assign"}
Files == {"none", "tmp", "disk", "gone"}
Commit == [stage: Stages, new: Provenance \cup {None}, file: Files]
Idle == [stage |-> "none", new |-> None, file |-> "none"]

PCs == {"capture", "observe", "commit_observation", "boundary", "decide",
        "planning", "record", "commit_application"}
Phases == {"poll", "refresh", "checkpoint", "final", "stale"}

TypeOK ==
    /\ selector \in [mode: Modes, rev: Nat, by: Owners]
    /\ flight \in Seq(Modes)
    /\ disk \in Provenance \cup Unreadable \cup {NoFile}
    /\ tmp \in Provenance \cup Unreadable \cup {NoFile}
    /\ mem \in Provenance \cup {None}
    /\ loaded \in BOOLEAN
    /\ txn \in [Threads -> Commit]
    /\ pc \in PCs
    /\ phase \in Phases
    /\ snap \in Snapshot /\ planSnap \in Snapshot
    /\ pending \in Modes \cup {None}
    /\ commanded \in Modes \cup {None}
    /\ resets \in Nat

Init ==
    /\ \E m \in Selectable : selector = [mode |-> m, rev |-> 0, by |-> "nobody"]
    /\ flight = <<>>
    /\ disk \in {NoFile} \cup (IF "corrupt_file" \in Faults THEN {Corrupt} ELSE {})
    /\ tmp = NoFile /\ mem = None /\ loaded = FALSE
    /\ txn = [t \in Threads |-> Idle]
    /\ pc = "capture" /\ phase = "poll"
    /\ snap = BlindSnapshot /\ planSnap = BlindSnapshot
    /\ pending = None /\ commanded = None
    /\ resets = 0

-----------------------------------------------------------------------------
(* The selector, outside the process *)

\* last_changed, the revision here, moves only when the state does.
Shows(mode, by) ==
    selector' = IF mode = selector.mode THEN selector
                ELSE [mode |-> mode, rev |-> selector.rev + 1, by |-> by]

UserSelects(mode) ==
    /\ selector.rev < MaxRev /\ mode # selector.mode
    /\ Shows(mode, "user")
    /\ UNCHANGED <<flight, store, txn, loop, resets>>

\* Home Assistant restarts, or the device drops off the network.  The state of
\* the entity is then the string "unavailable", with its options still there.
SelectorLeaves ==
    /\ "outage" \in Faults
    /\ selector.rev < MaxRev /\ selector.mode # Unavailable
    /\ Shows(Unavailable, "nobody")
    /\ UNCHANGED <<flight, store, txn, loop, resets>>

SelectorReturns(mode) ==
    /\ selector.mode = Unavailable
    /\ selector.rev < MaxRev
    /\ Shows(mode, "nobody")
    /\ UNCHANGED <<flight, store, txn, loop, resets>>

CommandTakesEffect ==
    /\ flight # <<>> /\ selector.rev < MaxRev
    /\ Shows(Head(flight), "planner")
    /\ flight' = Tail(flight)
    /\ UNCHANGED <<store, txn, loop, resets>>

CommandIsLost ==
    /\ "command_lost" \in Faults /\ flight # <<>>
    /\ flight' = Tail(flight)
    /\ UNCHANGED <<selector, store, txn, loop, resets>>

-----------------------------------------------------------------------------
(* The durable provenance runtime *)

\* Mutant: the stored record is never read.
CurrentInMemory == IF loaded THEN mem ELSE None

\* _load_current: the document is read once; an unreadable one is no record.
Current ==
    IF loaded THEN mem ELSE IF disk \in {NoFile} \cup Unreadable THEN None ELSE disk

\* A process that starts: nothing but the documents survives.
Restart ==
    /\ mem' = None /\ loaded' = FALSE
    /\ txn' = [t \in Threads |-> Idle]
    /\ pc' = "capture" /\ phase' = "poll"
    /\ snap' = BlindSnapshot /\ planSnap' = BlindSnapshot
    /\ pending' = None /\ commanded' = None

\* The call computes its new record from the current one and starts to save.
StartCommit(t, new) ==
    /\ txn' = [txn EXCEPT ![t] = [stage |-> "open", new |-> new, file |-> "none"]]
    /\ mem' = Current /\ loaded' = TRUE

Advance(t, stage) == txn' = [txn EXCEPT ![t].stage = stage]

\* A failing call: the request dies with its thread, and nothing catches it in the loop.
Fails(t) ==
    IF t = "planner"
    THEN Restart
    ELSE txn' = [txn EXCEPT ![t] = Idle] /\ UNCHANGED <<mem, loaded, loop>>

\* open("w") truncates the file of another thread that is there.
SaveOpen(t) ==
    /\ txn[t].stage = "open"
    /\ tmp' = Empty
    /\ txn' = [txn EXCEPT ![t].stage = "write", ![t].file = "tmp"]
    /\ UNCHANGED <<world, disk, mem, loaded, loop, resets>>

\* A record written over another one may leave the end of it behind.
Written(document, new) == IF document = Empty THEN {new} ELSE {new, Corrupt}

\* json.dump, flush and fsync: one write, into the file that was opened, wherever it is.
SaveWrite(t) ==
    /\ txn[t].stage = "write"
    /\ tmp' \in IF txn[t].file = "tmp" THEN Written(tmp, txn[t].new) ELSE {tmp}
    /\ disk' \in IF txn[t].file = "disk" THEN Written(disk, txn[t].new) ELSE {disk}
    /\ txn' = [txn EXCEPT ![t].stage = "replace", ![t].file = "none"]
    /\ UNCHANGED <<world, mem, loaded, loop, resets>>

\* os.replace: what others still have open is the document now, or nowhere.
SaveReplace(t) ==
    /\ txn[t].stage = "replace" /\ tmp # NoFile
    /\ disk' = tmp /\ tmp' = NoFile
    /\ txn' = [u \in Threads |->
                 IF u = t THEN [txn[t] EXCEPT !.stage = "cleanup"]
                 ELSE [txn[u] EXCEPT !.file = CASE @ = "tmp" -> "disk"
                                                [] @ = "disk" -> "gone"
                                                [] OTHER -> @]]
    /\ UNCHANGED <<world, mem, loaded, loop, resets>>

\* It raises FileNotFoundError when another thread took the file.
SaveReplaceFails(t) ==
    /\ txn[t].stage = "replace" /\ tmp = NoFile
    /\ Advance(t, "abort")
    /\ UNCHANGED <<world, store, loop, resets>>

\* What a thread leaves of the others' commits when it removes the temporary file.
Orphaned(u) == [txn[u] EXCEPT !.file = IF @ = "tmp" THEN "gone" ELSE @]

\* The `finally' clause removes whatever temporary file exists by then, and the error
\* goes on.
SaveAborts(t) ==
    /\ txn[t].stage = "abort"
    /\ tmp' = NoFile
    /\ IF t = "planner"
       THEN Restart
       ELSE /\ txn' = [u \in Threads |-> IF u = t THEN Idle ELSE Orphaned(u)]
            /\ UNCHANGED <<mem, loaded, loop>>
    /\ UNCHANGED <<world, disk, resets>>

\* After a rename, too: `if temporary_path.exists()', and then unlink.
SaveCleanup(t) ==
    /\ txn[t].stage = "cleanup"
    /\ Advance(t, IF tmp = NoFile THEN "assign" ELSE "unlink")
    /\ UNCHANGED <<world, store, loop, resets>>

SaveUnlink(t) ==
    /\ txn[t].stage = "unlink" /\ tmp # NoFile
    /\ tmp' = NoFile
    /\ txn' = [u \in Threads |-> IF u = t THEN [txn[t] EXCEPT !.stage = "assign"]
                                 ELSE Orphaned(u)]
    /\ UNCHANGED <<world, disk, mem, loaded, loop, resets>>

SaveUnlinkFails(t) ==
    /\ txn[t].stage = "unlink" /\ tmp = NoFile
    /\ Fails(t)
    /\ UNCHANGED <<world, disk, tmp, resets>>

\* Where the loop goes on after an observation, and after a boundary check.
AfterObserve == IF phase = "refresh" THEN "decide" ELSE "boundary"
AfterBoundary ==
    CASE phase = "poll" -> "decide"
      [] phase = "checkpoint" -> "planning"
      [] OTHER -> "capture"
PhaseAfterBoundary == IF phase \in {"poll", "checkpoint"} THEN phase ELSE "poll"

SaveAssign(t) ==
    /\ txn[t].stage = "assign"
    /\ mem' = txn[t].new
    /\ txn' = [txn EXCEPT ![t] = Idle]
    /\ CASE t = "planner" /\ pc = "commit_observation" ->
              /\ snap' = [snap EXCEPT !.prov = txn[t].new]
              /\ pc' = AfterObserve
              /\ UNCHANGED <<phase, commanded>>
         [] t = "planner" /\ pc # "commit_observation" ->
              /\ pc' = AfterBoundary /\ phase' = PhaseAfterBoundary
              /\ commanded' = None
              /\ UNCHANGED snap
         [] OTHER -> UNCHANGED <<pc, phase, snap, commanded>>
    /\ UNCHANGED <<world, disk, tmp, loaded, planSnap, pending, resets>>

-----------------------------------------------------------------------------
(* An HTTP thread: POST /api/storage-mode-override/reset *)

\* Refused with ValueError, so a 409, when no override is active.
ResetRequest(r) ==
    /\ txn[r].stage = "none" /\ resets < MaxResets
    /\ Current # None /\ ManualOverrideActive(Current)
    /\ StartCommit(r, ResetOverride(Current, selector.rev))
    /\ resets' = resets + 1
    /\ UNCHANGED <<world, disk, tmp, loop>>

-----------------------------------------------------------------------------
(* The planner loop *)

Capture ==
    /\ pc = "capture"
    /\ snap' = [mode |-> selector.mode, rev |-> selector.rev, prov |-> None]
    /\ pc' = "observe"
    /\ UNCHANGED <<world, store, txn, phase, planSnap, pending, commanded, resets>>

\* Mutant: a capture without a mode is observed like any other.
ObserveBlind ==
    /\ "blind_capture" \in Faults
    /\ pc = "capture"
    /\ snap' = BlindSnapshot
    /\ pc' = "observe"
    /\ UNCHANGED <<world, store, txn, phase, planSnap, pending, commanded, resets>>

\* No current_vendor_mode: attach_storage_mode_provenance leaves None.
CaptureBlind ==
    /\ "blind_capture" \in Faults
    /\ pc = "capture"
    /\ snap' = BlindSnapshot
    /\ pc' = AfterObserve
    /\ UNCHANGED <<world, store, txn, phase, planSnap, pending, commanded, resets>>

ObserveVendorMode ==
    /\ pc = "observe"
    /\ StartCommit("planner",
           CASE Current # None -> Observe(Current, snap.mode, snap.rev)
             [] Current = None /\ disk \in Unreadable ->
                  InitialProvenance(snap.mode, snap.rev, "persisted_provenance_invalid")
             [] OTHER ->
                  InitialProvenance(snap.mode, snap.rev, "no_planner_application_recorded"))
    /\ pc' = "commit_observation"
    /\ UNCHANGED <<world, disk, tmp, phase, snap, planSnap, pending, commanded, resets>>

\* A replan request makes the poll capture again before its boundary check.
Recapture ==
    /\ pc = "boundary" /\ phase = "poll"
    /\ pc' = "capture"
    /\ UNCHANGED <<world, store, txn, phase, snap, planSnap, pending, commanded, resets>>

\* Mutant: any record will do.
AuthorisedByRecord(s) == s.mode # None /\ s.prov # None

\* What the boundary check is allowed to act on.
Authorised(s) ==
    /\ s.mode # None
    /\ s.prov # None /\ ~ManualOverrideActive(s.prov)

Basis == IF phase = "stale" THEN planSnap ELSE snap

Proceed ==
    /\ pc' = AfterBoundary /\ phase' = PhaseAfterBoundary
    /\ UNCHANGED <<snap, planSnap, commanded>>

\* Refused by provenance, not due, or stopped by any other guard.
BoundaryBlocked ==
    /\ pc = "boundary"
    /\ Proceed
    /\ UNCHANGED <<world, store, txn, pending, resets>>

\* Already active: the loop records it as its own, the boundary check does not.
BoundaryAlreadyActive(mode) ==
    /\ pc = "boundary" /\ Authorised(Basis) /\ Basis.mode = mode
    /\ pending' = None
    /\ IF phase \in {"final", "stale"}
       THEN pc' = "record" /\ commanded' = mode /\ UNCHANGED <<phase, snap, planSnap>>
       ELSE Proceed
    /\ UNCHANGED <<world, store, txn, resets>>

MayCommand(mode) ==
    /\ pc = "boundary" /\ Authorised(Basis) /\ Basis.mode # mode
    /\ pending # mode         \* _feedback_status: awaiting, or timed out
    /\ Len(flight) < MaxFlight

Command(mode) ==
    /\ MayCommand(mode)
    /\ flight' = Append(flight, mode)
    /\ pending' = mode
    /\ pc' = "record" /\ commanded' = mode
    /\ UNCHANGED <<selector, store, txn, phase, snap, planSnap, resets>>

\* The adapter answers "failed": pending keeps its value.  A timeout leaves it
\* open whether Home Assistant executed the call.
CommandFails(mode) ==
    /\ "command_error" \in Faults /\ MayCommand(mode)
    /\ flight' \in {flight, Append(flight, mode)}
    /\ Proceed
    /\ UNCHANGED <<selector, store, txn, pending, resets>>

\* Mutant: the mode is pending although the command was not sent.
RaisesPending(mode) ==
    /\ "command_error" \in Faults /\ MayCommand(mode)
    /\ pending' = mode
    /\ Proceed
    /\ UNCHANGED <<world, store, txn, resets>>

\* The adapter raises before the call is sent.
CommandRaises(mode) ==
    /\ "command_error" \in Faults /\ MayCommand(mode)
    /\ pending' = None
    /\ Proceed
    /\ UNCHANGED <<world, store, txn, resets>>

RecordApplication ==
    /\ pc = "record" /\ ~ManualOverrideActive(Current)
    /\ StartCommit("planner", RecordPlannerApplication(Current, commanded))
    /\ pc' = "commit_application"
    /\ UNCHANGED <<world, disk, tmp, phase, snap, planSnap, pending, commanded, resets>>

\* record_planner_mode_application raises; nothing catches it in the loop.
RecordRefused ==
    /\ pc = "record" /\ ManualOverrideActive(Current)
    /\ Restart
    /\ UNCHANGED <<world, disk, tmp, resets>>

NextPoll ==
    /\ pc \in {"decide", "planning"}
    /\ pc' = "capture" /\ phase' = "poll"
    /\ UNCHANGED <<world, store, txn, snap, planSnap, pending, commanded, resets>>

\* Completion or an accepted route: look again before planning.
Refresh ==
    /\ pc = "decide"
    /\ pc' = "capture" /\ phase' = "refresh"
    /\ UNCHANGED <<world, store, txn, snap, planSnap, pending, commanded, resets>>

BeginPlanning ==
    /\ pc = "decide"
    /\ planSnap' = snap
    /\ pc' = "planning"
    /\ UNCHANGED <<world, store, txn, phase, snap, pending, commanded, resets>>

\* PlanningExecutionService.checkpoint, while market alternatives are built.
Checkpoint ==
    /\ pc = "planning"
    /\ pc' = "capture" /\ phase' = "checkpoint"
    /\ UNCHANGED <<world, store, txn, snap, planSnap, pending, commanded, resets>>

\* live_plan_ready with a daily context: apply_committed on a fresh snapshot.
FinishCommitted ==
    /\ pc = "planning"
    /\ pc' = "capture" /\ phase' = "final"
    /\ UNCHANGED <<world, store, txn, snap, planSnap, pending, commanded, resets>>

\* live_fallback_ready: apply(run) on the snapshot that planning started from.
FinishFallback ==
    /\ "no_daily_plan" \in Faults
    /\ pc = "planning"
    /\ pc' = "boundary" /\ phase' = "stale"
    /\ UNCHANGED <<world, store, txn, snap, planSnap, pending, commanded, resets>>

Crash ==
    /\ "crash" \in Faults
    /\ Restart
    /\ UNCHANGED <<world, disk, tmp, resets>>

Save(t) ==
    \/ SaveOpen(t) \/ SaveWrite(t) \/ SaveReplace(t) \/ SaveReplaceFails(t)
    \/ SaveAborts(t) \/ SaveCleanup(t) \/ SaveUnlink(t) \/ SaveUnlinkFails(t)
    \/ SaveAssign(t)

Boundary ==
    \/ BoundaryBlocked
    \/ \E mode \in Selectable :
         \/ BoundaryAlreadyActive(mode)
         \/ Command(mode) \/ CommandFails(mode) \/ CommandRaises(mode)

Planner ==
    \/ Capture \/ CaptureBlind \/ ObserveVendorMode \/ Recapture \/ Boundary
    \/ RecordApplication \/ RecordRefused
    \/ NextPoll \/ Refresh \/ BeginPlanning \/ Checkpoint
    \/ FinishCommitted \/ FinishFallback
    \/ Save("planner")

Environment ==
    \/ \E mode \in Selectable : UserSelects(mode) \/ SelectorReturns(mode)
    \/ SelectorLeaves
    \/ CommandTakesEffect \/ CommandIsLost

Request(r) == ResetRequest(r) \/ Save(r)

Next == Planner \/ (\E r \in Requests : Request(r)) \/ Environment \/ Crash

Spec == Init /\ [][Next]_vars

\* The loop never ends: every wait in it is bounded by the poll interval.  Home
\* Assistant owes nothing, and the user neither.
\* A loop that is stopped or sees nothing again and again notices nothing: it does
\* so only finitely often.
FairSpec ==
    /\ Spec
    /\ WF_vars(Planner) /\ \A r \in Requests : WF_vars(Save(r))
    /\ <>[][~Crash /\ ~CaptureBlind]_vars

-----------------------------------------------------------------------------
(* Properties *)

Owner ==
    IF Current # None /\ ManualOverrideActive(Current) THEN "user" ELSE "planner"

Serving(r) == txn[r].stage # "none"
OneReset == \A r, u \in Requests : Serving(r) /\ Serving(u) => r = u

\* The mode whose feedback the dispatcher awaits is the mode the provenance
\* holds for the planner's, whatever one HTTP thread does meanwhile: else the
\* feedback of the planner's own command would look like a manual selection.
\* (Of two resets that overlap, the second assigns a record that is older than
\* what the planner applied after the first.)
PendingIsRecorded ==
    pending # None /\ pc \notin {"record", "commit_application"} =>
        Current # None /\ Current.planned = pending

\* A boundary check, which looked at the selector just before, never sends a
\* command while a manual override is on record.
BoundaryRespectsOverride ==
    [][Len(flight') > Len(flight) /\ phase # "stale" => Owner = "planner"]_vars

\* Every command, so also the fallback that ends a planning: no command is
\* sent while a manual override is on record.
CommandsRespectOverride ==
    [][Len(flight') > Len(flight) => Owner = "planner"]_vars

\* What a restart would read instead of the override: the end of it, or, after resets that
\* raced with a save, nothing.
DocumentLost ==
    \/ disk \in Provenance /\ disk.status = "released"
    \/ disk \in Unreadable /\ resets > 0

\* A reset that was asked for may still end the override: it is being committed, or it
\* has left its mark on the document, although its caller was answered with an error or
\* an observation overtook it.
ResetUnderWay ==
    \/ \E r \in Requests : Serving(r)
    \/ /\ DocumentLost
       /\ \/ Owner = "user"
          \/ /\ txn["planner"].stage \in {"cleanup", "unlink", "assign"}
             /\ ManualOverrideActive(txn["planner"].new)

\* A manual override is given up only by a reset: no observation, application, failed
\* save or restart ends it.
OnlyResetReleases ==
    [][Owner = "user" /\ Owner' = "planner" => ResetUnderWay]_vars

\* After a reset the override comes back only when the selector was seen to
\* show another mode than the one it was released with.
ResetIsNotUndone ==
    [][mem # None /\ mem' # None /\ mem.status = "released"
         /\ mem'.status = "manual_override" => mem'.observed # mem.observed]_vars

\* A manual selection that stands against the planner's mode is noticed.
Disowned ==
    /\ selector.by = "user" /\ Current # None
    /\ Current.status = "planner_owned"
    /\ Current.rev < selector.rev /\ selector.mode # Current.planned
TakeoverIsNoticed ==
    Disowned ~> \/ Owner = "user"
                \/ selector.by = "planner"
                \/ Current # None /\ selector.mode = Current.planned

\* While nobody turns the selector by hand, no manual override is recorded: the
\* loop takes neither its own late effects nor the absence of the selector for
\* the user's choice.
OverridesAreManual == [](selector.by # "user") => [](Owner = "planner")

\* The threads, documents and snapshots implement the one-owner promise.
Authority == INSTANCE ModeAuthority WITH
                owner <- Owner, asked <- ResetUnderWay
ImplementsAuthority == Authority!Spec
=============================================================================
