-------------------------- MODULE ModeControlProof --------------------------
(***************************************************************************)
(* What ModeControl promises for any set of modes, any number of requests, *)
(* any faults and bounds, however the HTTP threads' resets, the file       *)
(* system calls of racing saves, failing saves and restarts interleave     *)
(* with the live loop: its type; that a boundary check never commands the  *)
(* selector while a manual override is on record; that only a reset gives  *)
(* up an override; that a feedback the runtime awaits is the one its       *)
(* record names, while no two resets overlap; and that, while no planning  *)
(* ends in the fallback, it implements ModeAuthority.                      *)
(***************************************************************************)
EXTENDS ModeControl, TLAPS

(* The records of storage_mode_provenance.py *)

\* The owner after an observation is a status with a reason.
LEMMA OwnerType ==
    ASSUME NEW p \in Provenance, NEW mode \in Modes, NEW rev \in Nat
    PROVE  /\ OwnerAfter(p, mode, rev).status \in Statuses
           /\ OwnerAfter(p, mode, rev).reason \in Reasons
  BY DEF OwnerAfter, Provenance, Statuses, Reasons

\* Every transition of a provenance record returns a provenance record.
LEMMA ProvenanceTransitions ==
    ASSUME NEW p \in Provenance, NEW mode \in Modes, NEW rev \in Nat
    PROVE  /\ RecordPlannerApplication(p, mode) \in Provenance
           /\ Observe(p, mode, rev) \in Provenance
           /\ ResetOverride(p, rev) \in Provenance
<1>1. RecordPlannerApplication(p, mode) \in Provenance
  BY DEF RecordPlannerApplication, Provenance, Statuses, Reasons
<1>2. Observe(p, mode, rev) \in Provenance
  BY OwnerType DEF Observe, Provenance
<1>3. ResetOverride(p, rev) \in Provenance
  BY DEF ResetOverride, Provenance, Statuses, Reasons
<1> QED  BY <1>1, <1>2, <1>3

LEMMA InitialProvenanceType ==
    ASSUME NEW mode \in Modes, NEW rev \in Nat, NEW why \in Reasons
    PROVE  InitialProvenance(mode, rev, why) \in Provenance
  BY DEF InitialProvenance, Provenance, Statuses

\* A reset leaves no override behind.
LEMMA ResetReleases ==
    ASSUME NEW p \in Provenance, NEW rev \in Nat
    PROVE  ~ManualOverrideActive(ResetOverride(p, rev))
  BY DEF ResetOverride, ManualOverrideActive, Provenance

-----------------------------------------------------------------------------
(* Type correctness needs what a commit in progress carries and what the     *)
(* steps of the loop rely on: both are part of the invariant.                *)

CommitsCarryRecords ==
    \A t \in Threads : txn[t].stage # "none" => txn[t].new \in Provenance /\ loaded

StepsHaveTheirInput ==
    /\ pc = "observe" => snap.mode \in Modes
    /\ pc = "record" => commanded \in Modes /\ mem # None
    /\ snap.prov # None \/ planSnap.prov # None => mem # None
    /\ mem # None => loaded

WellFormed == TypeOK /\ CommitsCarryRecords /\ StepsHaveTheirInput

\* The record a thread would work on is a record or None.
LEMMA CurrentType ==
    ASSUME TypeOK
    PROVE  Current \in Provenance \cup {None}
  BY DEF Current, TypeOK

LEMMA IdleType == Idle \in Commit /\ Idle.stage = "none"
  BY DEF Idle, Commit, Stages, Files

\* A process that starts is well formed, whatever its documents say.
LEMMA RestartWellFormed ==
    ASSUME Restart, WellFormed,
           selector' \in [mode: Modes, rev: Nat, by: Owners], flight' \in Seq(Modes),
           disk' \in Provenance \cup Unreadable \cup {NoFile},
           tmp' \in Provenance \cup Unreadable \cup {NoFile},
           resets' \in Nat
    PROVE  WellFormed'
<1>1. BlindSnapshot \in Snapshot
  BY DEF BlindSnapshot, Snapshot, Owners
<1>2. txn' \in [Threads -> Commit]
  BY IdleType DEF Restart
<1>3. \A t \in Threads : txn'[t].stage = "none"
  BY DEF Restart, Idle
<1>4. TypeOK'
  BY <1>1, <1>2 DEF Restart, TypeOK, PCs, Phases
<1> QED  BY <1>3, <1>4 DEF Restart, WellFormed, CommitsCarryRecords, StepsHaveTheirInput,
                           BlindSnapshot

\* A commit that starts carries its record, and reads the document first.
LEMMA StartCommitType ==
    ASSUME WellFormed, NEW t \in Threads, NEW new \in Provenance, StartCommit(t, new)
    PROVE  /\ txn' \in [Threads -> Commit]
           /\ mem' \in Provenance \cup {None} /\ loaded' = TRUE
           /\ CommitsCarryRecords'
           /\ mem # None => mem' = mem
<1>1. txn' = [txn EXCEPT ![t] = [stage |-> "open", new |-> new, file |-> "none"]]
  BY DEF StartCommit
<1>2. [stage |-> "open", new |-> new, file |-> "none"] \in Commit
  BY DEF Commit, Stages, Files
<1>3. txn' \in [Threads -> Commit]
  BY <1>1, <1>2 DEF WellFormed, TypeOK
<1>4. mem' \in Provenance \cup {None} /\ loaded' = TRUE
  BY CurrentType DEF StartCommit, WellFormed
<1>5. mem # None => mem' = mem
  BY DEF StartCommit, Current, WellFormed, StepsHaveTheirInput
<1>6. CommitsCarryRecords'
  BY <1>1, <1>4 DEF WellFormed, CommitsCarryRecords, TypeOK
<1> QED  BY <1>3, <1>4, <1>5, <1>6

LEMMA InitWellFormed == Init => WellFormed
<1> SUFFICES ASSUME Init PROVE WellFormed
  OBVIOUS
<1>1. selector \in [mode: Modes, rev: Nat, by: Owners]
  BY DEF Init, Owners, Selectable
<1>2. txn \in [Threads -> Commit]
  BY IdleType DEF Init
<1>3. BlindSnapshot \in Snapshot
  BY DEF BlindSnapshot, Snapshot, Owners
<1>4. flight \in Seq(Modes) /\ disk \in Provenance \cup Unreadable \cup {NoFile}
  BY DEF Init, Unreadable
<1>5. pc \in PCs /\ phase \in Phases
  BY DEF Init, PCs, Phases
<1>6. /\ tmp \in Provenance \cup Unreadable \cup {NoFile} /\ mem \in Provenance \cup {None}
      /\ loaded \in BOOLEAN
      /\ pending \in Modes \cup {None} /\ commanded \in Modes \cup {None}
      /\ resets \in Nat
  BY DEF Init
<1>7. snap \in Snapshot /\ planSnap \in Snapshot
  BY <1>3 DEF Init
<1>8. TypeOK
  BY <1>1, <1>2, <1>4, <1>5, <1>6, <1>7 DEF TypeOK
<1> QED  BY <1>8 DEF Init, WellFormed, CommitsCarryRecords, StepsHaveTheirInput, Idle,
                     BlindSnapshot

\* The selector and its commands: nothing of the process moves.
LEMMA EnvironmentWellFormed == WellFormed /\ Environment => WellFormed'
<1> SUFFICES ASSUME WellFormed, Environment PROVE WellFormed'
  OBVIOUS
<1>1. ASSUME NEW mode \in Modes, NEW by \in Owners, Shows(mode, by)
      PROVE  selector' \in [mode: Modes, rev: Nat, by: Owners]
  BY <1>1 DEF Shows, WellFormed, TypeOK
<1>2. UNCHANGED <<store, txn, loop, resets>>
  BY DEF Environment, UserSelects, SelectorLeaves, SelectorReturns, CommandTakesEffect,
         CommandIsLost
<1>3. CASE \/ \E mode \in Selectable : UserSelects(mode) \/ SelectorReturns(mode)
           \/ SelectorLeaves
  <2>1. Unavailable \in Modes /\ Selectable \subseteq Modes
    BY ModeControlAssumption DEF Selectable
  <2>2. PICK mode \in Modes, by \in Owners : Shows(mode, by) /\ flight' = flight
    BY <1>3, <2>1 DEF UserSelects, SelectorReturns, SelectorLeaves, Owners
  <2>3. selector' \in [mode: Modes, rev: Nat, by: Owners] /\ flight' = flight
    BY <1>1, <2>2
  <2> QED  BY <1>2, <2>3 DEF store, loop, WellFormed, TypeOK, CommitsCarryRecords,
                             StepsHaveTheirInput
<1>4. CASE CommandTakesEffect
  <2>1. Head(flight) \in Modes /\ Tail(flight) \in Seq(Modes)
    BY <1>4 DEF CommandTakesEffect, WellFormed, TypeOK
  <2>2. selector' \in [mode: Modes, rev: Nat, by: Owners]
    BY <1>1, <1>4, <2>1 DEF CommandTakesEffect, Owners
  <2> QED  BY <1>2, <1>4, <2>1, <2>2 DEF CommandTakesEffect, store, loop, WellFormed,
                             TypeOK, CommitsCarryRecords, StepsHaveTheirInput
<1>5. CASE CommandIsLost
  <2>1. Tail(flight) \in Seq(Modes)
    BY <1>5 DEF CommandIsLost, WellFormed, TypeOK
  <2> QED  BY <1>2, <1>5, <2>1 DEF CommandIsLost, store, loop, WellFormed,
                             TypeOK, CommitsCarryRecords, StepsHaveTheirInput
<1> QED  BY <1>3, <1>4, <1>5 DEF Environment

\* What a step of a save does to the commits: it goes on with the record it carries, a
\* request dies, the record is assigned, or the loop fails and the process starts again.
Continues(t) == txn'[t].stage # "none" /\ txn'[t].new = txn[t].new /\ UNCHANGED <<mem, loop>>
RequestDies(t) == t \in Requests /\ txn'[t] = Idle /\ UNCHANGED <<mem, loop>>

LEMMA SaveEffect ==
    ASSUME WellFormed, NEW t \in Threads, Save(t)
    PROVE  /\ txn[t].stage # "none"
           /\ txn' \in [Threads -> Commit]
           /\ UNCHANGED <<world, resets>>
           /\ disk' \in Provenance \cup Unreadable \cup {NoFile}
           /\ tmp' \in Provenance \cup Unreadable \cup {NoFile}
           /\ \/ t = "planner" /\ Restart /\ disk' = disk
              \/ /\ \A u \in Threads : u # t => /\ txn'[u].stage = txn[u].stage
                                                /\ txn'[u].new = txn[u].new
                 /\ loaded' = loaded
                 /\ Continues(t) \/ RequestDies(t) \/ SaveAssign(t)
<1> USE DEF Continues, RequestDies, Commit, Files
<1>1. txn \in [Threads -> Commit]
      /\ disk \in Provenance \cup Unreadable \cup {NoFile}
      /\ tmp \in Provenance \cup Unreadable \cup {NoFile}
  BY DEF WellFormed, TypeOK
<1>2. /\ txn[t].stage # "none" /\ UNCHANGED <<world, resets>>
      /\ t = "planner" \/ t \in Requests
      /\ txn[t].new \in Provenance
  BY DEF Save, SaveOpen, SaveWrite, SaveReplace, SaveReplaceFails, SaveAborts, SaveCleanup,
         SaveUnlink, SaveUnlinkFails, SaveAssign, Threads, WellFormed, CommitsCarryRecords
<1>3. CASE SaveOpen(t)
  BY <1>1, <1>2, <1>3 DEF SaveOpen, Stages, Unreadable
<1>4. CASE SaveWrite(t)
  <2>1. \A document : Written(document, txn[t].new) \subseteq {txn[t].new, Corrupt}
    BY DEF Written
  <2>2. disk' \in Provenance \cup Unreadable \cup {NoFile}
        /\ tmp' \in Provenance \cup Unreadable \cup {NoFile}
    BY <1>1, <1>2, <1>4, <2>1 DEF SaveWrite, Unreadable
  <2>3. /\ txn' = [txn EXCEPT ![t].stage = "replace", ![t].file = "none"]
        /\ UNCHANGED <<mem, loaded, loop>>
    BY <1>4 DEF SaveWrite
  <2> QED  BY <1>1, <1>2, <2>2, <2>3 DEF Stages
<1>5. CASE SaveReplace(t)
  <2>1. /\ txn' = [u \in Threads |->
                 IF u = t THEN [txn[t] EXCEPT !.stage = "cleanup"]
                 ELSE [txn[u] EXCEPT !.file = CASE @ = "tmp" -> "disk"
                                                [] @ = "disk" -> "gone"
                                                [] OTHER -> @]]
        /\ disk' = tmp /\ tmp' = NoFile /\ UNCHANGED <<mem, loaded, loop>>
    BY <1>5 DEF SaveReplace
  <2> QED  BY <1>1, <1>2, <2>1 DEF Stages
<1>6. CASE SaveReplaceFails(t) \/ SaveCleanup(t)
  <2>1. /\ \E stage \in {"abort", "assign", "unlink"} : Advance(t, stage)
        /\ UNCHANGED <<disk, tmp, mem, loaded, loop>>
    BY <1>6 DEF SaveReplaceFails, SaveCleanup, store
  <2> QED  BY <1>1, <1>2, <2>1 DEF Advance, Stages
<1>7. CASE SaveAborts(t) /\ t # "planner"
  <2>1. /\ txn' = [u \in Threads |-> IF u = t THEN Idle ELSE Orphaned(u)]
        /\ tmp' = NoFile /\ UNCHANGED <<disk, mem, loaded, loop>>
    BY <1>7 DEF SaveAborts
  <2> QED  BY <1>1, <1>2, <1>7, <2>1, IdleType DEF Orphaned
<1>8. CASE SaveUnlink(t)
  <2>1. /\ txn' = [u \in Threads |-> IF u = t THEN [txn[t] EXCEPT !.stage = "assign"]
                                     ELSE Orphaned(u)]
        /\ tmp' = NoFile /\ UNCHANGED <<disk, mem, loaded, loop>>
    BY <1>8 DEF SaveUnlink
  <2> QED  BY <1>1, <1>2, <2>1 DEF Orphaned, Stages
<1>9. CASE SaveUnlinkFails(t) /\ t # "planner"
  BY <1>1, <1>2, <1>9, IdleType DEF SaveUnlinkFails, Fails
<1>10. CASE t = "planner" /\ (SaveAborts(t) \/ SaveUnlinkFails(t))
  <2>1. Restart /\ disk' = disk /\ tmp' \in {tmp, NoFile}
    BY <1>10 DEF SaveAborts, SaveUnlinkFails, Fails
  <2>2. txn' \in [Threads -> Commit]
    BY <2>1, IdleType DEF Restart
  <2> QED  BY <1>1, <1>2, <1>10, <2>1, <2>2
<1>11. CASE SaveAssign(t)
  <2>1. txn' = [txn EXCEPT ![t] = Idle] /\ UNCHANGED <<disk, tmp, loaded>>
    BY <1>11 DEF SaveAssign
  <2> QED  BY <1>1, <1>2, <1>11, <2>1, IdleType
<1> QED
  BY <1>3, <1>4, <1>5, <1>6, <1>7, <1>8, <1>9, <1>10, <1>11 DEF Save

\* The file system calls of a save, on any thread.
LEMMA SaveWellFormed == ASSUME WellFormed, NEW t \in Threads, Save(t) PROVE WellFormed'
<1> USE DEF world, loop
<1>1. /\ UNCHANGED <<selector, flight, resets>>
      /\ txn' \in [Threads -> Commit] /\ txn[t].stage # "none"
      /\ disk' \in Provenance \cup Unreadable \cup {NoFile}
      /\ tmp' \in Provenance \cup Unreadable \cup {NoFile}
  BY SaveEffect
<1>2. loaded /\ txn[t].new \in Provenance
  BY <1>1 DEF WellFormed, CommitsCarryRecords
<1>3. CASE Restart
  BY <1>1, <1>3, RestartWellFormed DEF WellFormed, TypeOK
<1>4. ASSUME Continues(t) \/ RequestDies(t), loaded' = loaded,
             \A u \in Threads : u # t => /\ txn'[u].stage = txn[u].stage
                                         /\ txn'[u].new = txn[u].new
      PROVE  WellFormed'
  <2>1. UNCHANGED <<mem, pc, phase, snap, planSnap, pending, commanded>>
    BY <1>4 DEF Continues, RequestDies
  <2>2. CommitsCarryRecords'
    BY <1>2, <1>4, IdleType DEF WellFormed, CommitsCarryRecords, Continues, RequestDies
  <2> QED  BY <1>1, <1>4, <2>1, <2>2 DEF WellFormed, TypeOK, StepsHaveTheirInput
<1>5. CASE SaveAssign(t)
  <2>1. mem' = txn[t].new /\ loaded' = loaded
    BY <1>5 DEF SaveAssign
  <2>2. mem' \in Provenance /\ mem' # None
    BY <1>2, <2>1, ModeControlAssumption
  <2>3. txn' = [txn EXCEPT ![t] = Idle]
    BY <1>5 DEF SaveAssign
  <2>4. CommitsCarryRecords'
    BY <1>2, <2>1, <2>3, IdleType DEF WellFormed, TypeOK, CommitsCarryRecords
  <2>5. /\ snap' \in Snapshot
        /\ pc' \in PCs /\ phase' \in Phases /\ commanded' \in Modes \cup {None}
        /\ pc' = "observe" => pc = "observe" /\ snap' = snap
        /\ pc' = "record" => pc = "record" /\ commanded' = commanded
    <3>1. CASE t = "planner" /\ pc = "commit_observation"
      <4>1. snap' = [snap EXCEPT !.prov = txn[t].new]
        BY <1>5, <3>1 DEF SaveAssign
      <4>2. snap' \in Snapshot
        BY <1>2, <4>1 DEF WellFormed, TypeOK, Snapshot
      <4>3. pc' \in {"decide", "boundary"} /\ UNCHANGED <<phase, commanded>>
        BY <1>5, <3>1 DEF SaveAssign, AfterObserve
      <4> QED  BY <4>2, <4>3 DEF WellFormed, TypeOK, PCs
    <3>2. CASE t = "planner" /\ pc # "commit_observation"
      <4>1. /\ pc' \in {"decide", "planning", "capture"}
            /\ phase' \in {"poll", "checkpoint"} /\ commanded' = None /\ snap' = snap
        BY <1>5, <3>2 DEF SaveAssign, AfterBoundary, PhaseAfterBoundary
      <4> QED  BY <4>1 DEF WellFormed, TypeOK, PCs, Phases
    <3>3. CASE t # "planner"
      BY <1>5, <3>3 DEF SaveAssign, WellFormed, TypeOK
    <3> QED  BY <3>1, <3>2, <3>3
  <2>6. UNCHANGED <<planSnap, pending>>
    BY <1>5 DEF SaveAssign
  <2>7. TypeOK'
    BY <1>1, <2>1, <2>2, <2>5, <2>6 DEF WellFormed, TypeOK
  <2>8. StepsHaveTheirInput'
    BY <1>2, <2>1, <2>2, <2>5 DEF WellFormed, StepsHaveTheirInput
  <2> QED  BY <2>4, <2>7, <2>8 DEF WellFormed
<1> QED  BY <1>3, <1>4, <1>5, SaveEffect

\* The request of an HTTP thread.
LEMMA ResetWellFormed ==
    ASSUME WellFormed, NEW r \in Requests, ResetRequest(r) PROVE WellFormed'
<1> USE DEF world, loop
<1>1. ResetOverride(Current, selector.rev) \in Provenance
  <2>1. Current \in Provenance /\ selector.rev \in Nat /\ selector.mode \in Modes
    BY CurrentType DEF ResetRequest, WellFormed, TypeOK
  <2> QED  BY <2>1, ProvenanceTransitions
<1>2. StartCommit(r, ResetOverride(Current, selector.rev)) /\ r \in Threads
  BY DEF ResetRequest, Threads
<1>3. /\ txn' \in [Threads -> Commit]
      /\ mem' \in Provenance \cup {None} /\ loaded' = TRUE
      /\ CommitsCarryRecords'
      /\ mem # None => mem' = mem
  BY <1>1, <1>2, StartCommitType
<1>4. resets' \in Nat
  BY DEF ResetRequest, WellFormed, TypeOK
<1>5. TypeOK'
  BY <1>3, <1>4 DEF ResetRequest, WellFormed, TypeOK
<1> QED  BY <1>3, <1>5 DEF ResetRequest, WellFormed, StepsHaveTheirInput

\* The boundary check proceeds to a step of the loop.
LEMMA ProceedType ==
    ASSUME WellFormed, Proceed
    PROVE  /\ pc' \in {"decide", "planning", "capture"}
           /\ phase' \in {"poll", "checkpoint"}
           /\ UNCHANGED <<snap, planSnap, commanded>>
  BY DEF Proceed, AfterBoundary, PhaseAfterBoundary

\* What the boundary check acts on has a record.
LEMMA BasisHasRecord ==
    ASSUME WellFormed, Authorised(Basis)
    PROVE  mem # None
  BY DEF Authorised, Basis, WellFormed, StepsHaveTheirInput

LEMMA BoundaryWellFormed == WellFormed /\ Boundary => WellFormed'
<1> SUFFICES ASSUME WellFormed, Boundary PROVE WellFormed'
  OBVIOUS
<1> USE DEF world, store
<1>1. CASE BoundaryBlocked
  BY <1>1, ProceedType DEF BoundaryBlocked, WellFormed, TypeOK, PCs, Phases,
                           CommitsCarryRecords, StepsHaveTheirInput
<1>2. ASSUME NEW mode \in Modes, BoundaryAlreadyActive(mode)
      PROVE  WellFormed'
  <2>1. mem # None
    BY <1>2, BasisHasRecord DEF BoundaryAlreadyActive
  <2>2. CASE phase \in {"final", "stale"}
    BY <1>2, <2>1, <2>2 DEF BoundaryAlreadyActive, WellFormed, TypeOK, PCs,
                            CommitsCarryRecords, StepsHaveTheirInput
  <2>3. CASE phase \notin {"final", "stale"}
    BY <1>2, <2>3, ProceedType DEF BoundaryAlreadyActive, WellFormed, TypeOK, PCs, Phases,
                                   CommitsCarryRecords, StepsHaveTheirInput
  <2> QED  BY <2>2, <2>3
<1>3. ASSUME NEW mode \in Modes, Command(mode)
      PROVE  WellFormed'
  <2>1. mem # None
    BY <1>3, BasisHasRecord DEF Command, MayCommand
  <2>2. flight' \in Seq(Modes)
    BY <1>3 DEF Command, WellFormed, TypeOK
  <2> QED  BY <1>3, <2>1, <2>2 DEF Command, WellFormed, TypeOK, PCs,
                                   CommitsCarryRecords, StepsHaveTheirInput
<1>4. ASSUME NEW mode \in Modes, CommandFails(mode)
      PROVE  WellFormed'
  <2>1. flight' \in Seq(Modes)
    BY <1>4 DEF CommandFails, WellFormed, TypeOK
  <2> QED  BY <1>4, <2>1, ProceedType DEF CommandFails, WellFormed, TypeOK, PCs, Phases,
                                          CommitsCarryRecords, StepsHaveTheirInput
<1>5. ASSUME NEW mode \in Modes, CommandRaises(mode)
      PROVE  WellFormed'
  BY <1>5, ProceedType DEF CommandRaises, WellFormed, TypeOK, PCs, Phases,
                           CommitsCarryRecords, StepsHaveTheirInput
<1> QED  BY <1>1, <1>2, <1>3, <1>4, <1>5 DEF Boundary, Selectable

\* The other steps of the loop.
LEMMA StepsWellFormed ==
    WellFormed /\ (Planner /\ ~Boundary /\ ~Save("planner")) => WellFormed'
<1> SUFFICES ASSUME WellFormed, Planner, ~Boundary, ~Save("planner")
             PROVE  WellFormed'
  OBVIOUS
<1> USE DEF world, store
<1>1. CASE Capture
  <2>1. snap' \in Snapshot /\ snap'.mode \in Modes /\ snap'.prov = None
    BY <1>1 DEF Capture, WellFormed, TypeOK, Snapshot
  <2> QED  BY <1>1, <2>1 DEF Capture, WellFormed, TypeOK, PCs, CommitsCarryRecords,
                             StepsHaveTheirInput
<1>2. CASE CaptureBlind
  <2>1. snap' \in Snapshot /\ snap'.prov = None
    BY <1>2 DEF CaptureBlind, BlindSnapshot, Snapshot, Owners
  <2>2. pc' \in {"decide", "boundary"}
    BY <1>2 DEF CaptureBlind, AfterObserve
  <2> QED  BY <1>2, <2>1, <2>2 DEF CaptureBlind, WellFormed, TypeOK, PCs,
                                   CommitsCarryRecords, StepsHaveTheirInput
<1>3. CASE ObserveVendorMode
  <2>1. snap.mode \in Modes /\ snap.rev \in Nat
    BY <1>3 DEF ObserveVendorMode, WellFormed, StepsHaveTheirInput, TypeOK, Snapshot
  <2>2. PICK new \in Provenance : StartCommit("planner", new)
    <3>1. Current # None => Observe(Current, snap.mode, snap.rev) \in Provenance
      BY <2>1, CurrentType, ProvenanceTransitions DEF WellFormed
    <3>2. \A why \in Reasons : InitialProvenance(snap.mode, snap.rev, why) \in Provenance
      BY <2>1, InitialProvenanceType
    <3>3. "persisted_provenance_invalid" \in Reasons
          /\ "no_planner_application_recorded" \in Reasons
      BY DEF Reasons
    <3> QED  BY <1>3, <3>1, <3>2, <3>3 DEF ObserveVendorMode
  <2>3. /\ txn' \in [Threads -> Commit]
        /\ mem' \in Provenance \cup {None} /\ loaded' = TRUE
        /\ CommitsCarryRecords'
        /\ mem # None => mem' = mem
    BY <2>2, StartCommitType DEF Threads
  <2> QED  BY <1>3, <2>3 DEF ObserveVendorMode, WellFormed, TypeOK, PCs, StepsHaveTheirInput
<1>4. CASE RecordApplication
  <2>1. mem # None /\ loaded /\ commanded \in Modes /\ Current \in Provenance
    BY <1>4, CurrentType DEF RecordApplication, WellFormed, StepsHaveTheirInput, Current
  <2>2. RecordPlannerApplication(Current, commanded) \in Provenance
    BY <2>1, ProvenanceTransitions, 0 \in Nat
  <2>3. /\ txn' \in [Threads -> Commit]
        /\ mem' \in Provenance \cup {None} /\ loaded' = TRUE
        /\ CommitsCarryRecords'
        /\ mem # None => mem' = mem
    BY <1>4, <2>2, StartCommitType DEF RecordApplication, Threads
  <2> QED  BY <1>4, <2>3 DEF RecordApplication, WellFormed, TypeOK, PCs, StepsHaveTheirInput
<1>5. CASE RecordRefused
  BY <1>5, RestartWellFormed DEF RecordRefused, WellFormed, TypeOK
<1>6. CASE Recapture \/ NextPoll \/ Refresh \/ Checkpoint \/ FinishCommitted \/ FinishFallback
  BY <1>6 DEF Recapture, NextPoll, Refresh, Checkpoint, FinishCommitted, FinishFallback,
              WellFormed, TypeOK, PCs, Phases, CommitsCarryRecords, StepsHaveTheirInput
<1>7. CASE BeginPlanning
  BY <1>7 DEF BeginPlanning, WellFormed, TypeOK, PCs, CommitsCarryRecords,
              StepsHaveTheirInput
<1> QED  BY <1>1, <1>2, <1>3, <1>4, <1>5, <1>6, <1>7 DEF Planner

LEMMA NextWellFormed == WellFormed /\ [Next]_vars => WellFormed'
<1> SUFFICES ASSUME WellFormed, [Next]_vars PROVE WellFormed'
  OBVIOUS
<1>1. CASE Planner
  BY <1>1, BoundaryWellFormed, StepsWellFormed, SaveWellFormed DEF Threads
<1>2. ASSUME NEW r \in Requests, Request(r) PROVE WellFormed'
  BY <1>2, ResetWellFormed, SaveWellFormed DEF Request, Threads
<1>3. CASE Environment
  BY <1>3, EnvironmentWellFormed
<1>4. CASE Crash
  BY <1>4, RestartWellFormed DEF Crash, world, WellFormed, TypeOK
<1>5. CASE UNCHANGED vars
  BY <1>5 DEF vars, WellFormed, TypeOK, CommitsCarryRecords, StepsHaveTheirInput
<1> QED  BY <1>1, <1>2, <1>3, <1>4, <1>5 DEF Next

\* Every variable keeps its type; in particular no record is ever built from a
\* capture without a mode, and no command is recorded before there is a record.
THEOREM TypeCorrect == Spec => []TypeOK
<1>1. WellFormed => TypeOK
  BY DEF WellFormed
<1> QED  BY <1>1, InitWellFormed, NextWellFormed, PTL DEF Spec

-----------------------------------------------------------------------------
(* The boundary check respects an override.  The check looked at a record    *)
(* that may be older than the current one; what makes that harmless is that  *)
(* only the planner's own observation can find an override, and an HTTP      *)
(* thread can only end one.                                                  *)

ResetsOnlyRelease == \A r \in Requests : Serving(r) => ~ManualOverrideActive(txn[r].new)

LooksFirst ==
    pc = "boundary" /\ phase # "stale" /\ snap.prov # None
      /\ ~ManualOverrideActive(snap.prov) => ~ManualOverrideActive(mem)

Respectful == ResetsOnlyRelease /\ LooksFirst

LEMMA RestartRespectful == Restart => Respectful'
  BY IdleType DEF Restart, Respectful, ResetsOnlyRelease, LooksFirst, Serving, Threads

LEMMA SaveRespectful ==
    ASSUME WellFormed, Respectful, NEW t \in Threads, Save(t) PROVE Respectful'
<1> USE DEF world, loop
<1>1. ASSUME ~Restart
      PROVE  ResetsOnlyRelease'
  <2> SUFFICES ASSUME NEW r \in Requests, Serving(r)'
               PROVE  ~ManualOverrideActive(txn'[r].new)
    BY DEF ResetsOnlyRelease
  <2>1. r \in Threads
    BY DEF Threads
  <2>2. txn[r].stage # "none" /\ txn'[r].new = txn[r].new
    <3>1. CASE r = t
      <4>1. txn'[r].stage # "none"
        BY DEF Serving
      <4>2. SaveAssign(r) => txn'[r] = Idle
        BY <2>1 DEF SaveAssign, WellFormed, TypeOK
      <4> QED  BY <1>1, <3>1, <4>1, <4>2, SaveEffect, IdleType DEF Continues, RequestDies
    <3>2. CASE r # t
      BY <1>1, <2>1, <3>2, SaveEffect DEF Serving
    <3> QED  BY <3>1, <3>2
  <2> QED  BY <2>2 DEF Respectful, ResetsOnlyRelease, Serving
<1>2. CASE Continues(t) \/ RequestDies(t)
  <2>1. UNCHANGED <<pc, phase, snap, mem>>
    BY <1>2 DEF Continues, RequestDies
  <2>2. CASE Restart
    BY <2>2, RestartRespectful
  <2> QED  BY <1>1, <2>1, <2>2 DEF Respectful, LooksFirst
<1>3. CASE SaveAssign(t) /\ ~Restart
  <2>1. mem' = txn[t].new /\ txn[t].stage # "none"
    BY <1>3 DEF SaveAssign
  <2>2. CASE t \in Requests
    <3>1. ~ManualOverrideActive(mem')
      BY <2>1, <2>2 DEF Respectful, ResetsOnlyRelease, Serving
    <3> QED  BY <1>1, <1>3, <3>1 DEF Respectful, LooksFirst
  <2>3. CASE t = "planner" /\ pc = "commit_observation"
    <3>1. snap' = [snap EXCEPT !.prov = txn[t].new]
      BY <1>3, <2>3 DEF SaveAssign
    <3>2. snap'.prov = mem'
      BY <2>1, <3>1 DEF WellFormed, TypeOK, Snapshot
    <3> QED  BY <1>1, <1>3, <3>2 DEF Respectful, LooksFirst
  <2>4. CASE t = "planner" /\ pc # "commit_observation"
    <3>1. pc' # "boundary"
      BY <1>3, <2>4 DEF SaveAssign, AfterBoundary
    <3> QED  BY <1>1, <1>3, <3>1 DEF Respectful, LooksFirst
  <2> QED  BY <2>2, <2>3, <2>4 DEF Threads
<1>4. CASE Restart
  BY <1>4, RestartRespectful
<1> QED  BY <1>2, <1>3, <1>4, SaveEffect

\* A commit of the planner loop leaves the HTTP threads' alone.
LEMMA PlannerCommits ==
    ASSUME WellFormed, NEW new, StartCommit("planner", new)
    PROVE  \A r \in Requests : txn'[r] = txn[r]
  BY ModeControlAssumption DEF StartCommit, WellFormed, TypeOK, Threads

LEMMA NextRespectful == WellFormed /\ Respectful /\ [Next]_vars => Respectful'
<1> SUFFICES ASSUME WellFormed, Respectful, [Next]_vars PROVE Respectful'
  OBVIOUS
<1> USE DEF world, store, loop
<1>1. CASE \E t \in Threads : Save(t)
  BY <1>1, SaveRespectful
<1>2. ASSUME NEW r \in Requests, ResetRequest(r) PROVE Respectful'
  <2>1. /\ txn' = [txn EXCEPT ![r] = [stage |-> "open", file |-> "none",
                                      new |-> ResetOverride(Current, selector.rev)]]
        /\ mem' = Current
    BY <1>2 DEF ResetRequest, StartCommit
  <2>2. Current \in Provenance /\ selector.rev \in Nat
    BY <1>2, CurrentType DEF ResetRequest, WellFormed, TypeOK
  <2>3. ~ManualOverrideActive(ResetOverride(Current, selector.rev))
    BY <2>2, ResetReleases
  <2>4. ResetsOnlyRelease'
    <3>1. txn'[r].new = ResetOverride(Current, selector.rev)
          /\ \A u \in Requests : u # r => txn'[u] = txn[u]
      BY <2>1 DEF WellFormed, TypeOK, Threads
    <3> QED  BY <2>3, <3>1 DEF Respectful, ResetsOnlyRelease, Serving
  <2>5. snap.prov # None => mem' = mem
    BY <2>1 DEF WellFormed, StepsHaveTheirInput, Current
  <2> QED  BY <1>2, <2>4, <2>5 DEF ResetRequest, Respectful, LooksFirst
<1>3. CASE Environment
  <2>1. UNCHANGED <<txn, pc, phase, snap, mem>>
    BY <1>3 DEF Environment, UserSelects, SelectorLeaves, SelectorReturns,
                CommandTakesEffect, CommandIsLost
  <2> QED  BY <2>1 DEF Respectful, ResetsOnlyRelease, LooksFirst, Serving
<1>4. CASE Boundary
  <2>1. pc' # "boundary" /\ txn' = txn
    BY <1>4, ProceedType DEF Boundary, BoundaryBlocked, BoundaryAlreadyActive, Command,
                             CommandFails, CommandRaises
  <2> QED  BY <2>1 DEF Respectful, ResetsOnlyRelease, LooksFirst, Serving
<1>5. CASE ObserveVendorMode \/ RecordApplication
  <2>1. PICK new : StartCommit("planner", new)
    BY <1>5 DEF ObserveVendorMode, RecordApplication
  <2>2. pc' # "boundary"
    BY <1>5 DEF ObserveVendorMode, RecordApplication
  <2> QED  BY <2>1, <2>2, PlannerCommits DEF Respectful, ResetsOnlyRelease, Serving, LooksFirst
<1>6. CASE CaptureBlind \/ FinishFallback
  BY <1>6 DEF CaptureBlind, FinishFallback, BlindSnapshot, Respectful, ResetsOnlyRelease,
              Serving, LooksFirst
<1>7. CASE Capture \/ Recapture \/ NextPoll \/ Refresh \/ BeginPlanning \/ Checkpoint
             \/ FinishCommitted
  BY <1>7 DEF Capture, Recapture, NextPoll, Refresh, BeginPlanning, Checkpoint,
              FinishCommitted, Respectful, ResetsOnlyRelease, Serving, LooksFirst
<1>8. CASE RecordRefused \/ Crash
  BY <1>8, RestartRespectful DEF RecordRefused, Crash
<1>9. CASE UNCHANGED vars
  BY <1>9 DEF vars, Respectful, ResetsOnlyRelease, Serving, LooksFirst
<1> QED
  BY <1>1, <1>2, <1>3, <1>4, <1>5, <1>6, <1>7, <1>8, <1>9 DEF Next, Planner, Request, Threads

LEMMA InitRespectful == Init => Respectful
  BY IdleType DEF Init, Respectful, ResetsOnlyRelease, Serving, LooksFirst, Threads

\* Only a command makes the list of accepted commands longer.
LEMMA OnlyCommandsAreSent ==
    ASSUME WellFormed, [Next]_vars, Len(flight') > Len(flight)
    PROVE  pc = "boundary" /\ Authorised(Basis)
<1> USE DEF world, loop
<1>1. flight' # flight
  BY DEF WellFormed, TypeOK
<1>2. ~(CommandTakesEffect \/ CommandIsLost)
  <2> SUFFICES ASSUME flight # <<>>, flight' = Tail(flight) PROVE FALSE
    BY DEF CommandTakesEffect, CommandIsLost
  <2>1. Len(Tail(flight)) = Len(flight) - 1 /\ Len(flight) \in Nat
    BY DEF WellFormed, TypeOK
  <2> QED  BY <2>1
<1>3. PICK mode \in Modes : Command(mode) \/ CommandFails(mode)
  BY <1>1, <1>2 DEF Next, Planner, Boundary, Environment, Save, vars, Capture,
     CaptureBlind, ObserveVendorMode, Recapture, BoundaryBlocked, BoundaryAlreadyActive,
     CommandRaises, RecordApplication, RecordRefused, NextPoll, Refresh, BeginPlanning,
     Checkpoint, FinishCommitted, FinishFallback, SaveOpen, SaveWrite, SaveReplace,
     SaveReplaceFails, SaveAborts, SaveCleanup, SaveUnlink, SaveUnlinkFails, SaveAssign,
     Request, ResetRequest, UserSelects, SelectorLeaves, SelectorReturns, Crash, Selectable
<1> QED  BY <1>3 DEF Command, CommandFails, MayCommand

\* For any modes, faults and bounds: a boundary check that looked at the selector
\* before it acts sends no command while a manual override is on record, although
\* the record may have changed since it looked.  (The fallback that ends a
\* planning looks at the planning's snapshot, and has no such guarantee.)
THEOREM BoundaryIsRespectful == Spec => BoundaryRespectsOverride
<1>1. WellFormed /\ Respectful /\ [Next]_vars
        => [Len(flight') > Len(flight) /\ phase # "stale" => Owner = "planner"]_vars
  <2> SUFFICES ASSUME WellFormed, Respectful, [Next]_vars,
                      Len(flight') > Len(flight), phase # "stale"
               PROVE  Owner = "planner"
    OBVIOUS
  <2>1. pc = "boundary" /\ Authorised(snap)
    BY OnlyCommandsAreSent DEF Basis
  <2>2. mem # None /\ loaded /\ ~ManualOverrideActive(mem)
    BY <2>1 DEF Authorised, Respectful, LooksFirst, WellFormed, StepsHaveTheirInput
  <2> QED  BY <2>2 DEF Owner, Current
<1> QED  BY <1>1, InitWellFormed, NextWellFormed, InitRespectful, NextRespectful, PTL
         DEF Spec, BoundaryRespectsOverride
-----------------------------------------------------------------------------
(* What is on record, and on its way to the document.  An override is only    *)
(* ever in mem after the document had it.  While it is there every commit     *)
(* under way either keeps it or is a reset's, so the document is the override *)
(* or the end of it; where saves raced, after a reset, it may be unreadable.  *)

PlannerCommit == txn["planner"]
Renamed == {"cleanup", "unlink", "assign"}

Held == mem # None /\ ManualOverrideActive(mem)

\* A document from which a restart reads the override, its end by a reset, or nothing
\* after a reset.
Stood(document) ==
    \/ document \in Provenance /\ document.status \in {"manual_override", "released"}
    \/ document \in Unreadable /\ resets > 0

Racing == \E r \in Requests : txn[r].stage \in {"write", "replace"}

CommitsAreSteps ==
    PlannerCommit.stage # "none" <=> pc \in {"commit_observation", "commit_application"}

ObservationsKeepOverrides ==
    PlannerCommit.stage # "none" /\ Held => ManualOverrideActive(PlannerCommit.new)

ResetsRelease ==
    \A r \in Requests : Serving(r) => resets > 0 /\ txn[r].new.status = "released"

FilesAreThere ==
    \A t \in Threads : txn[t].stage = "write" => /\ txn[t].file = "tmp" => tmp # NoFile
                                                 /\ txn[t].file = "disk" => disk # NoFile

\* Nobody finds in the temporary file what a process before it left there.
TmpIsFresh ==
    tmp \in Provenance /\ (\E t \in Threads : txn[t].stage \in {"write", "replace"}) =>
        \/ tmp.status = "released"
        \/ PlannerCommit.stage = "replace" /\ tmp = PlannerCommit.new

\* The planner's file is the planner's, unless an HTTP thread is at it.
PlannerWrites ==
    PlannerCommit.stage = "write" =>
        \/ PlannerCommit.file = "tmp" /\ tmp = Empty
        \/ resets > 0 /\ (tmp = NoFile \/ Racing)
PlannerReplaces ==
    PlannerCommit.stage = "replace" =>
        \/ tmp = PlannerCommit.new
        \/ resets > 0 /\ (tmp = NoFile \/ Racing)

DocumentStood ==
    /\ Held => Stood(disk)
    /\ PlannerCommit.stage \in Renamed /\ ManualOverrideActive(PlannerCommit.new) => Stood(disk)

Commits == CommitsAreSteps /\ ObservationsKeepOverrides /\ ResetsRelease
TmpFile == FilesAreThere /\ TmpIsFresh /\ PlannerWrites /\ PlannerReplaces

OnDisk == Commits /\ TmpFile /\ DocumentStood

LEMMA PlannerServesNoRequest == "planner" \in Threads /\ "planner" \notin Requests
                                /\ \A t \in Threads : t # "planner" => t \in Requests
  BY ModeControlAssumption DEF Threads

\* A process that starts has no commit, and no record in memory.
LEMMA RestartOnDisk == ASSUME Restart PROVE OnDisk'
<1>1. /\ mem' = None /\ pc' = "capture" /\ \A t \in Threads : txn'[t].stage = "none"
  BY IdleType DEF Restart
<1>2. /\ ~Held' /\ PlannerCommit'.stage = "none"
      /\ \A r \in Requests : txn'[r].stage = "none" /\ ~Serving(r)'
  BY <1>1 DEF Held, PlannerCommit, Serving, Threads
<1> QED  BY <1>1, <1>2 DEF OnDisk, Commits, CommitsAreSteps, ObservationsKeepOverrides,
     ResetsRelease, TmpFile, FilesAreThere, TmpIsFresh, PlannerWrites, PlannerReplaces,
     DocumentStood, Renamed

LEMMA SaveKeepsCommits ==
    ASSUME WellFormed, Commits, NEW t \in Threads, Save(t), ~Restart PROVE Commits'
<1> USE DEF loop, PlannerCommit
<1>1. /\ txn[t].stage # "none" /\ UNCHANGED resets
      /\ \A u \in Threads : u # t => /\ txn'[u].stage = txn[u].stage
                                     /\ txn'[u].new = txn[u].new
      /\ Continues(t) \/ RequestDies(t) \/ SaveAssign(t)
  BY SaveEffect
<1>2. SaveAssign(t) => txn'[t] = Idle /\ mem' = txn[t].new
  BY DEF SaveAssign, WellFormed, TypeOK
<1>3. ResetsRelease'
  <2> SUFFICES ASSUME NEW r \in Requests, txn'[r].stage # "none"
               PROVE  txn[r].stage # "none" /\ txn'[r].new = txn[r].new
    BY <1>1 DEF Commits, ResetsRelease, Serving
  <2> QED  BY <1>1, <1>2, IdleType, PlannerServesNoRequest
              DEF Continues, RequestDies, Threads
<1>4. CASE t = "planner" /\ SaveAssign(t)
  <2>1. pc \in {"commit_observation", "commit_application"}
    BY <1>1, <1>4 DEF Commits, CommitsAreSteps
  <2>2. pc' \notin {"commit_observation", "commit_application"}
    BY <1>4, <2>1 DEF SaveAssign, AfterObserve, AfterBoundary
  <2>3. txn'["planner"].stage = "none"
    BY <1>2, <1>4, IdleType
  <2> QED  BY <1>3, <2>2, <2>3 DEF Commits, CommitsAreSteps, ObservationsKeepOverrides
<1>5. CASE t = "planner" /\ ~SaveAssign(t)
  <2>1. Continues(t)
    BY <1>1, <1>5, PlannerServesNoRequest DEF RequestDies
  <2> QED  BY <1>1, <1>3, <1>5, <2>1
              DEF Continues, Commits, CommitsAreSteps, ObservationsKeepOverrides, Held
<1>6. CASE t # "planner"
  <2>1. t \in Requests /\ txn'["planner"].stage = txn["planner"].stage
                       /\ txn'["planner"].new = txn["planner"].new
    BY <1>1, <1>6, PlannerServesNoRequest
  <2>2. pc' = pc /\ (mem' = mem \/ mem' = txn[t].new)
    BY <1>1, <1>2, <1>6 DEF SaveAssign, Continues, RequestDies
  <2>3. ~ManualOverrideActive(txn[t].new)
    BY <1>1, <2>1 DEF Commits, ResetsRelease, Serving, ManualOverrideActive
  <2> QED  BY <1>3, <2>1, <2>2, <2>3
              DEF Commits, CommitsAreSteps, ObservationsKeepOverrides, Held
<1> QED  BY <1>4, <1>5, <1>6

\* The records in memory and on their way, as the saves of the temporary file use them.
LEMMA CommitFacts ==
    ASSUME WellFormed, OnDisk, NEW t \in Threads, txn[t].stage # "none"
    PROVE  /\ txn[t].new \in Provenance
           /\ t \in Requests => resets > 0 /\ txn[t].new.status = "released"
           /\ t = "planner" /\ Held => txn[t].new.status = "manual_override"
           /\ NoFile \notin Provenance \cup Unreadable /\ Unreadable \cap Provenance = {}
           /\ Empty \in Unreadable /\ Corrupt \in Unreadable
           /\ tmp \in Provenance \cup Unreadable \cup {NoFile}
           /\ disk \in Provenance \cup Unreadable \cup {NoFile}
  BY ModeControlAssumption DEF WellFormed, TypeOK, CommitsCarryRecords, OnDisk, Commits,
     ResetsRelease, ObservationsKeepOverrides, PlannerCommit, Serving, ManualOverrideActive,
     Unreadable

LEMMA OpenOnDisk ==
    ASSUME WellFormed, OnDisk, NEW t \in Threads, SaveOpen(t)
    PROVE  TmpFile' /\ DocumentStood'
<1> USE DEF PlannerCommit
<1>1. /\ tmp' = Empty /\ UNCHANGED <<disk, mem, resets>>
      /\ txn[t].stage = "open" /\ txn'[t].stage = "write" /\ txn'[t].file = "tmp"
      /\ txn'[t].new = txn[t].new
      /\ \A u \in Threads : u # t => txn'[u] = txn[u]
  BY DEF SaveOpen, WellFormed, TypeOK, Commit
<1>2. Empty # NoFile /\ Empty \notin Provenance /\ (t \in Requests => resets > 0)
  BY <1>1, CommitFacts
<1>3. FilesAreThere'
  BY <1>1, <1>2 DEF OnDisk, TmpFile, FilesAreThere
<1>4. TmpIsFresh'
  BY <1>1, <1>2 DEF TmpIsFresh
<1>5. t \in Requests => Racing'
  BY <1>1 DEF Racing
<1>6. PlannerWrites' /\ PlannerReplaces'
  BY <1>1, <1>2, <1>5, PlannerServesNoRequest DEF PlannerWrites, PlannerReplaces
<1>7. DocumentStood'
  BY <1>1, PlannerServesNoRequest DEF OnDisk, DocumentStood, Held, Stood, Renamed
<1> QED  BY <1>3, <1>4, <1>6, <1>7 DEF TmpFile

LEMMA WriteOnDisk ==
    ASSUME WellFormed, OnDisk, NEW t \in Threads, SaveWrite(t)
    PROVE  TmpFile' /\ DocumentStood'
<1> USE DEF PlannerCommit
<1>1. /\ UNCHANGED <<mem, resets>>
      /\ txn[t].stage = "write" /\ txn'[t].stage = "replace" /\ txn'[t].new = txn[t].new
      /\ \A u \in Threads : u # t => txn'[u] = txn[u]
  BY DEF SaveWrite, WellFormed, TypeOK, Commit
<1>2. /\ tmp' = tmp \/ (txn[t].file = "tmp" /\ tmp' \in {txn[t].new, Corrupt})
      /\ disk' = disk \/ (txn[t].file = "disk" /\ disk' \in {txn[t].new, Corrupt})
      /\ txn[t].file = "tmp" /\ tmp = Empty => tmp' = txn[t].new
      /\ txn[t].file # "tmp" => tmp' = tmp
  BY DEF SaveWrite, Written
<1>3. /\ txn[t].new \in Provenance
      /\ t \in Requests => resets > 0 /\ txn[t].new.status = "released"
      /\ t = "planner" /\ Held => txn[t].new.status = "manual_override"
      /\ NoFile \notin Provenance /\ Corrupt # NoFile /\ Corrupt \notin Provenance
      /\ Corrupt \in Unreadable
  BY <1>1, CommitFacts
<1>4. FilesAreThere'
  BY <1>1, <1>2, <1>3 DEF OnDisk, TmpFile, FilesAreThere
<1>5. TmpIsFresh'
  <2>1. CASE tmp' = tmp
    BY <1>1, <2>1, PlannerServesNoRequest DEF OnDisk, TmpFile, TmpIsFresh
  <2>2. CASE tmp' # tmp
    BY <1>1, <1>2, <1>3, <2>2, PlannerServesNoRequest DEF TmpIsFresh
  <2> QED  BY <2>1, <2>2
<1>6. PlannerWrites' /\ PlannerReplaces'
  <2>1. CASE t # "planner"
    <3>1. Racing' /\ resets' > 0
      BY <1>1, <1>3, <2>1, PlannerServesNoRequest DEF Racing
    <3> QED  BY <3>1 DEF PlannerWrites, PlannerReplaces
  <2>2. CASE t = "planner"
    <3>1. Racing' <=> Racing
      BY <1>1, <2>2, PlannerServesNoRequest DEF Racing, Threads
    <3>2. tmp' = txn[t].new \/ (resets > 0 /\ (tmp' = NoFile \/ Racing))
      BY <1>1, <1>2, <2>2, PlannerServesNoRequest
         DEF OnDisk, TmpFile, FilesAreThere, PlannerWrites
    <3> QED  BY <1>1, <2>2, <3>1, <3>2 DEF PlannerWrites, PlannerReplaces
  <2> QED  BY <2>1, <2>2
<1>7. DocumentStood'
  <2>1. CASE disk' = disk
    BY <1>1, <2>1, PlannerServesNoRequest DEF OnDisk, DocumentStood, Held, Stood, Renamed
  <2>2. CASE disk' # disk /\ t # "planner"
    <3>1. Stood(disk)'
      BY <1>1, <1>2, <1>3, <2>2, PlannerServesNoRequest DEF Stood
    <3> QED  BY <3>1 DEF DocumentStood
  <2>3. CASE disk' # disk /\ t = "planner"
    <3>1. resets > 0
      BY <1>1, <1>2, <2>3 DEF OnDisk, TmpFile, PlannerWrites
    <3>2. Held => Stood(disk)'
      BY <1>1, <1>2, <1>3, <2>3, <3>1 DEF Stood
    <3> QED  BY <1>1, <2>3, <3>2 DEF DocumentStood, Held, Renamed
  <2> QED  BY <2>1, <2>2, <2>3
<1> QED  BY <1>4, <1>5, <1>6, <1>7 DEF TmpFile

\* A file that is renamed is a record that stands, or the wreck of a race.
LEMMA ReplacedStands ==
    ASSUME WellFormed, OnDisk, NEW t \in Threads, txn[t].stage = "replace", tmp # NoFile
    PROVE  /\ Held => Stood(tmp)
           /\ t = "planner" /\ ManualOverrideActive(txn[t].new) => Stood(tmp)
           /\ t # "planner" => Stood(tmp) \/ (PlannerCommit.stage = "replace" /\ ~Held)
<1>1. /\ txn[t].new \in Provenance
      /\ t # "planner" => resets > 0
      /\ Unreadable \cap Provenance = {}
      /\ tmp \in Provenance \cup Unreadable
  BY CommitFacts, PlannerServesNoRequest
<1>2. CASE tmp \in Unreadable
  <2>1. resets > 0
    BY <1>1, <1>2 DEF OnDisk, TmpFile, PlannerReplaces, PlannerCommit
  <2> QED  BY <1>2, <2>1 DEF Stood
<1>3. CASE tmp \in Provenance
  <2>1. tmp.status = "released"
        \/ (PlannerCommit.stage = "replace" /\ tmp = PlannerCommit.new)
    BY <1>3 DEF OnDisk, TmpFile, TmpIsFresh
  <2>2. PlannerCommit.stage # "none" /\ Held => PlannerCommit.new.status = "manual_override"
    BY DEF OnDisk, Commits, ObservationsKeepOverrides, ManualOverrideActive
  <2> QED  BY <1>3, <2>1, <2>2 DEF Stood, PlannerCommit, ManualOverrideActive
<1> QED  BY <1>1, <1>2, <1>3

LEMMA ReplaceOnDisk ==
    ASSUME WellFormed, OnDisk, NEW t \in Threads, SaveReplace(t)
    PROVE  TmpFile' /\ DocumentStood'
<1> USE DEF PlannerCommit
<1>1. /\ UNCHANGED <<mem, resets>> /\ tmp # NoFile /\ disk' = tmp /\ tmp' = NoFile
      /\ txn[t].stage = "replace" /\ txn'[t].stage = "cleanup" /\ txn'[t].new = txn[t].new
  BY DEF SaveReplace, WellFormed, TypeOK, Commit
<1>2. \A u \in Threads : u # t => /\ txn'[u].stage = txn[u].stage /\ txn'[u].new = txn[u].new
                                  /\ txn'[u].file # "tmp"
  BY DEF SaveReplace, WellFormed, TypeOK, Commit, Files
<1>3. /\ NoFile \notin Provenance /\ (t # "planner" => resets > 0)
  BY <1>1, CommitFacts, PlannerServesNoRequest
<1>4. FilesAreThere'
  BY <1>1, <1>2 DEF FilesAreThere
<1>5. TmpIsFresh'
  BY <1>1, <1>3 DEF TmpIsFresh
<1>6. PlannerWrites' /\ PlannerReplaces'
  BY <1>1, <1>2, <1>3 DEF PlannerWrites, PlannerReplaces
<1>7. Held => Stood(tmp)
  BY <1>1, ReplacedStands
<1>8. txn'["planner"].stage \in Renamed /\ ManualOverrideActive(txn'["planner"].new) => Stood(tmp)
  <2>1. CASE t = "planner"
    BY <1>1, <2>1, ReplacedStands
  <2>2. CASE t # "planner"
    BY <1>1, <1>2, <2>2, ReplacedStands, PlannerServesNoRequest DEF Renamed
  <2> QED  BY <2>1, <2>2
<1>9. DocumentStood'
  BY <1>1, <1>7, <1>8 DEF DocumentStood, Held, Stood
<1> QED  BY <1>4, <1>5, <1>6, <1>8, <1>9 DEF TmpFile

\* A thread that leaves the temporary file alone, or removes it.
LEMMA LeaveOnDisk ==
    ASSUME WellFormed, OnDisk, NEW t \in Threads,
           txn[t].stage \notin {"none", "open", "write"},
           txn'[t].stage \notin {"open", "write", "replace"},
           txn[t].stage # "replace" \/ tmp = NoFile,
           t = "planner" /\ txn'[t].stage \in Renamed =>
               txn[t].stage \in Renamed /\ txn'[t].new = txn[t].new,
           \A u \in Threads : u # t => /\ txn'[u].stage = txn[u].stage
                                       /\ txn'[u].new = txn[u].new,
           UNCHANGED <<disk, mem, resets>>,
           \/ tmp' = tmp /\ \A u \in Threads : u # t => txn'[u].file = txn[u].file
           \/ /\ tmp' = NoFile
              /\ \A u \in Threads : u # t => txn'[u].file # "tmp"
                                             /\ (txn'[u].file = "disk" => txn[u].file = "disk")
    PROVE  TmpFile' /\ DocumentStood'
<1> USE DEF PlannerCommit
<1>1. NoFile \notin Provenance /\ NoFile # Empty /\ (t # "planner" => resets > 0)
  BY CommitFacts, PlannerServesNoRequest
<1>2. FilesAreThere'
  BY DEF OnDisk, TmpFile, FilesAreThere
<1>3. ASSUME tmp' = NoFile PROVE TmpIsFresh' /\ PlannerWrites' /\ PlannerReplaces'
  <2>1. TmpIsFresh'
    BY <1>1, <1>3 DEF TmpIsFresh
  <2>2. PlannerWrites' /\ PlannerReplaces'
    BY <1>1, <1>3 DEF PlannerWrites, PlannerReplaces
  <2> QED  BY <2>1, <2>2
<1>4. ASSUME tmp' # NoFile PROVE TmpIsFresh' /\ PlannerWrites' /\ PlannerReplaces'
  <2>1. tmp' = tmp /\ txn[t].stage # "replace"
        /\ \A u \in Threads : u # t => txn'[u].file = txn[u].file
    BY <1>4
  <2>2. \A u \in Threads : txn'[u].stage \in {"write", "replace"}
                             <=> txn[u].stage \in {"write", "replace"}
    BY <2>1
  <2>3. Racing' <=> Racing
    BY <2>2 DEF Racing, Threads
  <2>4. TmpIsFresh'
    BY <2>1, <2>2, PlannerServesNoRequest DEF OnDisk, TmpFile, TmpIsFresh
  <2>5. PlannerWrites' /\ PlannerReplaces'
    BY <2>1, <2>3, PlannerServesNoRequest DEF OnDisk, TmpFile, PlannerWrites, PlannerReplaces
  <2> QED  BY <2>4, <2>5
<1>5. DocumentStood'
  BY PlannerServesNoRequest DEF OnDisk, DocumentStood, Held, Stood
<1> QED  BY <1>2, <1>3, <1>4, <1>5 DEF TmpFile


\* The record in memory, where a thread assigns what it has saved.
LEMMA AssignOnDisk ==
    ASSUME WellFormed, OnDisk, NEW t \in Threads, SaveAssign(t)
    PROVE  TmpFile' /\ DocumentStood'
<1> USE DEF PlannerCommit
<1>1. /\ UNCHANGED <<disk, tmp, resets>> /\ mem' = txn[t].new
      /\ txn[t].stage = "assign" /\ txn'[t] = Idle
      /\ \A u \in Threads : u # t => txn'[u] = txn[u]
  BY DEF SaveAssign, WellFormed, TypeOK
<1>2. \A u \in Threads : txn'[u].stage \in {"write", "replace"}
                           => txn[u].stage \in {"write", "replace"} /\ txn'[u] = txn[u]
  BY <1>1, IdleType
<1>3. FilesAreThere'
  BY <1>1, <1>2 DEF OnDisk, TmpFile, FilesAreThere
<1>4. TmpIsFresh'
  BY <1>1, <1>2, PlannerServesNoRequest DEF OnDisk, TmpFile, TmpIsFresh
<1>5. Racing' <=> Racing
  BY <1>1, IdleType DEF Racing, Threads
<1>6. PlannerWrites' /\ PlannerReplaces'
  BY <1>1, <1>2, <1>5, PlannerServesNoRequest DEF OnDisk, TmpFile, PlannerWrites,
     PlannerReplaces
<1>7. Held' => t = "planner" /\ ManualOverrideActive(txn["planner"].new)
  BY <1>1, CommitFacts, PlannerServesNoRequest DEF Held, ManualOverrideActive
<1>8. DocumentStood'
  BY <1>1, <1>7, IdleType, PlannerServesNoRequest
     DEF OnDisk, DocumentStood, Stood, Renamed
<1> QED  BY <1>3, <1>4, <1>6, <1>8 DEF TmpFile

LEMMA SaveOnDisk ==
    ASSUME WellFormed, OnDisk, NEW t \in Threads, Save(t) PROVE OnDisk'
<1> USE DEF PlannerCommit
<1>1. CASE Restart
  BY <1>1, RestartOnDisk
<1>2. ASSUME ~Restart PROVE TmpFile' /\ DocumentStood'
  <2>0. /\ UNCHANGED resets /\ txn[t].stage # "none"
        /\ \A u \in Threads : u # t => /\ txn'[u].stage = txn[u].stage
                                       /\ txn'[u].new = txn[u].new
        /\ txn \in [Threads -> Commit]
    BY <1>2, SaveEffect DEF WellFormed, TypeOK
  <2>1. CASE SaveReplaceFails(t) \/ SaveCleanup(t)
    <3>1. /\ UNCHANGED <<disk, tmp, mem>>
          /\ txn'[t].new = txn[t].new
          /\ txn[t].stage = "replace" => tmp = NoFile /\ txn'[t].stage = "abort"
          /\ txn[t].stage \in {"replace", "cleanup"}
          /\ txn'[t].stage \in {"abort", "assign", "unlink"}
          /\ \A u \in Threads : u # t => txn'[u] = txn[u]
      BY <2>0, <2>1 DEF SaveReplaceFails, SaveCleanup, Advance, store, Commit
    <3> QED  BY <2>0, <3>1, LeaveOnDisk DEF Renamed
  <2>2. CASE SaveUnlink(t)
    <3>1. /\ UNCHANGED <<disk, mem>> /\ tmp' = NoFile
          /\ txn'[t].new = txn[t].new
          /\ txn[t].stage = "unlink" /\ txn'[t].stage = "assign"
          /\ \A u \in Threads : u # t => /\ txn'[u].file # "tmp"
                                         /\ txn'[u].file = "disk" => txn[u].file = "disk"
      BY <2>0, <2>2 DEF SaveUnlink, Orphaned, Commit
    <3> QED  BY <2>0, <3>1, LeaveOnDisk DEF Renamed
  <2>3. CASE SaveAborts(t)
    <3>1. /\ UNCHANGED <<disk, mem>> /\ tmp' = NoFile /\ t # "planner"
          /\ txn[t].stage = "abort" /\ txn'[t].stage = "none"
          /\ \A u \in Threads : u # t => /\ txn'[u].file # "tmp"
                                         /\ txn'[u].file = "disk" => txn[u].file = "disk"
      BY <1>2, <2>0, <2>3, IdleType DEF SaveAborts, Orphaned, Commit
    <3> QED  BY <2>0, <3>1, LeaveOnDisk DEF Renamed
  <2>4. CASE SaveUnlinkFails(t)
    <3>1. /\ UNCHANGED <<disk, tmp, mem>> /\ t # "planner"
          /\ txn[t].stage = "unlink" /\ txn'[t].stage = "none"
          /\ \A u \in Threads : u # t => txn'[u] = txn[u]
      BY <1>2, <2>0, <2>4, IdleType DEF SaveUnlinkFails, Fails
    <3> QED  BY <2>0, <3>1, LeaveOnDisk DEF Renamed
  <2> QED  BY <2>1, <2>2, <2>3, <2>4, OpenOnDisk, WriteOnDisk, ReplaceOnDisk, AssignOnDisk
              DEF Save
<1>3. ASSUME ~Restart PROVE Commits'
  BY <1>3, SaveKeepsCommits DEF OnDisk
<1> QED  BY <1>1, <1>2, <1>3 DEF OnDisk

\* Reading the document for the first time finds no override that is not in it.
LEMMA FirstRead ==
    ASSUME WellFormed, OnDisk
    PROVE  /\ loaded => Current = mem
           /\ Current # None /\ ManualOverrideActive(Current) => Stood(disk)
           /\ ~loaded => mem = None /\ \A t \in Threads : txn[t].stage = "none"
<1>1. ~loaded => mem = None /\ \A t \in Threads : txn[t].stage = "none"
  BY DEF WellFormed, CommitsCarryRecords, StepsHaveTheirInput
<1>2. loaded => Current = mem
  BY DEF Current
<1>3. Current # None /\ ManualOverrideActive(Current) => Stood(disk)
  BY CurrentType DEF Current, OnDisk, DocumentStood, Held, Stood, ManualOverrideActive,
                     WellFormed, TypeOK
<1> QED  BY <1>1, <1>2, <1>3

\* A commit that starts has opened nothing yet.
LEMMA StartOnDisk ==
    ASSUME WellFormed, OnDisk, NEW t \in Threads, txn[t].stage = "none",
           NEW new, StartCommit(t, new), UNCHANGED <<disk, tmp>>,
           resets' \in Nat, resets' >= resets
    PROVE  TmpFile' /\ DocumentStood'
<1> USE DEF PlannerCommit
<1>1. /\ txn'[t].stage = "open" /\ mem' = Current
      /\ \A u \in Threads : u # t => txn'[u] = txn[u]
  BY DEF StartCommit, WellFormed, TypeOK
<1>2. \A u \in Threads : txn'[u].stage \in {"write", "replace"}
                           <=> txn[u].stage \in {"write", "replace"} /\ txn'[u] = txn[u]
  BY <1>1
<1>3. resets \in Nat
  BY DEF WellFormed, TypeOK
<1>4. FilesAreThere'
  BY <1>1 DEF OnDisk, TmpFile, FilesAreThere
<1>5. TmpIsFresh'
  BY <1>1, <1>2, PlannerServesNoRequest DEF OnDisk, TmpFile, TmpIsFresh
<1>6. Racing' <=> Racing
  BY <1>1 DEF Racing, Threads
<1>7. PlannerWrites' /\ PlannerReplaces'
  BY <1>1, <1>2, <1>3, <1>6, PlannerServesNoRequest
     DEF OnDisk, TmpFile, PlannerWrites, PlannerReplaces
<1>8. Stood(disk) => Stood(disk)'
  BY <1>3 DEF Stood
<1>9. Held' => Stood(disk)
  BY <1>1, FirstRead DEF Held
<1>10. txn'["planner"].stage \in Renamed /\ ManualOverrideActive(txn'["planner"].new)
         => Stood(disk)
  BY <1>1, PlannerServesNoRequest DEF OnDisk, DocumentStood, Renamed
<1>11. DocumentStood'
  BY <1>8, <1>9, <1>10 DEF DocumentStood
<1> QED  BY <1>4, <1>5, <1>7, <1>11 DEF TmpFile

LEMMA ResetOnDisk ==
    ASSUME WellFormed, OnDisk, NEW r \in Requests, ResetRequest(r) PROVE OnDisk'
<1> USE DEF PlannerCommit
<1>1. /\ r \in Threads /\ r # "planner"
      /\ txn[r].stage = "none" /\ StartCommit(r, ResetOverride(Current, selector.rev))
      /\ UNCHANGED <<disk, tmp, pc>> /\ resets' = resets + 1 /\ resets \in Nat
      /\ Current \in Provenance
  BY CurrentType, PlannerServesNoRequest
     DEF ResetRequest, Threads, loop, WellFormed, TypeOK
<1>2. resets' \in Nat /\ resets' >= resets /\ resets' > 0
  BY <1>1
<1>3. /\ txn'[r].new = ResetOverride(Current, selector.rev) /\ mem' = Current
      /\ \A u \in Threads : u # r => txn'[u] = txn[u]
  BY <1>1 DEF StartCommit, WellFormed, TypeOK
<1>4. ResetOverride(Current, selector.rev).status = "released"
  BY <1>1 DEF ResetOverride, Provenance
<1>5. txn["planner"].stage # "none" => mem' = mem
  BY <1>3, FirstRead DEF Threads
<1>6. Commits'
  BY <1>1, <1>2, <1>3, <1>4, <1>5, PlannerServesNoRequest
     DEF OnDisk, Commits, CommitsAreSteps, ObservationsKeepOverrides, ResetsRelease,
         Serving, Held, Threads
<1>7. TmpFile' /\ DocumentStood'
  BY <1>1, <1>2, StartOnDisk
<1> QED  BY <1>6, <1>7 DEF OnDisk

\* An observation keeps the planned mode, and an override.
LEMMA ObserveKeeps ==
    ASSUME NEW p \in Provenance, NEW mode \in Modes, NEW rev \in Nat
    PROVE  /\ Observe(p, mode, rev).planned = p.planned
           /\ ManualOverrideActive(p) => ManualOverrideActive(Observe(p, mode, rev))
  BY DEF Observe, OwnerAfter, ManualOverrideActive, Provenance

\* What the planner starts to save: an observation, or what it applied.
LEMMA PlannerStarts ==
    ASSUME WellFormed, OnDisk, ObserveVendorMode \/ RecordApplication
    PROVE  \E new :
             /\ StartCommit("planner", new)
             /\ Current # None /\ ManualOverrideActive(Current) => ManualOverrideActive(new)
             /\ ObserveVendorMode /\ Current # None => new.planned = Current.planned
             /\ RecordApplication => new.status = "planner_owned" /\ new.planned = commanded
<1>1. CASE ObserveVendorMode
  <2>1. snap.mode \in Modes /\ snap.rev \in Nat /\ ~RecordApplication
    BY <1>1 DEF ObserveVendorMode, RecordApplication, WellFormed, StepsHaveTheirInput, TypeOK,
       Snapshot
  <2>2. PICK new : /\ StartCommit("planner", new)
                   /\ Current # None => new = Observe(Current, snap.mode, snap.rev)
    BY <1>1 DEF ObserveVendorMode
  <2>3. Current # None => /\ new.planned = Current.planned
                          /\ ManualOverrideActive(Current) => ManualOverrideActive(new)
    BY <2>1, <2>2, ObserveKeeps, CurrentType DEF WellFormed
  <2> QED  BY <2>1, <2>2, <2>3
<1>2. CASE RecordApplication
  <2>1. mem # None /\ Current = mem /\ mem \in Provenance /\ ~ManualOverrideActive(Current)
        /\ ~ObserveVendorMode
    BY <1>2 DEF RecordApplication, ObserveVendorMode, WellFormed, StepsHaveTheirInput, Current,
       TypeOK
  <2>2. /\ RecordPlannerApplication(mem, commanded).status = "planner_owned"
        /\ RecordPlannerApplication(mem, commanded).planned = commanded
    BY <2>1 DEF RecordPlannerApplication, Provenance
  <2> QED  BY <1>2, <2>1, <2>2 DEF RecordApplication
<1> QED  BY <1>1, <1>2

LEMMA PlannerStartsOnDisk ==
    ASSUME WellFormed, OnDisk, ObserveVendorMode \/ RecordApplication PROVE OnDisk'
<1> USE DEF PlannerCommit
<1>1. PICK new : /\ StartCommit("planner", new)
                 /\ Current # None /\ ManualOverrideActive(Current) => ManualOverrideActive(new)
  BY PlannerStarts
<1>2. /\ UNCHANGED <<disk, tmp, resets>> /\ pc \in {"observe", "record"}
      /\ pc' \in {"commit_observation", "commit_application"}
  BY DEF ObserveVendorMode, RecordApplication
<1>3. txn["planner"].stage = "none" /\ "planner" \in Threads /\ resets \in Nat
  BY <1>2, PlannerServesNoRequest DEF OnDisk, Commits, CommitsAreSteps, WellFormed, TypeOK
<1>4. /\ txn'["planner"].new = new /\ txn'["planner"].stage = "open" /\ mem' = Current
      /\ \A u \in Threads : u # "planner" => txn'[u] = txn[u]
  BY <1>1, <1>3 DEF StartCommit, WellFormed, TypeOK
<1>5. Commits'
  BY <1>1, <1>2, <1>4, PlannerServesNoRequest
     DEF OnDisk, Commits, CommitsAreSteps, ObservationsKeepOverrides, ResetsRelease,
         Serving, Held, Threads
<1>6. resets' \in Nat /\ resets' >= resets
  BY <1>2, <1>3
<1>7. TmpFile' /\ DocumentStood'
  BY <1>1, <1>2, <1>3, <1>6, StartOnDisk
<1> QED  BY <1>5, <1>7 DEF OnDisk

\* The steps of the loop that touch no commit go from one that has none to another.
StepsOf == \/ Boundary \/ Capture \/ CaptureBlind \/ Recapture \/ NextPoll \/ Refresh
           \/ BeginPlanning \/ Checkpoint \/ FinishCommitted \/ FinishFallback

LEMMA StepsCommitNothing ==
    ASSUME StepsOf
    PROVE  /\ UNCHANGED <<txn, disk, tmp, mem, loaded, resets>>
           /\ pc \notin {"commit_observation", "commit_application"}
           /\ pc' \notin {"commit_observation", "commit_application"}
<1> USE DEF store
<1>1. CASE Boundary
  <2>1. Proceed => pc' \in {"decide", "planning", "capture"}
    BY DEF Proceed, AfterBoundary
  <2> QED  BY <1>1, <2>1 DEF Boundary, BoundaryBlocked, BoundaryAlreadyActive, Command,
              CommandFails, CommandRaises, MayCommand
<1>2. CASE ~Boundary
  BY <1>2 DEF StepsOf, Capture, CaptureBlind, Recapture, NextPoll, Refresh, BeginPlanning,
     Checkpoint, FinishCommitted, FinishFallback, AfterObserve
<1> QED  BY <1>1, <1>2

LEMMA NextCases ==
    ASSUME [Next]_vars
    PROVE  \/ \E t \in Threads : Save(t)
           \/ \E r \in Requests : ResetRequest(r)
           \/ ObserveVendorMode \/ RecordApplication
           \/ RecordRefused \/ Crash
           \/ StepsOf
           \/ Environment \/ UNCHANGED vars
  BY PlannerServesNoRequest DEF Next, Planner, Request, StepsOf, Threads

LEMMA NextOnDisk == WellFormed /\ OnDisk /\ [Next]_vars => OnDisk'
<1> SUFFICES ASSUME WellFormed, OnDisk, [Next]_vars PROVE OnDisk'
  OBVIOUS
<1>1. CASE RecordRefused \/ Crash
  BY <1>1, RestartOnDisk DEF RecordRefused, Crash
<1>2. CASE StepsOf \/ Environment \/ UNCHANGED vars
  <2>1. /\ UNCHANGED <<txn, disk, tmp, mem, resets>>
        /\ \/ pc' = pc
           \/ /\ pc \notin {"commit_observation", "commit_application"}
              /\ pc' \notin {"commit_observation", "commit_application"}
    BY <1>2, StepsCommitNothing DEF Environment, UserSelects, SelectorLeaves, SelectorReturns,
       CommandTakesEffect, CommandIsLost, vars, store, loop
  <2> QED  BY <2>1 DEF OnDisk, Commits, CommitsAreSteps, ObservationsKeepOverrides,
     ResetsRelease, TmpFile, FilesAreThere, TmpIsFresh, PlannerWrites, PlannerReplaces, Racing,
     DocumentStood, Stood, Held, Serving, PlannerCommit
<1> QED  BY <1>1, <1>2, NextCases, SaveOnDisk, ResetOnDisk, PlannerStartsOnDisk

LEMMA InitOnDisk == Init => OnDisk
<1> SUFFICES ASSUME Init PROVE OnDisk
  OBVIOUS
<1>1. /\ mem = None /\ pc = "capture" /\ \A t \in Threads : txn[t].stage = "none"
  BY IdleType DEF Init
<1>2. /\ ~Held /\ PlannerCommit.stage = "none"
      /\ \A r \in Requests : txn[r].stage = "none" /\ ~Serving(r)
  BY <1>1 DEF Held, PlannerCommit, Serving, Threads
<1> QED  BY <1>1, <1>2 DEF OnDisk, Commits, CommitsAreSteps, ObservationsKeepOverrides,
     ResetsRelease, TmpFile, FilesAreThere, TmpIsFresh, PlannerWrites, PlannerReplaces,
     DocumentStood, Renamed

-----------------------------------------------------------------------------
(* Who owns the mode.  Ownership moves where the record in memory does: with  *)
(* an assignment that ends a commit, and with a restart.                      *)

\* A process that starts reads the override that was in memory, unless its end, or the
\* wreck of a race with a reset, is all there is to read.
LEMMA RestartOwner ==
    ASSUME WellFormed, OnDisk, Restart, disk' = disk, Owner = "user"
    PROVE  Owner' = "user" \/ DocumentLost
<1>1. Stood(disk)
  BY FirstRead DEF Owner
<1>2. CASE disk \in Provenance
  <2>1. Current' = disk /\ disk # None
    BY <1>2, ModeControlAssumption DEF Restart, Current
  <2> QED  BY <1>1, <1>2, <2>1, ModeControlAssumption
              DEF Stood, Owner, ManualOverrideActive, DocumentLost
<1>3. CASE disk \notin Provenance
  BY <1>1, <1>3 DEF Stood, DocumentLost
<1> QED  BY <1>2, <1>3

\* Every other step leaves the current record, and so the owner, as it was.
LEMMA OwnerStays ==
    ASSUME WellFormed, [Next]_vars, ~Restart, \A t \in Threads : ~SaveAssign(t)
    PROVE  Current' = Current
<1>1. CASE \/ \E r \in Requests : ResetRequest(r)
           \/ ObserveVendorMode \/ RecordApplication
  BY <1>1 DEF ResetRequest, ObserveVendorMode, RecordApplication, StartCommit, Current
<1>2. ASSUME NEW t \in Threads, Save(t) PROVE Current' = Current
  <2>1. loaded /\ UNCHANGED <<mem, loaded>>
    BY <1>2, SaveEffect
       DEF WellFormed, CommitsCarryRecords, Continues, RequestDies
  <2> QED  BY <2>1 DEF Current
<1>3. CASE StepsOf \/ Environment \/ UNCHANGED vars
  <2>1. UNCHANGED <<disk, mem, loaded>>
    BY <1>3, StepsCommitNothing DEF Environment, UserSelects, SelectorLeaves, SelectorReturns,
       CommandTakesEffect, CommandIsLost, vars, store
  <2> QED  BY <2>1 DEF Current
<1> QED  BY <1>1, <1>2, <1>3, NextCases DEF RecordRefused, Crash

\* An observation or an application that is assigned takes no ownership from the user.
LEMMA PlannerAssigns ==
    ASSUME WellFormed, OnDisk, SaveAssign("planner"), Owner = "user"
    PROVE  Owner' = "user"
<1>1. /\ txn["planner"].stage # "none" /\ txn["planner"].new \in Provenance /\ loaded
      /\ mem' = txn["planner"].new /\ loaded' = loaded
  BY DEF SaveAssign, WellFormed, CommitsCarryRecords, Threads
<1>2. Held
  BY <1>1 DEF Owner, Current, Held
<1>3. mem' # None /\ ManualOverrideActive(mem')
  BY <1>1, <1>2, ModeControlAssumption DEF OnDisk, Commits, ObservationsKeepOverrides,
                                           PlannerCommit
<1> QED  BY <1>1, <1>3 DEF Owner, Current

LEMMA RestartKeepsDisk ==
    ASSUME WellFormed, [Next]_vars, Restart PROVE disk' = disk
<1>1. ASSUME NEW t \in Threads, Save(t) PROVE disk' = disk
  <2>1. txn'[t].stage = "none"
    BY IdleType DEF Restart
  <2> QED  BY <1>1, <2>1 DEF Save, SaveOpen, SaveWrite, SaveReplace, SaveReplaceFails,
              SaveAborts, SaveCleanup, SaveUnlink, SaveUnlinkFails, SaveAssign, store,
              WellFormed, TypeOK, Commit
<1>2. CASE \/ \E r \in Requests : ResetRequest(r)
           \/ ObserveVendorMode \/ RecordApplication \/ RecordRefused \/ Crash
  BY <1>2 DEF ResetRequest, ObserveVendorMode, RecordApplication, RecordRefused, Crash
<1>3. CASE StepsOf \/ Environment \/ UNCHANGED vars
  BY <1>3, StepsCommitNothing DEF Environment, UserSelects, SelectorLeaves, SelectorReturns,
     CommandTakesEffect, CommandIsLost, vars, store
<1> QED  BY <1>1, <1>2, <1>3, NextCases

\* For any modes, faults, restarts and bounds, and any number of requests whose saves race
\* through the one temporary file: a manual override is given up only by a reset that the
\* user asked for.
THEOREM OnlyResets == Spec => OnlyResetReleases
<1>1. WellFormed /\ OnDisk /\ [Next]_vars
        => [Owner = "user" /\ Owner' = "planner" => ResetUnderWay]_vars
  <2> SUFFICES ASSUME WellFormed, OnDisk, [Next]_vars,
                      Owner = "user", Owner' = "planner"
               PROVE  ResetUnderWay
    OBVIOUS
  <2>1. CASE Restart
    BY <2>1, RestartOwner, RestartKeepsDisk DEF ResetUnderWay
  <2>2. CASE SaveAssign("planner")
    BY <2>2, PlannerAssigns
  <2>3. CASE \E r \in Requests : SaveAssign(r)
    BY <2>3 DEF SaveAssign, ResetUnderWay, Serving
  <2>4. CASE ~Restart /\ \A t \in Threads : ~SaveAssign(t)
    BY <2>4, OwnerStays DEF Owner
  <2> QED  BY <2>1, <2>2, <2>3, <2>4, PlannerServesNoRequest
<1> QED  BY <1>1, InitWellFormed, NextWellFormed, InitOnDisk, NextOnDisk, PTL
         DEF Spec, OnlyResetReleases
-----------------------------------------------------------------------------
(* What is awaited, while at most one reset is served at a time.             *)

ResetsAnswerOverrides ==
    \A r \in Requests : Serving(r) => Held /\ txn[r].new.planned = mem.planned

ObservationsKeepPlanned ==
    pc = "commit_observation" /\ mem # None => PlannerCommit.new.planned = mem.planned

ApplicationsAreOwned ==
    pc = "commit_application" =>
        /\ PlannerCommit.new.status = "planner_owned"
        /\ PlannerCommit.new.planned = commanded

AwaitedIsOnRecord ==
    pending # None =>
        /\ mem # None
        /\ pc \in {"record", "commit_application"} => commanded = pending
        /\ pc \notin {"record", "commit_application"} => mem.planned = pending

OnRecord == /\ ResetsAnswerOverrides /\ ObservationsKeepPlanned /\ ApplicationsAreOwned
            /\ AwaitedIsOnRecord


\* A process that starts has no commit, no record in memory and awaits nothing.
LEMMA RestartOnRecord == ASSUME Restart PROVE OnRecord'
<1>1. /\ mem' = None /\ pending' = None /\ pc' = "capture"
      /\ \A r \in Requests : ~Serving(r)'
  BY IdleType DEF Restart, Serving, Threads
<1> QED  BY <1>1 DEF OnRecord, ResetsAnswerOverrides, ObservationsKeepPlanned,
     ApplicationsAreOwned, AwaitedIsOnRecord

LEMMA SaveOnRecord ==
    ASSUME WellFormed, OnDisk, OnRecord, OneReset, NEW t \in Threads, Save(t) PROVE OnRecord'
<1> USE DEF PlannerCommit, loop
<1>1. CASE Restart
  BY <1>1, RestartOnRecord
<1>2. ASSUME ~Restart
      PROVE  /\ txn[t].stage # "none"
             /\ \A u \in Threads : u # t => /\ txn'[u].stage = txn[u].stage
                                            /\ txn'[u].new = txn[u].new
             /\ Continues(t) \/ RequestDies(t) \/ SaveAssign(t)
  BY <1>2, SaveEffect
<1>3. CASE ~Restart /\ ~SaveAssign(t)
  <2>1. UNCHANGED <<mem, pc, pending, commanded>>
    BY <1>2, <1>3 DEF Continues, RequestDies
  <2>2. \A u \in Threads : txn'[u].stage # "none" => /\ txn[u].stage # "none"
                                                     /\ txn'[u].new = txn[u].new
    BY <1>2, <1>3, IdleType DEF Continues, RequestDies
  <2>3. txn'["planner"].new = txn["planner"].new
    BY <1>2, <1>3, PlannerServesNoRequest DEF Continues, RequestDies
  <2> QED  BY <2>1, <2>2, <2>3 DEF OnRecord, ResetsAnswerOverrides, ObservationsKeepPlanned,
              ApplicationsAreOwned, AwaitedIsOnRecord, Serving, Held, Threads
<1>4. CASE SaveAssign(t)
  <2>1. /\ UNCHANGED pending /\ mem' = txn[t].new /\ mem' # None
        /\ txn[t].stage = "assign" /\ txn'[t].stage = "none"
        /\ \A u \in Threads : u # t => txn'[u] = txn[u]
    BY <1>4, IdleType, CommitFacts, ModeControlAssumption DEF SaveAssign, WellFormed, TypeOK
  <2>2. CASE t = "planner"
    <3>1. /\ pc \in {"commit_observation", "commit_application"}
          /\ pc' \notin {"commit_observation", "commit_application", "record"}
      <4>1. pc \in {"commit_observation", "commit_application"}
        BY <2>1, <2>2 DEF OnDisk, Commits, CommitsAreSteps
      <4> QED  BY <1>4, <2>2, <4>1 DEF SaveAssign, AfterObserve, AfterBoundary
    <3>2. ASSUME NEW r \in Requests, Serving(r)'
          PROVE  Held' /\ txn'[r].new.planned = mem'.planned
      <4>1. Serving(r) /\ txn'[r] = txn[r]
        BY <2>1, <2>2, <3>2, PlannerServesNoRequest DEF Serving, Threads
      <4>2. Held /\ txn[r].new.planned = mem.planned
        BY <4>1 DEF OnRecord, ResetsAnswerOverrides
      <4>3. ManualOverrideActive(txn["planner"].new)
        BY <2>1, <2>2, <4>2 DEF OnDisk, Commits, ObservationsKeepOverrides
      <4>4. pc = "commit_observation"
        BY <3>1, <4>3 DEF OnRecord, ApplicationsAreOwned, ManualOverrideActive
      <4> QED  BY <2>1, <2>2, <4>1, <4>2, <4>3, <4>4
                  DEF OnRecord, ObservationsKeepPlanned, Held
    <3>3. ResetsAnswerOverrides'
      BY <3>2 DEF ResetsAnswerOverrides
    <3>4. AwaitedIsOnRecord'
      BY <2>1, <2>2, <3>1 DEF OnRecord, AwaitedIsOnRecord,
         ObservationsKeepPlanned, ApplicationsAreOwned
    <3> QED  BY <3>1, <3>3, <3>4 DEF OnRecord, ObservationsKeepPlanned, ApplicationsAreOwned
  <2>3. CASE t \in Requests
    <3>1. /\ Serving(t) /\ UNCHANGED <<pc, commanded>>
          /\ mem # None /\ mem'.planned = mem.planned
      BY <1>4, <2>1, <2>3, PlannerServesNoRequest
         DEF SaveAssign, OnRecord, ResetsAnswerOverrides, Serving, Held
    <3>2. \A r \in Requests : ~Serving(r)'
      BY <2>1, <2>3, <3>1 DEF OneReset, Serving, Threads
    <3>3. txn'["planner"] = txn["planner"]
      BY <2>1, <2>3, PlannerServesNoRequest
    <3> QED  BY <2>1, <3>1, <3>2, <3>3 DEF OnRecord, ResetsAnswerOverrides,
                ObservationsKeepPlanned, ApplicationsAreOwned, AwaitedIsOnRecord
  <2> QED  BY <2>2, <2>3, PlannerServesNoRequest
<1> QED  BY <1>1, <1>3, <1>4

LEMMA ResetOnRecord ==
    ASSUME WellFormed, OnDisk, OnRecord, OneReset', NEW r \in Requests, ResetRequest(r)
    PROVE  OnRecord'
<1> USE DEF PlannerCommit
<1>1. /\ r \in Threads /\ r # "planner"
      /\ StartCommit(r, ResetOverride(Current, selector.rev))
      /\ UNCHANGED <<pc, pending, commanded>>
      /\ Current \in Provenance /\ Current # None /\ ManualOverrideActive(Current)
  BY CurrentType, PlannerServesNoRequest DEF ResetRequest, Threads, loop, WellFormed
<1>2. /\ txn'[r].new = ResetOverride(Current, selector.rev) /\ mem' = Current
      /\ txn'[r].stage = "open"
      /\ txn'["planner"] = txn["planner"]
  BY <1>1, PlannerServesNoRequest DEF StartCommit, WellFormed, TypeOK
<1>3. ResetOverride(Current, selector.rev).planned = Current.planned
  BY <1>1 DEF ResetOverride, Provenance
<1>4. \A u \in Requests : Serving(u)' => u = r
  BY <1>2 DEF OneReset, Serving
<1>5. (loaded => mem' = mem) /\ (~loaded => mem = None)
      /\ (txn["planner"].stage # "none" => loaded)
  BY <1>2, FirstRead, PlannerServesNoRequest
<1>6. ResetsAnswerOverrides'
  BY <1>1, <1>2, <1>3, <1>4 DEF ResetsAnswerOverrides, Held
<1>7. AwaitedIsOnRecord'
  BY <1>1, <1>5 DEF OnRecord, AwaitedIsOnRecord
<1>8. ObservationsKeepPlanned' /\ ApplicationsAreOwned'
  BY <1>1, <1>2, <1>5 DEF OnRecord, ObservationsKeepPlanned, ApplicationsAreOwned,
     OnDisk, Commits, CommitsAreSteps
<1> QED  BY <1>6, <1>7, <1>8 DEF OnRecord

LEMMA PlannerStartsOnRecord ==
    ASSUME WellFormed, OnDisk, OnRecord, ObserveVendorMode \/ RecordApplication
    PROVE  OnRecord'
<1> USE DEF PlannerCommit
<1>1. PICK new :
        /\ StartCommit("planner", new)
        /\ ObserveVendorMode /\ Current # None => new.planned = Current.planned
        /\ RecordApplication => new.status = "planner_owned" /\ new.planned = commanded
  BY PlannerStarts
<1>2. /\ txn'["planner"].new = new /\ mem' = Current
      /\ \A u \in Requests : txn'[u] = txn[u]
  BY <1>1, PlannerServesNoRequest DEF StartCommit, WellFormed, TypeOK, Threads
<1>3. (loaded => mem' = mem) /\ (~loaded => mem = None /\ \A r \in Requests : ~Serving(r))
  BY <1>2, FirstRead DEF Serving, Threads
<1>4. /\ UNCHANGED <<pending, commanded>>
      /\ \/ ObserveVendorMode /\ pc = "observe" /\ pc' = "commit_observation"
         \/ RecordApplication /\ pc = "record" /\ pc' = "commit_application"
  BY DEF ObserveVendorMode, RecordApplication
<1>5. ResetsAnswerOverrides'
  BY <1>2, <1>3 DEF OnRecord, ResetsAnswerOverrides, Serving, Held
<1>6. AwaitedIsOnRecord'
  BY <1>3, <1>4 DEF OnRecord, AwaitedIsOnRecord
<1>7. ObservationsKeepPlanned' /\ ApplicationsAreOwned'
  BY <1>1, <1>2, <1>4 DEF ObservationsKeepPlanned, ApplicationsAreOwned
<1> QED  BY <1>5, <1>6, <1>7 DEF OnRecord

LEMMA BoundaryAwaits ==
    ASSUME WellFormed, OnRecord, Boundary PROVE AwaitedIsOnRecord'
<1> USE DEF store
<1>1. UNCHANGED mem /\ pc = "boundary" /\ (pending # None => mem.planned = pending)
  BY DEF Boundary, BoundaryBlocked, BoundaryAlreadyActive, Command, CommandFails,
         CommandRaises, MayCommand, OnRecord, AwaitedIsOnRecord
<1>2. ASSUME NEW mode \in Modes, Command(mode) PROVE AwaitedIsOnRecord'
  <2>1. mem # None
    BY <1>2, BasisHasRecord DEF Command, MayCommand
  <2> QED  BY <1>1, <1>2, <2>1 DEF Command, AwaitedIsOnRecord
<1>3. CASE BoundaryBlocked \/ \E mode \in Modes : CommandFails(mode)
  <2>1. pending' = pending /\ pc' \notin {"record", "commit_application"}
    BY <1>3, ProceedType DEF BoundaryBlocked, CommandFails
  <2> QED  BY <1>1, <2>1 DEF OnRecord, AwaitedIsOnRecord
<1>4. CASE \E mode \in Modes : BoundaryAlreadyActive(mode) \/ CommandRaises(mode)
  BY <1>4 DEF BoundaryAlreadyActive, CommandRaises, AwaitedIsOnRecord
<1> QED  BY <1>2, <1>3, <1>4 DEF Boundary, Selectable

LEMMA NextOnRecord ==
    WellFormed /\ OnDisk /\ OnRecord /\ OneReset /\ OneReset' /\ [Next]_vars => OnRecord'
<1> SUFFICES ASSUME WellFormed, OnDisk, OnRecord, OneReset, OneReset', [Next]_vars
             PROVE  OnRecord'
  OBVIOUS
<1>1. CASE RecordRefused \/ Crash
  BY <1>1, RestartOnRecord DEF RecordRefused, Crash
<1>2. CASE StepsOf
  <2>1. /\ UNCHANGED <<txn, mem>>
        /\ pc \notin {"commit_observation", "commit_application"}
        /\ pc' \notin {"commit_observation", "commit_application"}
    BY <1>2, StepsCommitNothing
  <2>2. AwaitedIsOnRecord'
    <3>1. CASE ~Boundary
      <4>1. UNCHANGED <<pending, commanded>> /\ pc # "record" /\ pc' # "record"
        BY <1>2, <3>1 DEF StepsOf, Capture, CaptureBlind, Recapture, NextPoll, Refresh,
           BeginPlanning, Checkpoint, FinishCommitted, FinishFallback, AfterObserve
      <4> QED  BY <2>1, <4>1 DEF OnRecord, AwaitedIsOnRecord
    <3> QED  BY <3>1, BoundaryAwaits
  <2> QED  BY <2>1, <2>2 DEF OnRecord, ResetsAnswerOverrides, ObservationsKeepPlanned,
     ApplicationsAreOwned, Serving, Held
<1>3. CASE Environment \/ UNCHANGED vars
  <2>1. UNCHANGED <<txn, mem, pending, commanded, pc>>
    BY <1>3 DEF Environment, UserSelects, SelectorLeaves, SelectorReturns,
                CommandTakesEffect, CommandIsLost, vars, store, loop
  <2> QED  BY <2>1 DEF OnRecord, ResetsAnswerOverrides, ObservationsKeepPlanned,
     ApplicationsAreOwned, AwaitedIsOnRecord, Serving, Held, PlannerCommit
<1> QED  BY <1>1, <1>2, <1>3, NextCases, SaveOnRecord, ResetOnRecord, PlannerStartsOnRecord

LEMMA InitOnRecord == Init => OnRecord
  BY IdleType DEF Init, OnRecord, ResetsAnswerOverrides, ObservationsKeepPlanned,
     ApplicationsAreOwned, AwaitedIsOnRecord, Serving, Threads

\* While no two resets overlap, the mode whose feedback the dispatcher awaits is the
\* planned mode of the current record: through resets that race with the loop's saves,
\* restarts, failed saves and failing commands.
THEOREM PendingAlwaysRecorded == Spec /\ []OneReset => []PendingIsRecorded
<1>1. WellFormed /\ OnRecord => PendingIsRecorded
  BY DEF WellFormed, StepsHaveTheirInput, OnRecord, AwaitedIsOnRecord, PendingIsRecorded,
         Current
<1> QED  BY <1>1, InitWellFormed, NextWellFormed, InitOnDisk, NextOnDisk, InitOnRecord,
            NextOnRecord, PTL DEF Spec
-----------------------------------------------------------------------------
(* One owner.  While planning does not end in the fallback, every step does   *)
(* to the owner, the reset that was asked for and the commands on their way   *)
(* what a step of ModeAuthority does, or nothing.                             *)

NoFallback == phase # "stale"

LEMMA NextNoFallback ==
    ASSUME "no_daily_plan" \notin Faults, WellFormed, OnDisk, NoFallback, [Next]_vars
    PROVE  NoFallback'
<1> USE DEF loop
<1>1. ASSUME NEW t \in Threads, Save(t) PROVE NoFallback'
  <2>1. CASE Restart
    BY <2>1 DEF Restart, NoFallback
  <2>2. CASE SaveAssign(t)
    BY <2>2 DEF SaveAssign, PhaseAfterBoundary, NoFallback
  <2>3. CASE ~Restart /\ ~SaveAssign(t)
    BY <1>1, <2>3, SaveEffect DEF Continues, RequestDies, NoFallback
  <2> QED  BY <2>1, <2>2, <2>3
<1>2. CASE \/ \E r \in Requests : ResetRequest(r)
           \/ ObserveVendorMode \/ RecordApplication \/ RecordRefused \/ Crash
  BY <1>2 DEF ResetRequest, ObserveVendorMode, RecordApplication, RecordRefused, Crash, Restart,
     NoFallback
<1>3. CASE Boundary
  BY <1>3, ProceedType DEF Boundary, BoundaryBlocked, BoundaryAlreadyActive, Command,
     CommandFails, CommandRaises, NoFallback
<1>4. CASE StepsOf /\ ~Boundary
  BY <1>4 DEF StepsOf, Capture, CaptureBlind, Recapture, NextPoll, Refresh, BeginPlanning,
     Checkpoint, FinishCommitted, FinishFallback, NoFallback
<1>5. CASE Environment \/ UNCHANGED vars
  BY <1>5 DEF Environment, UserSelects, SelectorLeaves, SelectorReturns, CommandTakesEffect,
     CommandIsLost, vars, NoFallback
<1> QED  BY <1>1, <1>2, <1>3, <1>4, <1>5, NextCases

\* What a step may do to the owner, the reset and the commands on their way.
Keeps == UNCHANGED <<Owner, ResetUnderWay, flight>>
TakesOver == Owner' = "user" /\ (ResetUnderWay' => ResetUnderWay) /\ flight' = flight
Asks == Owner = "user" /\ Owner' = Owner /\ ResetUnderWay' /\ flight' = flight
Releases == ResetUnderWay /\ Owner' = "planner" /\ flight' = flight
Drops == ~ResetUnderWay' /\ Owner' = Owner /\ flight' = flight
Sends ==
    /\ Owner = "planner" /\ UNCHANGED <<Owner, ResetUnderWay>>
    /\ \E mode \in Modes : flight' = Append(flight, mode)
Arrives == UNCHANGED <<Owner, ResetUnderWay>> /\ flight # <<>> /\ flight' = Tail(flight)

LEMMA EffectsAreAbstract ==
    ASSUME Keeps \/ TakesOver \/ Asks \/ Releases \/ Drops \/ Sends \/ Arrives
    PROVE  [Authority!Next]_(Authority!vars)
<1>1. ResetUnderWay \in BOOLEAN /\ ResetUnderWay' \in BOOLEAN
  BY DEF ResetUnderWay
<1>2. CASE Keeps
  BY <1>2 DEF Keeps, Authority!vars
<1>3. CASE TakesOver
  BY <1>1, <1>3 DEF TakesOver, Authority!Next, Authority!TakeOver
<1>4. CASE Asks
  BY <1>1, <1>4 DEF Asks, Authority!Next, Authority!AskReset
<1>5. CASE Releases
  BY <1>1, <1>5 DEF Releases, Authority!Next, Authority!Release
<1>6. CASE Drops
  BY <1>1, <1>6 DEF Drops, Authority!Next, Authority!Drop
<1>7. CASE Sends
  BY <1>7 DEF Sends, Authority!Next, Authority!Command
<1>8. CASE Arrives
  BY <1>8 DEF Arrives, Authority!Next, Authority!Arrive
<1> QED  BY <1>2, <1>3, <1>4, <1>5, <1>6, <1>7, <1>8

\* The override that a planner saves and has renamed, but not assigned.
Arriving == PlannerCommit.stage \in Renamed /\ ManualOverrideActive(PlannerCommit.new)

LEMMA UnderWay ==
    /\ Owner \in {"user", "planner"}
    /\ ResetUnderWay <=> \/ \E r \in Requests : Serving(r)
                         \/ DocumentLost /\ (Owner = "user" \/ Arriving)
  BY DEF Owner, ResetUnderWay, Arriving, Renamed, PlannerCommit

\* A process that starts owns the mode, unless an override that stood is all there is.
LEMMA RestartEffect ==
    ASSUME WellFormed, OnDisk, Restart, disk' = disk, flight' = flight
    PROVE  TakesOver \/ Releases \/ Drops
<1>1. \A t \in Threads : txn'[t].stage = "none"
  BY IdleType DEF Restart
<1>2. ~Arriving' /\ \A r \in Requests : ~Serving(r)'
  BY <1>1 DEF Arriving, PlannerCommit, Renamed, Serving, Threads
<1>3. Owner' = "user" => ~DocumentLost'
  BY ModeControlAssumption DEF Restart, Owner, Current, ManualOverrideActive, DocumentLost
<1>4. ~ResetUnderWay' /\ Owner' \in {"user", "planner"}
  BY <1>2, <1>3, UnderWay DEF Arriving, Serving, ResetUnderWay, Owner, PlannerCommit, Renamed
<1>5. Owner = "user" /\ Owner' = "planner" => ResetUnderWay
  BY RestartOwner DEF ResetUnderWay
<1> QED  BY <1>4, <1>5, UnderWay DEF TakesOver, Releases, Drops

\* A file that a planner renames while no request is served is the planner's own.
LEMMA ArrivesWhole ==
    ASSUME WellFormed, OnDisk, NEW t \in Threads, Save(t), ~Restart, ~SaveAssign(t),
           ~ResetUnderWay, Arriving', DocumentLost'
    PROVE  Owner = "user"
<1> USE DEF PlannerCommit
<1>1. \A r \in Requests : txn[r].stage = "none"
  BY DEF ResetUnderWay, Serving
<1>2. /\ t = "planner" /\ txn[t].stage # "none" /\ UNCHANGED resets
      /\ txn[t].new \in Provenance
      /\ txn'[t].new = txn[t].new
  BY <1>1, SaveEffect, PlannerServesNoRequest
     DEF Continues, RequestDies, WellFormed, CommitsCarryRecords
<1>3. CASE SaveReplace(t)
  <2>1. disk' = tmp /\ tmp # NoFile /\ txn[t].stage = "replace"
    BY <1>3 DEF SaveReplace
  <2>2. tmp = txn["planner"].new
    BY <1>1, <1>2, <2>1 DEF OnDisk, TmpFile, PlannerReplaces, Racing
  <2> QED  BY <1>2, <2>1, <2>2, ModeControlAssumption
              DEF Arriving, DocumentLost, ManualOverrideActive
<1>4. CASE SaveCleanup(t) \/ SaveUnlink(t)
  <2>1. disk' = disk /\ txn[t].stage \in Renamed
    BY <1>4 DEF SaveCleanup, SaveUnlink, store, Renamed
  <2> QED  BY <1>2, <2>1 DEF Arriving, DocumentLost, ResetUnderWay, Renamed
<1>5. CASE SaveOpen(t) \/ SaveWrite(t) \/ SaveReplaceFails(t) \/ SaveAborts(t)
             \/ SaveUnlinkFails(t)
  <2>1. txn'[t].stage \in {"write", "replace", "abort", "none"}
    BY <1>2, <1>5, IdleType DEF SaveOpen, SaveWrite, SaveReplaceFails, SaveAborts,
       SaveUnlinkFails, Fails, Advance, Restart, WellFormed, TypeOK, Commit
  <2> QED  BY <1>2, <2>1 DEF Arriving, Renamed
<1> QED  BY <1>3, <1>4, <1>5 DEF Save

LEMMA SaveImplements ==
    ASSUME WellFormed, OnDisk, NEW t \in Threads, Save(t), [Next]_vars
    PROVE  Keeps \/ TakesOver \/ Asks \/ Releases \/ Drops
<1> USE DEF PlannerCommit
<1>1. flight' = flight
  BY SaveEffect DEF world
<1>2. CASE Restart
  BY <1>1, <1>2, RestartEffect, RestartKeepsDisk
<1>3. CASE ~Restart /\ ~SaveAssign(t)
  <2>1. Owner' = Owner
    <3>1. loaded /\ UNCHANGED <<mem, loaded>>
      BY <1>3, SaveEffect DEF WellFormed, CommitsCarryRecords, Continues, RequestDies
    <3> QED  BY <3>1 DEF Owner, Current
  <2>2. CASE ResetUnderWay \/ ~ResetUnderWay'
    BY <1>1, <2>1, <2>2 DEF Keeps, Drops, ResetUnderWay
  <2>3. ASSUME ~ResetUnderWay, ResetUnderWay' PROVE Owner = "user"
    <3>1. \A r \in Requests : ~Serving(r) /\ ~Serving(r)'
      <4>1. \A r \in Requests : ~Serving(r)
        BY <2>3 DEF ResetUnderWay
      <4>2. t = "planner"
        BY <4>1, SaveEffect, PlannerServesNoRequest DEF Serving
      <4> QED  BY <1>3, <4>1, <4>2, SaveEffect, PlannerServesNoRequest DEF Serving, Threads
    <3>2. DocumentLost' /\ (Owner' = "user" \/ Arriving')
      BY <2>3, <3>1 DEF ResetUnderWay, Arriving, Renamed, Serving
    <3> QED  BY <1>3, <2>1, <2>3, <3>2, ArrivesWhole
  <2> QED  BY <1>1, <2>1, <2>2, <2>3 DEF Asks
<1>4. CASE SaveAssign(t) /\ t = "planner"
  <2>1. /\ mem' = txn["planner"].new /\ txn["planner"].stage = "assign" /\ loaded /\ loaded'
        /\ mem' \in Provenance /\ mem' # None
        /\ UNCHANGED <<disk, resets>> /\ txn'["planner"] = Idle
        /\ \A r \in Requests : txn'[r] = txn[r]
    BY <1>4, ModeControlAssumption DEF SaveAssign, WellFormed, TypeOK, CommitsCarryRecords,
       Threads
  <2>2. /\ (Owner' = "user" <=> ManualOverrideActive(txn["planner"].new))
        /\ (Owner = "user" <=> Held)
    BY <2>1 DEF Owner, Current, Held
  <2>3. (DocumentLost' <=> DocumentLost) /\ ~Arriving'
        /\ (Arriving <=> ManualOverrideActive(txn["planner"].new))
        /\ \A r \in Requests : Serving(r)' <=> Serving(r)
    BY <2>1, IdleType DEF DocumentLost, Arriving, Renamed, Serving
  <2>4. ResetUnderWay' <=> \/ \E r \in Requests : Serving(r)
                           \/ DocumentLost /\ Owner' = "user"
    BY <2>3 DEF ResetUnderWay, Arriving, Renamed
  <2>5. Owner = "user" => Owner' = "user"
    BY <1>4, PlannerAssigns
  <2>6. ResetUnderWay' <=> ResetUnderWay
    BY <2>2, <2>3, <2>4, <2>5, UnderWay
  <2>7. Owner' \in {"user", "planner"}
    BY DEF Owner
  <2> QED  BY <1>1, <2>5, <2>6, <2>7, UnderWay DEF TakesOver, Keeps, ResetUnderWay
<1>5. CASE SaveAssign(t) /\ t \in Requests
  <2>1. /\ mem' = txn[t].new /\ Serving(t) /\ loaded /\ loaded'
    BY <1>5 DEF SaveAssign, Serving, WellFormed, CommitsCarryRecords
  <2>2. ~ManualOverrideActive(mem')
    BY <1>5, <2>1 DEF OnDisk, Commits, ResetsRelease, ManualOverrideActive
  <2> QED  BY <1>1, <1>5, <2>1, <2>2 DEF Releases, Owner, Current, ResetUnderWay
<1> QED  BY <1>2, <1>3, <1>4, <1>5, PlannerServesNoRequest

LEMMA StepImplements ==
    ASSUME WellFormed, Respectful, OnDisk, NoFallback, [Next]_vars
    PROVE  [Authority!Next]_(Authority!vars)
<1> USE DEF world, store, loop
<1>1. CASE \E t \in Threads : Save(t)
  BY <1>1, SaveImplements, EffectsAreAbstract
<1>2. CASE \E r \in Requests : ResetRequest(r)
  <2>1. PICK r \in Requests : ResetRequest(r)
    BY <1>2
  <2>2. /\ Owner = "user" /\ Owner' = Owner /\ flight' = flight
        /\ txn'[r].stage = "open"
    BY <2>1 DEF ResetRequest, StartCommit, Owner, Current, WellFormed, TypeOK, Threads
  <2>3. ResetUnderWay'
    BY <2>2 DEF ResetUnderWay, Serving
  <2> QED  BY <2>2, <2>3, EffectsAreAbstract DEF Asks
<1>3. CASE Boundary
  <2>1. UNCHANGED <<txn, disk, mem, loaded, resets>>
    BY <1>3, StepsCommitNothing DEF StepsOf
  <2>2. UNCHANGED <<Owner, ResetUnderWay>>
    BY <2>1 DEF Owner, Current, ResetUnderWay, DocumentLost, Serving
  <2>3. \/ flight' = flight
        \/ \E mode \in Modes : flight' = Append(flight, mode) /\ Authorised(Basis)
    BY <1>3 DEF Boundary, BoundaryBlocked, BoundaryAlreadyActive, Command, CommandFails,
                CommandRaises, MayCommand, Selectable
  <2>4. pc = "boundary"
    BY <1>3 DEF Boundary, BoundaryBlocked, BoundaryAlreadyActive, Command, CommandFails,
                CommandRaises, MayCommand
  <2>5. ASSUME Authorised(Basis) PROVE Owner = "planner"
    <3>1. mem # None /\ loaded
      BY <2>5, BasisHasRecord DEF WellFormed, StepsHaveTheirInput
    <3>2. ~ManualOverrideActive(mem)
      BY <2>4, <2>5 DEF Authorised, Basis, NoFallback, Respectful, LooksFirst
    <3> QED  BY <3>1, <3>2 DEF Owner, Current
  <2> QED  BY <2>2, <2>3, <2>5, EffectsAreAbstract DEF Keeps, Sends
<1>4. CASE Environment
  <2>1. UNCHANGED <<txn, disk, mem, loaded, resets>>
    BY <1>4 DEF Environment, UserSelects, SelectorLeaves, SelectorReturns,
                CommandTakesEffect, CommandIsLost
  <2>2. UNCHANGED <<Owner, ResetUnderWay>>
    BY <2>1 DEF Owner, Current, ResetUnderWay, DocumentLost, Serving
  <2>3. flight' = flight \/ (flight # <<>> /\ flight' = Tail(flight))
    BY <1>4 DEF Environment, UserSelects, SelectorLeaves, SelectorReturns,
                CommandTakesEffect, CommandIsLost
  <2> QED  BY <2>2, <2>3, EffectsAreAbstract DEF Keeps, Arrives
<1>5. CASE ObserveVendorMode \/ RecordApplication
  <2>1. PICK new : StartCommit("planner", new)
    BY <1>5, PlannerStarts
  <2>2. /\ UNCHANGED <<flight, disk, resets>> /\ pc \in {"observe", "record"}
    BY <1>5 DEF ObserveVendorMode, RecordApplication
  <2>3. txn["planner"].stage = "none"
    BY <2>2 DEF OnDisk, Commits, CommitsAreSteps, PlannerCommit
  <2>4. /\ txn'["planner"].stage = "open"
        /\ \A r \in Requests : txn'[r] = txn[r]
        /\ Current' = Current
    BY <2>1, PlannerServesNoRequest DEF StartCommit, Current, WellFormed, TypeOK, Threads
  <2>5. UNCHANGED <<Owner, ResetUnderWay>>
    BY <2>2, <2>3, <2>4 DEF Owner, ResetUnderWay, DocumentLost, Serving
  <2> QED  BY <2>2, <2>5, EffectsAreAbstract DEF Keeps
<1>6. CASE RecordRefused \/ Crash
  BY <1>6, RestartEffect, EffectsAreAbstract DEF RecordRefused, Crash
<1>7. CASE (StepsOf /\ ~Boundary) \/ UNCHANGED vars
  <2>1. UNCHANGED <<txn, disk, mem, loaded, resets>>
    BY <1>7, StepsCommitNothing DEF vars
  <2>2. UNCHANGED <<Owner, ResetUnderWay>>
    BY <2>1 DEF Owner, Current, ResetUnderWay, DocumentLost, Serving
  <2>3. flight' = flight
    BY <1>7 DEF StepsOf, Capture, CaptureBlind, Recapture, NextPoll, Refresh, BeginPlanning,
                Checkpoint, FinishCommitted, FinishFallback, vars
  <2> QED  BY <2>2, <2>3, EffectsAreAbstract DEF Keeps
<1> QED  BY <1>1, <1>2, <1>3, <1>4, <1>5, <1>6, <1>7, NextCases

\* While no planning ends in the unguarded fallback, the threads, documents and snapshots
\* implement the one-owner promise of ModeAuthority, for any modes, requests, other faults
\* and bounds.  (With the fallback a command is sent under an override.)
THEOREM AuthorityImplemented ==
    ASSUME "no_daily_plan" \notin Faults
    PROVE  Spec => ImplementsAuthority
<1>1. Init => Authority!Init
  <2> SUFFICES ASSUME Init PROVE Authority!Init
    OBVIOUS
  <2>1. Owner = "planner" /\ flight = <<>>
    BY ModeControlAssumption DEF Init, Owner, Current, Unreadable
  <2>2. ~Arriving /\ \A r \in Requests : ~Serving(r)
    BY IdleType DEF Init, Arriving, PlannerCommit, Renamed, Serving, Threads
  <2>3. ResetUnderWay = FALSE
    BY <2>1, <2>2, UnderWay DEF ResetUnderWay
  <2> QED  BY <2>1, <2>3 DEF Authority!Init
<1>2. Init => NoFallback
  BY DEF Init, NoFallback
<1>3. WellFormed /\ OnDisk /\ NoFallback /\ [Next]_vars => NoFallback'
  BY NextNoFallback
<1>4. WellFormed /\ Respectful /\ OnDisk /\ NoFallback /\ [Next]_vars
        => [Authority!Next]_(Authority!vars)
  BY StepImplements
<1> QED  BY <1>1, <1>2, <1>3, <1>4, InitWellFormed, NextWellFormed, InitRespectful,
            NextRespectful, InitOnDisk, NextOnDisk, PTL
            DEF Spec, ImplementsAuthority, Authority!Spec
=============================================================================
