------------------------ MODULE StorageModeProvenance ------------------------
(***************************************************************************)
(* The pure transitions of src/picot/v2/storage_mode_provenance.py: who is *)
(* known to have chosen the operating mode that the battery's selector     *)
(* shows.  Each operator is one function of that file and returns the new  *)
(* immutable provenance record.                                            *)
(*                                                                         *)
(* Instants are abstracted to revisions of the selector: revision r is the *)
(* r-th change of the selector's state, so `state_changed_at <=            *)
(* previous.observed_at' becomes "no change since the previous             *)
(* observation", that is, equality of the two revisions.                   *)
(***************************************************************************)
EXTENDS Naturals

CONSTANTS
    Modes,      \* vendor modes the selector can show
    None        \* Python's None

ASSUME NoneIsNoMode == None \notin Modes

Statuses == {"unverified", "planner_owned", "manual_override", "released"}

Reasons ==
    {"no_planner_application_recorded", "persisted_provenance_invalid",
     "planner_application_recorded",
     "planner_application_awaiting_mode_feedback",
     "observed_mode_matches_planner_mode",
     "observed_mode_differs_from_planner_mode",
     "observed_mode_changed_after_explicit_reset",
     "explicit_user_reset"}

\* `rev' stands for observed_at; the identifiers of the planner application
\* and of the reset are not kept.
Provenance ==
    [status: Statuses, observed: Modes, rev: Nat,
     planned: Modes \cup {None}, reason: Reasons]

\* The dataclass keeps manual_override_active equal to this by construction.
ManualOverrideActive(p) == p.status = "manual_override"

InitialProvenance(mode, rev, why) ==
    [status |-> "unverified", observed |-> mode, rev |-> rev,
     planned |-> None, reason |-> why]

\* The caller raises ValueError instead when ManualOverrideActive(p).
RecordPlannerApplication(p, mode) ==
    [p EXCEPT !.status = "planner_owned", !.planned = mode,
              !.reason = "planner_application_recorded"]

\* Mutant: feedback is awaited although the selector has moved since.
AwaitsUnmoved(p, mode, rev) ==
    /\ p.status = "planner_owned"
    /\ p.reason \in {"planner_application_recorded",
                     "planner_application_awaiting_mode_feedback"}
    /\ mode = p.observed

\* The command was sent and the selector has not moved since it was observed.
AwaitsFeedback(p, mode, rev) ==
    /\ p.status = "planner_owned"
    /\ p.reason \in {"planner_application_recorded",
                     "planner_application_awaiting_mode_feedback"}
    /\ mode = p.observed
    /\ rev = p.rev

\* Mutant: an override ends when the selector shows the planner's mode again.
OwnerByMode(p, mode, rev) ==
    CASE p.planned = mode ->
            [status |-> "planner_owned",
             reason |-> "observed_mode_matches_planner_mode"]
      [] p.status = "planner_owned" /\ p.planned # mode /\ ~AwaitsFeedback(p, mode, rev) ->
            [status |-> "manual_override",
             reason |-> "observed_mode_differs_from_planner_mode"]
      [] OTHER -> [status |-> p.status, reason |-> p.reason]

OwnerAfter(p, mode, rev) ==
    CASE p.status = "planner_owned" /\ p.planned = mode ->
            [status |-> "planner_owned",
             reason |-> "observed_mode_matches_planner_mode"]
      [] p.status = "planner_owned" /\ p.planned # mode
           /\ AwaitsFeedback(p, mode, rev) ->
            [status |-> "planner_owned",
             reason |-> "planner_application_awaiting_mode_feedback"]
      [] p.status = "planner_owned" /\ p.planned # mode
           /\ ~AwaitsFeedback(p, mode, rev) ->
            [status |-> "manual_override",
             reason |-> "observed_mode_differs_from_planner_mode"]
      [] p.status = "released" /\ p.observed # mode ->
            [status |-> "manual_override",
             reason |-> "observed_mode_changed_after_explicit_reset"]
      [] OTHER -> [status |-> p.status, reason |-> p.reason]

Observe(p, mode, rev) ==
    LET owner == OwnerAfter(p, mode, rev)
    IN  [p EXCEPT !.status = owner.status, !.reason = owner.reason,
                  !.observed = mode, !.rev = rev]

\* reset_current_manual_override passes the mode of the last observation.
ResetOverride(p, rev) ==
    [p EXCEPT !.status = "released", !.rev = rev,
              !.reason = "explicit_user_reset"]
=============================================================================
