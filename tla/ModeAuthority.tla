--------------------------- MODULE ModeAuthority ---------------------------
(***************************************************************************)
(* What the storage mode provenance is for, without threads, documents or  *)
(* snapshots: one owner of the battery's mode selector.  Ownership may     *)
(* move to the user at any time, comes back only through a reset that was  *)
(* asked for, and the planner sends commands only while it has it.         *)
(* ModeControl is shown to implement this.                                 *)
(***************************************************************************)
EXTENDS Sequences

CONSTANTS Modes

VARIABLES
    owner,      \* "planner" or "user"
    asked,      \* a reset has been asked for and not yet answered
    flight      \* commands on their way to the selector

vars == <<owner, asked, flight>>

Init == owner = "planner" /\ asked = FALSE /\ flight = <<>>

Command ==
    /\ owner = "planner"
    /\ \E mode \in Modes : flight' = Append(flight, mode)
    /\ UNCHANGED <<owner, asked>>

Arrive ==
    /\ flight # <<>> /\ flight' = Tail(flight)
    /\ UNCHANGED <<owner, asked>>

TakeOver ==
    /\ owner' = "user"
    /\ asked' \in {asked, FALSE}      \* a process that stops answers nothing
    /\ UNCHANGED flight

AskReset ==
    /\ owner = "user" /\ asked' = TRUE
    /\ UNCHANGED <<owner, flight>>

Release ==
    /\ asked /\ owner' = "planner"
    /\ asked' \in BOOLEAN              \* another one may have been asked for
    /\ UNCHANGED flight

Drop == asked' = FALSE /\ UNCHANGED <<owner, flight>>

Next == Command \/ Arrive \/ TakeOver \/ AskReset \/ Release \/ Drop

Spec == Init /\ [][Next]_vars
=============================================================================
