------------------------------ MODULE DayTrade ------------------------------
(***************************************************************************)
(* What the market rule promises about one day, without polls, meters or    *)
(* plans: one trade, whose budget only shrinks; it may be put off once,     *)
(* before it has begun; a trade that stops does not start again, and no     *)
(* export is commanded but for a trade that may still run.                  *)
(***************************************************************************)
EXTENDS Integers

CONSTANT Most

VARIABLES
    phase,      \* where the trade stands
    budget,     \* the units it may still be planned for
    released,   \* it was put off
    ran,        \* its export was observed
    exporting   \* a command to export is under way

promise == <<phase, budget, released, ran, exporting>>

Live == {"open", "running"}
Outcomes == {"skipped", "completed", "stopped"}

Init ==
    /\ phase = "idle" /\ budget = Most
    /\ released = FALSE /\ ran = FALSE /\ exporting = FALSE

Less == budget' \in 0 .. budget

Open ==
    /\ phase = "idle" /\ phase' = "open"
    /\ Less /\ UNCHANGED <<released, ran>>

\* A plan may take from the trade, never add to it.
Shrink ==
    /\ phase \in Live
    /\ Less /\ UNCHANGED <<phase, released, ran>>

PutOff ==
    /\ phase = "open" /\ ~released
    /\ phase' = "idle" /\ released' = TRUE
    /\ Less /\ UNCHANGED ran

\* Export is seen for the first time, even of a trade that was already told to stop.
Run ==
    /\ ~ran /\ ran'
    /\ \/ phase = "open" /\ phase' \in {"running", "ending"}
       \/ phase = "ending" /\ UNCHANGED phase
    /\ UNCHANGED <<budget, released>>

Stop ==
    /\ phase \in Live /\ phase' = "ending"
    /\ UNCHANGED <<budget, released, ran>>

Close ==
    /\ phase \in Live \cup {"ending"} /\ phase' \in Outcomes
    /\ phase' = "skipped" <=> ~ran
    /\ UNCHANGED <<budget, released, ran>>

Rest == UNCHANGED <<phase, budget, released, ran>>

\* A command to export needs a trade that may run after the step that sends it.
Commands == exporting' => exporting \/ phase' \in Live

Next == (Open \/ Shrink \/ PutOff \/ Run \/ Stop \/ Close \/ Rest) /\ Commands

Spec == Init /\ [][Next]_promise
=============================================================================
