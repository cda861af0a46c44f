---------------------------- MODULE RouteConsent -----------------------------
(***************************************************************************)
(* What route choice promises about one daily charge assignment, without    *)
(* planning cycles, mailboxes or restarts: one question at a time is open   *)
(* or in force, an answer counts once and only for the question it was      *)
(* given to, and a route the user chose is never left for price.            *)
(***************************************************************************)
CONSTANTS Assignments, Questions

VARIABLES
    asked,   \* the questions of an assignment that are open or in force, with their stage
    spent,   \* questions that can no longer gain authority
    left     \* why the route leaves the windows the user chose, "no" if it does not

promise == <<asked, spent, left>>

At(stage, q) == [stage |-> stage, question |-> q]

Init ==
    /\ asked = [a \in Assignments |-> {}] /\ spent = {}
    /\ left = [a \in Assignments |-> "no"]

\* A question replaces an unanswered one, and no other.
Ask(a, q) ==
    /\ q \notin spent /\ \A b \in Assignments : \A x \in asked[b] : x.question # q
    /\ \A x \in asked[a] : x.stage = "offered"
    /\ asked' = [asked EXCEPT ![a] = {At("offered", q)}]
    /\ spent' = spent \cup {x.question : x \in asked[a]}
    /\ UNCHANGED left

Consent(a, q) ==
    /\ asked[a] = {At("offered", q)}
    /\ asked' = [asked EXCEPT ![a] = {At("pending", q)}]
    /\ UNCHANGED <<spent, left>>

\* The user consented, and the route becomes the chosen one in the same step.
Agree(a, q) ==
    /\ asked[a] = {At("pending", q)}
    /\ asked' = [asked EXCEPT ![a] = {At("selected", q)}]
    /\ left' = [left EXCEPT ![a] = "no"]
    /\ UNCHANGED spent

\* Declined, rejected or given back.
Close(a, q) ==
    /\ \E stage \in {"offered", "pending", "selected"} : asked[a] = {At(stage, q)}
    /\ asked' = [asked EXCEPT ![a] = {}]
    /\ spent' = spent \cup {q}
    /\ left' = [left EXCEPT ![a] = "no"]

\* Another route: inside the windows, or outside because the assignment needs it, had no
\* route before, or the user executed a joint advice.
Replan(a) ==
    /\ left' \in {[left EXCEPT ![a] = why] : why \in {"no", "need", "first", "joint"}}
    /\ UNCHANGED <<asked, spent>>

\* A recovery gives up the routes of a set of assignments, and no question.
GiveUp(open) ==
    /\ left' = [a \in Assignments |-> IF a \in open THEN "no" ELSE left[a]]
    /\ UNCHANGED <<asked, spent>>

Next ==
    \/ \E a \in Assignments : Replan(a)
    \/ \E a \in Assignments, q \in Questions :
          Ask(a, q) \/ Consent(a, q) \/ Agree(a, q) \/ Close(a, q)
    \/ \E open \in SUBSET Assignments : GiveUp(open)

Spec == Init /\ [][Next]_promise
=============================================================================
