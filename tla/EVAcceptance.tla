---------------------------- MODULE EVAcceptance -----------------------------
(***************************************************************************)
(* What an executed joint advice promises, without the two programs that   *)
(* keep the promise: the user chooses one advice at a time, the battery's   *)
(* route is bound to a chosen one, and the charger is powered for a chosen  *)
(* one whose route was bound and that was not withdrawn.                   *)
(***************************************************************************)
CONSTANT Advices

VARIABLES chosen, bound, powered, withdrawn

promise == <<chosen, bound, powered, withdrawn>>

Init == chosen = {} /\ bound = {} /\ powered = {} /\ withdrawn = {}

Choose(a) ==
    /\ chosen \subseteq withdrawn /\ a \notin chosen
    /\ chosen' = chosen \cup {a}
    /\ UNCHANGED <<bound, powered, withdrawn>>

Bind(a) ==
    /\ a \in chosen \ bound
    /\ bound' = bound \cup {a}
    /\ UNCHANGED <<chosen, powered, withdrawn>>

Power(a) ==
    /\ a \in bound \ withdrawn
    /\ powered' = powered \cup {a}
    /\ UNCHANGED <<chosen, bound, withdrawn>>

Withdraw(a) ==
    /\ a \in chosen
    /\ withdrawn' = withdrawn \cup {a}
    /\ UNCHANGED <<chosen, bound, powered>>

Next == \E a \in Advices : Choose(a) \/ Bind(a) \/ Power(a) \/ Withdraw(a)

Spec == Init /\ [][Next]_promise
=============================================================================
