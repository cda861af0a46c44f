------------------------ MODULE MCCanonicalExecution ------------------------
(* Instances of CanonicalExecution for TLC: the captures each one enumerates. *)
EXTENDS CanonicalExecution

Captured(due, guards, soc, ev, control) ==
    [due: due, guards: guards, soc: soc, ev: ev, control: control]

\* Every way a primitive is replaced, with and without the corrected meter: the EV
\* safe stop, the reserve stop, the full-charge replacement and the guard alone.
Segments ==
    {<<"DISCHARGE_AT_POWER", "unknown">>, <<"DISCHARGE_AT_POWER", "reserve">>,
     <<"BALANCE_BIDIRECTIONAL", "middle">>, <<"CHARGE_AT_POWER", "full">>}

IsolationCaptures ==
    UNION {Captured({g[1]}, {"pass"}, {g[2]}, {"none", "charging"}, {FALSE}) : g \in Segments}
    \cup Captured({"BALANCE_BIDIRECTIONAL"}, {"pass"}, {"middle"}, {"charging"}, {TRUE})
    \cup Captured({"DISCHARGE_AT_POWER"}, {"pass"}, {"middle"}, {"zero"}, {FALSE})

\* Reports around the idle timer, and a refusal after the guard; before it, a suspended
\* execution refuses all captures but those without a storage state.
IdleCaptures ==
    Captured({"DISCHARGE_AT_POWER"}, {"pass"}, {"middle"}, {"idle"}, {FALSE})
    \cup Captured({"DISCHARGE_AT_POWER"}, {"refuse_late"}, {"middle"}, {"charging"}, {FALSE})

\* A segment for which the capability evidence of this instance has no mode.
UnmappedCaptures ==
    Captured({"CHARGE_AT_POWER"}, {"pass"}, {"middle"}, {"none"}, {FALSE})

AllCaptures == IsolationCaptures \cup IdleCaptures \cup UnmappedCaptures
=============================================================================
