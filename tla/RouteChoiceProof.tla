-------------------------- MODULE RouteChoiceProof --------------------------
(***************************************************************************)
(* Proofs about RouteChoice: its types, that request, answer and view       *)
(* belong together, and that it implements RouteConsent.                    *)
(*                                                                         *)
(* The planner loop writes what it decided on a snapshot, so a step is      *)
(* right only because the barrier keeps the others away meanwhile:          *)
(* SnapshotStands says what a planning still knows of the document.  The    *)
(* view is right because an offer supersedes the open one (OneLive) and     *)
(* because only a question that was shown can be answered (ShownIsLast).    *)
(***************************************************************************)
EXTENDS RouteChoice, TLAPS

-----------------------------------------------------------------------------
(* The inductive invariant: what TypeOK and ConsentIsOwned leave unsaid. *)

\* One offer of an assignment is open, pending or in force.
OneLive ==
    \A t, u \in Tokens :
        (status[t] \in Live /\ status[u] \in Live /\ offer[t].owner = offer[u].owner) => t = u

\* The request of a choice is of a pending offer for the plan in force.
RequestOwned ==
    request.kind = "choice" =>
        /\ status[request.token] = "pending"
        /\ offer[request.token].owner = request.owner
        /\ offer[request.token].plan = route[request.owner]

\* A pending offer has the request, or is over, or a recovery took its request.
PendingOwned ==
    \A t \in Tokens : status[t] = "pending" =>
        \/ request = [kind |-> "choice", owner |-> offer[t].owner, token |-> t]
        \/ Closed(offer[t].owner) \/ t \in dropped

\* What the user was asked about and is still open is what the view shows last.
ShownIsLast ==
    /\ \A t \in shown : status[t] # "unused" /\ (status[t] \in Live => t \in Last(offer[t].owner))
    /\ \A t \in Tokens : status[t] \in {"pending", "selected"} => t \in shown
    /\ \A c \in Callers : call[c] \in Answer => call[c].token \in shown
    /\ mail # None => mail.token \in shown

\* A consumed or a fetched text is still in the mailbox.
MailIsThere == call["mailbox"] # None => mail # None

\* The barrier: a planning sees its request, its locks and no assignment as over too early.
SnapshotStands ==
    /\ stage = "planning" =>
          /\ snap.request = request
          /\ \A a \in snap.open : (snap.route[a] # 0 /\ Chosen(a)) => a \in snap.locked
    /\ stage # "idle" => \A a \in Assignments \ snap.open : Closed(a)
    /\ stage = "bound" => snap.bound \in Assignments /\ route[snap.bound] # 0

\* A choice that was given back is no longer in force while its planning is asked for.
ReleasedIsGone == request.kind = "release" => ~Chosen(request.owner)

\* Only the windows of a choice in force are left.
LeftIsChosen == \A a \in Assignments : left[a] # "no" => Chosen(a)

Inv ==
    /\ TypeOK /\ OneLive /\ RequestOwned /\ PendingOwned /\ ShownIsLast /\ MailIsThere
    /\ SnapshotStands /\ ReleasedIsGone /\ LeftIsChosen
-----------------------------------------------------------------------------
(* Types. *)

LEMMA InCycle ==
    ASSUME TypeOK, stage # "idle"
    PROVE  snap \in Snapshot
  BY DEF TypeOK

\* A binding keeps the types, for whatever the route leaves the windows.
LEMMA BindType ==
    ASSUME TypeOK, NEW a, NEW why \in {"no", "need", "first", "joint", "price"}, Bind(a, why)
    PROVE  /\ route' \in [Assignments -> 0..MaxPlan] /\ plans' \in 0..MaxPlan
           /\ left' \in [Assignments -> {"no", "need", "first", "joint", "price"}]
           /\ stage' = "bound" /\ snap' \in Snapshot /\ snap' # None
           /\ a \in Assignments /\ snap \in Snapshot
<1>1. snap \in Snapshot /\ a \in Assignments
  <2>1. snap \in Snapshot
    BY InCycle DEF Bind
  <2> QED
    BY <2>1 DEF Bind, Snapshot
<1>2. snap' \in Snapshot
  <2>1. snap' = [snap EXCEPT !.bound = a]
    BY DEF Bind
  <2> QED
    BY <1>1, <2>1 DEF Snapshot
<1>3. plans + 1 \in 0..MaxPlan /\ plans' = plans + 1 /\ stage' = "bound"
  BY RouteChoiceAssumption DEF TypeOK, Bind
<1>4. snap' # None
  BY <1>2, RouteChoiceAssumption
<1> QED
  BY <1>1, <1>2, <1>3, <1>4 DEF TypeOK, Bind

LEMMA LeavingType ==
    ASSUME NEW a, NEW why
    PROVE  /\ Leaving(a, why) \subseteq {"no", why}
           /\ Locked(a) \subseteq {"no", "price"}
           /\ \A leaving \in Leaving(a, why) \cup Locked(a) : leaving # "no" => Chosen(a)
  BY DEF Leaving, Locked

\* The bindings of the planner loop, with what becomes of the request and of the choices.
Binds ==
    \E a \in Assignments :
        \/ BindFirst(a) \/ BindRepair(a) \/ BindReview(a)

LEMMA TypeInit == Init => TypeOK
  BY RouteChoiceAssumption DEF Init, TypeOK, Live, Final, Request, NoRequest

LEMMA TypeStep ==
    ASSUME TypeOK, SnapshotStands, MailIsThere, [Next]_vars
    PROVE  TypeOK'
<1>1. CASE Capture
  <2>1. snap' \in Snapshot
    BY <1>1 DEF Capture, TypeOK, Snapshot
  <2>2. snap' # None
    BY <2>1, RouteChoiceAssumption
  <2> QED
    BY <1>1, <2>1, <2>2 DEF Capture, TypeOK, document, clock, history
<1>2. CASE EndCycle
  BY <1>2 DEF EndCycle, TypeOK, document, clock, history
<1>3. CASE Retain
  <2>1. snap \in Snapshot /\ snap' = [snap EXCEPT !.request = NoRequest]
    BY <1>3, InCycle DEF Retain
  <2>2. snap' \in Snapshot /\ snap' # None
    BY <2>1, RouteChoiceAssumption DEF Snapshot, Request
  <2> QED
    BY <1>3, <2>2 DEF Retain, TypeOK, clock, history, Request
<1>4. CASE Binds
  <2> PICK a \in Assignments : BindFirst(a) \/ BindRepair(a) \/ BindReview(a)
    BY <1>4 DEF Binds
  <2>1. \E why \in {"no", "need", "first", "joint", "price"} : Bind(a, why)
    BY LeavingType DEF BindFirst, BindRepair, BindReview
  <2>2. request' \in Request /\ status' = status
    BY DEF BindFirst, BindRepair, BindReview, Recovered, Request, TypeOK
  <2> QED
    BY <2>1, <2>2, BindType DEF Bind, TypeOK, clock
<1>5. CASE BindChoice
  <2>1. Bind(snap.request.owner, "no") /\ request' = NoRequest
    BY <1>5 DEF BindChoice
  <2>2. status' \in [Tokens -> Live \cup Final \cup {"unused"}]
        /\ \A t \in Tokens : status'[t] = "unused" <=> status[t] = "unused"
    BY <1>5 DEF BindChoice, TypeOK, Live
  <2> QED
    BY <2>1, <2>2, BindType DEF Bind, TypeOK, clock, Request
<1>6. CASE BindRelease
  <2>1. \E why \in {"no", "need", "first", "joint", "price"} : Bind(snap.request.owner, why)
    BY <1>6, LeavingType DEF BindRelease
  <2>2. request' \in Request /\ status' = status
    BY <1>6 DEF BindRelease, Request
  <2> QED
    BY <2>1, <2>2, BindType DEF Bind, TypeOK, clock
<1>7. CASE \E a \in Assignments : BindJoint(a)
  <2> PICK a \in Assignments : BindJoint(a)
    BY <1>7
  <2>1. left' \in [Assignments -> {"no", "need", "first", "joint", "price"}]
    BY LeavingType DEF BindJoint, TypeOK
  <2>2. request' \in Request
    BY DEF BindJoint, Recovered, Request, TypeOK
  <2>3. plans + 1 \in 0..MaxPlan
    BY RouteChoiceAssumption DEF BindJoint, TypeOK
  <2> QED
    BY <2>1, <2>2, <2>3 DEF BindJoint, TypeOK, clock
<1>8. CASE \E t \in Tokens, alternative \in Alternatives : OfferRoute(t, alternative)
  <2> PICK t \in Tokens, alternative \in Alternatives : OfferRoute(t, alternative)
    BY <1>8
  <2>1. snap \in Snapshot /\ snap.bound \in Assignments /\ route[snap.bound] \in 1..MaxPlan
    BY DEF OfferRoute, TypeOK, SnapshotStands
  <2>2. [owner |-> snap.bound, plan |-> route[snap.bound], alternative |-> alternative] \in Offer
    BY <2>1, RouteChoiceAssumption DEF Offer
  <2>3. [owner |-> snap.bound, plan |-> route[snap.bound], alternative |-> alternative] # None
    BY <2>2, RouteChoiceAssumption
  <2>4. /\ offer' \in [Tokens -> Offer \cup {None}]
        /\ \A u \in Tokens : offer'[u] = None <=> (u # t /\ offer[u] = None)
    BY <2>2, <2>3 DEF OfferRoute, TypeOK
  <2>5. /\ status' \in [Tokens -> Live \cup Final \cup {"unused"}]
        /\ \A u \in Tokens : status'[u] = "unused" <=> (u # t /\ status[u] = "unused")
    BY DEF OfferRoute, TypeOK, Live, Final
  <2>6. expired' \subseteq Tokens
    BY DEF OfferRoute, TypeOK
  <2> QED
    BY <2>4, <2>5, <2>6 DEF OfferRoute, TypeOK, history
<1>9. CASE Settle
  <2>1. /\ status' \in [Tokens -> Live \cup Final \cup {"unused"}]
        /\ \A t \in Tokens : status'[t] = "unused" <=> status[t] = "unused"
    BY <1>9 DEF Settle, TypeOK, Final
  <2> QED
    BY <1>9, <2>1 DEF Settle, TypeOK, Request, clock, history
<1>10. CASE \E a \in Assignments : Complete(a) \/ EndDay(a)
  BY <1>10 DEF Complete, EndDay, Owned, TypeOK, clock, document, history
<1>11. CASE \E action \in {"pv", "automatic"}, t \in Tokens : AskOnWeb(action, t) \/ Tap(action, t)
  <2> PICK action \in {"pv", "automatic"}, t \in Tokens : AskOnWeb(action, t) \/ Tap(action, t)
    BY <1>11
  <2>1. [action |-> action, token |-> t, late |-> t \in expired] \in Answer
    BY DEF Answer
  <2>2. [action |-> action, token |-> t, state |-> "new"] \in Message
    BY DEF Message
  <2>3. CASE AskOnWeb(action, t)
    BY <2>1, <2>3 DEF AskOnWeb, TypeOK, document, clock, history
  <2>4. CASE Tap(action, t)
    BY <2>2, <2>4 DEF Tap, TypeOK, document, clock, history
  <2> QED
    BY <2>3, <2>4
<1>12. CASE \E a \in Assignments : ReleaseOnWeb(a)
  <2> PICK a \in Assignments : ReleaseOnWeb(a)
    BY <1>12
  <2>1. [action |-> "release", owner |-> a, late |-> a \in ended] \in GiveBack
    BY DEF GiveBack
  <2> QED
    BY <2>1 DEF ReleaseOnWeb, TypeOK, document, clock, history
<1>13. CASE PollMailbox
  <2>1. mail \in Message
    BY <1>13 DEF PollMailbox, TypeOK
  <2>2. /\ [action |-> mail.action, token |-> mail.token, late |-> mail.token \in expired] \in Answer
        /\ [mail EXCEPT !.state = "read"] \in Message
    BY <2>1 DEF Message, Answer
  <2> QED
    BY <1>13, <2>2 DEF PollMailbox, TypeOK, document, clock, history
<1>14. CASE \E c \in Callers : PersistAnswer(c)
  <2> PICK c \in Callers : PersistAnswer(c)
    BY <1>14
  <2>1. call' \in [Callers -> Answer \cup GiveBack \cup {Consumed, None}]
    BY DEF PersistAnswer, Returned, TypeOK
  <2>2. CASE UNCHANGED <<status, request>>
    BY <2>1, <2>2 DEF PersistAnswer, TypeOK, clock, history
  <2>3. CASE Answerable(call[c])
    <3>1. call[c].token \in Tokens /\ status[call[c].token] = "offered"
      BY <2>3 DEF PersistAnswer, Answerable, Answer
    <3>2. offer[call[c].token] \in Offer
      BY <3>1 DEF TypeOK
    <3>3. [kind |-> "choice", owner |-> offer[call[c].token].owner, token |-> call[c].token]
              \in Request
      BY <3>1, <3>2 DEF Request, ChoiceRequest, Offer
    <3>4. /\ request' \in Request
          /\ status' \in [Tokens -> Live \cup Final \cup {"unused"}]
          /\ \A t \in Tokens : status'[t] = "unused" <=> status[t] = "unused"
      BY <2>3, <3>1, <3>3 DEF PersistAnswer, TypeOK, Live, Final
    <3> QED
      BY <2>1, <3>4 DEF PersistAnswer, TypeOK, clock, history
  <2> QED
    BY <2>2, <2>3 DEF PersistAnswer
<1>15. CASE \E c \in Callers : PersistRelease(c)
  <2> PICK c \in Callers : PersistRelease(c)
    BY <1>15
  <2>1. call' \in [Callers -> Answer \cup GiveBack \cup {Consumed, None}]
    BY DEF PersistRelease, Returned, TypeOK
  <2>2. CASE UNCHANGED <<status, request, left>>
    BY <2>1, <2>2 DEF PersistRelease, TypeOK, clock
  <2>3. CASE ~UNCHANGED <<status, request, left>>
    <3>1. call[c].owner \in Assignments
      BY DEF PersistRelease, GiveBack
    <3>2. PICK t \in Tokens : status[t] = "selected"
                              /\ status' = [status EXCEPT ![t] = "released"]
      BY <2>3 DEF PersistRelease, Owned
    <3>3. /\ status' \in [Tokens -> Live \cup Final \cup {"unused"}]
          /\ \A u \in Tokens : status'[u] = "unused" <=> status[u] = "unused"
      BY <3>2 DEF TypeOK, Live, Final
    <3>4. /\ request' = [kind |-> "release", owner |-> call[c].owner]
          /\ left' = [left EXCEPT ![call[c].owner] = "no"]
      BY <2>3 DEF PersistRelease
    <3>5. request' \in Request
      BY <3>1, <3>4 DEF Request, ReleaseRequest
    <3> QED
      BY <2>1, <3>3, <3>4, <3>5 DEF PersistRelease, TypeOK, clock
  <2> QED
    BY <2>2, <2>3
<1>16. CASE (\E c \in Callers : PersistFails(c)) \/ SaveResponse
  <2>1. mail' = mail \/ mail \in Message
    BY <1>16, RouteChoiceAssumption
       DEF PersistFails, SaveResponse, TypeOK, MailIsThere, Callers, Answer, GiveBack
  <2>2. mail' = mail \/ \E state \in {"new", "taken", "unsaved"} : mail' = [mail EXCEPT !.state = state]
    BY <1>16 DEF PersistFails, SaveResponse
  <2>3. mail' \in Message \cup {None}
    BY <2>1, <2>2 DEF Message, TypeOK
  <2>4. call' \in [Callers -> Answer \cup GiveBack \cup {Consumed, None}]
    BY <1>16 DEF PersistFails, SaveResponse, TypeOK
  <2> QED
    BY <1>16, <2>3, <2>4 DEF PersistFails, SaveResponse, TypeOK, document, clock, history
<1>17. CASE Recover
  <2>1. request.kind = "choice" => request.token \in Tokens
    BY DEF TypeOK, Request, NoRequest, Recovery, ChoiceRequest, ReleaseRequest
  <2>2. dropped' \subseteq Tokens /\ recoveries' \in 0..MaxRecoveries
    <3>1. dropped' \subseteq Tokens
      BY <1>17, <2>1 DEF Recover, TypeOK
    <3>2. recoveries' = recoveries + 1 /\ recoveries < MaxRecoveries
      BY <1>17 DEF Recover
    <3>3. recoveries \in 0..MaxRecoveries
      BY DEF TypeOK
    <3> QED
      BY <3>1, <3>2, <3>3, RouteChoiceAssumption
  <2>3. /\ route' \in [Assignments -> 0..MaxPlan]
        /\ left' \in [Assignments -> {"no", "need", "first", "joint", "price"}]
        /\ request' \in Request
    BY <1>17, RouteChoiceAssumption DEF Recover, TypeOK, Request
  <2> QED
    BY <1>17, <2>2, <2>3 DEF Recover, TypeOK, clock
<1>18. CASE (\E t \in Tokens : Expire(t)) \/ Restart
  <2>1. CASE \E t \in Tokens : Expire(t)
    BY <2>1 DEF Expire, TypeOK, document, history
  <2>2. CASE Restart
    <3>1. mail' \in Message \cup {None}
      <4>1. CASE mail' = mail
        BY <4>1 DEF TypeOK
      <4>2. CASE mail \in Message /\ mail' = [mail EXCEPT !.state = "new"]
        BY <4>2 DEF Message
      <4> QED
        BY <2>2, <4>1, <4>2 DEF Restart, TypeOK
    <3>2. call' \in [Callers -> Answer \cup GiveBack \cup {Consumed, None}]
      BY <2>2 DEF Restart
    <3> QED
      BY <2>2, <3>1, <3>2 DEF Restart, TypeOK, document, clock, history
  <2> QED
    BY <1>18, <2>1, <2>2
<1>19. CASE UNCHANGED vars
  BY <1>19 DEF vars, document, clock, history, TypeOK
<1> QED
  BY <1>1, <1>2, <1>3, <1>4, <1>5, <1>6, <1>7, <1>8, <1>9, <1>10, <1>11, <1>12, <1>13,
     <1>14, <1>15, <1>16, <1>17, <1>18, <1>19 DEF Next, Cycle, Answers, World, Binds

-----------------------------------------------------------------------------
(* What a step makes of the document. *)

\* Most steps leave the choices, the routes and the request alone.
Quiet == UNCHANGED <<status, offer, route, request, left, dropped>>

Plans ==
    \/ Binds \/ BindChoice \/ BindRelease
    \/ \E a \in Assignments : BindJoint(a)

Decides ==
    \/ Retain \/ Settle \/ Recover
    \/ \E c \in Callers : PersistAnswer(c) \/ PersistRelease(c)

Offers == \E t \in Tokens, alternative \in Alternatives : OfferRoute(t, alternative)

LEMMA StepKinds == [Next]_vars => Quiet \/ Plans \/ Decides \/ Offers
  BY DEF Next, Cycle, Answers, World, Quiet, Plans, Decides, Offers, Binds,
         Capture, EndCycle, Complete, AskOnWeb, ReleaseOnWeb, Tap, PollMailbox, PersistFails,
         SaveResponse, Expire, EndDay, Restart, vars, document, clock, history

LEMMA ClosedStays ==
    ASSUME [Next]_vars, NEW a, Closed(a)
    PROVE  Closed(a)'
  BY DEF Closed, Next, Cycle, Answers, World, Capture, EndCycle, Retain, BindFirst, BindRepair,
         BindReview, BindChoice, BindRelease, BindJoint, Bind, OfferRoute, Settle, Complete,
         AskOnWeb, ReleaseOnWeb, Tap, PollMailbox, PersistAnswer, PersistRelease, PersistFails,
         SaveResponse, Recover, Expire, EndDay, Restart, vars, document, clock, history

\* One offer takes its next status.
Moves(t, from, to) ==
    /\ status[t] = from /\ status' = [status EXCEPT ![t] = to] /\ UNCHANGED offer

NextStatus == {<<"offered", "declined">>, <<"offered", "pending">>, <<"pending", "selected">>,
               <<"pending", "rejected">>, <<"selected", "released">>}

LEMMA StatusStep ==
    ASSUME TypeOK, [Next]_vars
    PROVE  \/ UNCHANGED <<status, offer>> \/ Offers
           \/ \E t \in Tokens, step \in NextStatus : Moves(t, step[1], step[2])
<1>1. CASE Quiet
  BY <1>1 DEF Quiet
<1>2. CASE Plans
  <2>1. CASE BindChoice
    <3>1. snap.request.token \in Tokens
      BY <2>1, InCycle DEF BindChoice, Bind, Snapshot
    <3>2. Moves(snap.request.token, "pending", "selected")
      BY <2>1 DEF BindChoice, Bind, Moves
    <3> QED
      BY <3>1, <3>2 DEF NextStatus
  <2> QED
    BY <1>2, <2>1 DEF Plans, Binds, BindFirst, BindRepair, BindReview, BindRelease, BindJoint, Bind
<1>3. CASE Settle
  <2>1. CASE status' # status
    <3>1. request.kind = "choice" /\ Moves(request.token, "pending", "rejected")
      BY <1>3, <2>1 DEF Settle, Moves
    <3>2. request.token \in Tokens
      BY <3>1 DEF TypeOK, Request, NoRequest, Recovery, ChoiceRequest, ReleaseRequest
    <3> QED
      BY <3>1, <3>2 DEF NextStatus
  <2> QED
    BY <1>3, <2>1 DEF Settle
<1>4. CASE \E c \in Callers : PersistAnswer(c)
  <2> PICK c \in Callers : PersistAnswer(c)
    BY <1>4
  <2>1. CASE Answerable(call[c])
    <3>1. call[c].token \in Tokens
      BY DEF PersistAnswer, Answer
    <3>2. \/ Moves(call[c].token, "offered", "declined")
          \/ Moves(call[c].token, "offered", "pending")
      BY <2>1 DEF PersistAnswer, Answerable, Moves
    <3> QED
      BY <3>1, <3>2 DEF NextStatus
  <2> QED
    BY <2>1 DEF PersistAnswer
<1>5. CASE \E c \in Callers : PersistRelease(c)
  <2> PICK c \in Callers : PersistRelease(c)
    BY <1>5
  <2>1. CASE status' # status
    <3>1. PICK t \in Tokens : Moves(t, "selected", "released")
      BY <2>1 DEF PersistRelease, Owned, Moves
    <3> QED
      BY <3>1 DEF NextStatus
  <2> QED
    BY <2>1 DEF PersistRelease
<1> QED
  BY <1>1, <1>2, <1>3, <1>4, <1>5, StepKinds DEF Decides, Retain, Recover

LEMMA OneLiveStep ==
    ASSUME Inv, [Next]_vars
    PROVE  OneLive'
<1>1. CASE UNCHANGED <<status, offer>>
  BY <1>1 DEF Inv, OneLive
<1>2. CASE \E t \in Tokens, step \in NextStatus : Moves(t, step[1], step[2])
  <2>1. \A u \in Tokens : status'[u] \in Live => status[u] \in Live
    BY <1>2 DEF Inv, TypeOK, Moves, NextStatus, Live
  <2> QED
    BY <1>2, <2>1 DEF Inv, OneLive, Moves
<1>3. CASE Offers
  <2> PICK t \in Tokens, alternative \in Alternatives : OfferRoute(t, alternative)
    BY <1>3 DEF Offers
  <2>1. offer'[t].owner = snap.bound
    BY DEF OfferRoute, Inv, TypeOK
  <2>2. \A u \in Tokens \ {t} : offer'[u] = offer[u]
    BY DEF OfferRoute, Inv, TypeOK
  <2>3. \A u \in Tokens \ {t} : status'[u] \in Live => status[u] \in Live /\ offer[u].owner # snap.bound
    BY DEF OfferRoute, Inv, TypeOK, Owned, Live
  <2> QED
    BY <2>1, <2>2, <2>3 DEF Inv, OneLive
<1> QED
  BY <1>1, <1>2, <1>3, StatusStep DEF Inv

-----------------------------------------------------------------------------
(* The request and the answer it was made for. *)

LEMMA ChoiceRequestType ==
    ASSUME TypeOK, request.kind = "choice"
    PROVE  /\ request.token \in Tokens /\ request.owner \in Assignments
           /\ request = [kind |-> "choice", owner |-> request.owner, token |-> request.token]
  BY DEF TypeOK, Request, NoRequest, Recovery, ChoiceRequest, ReleaseRequest

\* A binding of the loop or of a joint advice finds no request of a choice.
LEMMA BoundUnasked ==
    ASSUME Inv, Binds \/ BindRelease \/ \E a \in Assignments : BindJoint(a)
    PROVE  /\ UNCHANGED <<status, offer, dropped>>
           /\ request.kind # "choice" /\ request'.kind # "choice"
<1>1. CASE Binds
  BY <1>1 DEF Binds, BindFirst, BindRepair, BindReview, Bind, Manual, Inv, SnapshotStands,
              Recovered, NoRequest
<1>2. CASE BindRelease
  BY <1>2 DEF BindRelease, Bind, NoRequest
<1>3. CASE \E a \in Assignments : BindJoint(a)
  BY <1>3 DEF BindJoint, Manual, Recovered, NoRequest
<1> QED
  BY <1>1, <1>2, <1>3

LEMMA RequestOwnedStep ==
    ASSUME Inv, [Next]_vars
    PROVE  RequestOwned'
<1>1. CASE Quiet
  BY <1>1 DEF Quiet, Inv, RequestOwned
<1>2. CASE Plans
  <2>1. CASE BindChoice
    BY <2>1 DEF BindChoice, RequestOwned, NoRequest
  <2> QED
    BY <1>2, <2>1, BoundUnasked DEF Plans, RequestOwned
<1>3. CASE Retain \/ Settle \/ Recover
  BY <1>3 DEF Retain, Settle, Recover, RequestOwned, NoRequest, Recovery
<1>4. CASE \E c \in Callers : PersistAnswer(c)
  <2> PICK c \in Callers : PersistAnswer(c)
    BY <1>4
  <2> DEFINE t == call[c].token
  <2>1. CASE UNCHANGED <<status, request>>
    BY <2>1 DEF PersistAnswer, Inv, RequestOwned
  <2>2. CASE Answerable(call[c]) /\ call[c].action = "automatic"
    <3>1. t \in Tokens /\ status[t] = "offered" /\ status' = [status EXCEPT ![t] = "declined"]
      BY <2>2 DEF PersistAnswer, Answer, Answerable
    <3> QED
      BY <2>2, <3>1, ChoiceRequestType DEF PersistAnswer, Inv, RequestOwned, TypeOK
  <2>3. CASE Answerable(call[c]) /\ call[c].action # "automatic"
    <3>1. t \in Tokens /\ status[t] = "offered" /\ status' = [status EXCEPT ![t] = "pending"]
      BY <2>3 DEF PersistAnswer, Answer, Answerable
    <3>2. request' = [kind |-> "choice", owner |-> offer[t].owner, token |-> t]
      BY <2>3 DEF PersistAnswer
    <3>3. offer[t].plan = route[offer[t].owner]
      BY <2>3 DEF Answerable
    <3>4. UNCHANGED <<offer, route>>
      BY DEF PersistAnswer
    <3>5. status'[t] = "pending"
      BY <3>1 DEF Inv, TypeOK
    <3> QED
      BY <3>2, <3>3, <3>4, <3>5 DEF RequestOwned
  <2> QED
    BY <2>1, <2>2, <2>3 DEF PersistAnswer
<1>5. CASE \E c \in Callers : PersistRelease(c)
  <2> PICK c \in Callers : PersistRelease(c)
    BY <1>5
  <2>1. CASE UNCHANGED <<status, request>>
    BY <2>1 DEF PersistRelease, Inv, RequestOwned
  <2>2. CASE request'.kind = "release"
    BY <2>2 DEF RequestOwned
  <2> QED
    BY <2>1, <2>2 DEF PersistRelease
<1>6. CASE Offers
  <2> PICK t \in Tokens, alternative \in Alternatives : OfferRoute(t, alternative)
    BY <1>6 DEF Offers
  <2> SUFFICES ASSUME request.kind = "choice"
               PROVE  /\ status'[request.token] = "pending"
                      /\ offer'[request.token].owner = request.owner
                      /\ offer'[request.token].plan = route[request.owner]
    BY DEF OfferRoute, RequestOwned
  <2>1. request.token \in Tokens /\ status[request.token] = "pending"
    BY ChoiceRequestType DEF Inv, RequestOwned
  <2>2. status'[request.token] = "pending" /\ offer'[request.token] = offer[request.token]
    BY <2>1 DEF OfferRoute, Inv, TypeOK
  <2> QED
    BY <2>2 DEF Inv, RequestOwned
<1> QED
  BY <1>1, <1>2, <1>3, <1>4, <1>5, <1>6, StepKinds DEF Decides

LEMMA PendingOwnedStep ==
    ASSUME Inv, [Next]_vars
    PROVE  PendingOwned'
<1> SUFFICES ASSUME NEW t \in Tokens, status'[t] = "pending",
                    offer'[t].owner \notin completed' \cup ended', t \notin dropped'
             PROVE  request' = [kind |-> "choice", owner |-> offer'[t].owner, token |-> t]
  BY DEF PendingOwned, Closed
<1>1. CASE status[t] # "pending"
  \* The offer becomes pending with its request.
  <2>1. PICK c \in Callers : PersistAnswer(c) /\ Answerable(call[c]) /\ call[c].token = t
    <3>1. \A u \in Tokens, step \in NextStatus :
              Moves(u, step[1], step[2]) => u = t /\ step = <<"offered", "pending">>
      BY <1>1 DEF Moves, NextStatus, Inv, TypeOK
    <3>2. ~Offers
      BY <1>1 DEF Offers, OfferRoute, Inv, TypeOK
    <3>3. ~Quiet /\ ~Plans /\ ~Retain /\ ~Recover
      BY <1>1, BoundUnasked DEF Quiet, Plans, BindChoice, Inv, TypeOK, Retain, Recover
    <3>4. ~Settle /\ \A c \in Callers : ~PersistRelease(c)
      BY <1>1 DEF Settle, PersistRelease, Inv, TypeOK
    <3>5. PICK c \in Callers : PersistAnswer(c)
      BY <3>2, <3>3, <3>4, StepKinds DEF Decides
    <3>6. Answerable(call[c])
      BY <1>1, <3>5 DEF PersistAnswer
    <3>7. call[c].token = t
      BY <1>1, <3>5, <3>6 DEF PersistAnswer, Inv, TypeOK
    <3> QED
      BY <3>5, <3>6, <3>7
  <2>2. call[c].action # "automatic"
    BY <1>1, <2>1 DEF PersistAnswer, Inv, TypeOK
  <2> QED
    BY <2>1, <2>2 DEF PersistAnswer
<1>2. CASE status[t] = "pending"
  <2>1. offer'[t] = offer[t]
    <3>1. CASE Offers
      BY <1>2, <3>1 DEF Offers, OfferRoute, Inv, TypeOK
    <3> QED
      BY <3>1, StatusStep DEF Moves, Inv
  <2>2. ~Closed(offer[t].owner)
    BY <2>1, ClosedStays DEF Closed
  <2>3. t \notin dropped
    BY StepKinds DEF Quiet, Plans, Binds, BindFirst, BindRepair, BindReview, BindChoice, BindRelease,
                     BindJoint, Bind, Decides, Retain, Settle, Recover, PersistAnswer,
                     PersistRelease, Offers, OfferRoute, history
  <2>4. request = [kind |-> "choice", owner |-> offer[t].owner, token |-> t]
    BY <1>2, <2>2, <2>3 DEF Inv, PendingOwned
  <2>5. request.kind = "choice" /\ request.token = t
    BY <2>4
  <2>6. request' = request
    <3>1. CASE Plans
      <4>1. BindChoice
        BY <2>4, <3>1, BoundUnasked DEF Plans
      <4>2. status' = [status EXCEPT ![t] = "selected"]
        BY <2>5, <4>1 DEF BindChoice
      <4> QED
        BY <4>2 DEF Inv, TypeOK
    <3>2. CASE Retain
      <4>1. snap.request = request /\ snap.request.owner \notin snap.open
        BY <3>2 DEF Retain, Inv, SnapshotStands
      <4>2. offer[t].owner \in Assignments
        BY <2>4, ChoiceRequestType DEF Inv
      <4> QED
        BY <2>2, <2>4, <4>1, <4>2, <3>2 DEF Retain, Inv, SnapshotStands, TypeOK
    <3>3. CASE Settle
      <4>1. status' = [status EXCEPT ![t] = "rejected"]
        BY <1>2, <2>5, <3>3 DEF Settle
      <4> QED
        BY <4>1 DEF Inv, TypeOK
    <3>4. CASE Recover
      BY <2>4, <3>4 DEF Recover
    <3>5. CASE \E c \in Callers : PersistAnswer(c) \/ PersistRelease(c)
      BY <2>4, <3>5 DEF PersistAnswer, PersistRelease, Answerable, NoRequest, Answer
    <3>6. CASE Quiet \/ Offers
      BY <3>6 DEF Quiet, Offers, OfferRoute
    <3> QED
      BY <3>1, <3>2, <3>3, <3>4, <3>5, <3>6, StepKinds DEF Decides
  <2> QED
    BY <2>1, <2>4, <2>6
<1> QED
  BY <1>1, <1>2

-----------------------------------------------------------------------------
(* What the user was asked about, and the answers on their way. *)

LEMMA MailStep ==
    ASSUME Inv, [Next]_vars
    PROVE  /\ MailIsThere'
           /\ mail' # None => \/ mail # None /\ mail'.token = mail.token
                              \/ \E action \in PhoneActions, t \in shown : mail'.token = t
<1>1. mail # None => mail \in Message
  BY DEF Inv, TypeOK
<1>2. CASE PollMailbox \/ SaveResponse \/ (\E c \in Callers : PersistFails(c)) \/ Restart
  <2>1. mail # None \/ mail' = None
    BY <1>2, RouteChoiceAssumption
       DEF PollMailbox, SaveResponse, PersistFails, Restart, Inv, MailIsThere, Callers, Answer,
           GiveBack
  <2>2. mail' = mail \/ \E state \in {"new", "read", "taken", "unsaved"} :
                            mail' = [mail EXCEPT !.state = state]
    BY <1>2 DEF PollMailbox, SaveResponse, PersistFails, Restart
  <2>3. mail # None => mail' \in Message /\ mail'.token = mail.token
    BY <1>1, <2>2 DEF Message
  <2>4. mail # None => mail' # None
    BY <2>3, RouteChoiceAssumption
  <2>5. call'["mailbox"] # None => mail # None
    BY <1>2 DEF PollMailbox, SaveResponse, PersistFails, Restart, Inv, MailIsThere, Callers, TypeOK
  <2> QED
    BY <2>1, <2>3, <2>4, <2>5 DEF MailIsThere
<1>3. CASE \E action \in {"pv", "automatic"}, t \in Tokens : Tap(action, t)
  <2> PICK action \in {"pv", "automatic"}, t \in Tokens : Tap(action, t)
    BY <1>3
  <2>1. mail' = [action |-> action, token |-> t, state |-> "new"]
    BY DEF Tap
  <2>2. mail' \in Message
    BY <2>1 DEF Message
  <2> QED
    BY <2>1, <2>2, RouteChoiceAssumption DEF Tap, MailIsThere
<1>4. CASE UNCHANGED <<mail, call>>
  BY <1>4 DEF Inv, MailIsThere
<1>5. CASE \E c \in Callers : PersistAnswer(c) \/ PersistRelease(c)
  BY <1>5, RouteChoiceAssumption
     DEF PersistAnswer, PersistRelease, Returned, Inv, MailIsThere, Callers, TypeOK, Answer, GiveBack
<1>6. CASE (\E a \in Assignments : ReleaseOnWeb(a))
           \/ \E action \in {"pv", "automatic"}, t \in Tokens : AskOnWeb(action, t)
  BY <1>6 DEF ReleaseOnWeb, AskOnWeb, Inv, MailIsThere, Callers, TypeOK
<1> QED
  BY <1>2, <1>3, <1>4, <1>5, <1>6
     DEF Next, Cycle, Answers, World, Capture, EndCycle, Retain, BindFirst, BindRepair, BindReview,
         BindChoice, BindRelease, BindJoint, Bind, OfferRoute, Settle, Complete, Recover, Expire,
         EndDay, vars, document, clock, history

LEMMA CallStep ==
    ASSUME Inv, [Next]_vars, NEW c \in Callers, call'[c] \in Answer
    PROVE  call'[c] = call[c] \/ call'[c].token \in shown
<1>1. Consumed \notin Answer /\ None \notin Answer
  BY RouteChoiceAssumption DEF Consumed, Answer
<1>2. CASE \E action \in {"pv", "automatic"}, t \in Tokens : AskOnWeb(action, t)
  BY <1>2 DEF AskOnWeb, Inv, TypeOK, Callers
<1>3. CASE \E a \in Assignments : ReleaseOnWeb(a)
  <2> PICK a \in Assignments : ReleaseOnWeb(a)
    BY <1>3
  <2>1. [action |-> "release", owner |-> a, late |-> a \in ended] \notin Answer
    BY DEF Answer
  <2> QED
    BY <2>1 DEF ReleaseOnWeb, Inv, TypeOK, Callers
<1>4. CASE PollMailbox
  BY <1>4 DEF PollMailbox, Inv, TypeOK, Callers, ShownIsLast
<1>5. CASE \E d \in Callers : PersistAnswer(d) \/ PersistRelease(d)
  BY <1>1, <1>5 DEF PersistAnswer, PersistRelease, Returned, Inv, TypeOK
<1>6. CASE (\E d \in Callers : PersistFails(d)) \/ SaveResponse \/ Restart
  BY <1>1, <1>6 DEF PersistFails, SaveResponse, Restart, Inv, TypeOK
<1>7. CASE UNCHANGED call
  BY <1>7
<1> QED
  BY <1>2, <1>3, <1>4, <1>5, <1>6, <1>7
     DEF Next, Cycle, Answers, World, Capture, EndCycle, Retain, BindFirst, BindRepair, BindReview,
         BindChoice, BindRelease, BindJoint, Bind, OfferRoute, Settle, Complete, Recover, Expire,
         EndDay, Tap, vars, document, clock, history

LEMMA ShownStep ==
    ASSUME [Next]_vars
    PROVE  \/ UNCHANGED shown
           \/ /\ Quiet
              /\ shown' = shown \cup {t \in Tokens : status[t] = "offered" /\ Visible(t, "offered")}
  BY DEF Next, Cycle, Answers, World, Capture, EndCycle, Retain, BindFirst, BindRepair, BindReview,
         BindChoice, BindRelease, BindJoint, Bind, OfferRoute, Settle, Complete, AskOnWeb,
         ReleaseOnWeb, Tap, PollMailbox, PersistAnswer, PersistRelease, PersistFails, SaveResponse,
         Recover, Expire, EndDay, Restart, vars, document, clock, history, Quiet

LEMMA ShownIsLastStep ==
    ASSUME Inv, [Next]_vars
    PROVE  ShownIsLast'
<1>1. shown \subseteq shown'
  BY ShownStep
<1>2. \A t \in shown' : /\ status'[t] # "unused"
                        /\ status'[t] \in Live => t \in Last(offer[t].owner)'
  <2>1. CASE ~UNCHANGED shown
    BY <2>1, ShownStep DEF Quiet, Visible, Last, Owned, Inv, TypeOK, ShownIsLast
  <2>2. CASE UNCHANGED <<shown, status, offer>>
    BY <2>2 DEF Last, Owned, Inv, ShownIsLast
  <2>3. CASE UNCHANGED shown /\ \E t \in Tokens, step \in NextStatus : Moves(t, step[1], step[2])
    <3>1. UNCHANGED offer
      BY <2>3 DEF Moves
    <3>2. \A u \in Tokens : /\ status'[u] \in Live => status[u] \in Live
                            /\ status[u] # "unused" => status'[u] # "unused"
      BY <2>3 DEF Inv, TypeOK, Moves, NextStatus, Live
    <3> QED
      BY <2>3, <3>1, <3>2 DEF Last, Owned, Inv, TypeOK, ShownIsLast
  <2>4. CASE UNCHANGED shown /\ Offers
    <3> PICK t \in Tokens, alternative \in Alternatives : OfferRoute(t, alternative)
      BY <2>4 DEF Offers
    <3>1. t \notin shown
      BY DEF OfferRoute, Inv, ShownIsLast
    <3>2. \A u \in Tokens \ {t} : offer'[u] = offer[u]
      BY DEF OfferRoute, Inv, TypeOK
    <3>3. offer'[t].owner = snap.bound
      BY DEF OfferRoute, Inv, TypeOK
    <3>4. \A u \in Tokens \ {t} :
              /\ status'[u] \in Live => status[u] \in Live /\ offer[u].owner # snap.bound
              /\ status[u] # "unused" => status'[u] # "unused"
      BY DEF OfferRoute, Inv, TypeOK, Owned, Live
    <3>5. \A b : b # snap.bound => Owned(b)' = Owned(b)
      BY <3>2, <3>3 DEF Owned, OfferRoute, Inv, TypeOK
    <3>6. \A b : b # snap.bound => Last(b)' = Last(b)
      BY <3>5 DEF Last
    <3> SUFFICES ASSUME NEW u \in shown
                 PROVE  /\ status'[u] # "unused"
                        /\ status'[u] \in Live => u \in Last(offer[u].owner)'
      BY <2>4
    <3>7. u \in Tokens \ {t}
      BY <3>1 DEF Inv, TypeOK
    <3> QED
      BY <3>2, <3>4, <3>6, <3>7 DEF Inv, ShownIsLast
  <2> QED
    BY <2>1, <2>2, <2>3, <2>4, StatusStep DEF Inv
<1>3. \A t \in Tokens : status'[t] \in {"pending", "selected"} => t \in shown'
  <2>1. CASE Offers
    BY <1>1, <2>1 DEF Offers, OfferRoute, Inv, TypeOK, ShownIsLast
  <2>2. CASE \E c \in Callers : PersistAnswer(c)
    BY <1>1, <2>2 DEF PersistAnswer, Inv, TypeOK, ShownIsLast
  <2>3. CASE \A t \in Tokens : status'[t] \in {"pending", "selected"} =>
                                   status[t] \in {"pending", "selected"}
    BY <1>1, <2>3 DEF Inv, ShownIsLast
  <2>4. CASE Plans \/ Settle \/ \E c \in Callers : PersistRelease(c)
    BY <2>3, <2>4, BoundUnasked DEF Plans, BindChoice, Settle, PersistRelease, Inv, TypeOK
  <2> QED
    BY <2>1, <2>2, <2>3, <2>4, StepKinds DEF Decides, Quiet, Retain, Recover
<1>4. \A c \in Callers : call'[c] \in Answer => call'[c].token \in shown'
  BY <1>1, CallStep DEF Inv, ShownIsLast
<1>5. mail' # None => mail'.token \in shown'
  BY <1>1, MailStep DEF Inv, ShownIsLast
<1> QED
  BY <1>2, <1>3, <1>4, <1>5 DEF ShownIsLast

-----------------------------------------------------------------------------
(* What the barrier keeps still, and what a choice in force locks. *)

\* Only the acceptance of a choice puts one in force.
LEMMA ChosenStep ==
    ASSUME Inv, [Next]_vars, NEW a \in Assignments, Chosen(a)'
    PROVE  Chosen(a) \/ (BindChoice /\ snap.request.owner = a)
<1> PICK t \in Tokens : offer'[t] # None /\ offer'[t].owner = a /\ status'[t] = "selected"
  BY DEF Chosen, Owned
<1>1. CASE status[t] = "selected" /\ offer'[t] = offer[t]
  BY <1>1 DEF Chosen, Owned
<1>2. CASE Offers
  BY <1>1, <1>2 DEF Offers, OfferRoute, Inv, TypeOK
<1>3. CASE UNCHANGED <<status, offer>>
  BY <1>1, <1>3
<1>4. CASE status[t] # "selected" /\ UNCHANGED offer
  <2>1. CASE Plans
    <3>1. BindChoice
      BY <1>4, <2>1, BoundUnasked DEF Plans
    <3>2. t = snap.request.token
      BY <1>4, <3>1 DEF BindChoice, Inv, TypeOK
    <3> QED
      BY <1>4, <3>1, <3>2 DEF BindChoice
  <2>2. ~Decides /\ ~Quiet
    BY <1>4 DEF Decides, Quiet, Retain, Settle, Recover, PersistAnswer, PersistRelease, Inv, TypeOK
  <2> QED
    BY <1>2, <2>1, <2>2, StepKinds
<1> QED
  BY <1>1, <1>2, <1>3, <1>4, StatusStep DEF Moves, Inv

LEMMA SnapshotStep ==
    ASSUME Inv, [Next]_vars
    PROVE  SnapshotStands'
<1>1. CASE Capture
  <2>1. /\ snap'.request = request /\ UNCHANGED <<request, status, offer, completed, ended>>
        /\ snap'.open = {a \in Assignments : ~Closed(a)} /\ snap'.route = route
        /\ snap'.locked = {a \in {b \in snap'.open : route[b] # 0} : Chosen(a)}
        /\ stage' = "planning"
    BY <1>1 DEF Capture, document, clock
  <2> QED
    BY <2>1 DEF SnapshotStands, Closed, Chosen, Owned
<1>2. CASE stage' = "idle"
  BY <1>2 DEF SnapshotStands
<1>3. CASE Binds \/ BindChoice \/ BindRelease
  <2>1. PICK a, why : Bind(a, why)
    BY <1>3 DEF Binds, BindFirst, BindRepair, BindReview, BindChoice, BindRelease
  <2>2. a \in Assignments /\ snap \in Snapshot
    BY <2>1, InCycle DEF Bind, Inv, Snapshot
  <2>3. snap' = [snap EXCEPT !.bound = a] /\ stage' = "bound" /\ stage = "planning"
    BY <2>1 DEF Bind
  <2>4. snap'.bound = a /\ snap'.open = snap.open
    BY <2>2, <2>3 DEF Snapshot
  <2>5. route'[a] # 0
    BY <2>1, <2>2, RouteChoiceAssumption DEF Bind, Inv, TypeOK
  <2>6. UNCHANGED <<completed, ended>>
    BY <2>1 DEF Bind, clock
  <2> QED
    BY <2>2, <2>3, <2>4, <2>5, <2>6 DEF Inv, SnapshotStands, Closed
<1>4. CASE Retain
  <2>1. snap \in Snapshot /\ snap' = [snap EXCEPT !.request = NoRequest]
    BY <1>4, InCycle DEF Retain, Inv
  <2>2. /\ snap'.open = snap.open /\ snap'.request = NoRequest /\ snap'.route = snap.route
        /\ snap'.locked = snap.locked
    BY <2>1 DEF Snapshot
  <2> QED
    BY <1>4, <2>2 DEF Retain, Inv, SnapshotStands, Closed, Chosen, Owned, clock
<1>5. CASE UNCHANGED <<stage, snap, status, offer, route, request>>
  <2>1. \A a \in Assignments : Closed(a) => Closed(a)'
    BY ClosedStays
  <2> QED
    BY <1>5, <2>1 DEF Inv, SnapshotStands, Chosen, Owned
<1>6. CASE stage = "idle" /\ UNCHANGED stage
  BY <1>6 DEF SnapshotStands
<1>7. CASE Offers
  BY <1>2, <1>7 DEF Offers, OfferRoute
<1> QED
  BY <1>1, <1>2, <1>3, <1>4, <1>5, <1>6, <1>7
     DEF Next, Cycle, Answers, World, EndCycle, BindJoint, Settle, Complete, AskOnWeb, Binds, Offers,
         ReleaseOnWeb, Tap, PollMailbox, PersistAnswer, PersistRelease, PersistFails, SaveResponse,
         Recover, Expire, EndDay, Restart, vars, document, clock, history

LEMMA ReleasedIsGoneStep ==
    ASSUME Inv, [Next]_vars
    PROVE  ReleasedIsGone'
<1>1. request'.kind = "release" => request'.owner \in Assignments
  BY TypeStep DEF Inv, TypeOK, Request, NoRequest, Recovery, ChoiceRequest, ReleaseRequest
<1> SUFFICES ASSUME NEW a \in Assignments, request'.kind = "release", request'.owner = a, Chosen(a)'
             PROVE  FALSE
  BY <1>1 DEF ReleasedIsGone
<1>2. ~BindChoice
  BY DEF BindChoice, NoRequest
<1>3. Chosen(a)
  BY <1>2, ChosenStep
<1>4. CASE request' = request
  BY <1>3, <1>4 DEF Inv, ReleasedIsGone
<1>5. CASE \E c \in Callers : PersistRelease(c) /\ request' # request
  <2> PICK c \in Callers : PersistRelease(c) /\ request' # request
    BY <1>5
  <2>1. PICK t \in Owned(call[c].owner) :
            /\ status[t] = "selected" /\ status' = [status EXCEPT ![t] = "released"]
            /\ request' = [kind |-> "release", owner |-> call[c].owner] /\ UNCHANGED offer
    BY DEF PersistRelease
  <2>2. PICK u \in Tokens : offer'[u].owner = a /\ status'[u] = "selected"
    BY DEF Chosen, Owned
  <2>3. u = t
    BY <2>1, <2>2 DEF Inv, OneLive, Live, Owned, TypeOK
  <2> QED
    BY <2>1, <2>2, <2>3 DEF Inv, TypeOK, Owned
<1>6. CASE Plans \/ Retain \/ Settle \/ Recover
  BY <1>2, <1>4, <1>6 DEF Plans, Binds, BindFirst, BindRepair, BindReview, BindRelease, BindJoint,
                          Bind, Recovered, Retain, Settle, Recover, NoRequest, Recovery
<1>7. CASE \E c \in Callers : PersistAnswer(c)
  BY <1>4, <1>7 DEF PersistAnswer
<1> QED
  BY <1>4, <1>5, <1>6, <1>7, StepKinds DEF Decides, Quiet, Offers, OfferRoute

LEMMA LeftIsChosenStep ==
    ASSUME Inv, [Next]_vars
    PROVE  LeftIsChosen'
<1> SUFFICES ASSUME NEW a \in Assignments, left'[a] # "no"
             PROVE  Chosen(a)'
  BY DEF LeftIsChosen
<1>1. CASE UNCHANGED <<status, offer>>
  <2>1. Chosen(a)' = Chosen(a)
    BY <1>1 DEF Chosen, Owned
  <2>2. CASE left'[a] = left[a]
    BY <2>1, <2>2 DEF Inv, LeftIsChosen
  <2>3. CASE \E why : Bind(a, why) /\ (why # "no" => Chosen(a))
    BY <2>1, <2>3 DEF Bind, Inv, TypeOK
  <2>4. CASE BindJoint(a)
    BY <2>1, <2>4, LeavingType DEF BindJoint, Inv, TypeOK
  <2>5. CASE \E b \in Assignments \ {a} : BindJoint(b)
    BY <2>2, <2>5 DEF BindJoint, Inv, TypeOK
  <2>6. CASE \E b \in Assignments \ {a} : \E why : Bind(b, why)
    BY <2>2, <2>6 DEF Bind, Inv, TypeOK
  <2>7. CASE Recover \/ (\E c \in Callers : PersistRelease(c))
    BY <2>2, <2>7 DEF Recover, PersistRelease, Inv, TypeOK
  <2>8. CASE Binds \/ BindRelease
    <3>1. PICK b, why : Bind(b, why) /\ (why # "no" => Chosen(b))
      BY <2>8, LeavingType DEF Binds, BindFirst, BindRepair, BindReview, BindRelease
    <3>2. b \in Assignments
      BY <3>1, InCycle DEF Bind, Inv, Snapshot
    <3> QED
      BY <2>3, <2>6, <3>1, <3>2
  <2>9. CASE BindChoice
    <3>1. Bind(snap.request.owner, "no")
      BY <2>9 DEF BindChoice
    <3>2. snap.request.owner \in Assignments
      BY <3>1, InCycle DEF Bind, Inv, Snapshot
    <3> QED
      BY <2>3, <2>6, <3>1, <3>2
  <2> QED
    BY <2>2, <2>4, <2>5, <2>7, <2>8, <2>9, StepKinds
       DEF Plans, Decides, Quiet, Offers, OfferRoute, Retain, Settle, PersistAnswer, history
<1>2. CASE Offers
  <2> PICK t \in Tokens, alternative \in Alternatives : OfferRoute(t, alternative)
    BY <1>2 DEF Offers
  <2>1. PICK u \in Owned(a) : status[u] = "selected"
    BY DEF OfferRoute, history, Inv, LeftIsChosen, Chosen
  <2> QED
    BY <2>1 DEF OfferRoute, Inv, TypeOK, Chosen, Owned
<1>3. CASE \E t \in Tokens, step \in NextStatus : Moves(t, step[1], step[2])
  <2>1. UNCHANGED offer
    BY <1>3 DEF Moves
  <2>2. CASE \E u \in Owned(a) : status[u] = "selected" /\ status'[u] = "selected"
    BY <2>1, <2>2 DEF Chosen, Owned
  <2>3. ASSUME left[a] # "no", ~\E c \in Callers : PersistRelease(c)
        PROVE  Chosen(a)'
    <3>1. PICK u \in Owned(a) : status[u] = "selected"
      BY <2>3 DEF Inv, LeftIsChosen, Chosen
    <3>2. status'[u] = "selected"
      <4>1. u \in Tokens
        BY DEF Owned
      <4>2. CASE Plans
        BY <3>1, <4>1, <4>2, BoundUnasked DEF Plans, BindChoice, Inv, TypeOK
      <4>3. CASE Decides
        BY <2>3, <3>1, <4>1, <4>3 DEF Decides, Retain, Settle, Recover, PersistAnswer, Answerable,
                                      Inv, TypeOK
      <4>4. CASE Offers
        BY <3>1, <4>1, <4>4 DEF Offers, OfferRoute, Inv, TypeOK
      <4> QED
        BY <3>1, <4>2, <4>3, <4>4, StepKinds DEF Quiet
    <3> QED
      BY <2>2, <3>1, <3>2
  <2>4. CASE \E c \in Callers : PersistRelease(c)
    <3> PICK c \in Callers : PersistRelease(c)
      BY <2>4
    <3>1. PICK u \in Owned(a) : status[u] = "selected"
      BY DEF PersistRelease, Inv, LeftIsChosen, Chosen, TypeOK
    <3>2. CASE UNCHANGED status
      BY <2>2, <3>1, <3>2
    <3>3. CASE ~UNCHANGED status
      <4>1. left' = [left EXCEPT ![call[c].owner] = "no"]
        BY <3>3 DEF PersistRelease
      <4>2. call[c].owner # a
        BY <4>1 DEF Inv, TypeOK
      <4>3. PICK t \in Owned(call[c].owner) : status' = [status EXCEPT ![t] = "released"]
        BY <3>3 DEF PersistRelease
      <4>4. u # t
        BY <3>1, <4>2, <4>3 DEF Owned
      <4> QED
        BY <2>2, <3>1, <4>3, <4>4 DEF Inv, TypeOK, Owned
    <3> QED
      BY <3>2, <3>3
  <2>5. CASE left[a] = "no" /\ ~\E c \in Callers : PersistRelease(c)
    <3>1. ~Decides /\ ~Quiet /\ ~Offers
      BY <2>5 DEF Decides, Quiet, Offers, OfferRoute, Retain, Settle, Recover, PersistAnswer, history
    <3>2. CASE BindChoice
      <4>1. Bind(snap.request.owner, "no")
        BY <3>2 DEF BindChoice
      <4> QED
        BY <2>5, <4>1 DEF Bind, Inv, TypeOK
    <3>3. ~Binds /\ ~BindRelease /\ ~(\E b \in Assignments : BindJoint(b))
      BY <1>3, BoundUnasked DEF Moves, NextStatus, Inv, TypeOK
    <3> QED
      BY <3>1, <3>2, <3>3, StepKinds DEF Plans
  <2> QED
    BY <2>3, <2>4, <2>5
<1> QED
  BY <1>1, <1>2, <1>3, StatusStep DEF Inv

-----------------------------------------------------------------------------
(* The theorems. *)

LEMMA InvInit == Init => Inv
<1> SUFFICES ASSUME Init PROVE Inv
  OBVIOUS
<1>1. TypeOK
  BY TypeInit
<1>2. \A t \in Tokens : status[t] = "unused"
  BY DEF Init
<1>3. \A c \in Callers : call[c] \notin Answer
  BY RouteChoiceAssumption DEF Init
<1>4. OneLive /\ PendingOwned
  BY <1>2 DEF OneLive, PendingOwned, Live
<1>5. ShownIsLast /\ MailIsThere
  BY <1>2, <1>3 DEF Init, ShownIsLast, MailIsThere, Callers
<1> QED
  BY <1>1, <1>4, <1>5
     DEF Init, Inv, RequestOwned, SnapshotStands, ReleasedIsGone, LeftIsChosen, NoRequest

LEMMA InvStep == Inv /\ [Next]_vars => Inv'
<1> SUFFICES ASSUME Inv, [Next]_vars PROVE Inv'
  OBVIOUS
<1>1. TypeOK'
  BY TypeStep DEF Inv
<1> QED
  BY <1>1, OneLiveStep, RequestOwnedStep, PendingOwnedStep, ShownIsLastStep, MailStep, SnapshotStep,
     ReleasedIsGoneStep, LeftIsChosenStep DEF Inv

LEMMA InvHolds == Spec => []Inv
  BY InvInit, InvStep, PTL DEF Spec

\* Every variable of the document, the loop, the other threads and the mailbox keeps its
\* type: no answer without an offer, no cycle without its snapshot.
THEOREM TypesHold == Spec => []TypeOK
  BY InvHolds, PTL DEF Inv

\* The request of a choice is of a pending offer for the plan in force, a pending offer has
\* its request or lost it to the end of its day or a recovery, and no answer is hidden.
THEOREM ConsentOwned == Spec => []ConsentIsOwned
<1>1. Inv => ConsentIsOwned
  BY DEF Inv, TypeOK, RequestOwned, PendingOwned, ShownIsLast, ConsentIsOwned, Live
<1> QED
  BY <1>1, InvHolds, PTL

-----------------------------------------------------------------------------
(* The refinement of RouteConsent. *)

Question(t) == [stage |-> status[t], question |-> t]
OpenOf(a) == {u \in Owned(a) : status[u] \in Live}
Asked == [a \in Assignments |-> {Question(t) : t \in OpenOf(a)}]
Spent == {t \in Tokens : status[t] \in Final}

\* The one question of an assignment.
LEMMA OneQuestion ==
    ASSUME Inv, NEW t \in Tokens, status[t] \in Live
    PROVE  /\ offer[t].owner \in Assignments
           /\ Asked[offer[t].owner] = {[stage |-> status[t], question |-> t]}
<1>1. offer[t] \in Offer /\ offer[t] # None
  BY RouteChoiceAssumption DEF Inv, TypeOK, Live
<1>2. offer[t].owner \in Assignments
  BY <1>1 DEF Offer
<1>3. OpenOf(offer[t].owner) = {t}
  BY <1>1 DEF OpenOf, Owned, Inv, OneLive
<1> QED
  BY <1>2, <1>3 DEF Asked, Question

\* A question that moves on: it stays the only one, or it is spent.
LEMMA MovedQuestion ==
    ASSUME Inv, NEW t \in Tokens, NEW from, NEW to, Moves(t, from, to), from \in Live,
           to \in Live \cup Final
    PROVE  /\ to \in Live => /\ Asked' = [Asked EXCEPT ![offer[t].owner] =
                                             {[stage |-> to, question |-> t]}]
                             /\ Spent' = Spent
           /\ to \in Final => /\ Asked' = [Asked EXCEPT ![offer[t].owner] = {}]
                              /\ Spent' = Spent \cup {t}
<1> PICK a : a = offer[t].owner
  OBVIOUS
<1>1. status[t] = from /\ status' = [status EXCEPT ![t] = to] /\ UNCHANGED offer
  BY DEF Moves
<1>2. a \in Assignments /\ OpenOf(a) = {t} /\ offer[t] # None
  <2>1. offer[t] \in Offer /\ offer[t] # None
    BY <1>1, RouteChoiceAssumption DEF Inv, TypeOK, Live
  <2> QED
    BY <1>1, <2>1 DEF OpenOf, Owned, Inv, OneLive, Offer
<1>3. \A u \in Tokens : status'[u] = IF u = t THEN to ELSE status[u]
  BY <1>1 DEF Inv, TypeOK
<1>4. \A b \in Assignments \ {a} : OpenOf(b)' = OpenOf(b) /\ t \notin OpenOf(b)
  BY <1>1, <1>3 DEF OpenOf, Owned
<1>5. \A b \in Assignments \ {a} : Asked'[b] = Asked[b]
  <2> SUFFICES ASSUME NEW b \in Assignments \ {a}
               PROVE  {Question(u)' : u \in OpenOf(b)'} = {Question(u) : u \in OpenOf(b)}
    BY DEF Asked
  <2>1. \A u \in OpenOf(b) : Question(u)' = Question(u)
    BY <1>3, <1>4 DEF Question, OpenOf, Owned
  <2> QED
    BY <1>4, <2>1
<1>6. Live \cap Final = {}
  BY DEF Live, Final
<1>7. ASSUME to \in Live PROVE Asked'[a] = {[stage |-> to, question |-> t]} /\ Spent' = Spent
  <2>1. OpenOf(a)' = {t}
    BY <1>1, <1>2, <1>3, <1>7 DEF OpenOf, Owned
  <2>2. Question(t)' = [stage |-> to, question |-> t]
    BY <1>3 DEF Question
  <2>3. Asked'[a] = {[stage |-> to, question |-> t]}
    BY <1>2, <2>1, <2>2 DEF Asked
  <2> QED
    BY <1>1, <1>3, <1>6, <1>7, <2>3 DEF Spent
<1>8. ASSUME to \in Final PROVE Asked'[a] = {} /\ Spent' = Spent \cup {t}
  <2>1. OpenOf(a)' = {}
    BY <1>1, <1>2, <1>3, <1>6, <1>8 DEF OpenOf, Owned
  <2>2. Asked'[a] = {}
    BY <1>2, <2>1 DEF Asked
  <2> QED
    BY <1>1, <1>3, <1>8, <2>2 DEF Spent
<1>9. /\ Asked = [b \in Assignments |-> Asked[b]]
      /\ Asked' = [b \in Assignments |-> Asked'[b]]
  BY DEF Asked
<1> QED
  BY <1>2, <1>5, <1>7, <1>8, <1>9

\* Steps that leave the choices alone leave the questions alone.
LEMMA SameQuestions ==
    ASSUME UNCHANGED <<status, offer>>
    PROVE  Asked' = Asked /\ Spent' = Spent
  BY DEF Asked, Spent, Question, OpenOf, Owned

\* A new offer: the one question of its assignment, instead of an unanswered one.
LEMMA NewQuestion ==
    ASSUME Inv, NEW t \in Tokens, NEW alternative \in Alternatives, OfferRoute(t, alternative)
    PROVE  /\ snap.bound \in Assignments
           /\ t \notin Spent /\ \A b \in Assignments : \A x \in Asked[b] : x.question # t
           /\ \A x \in Asked[snap.bound] : x.stage = "offered"
           /\ Asked' = [Asked EXCEPT ![snap.bound] = {[stage |-> "offered", question |-> t]}]
           /\ Spent' = Spent \cup {x.question : x \in Asked[snap.bound]}
<1> PICK a : a = snap.bound
  OBVIOUS
<1>1. a \in Assignments /\ status[t] = "unused" /\ offer[t] = None
  BY DEF OfferRoute, Inv, TypeOK, SnapshotStands
<1>2. /\ \A u \in Tokens : offer'[u] = IF u = t THEN [owner |-> a, plan |-> route[a],
                                                     alternative |-> alternative]
                                       ELSE offer[u]
      /\ offer'[t] # None
  <2>1. offer'[t] \in Offer \cup {None} /\ status'[t] = "offered"
    BY TypeStep DEF OfferRoute, Inv, TypeOK, Next, Cycle
  <2>2. offer'[t] # None
    BY <2>1, TypeStep DEF Inv, TypeOK, Next, Cycle
  <2> QED
    BY <2>2 DEF OfferRoute, Inv, TypeOK
<1>3. \A u \in Tokens : status'[u] = IF u = t THEN "offered"
                                     ELSE IF u \in Owned(a) /\ status[u] = "offered"
                                     THEN "superseded" ELSE status[u]
  BY DEF OfferRoute, Inv, TypeOK
<1>4. \A u \in OpenOf(a) : status[u] = "offered"
  BY DEF OfferRoute, OpenOf, Live
<1>5. OpenOf(a)' = {t}
  BY <1>1, <1>2, <1>3, <1>4 DEF OpenOf, Owned, Live
<1>6. \A b \in Assignments \ {a} : OpenOf(b)' = OpenOf(b)
  BY <1>1, <1>2, <1>3 DEF OpenOf, Owned, Live
<1>7. \A b \in Assignments : t \notin OpenOf(b)
  BY <1>1 DEF OpenOf, Live
<1>8. \A b \in Assignments \ {a} : Asked'[b] = Asked[b]
  <2> SUFFICES ASSUME NEW b \in Assignments \ {a}
               PROVE  {Question(u)' : u \in OpenOf(b)'} = {Question(u) : u \in OpenOf(b)}
    BY DEF Asked
  <2>1. \A u \in OpenOf(b) : Question(u)' = Question(u)
    BY <1>3, <1>7 DEF Question, OpenOf, Owned
  <2> QED
    BY <1>6, <2>1
<1>9. Asked'[a] = {[stage |-> "offered", question |-> t]}
  <2>1. Question(t)' = [stage |-> "offered", question |-> t]
    BY <1>3 DEF Question
  <2> QED
    BY <1>1, <1>5, <2>1 DEF Asked
<1>10. /\ Asked = [b \in Assignments |-> Asked[b]]
       /\ Asked' = [b \in Assignments |-> Asked'[b]]
  BY DEF Asked
<1>11. Asked' = [Asked EXCEPT ![a] = {[stage |-> "offered", question |-> t]}]
  BY <1>1, <1>8, <1>9, <1>10
<1>12. {x.question : x \in Asked[a]} = OpenOf(a)
  <2>1. Asked[a] = {Question(u) : u \in OpenOf(a)}
    BY <1>1 DEF Asked
  <2>2. \A u \in OpenOf(a) : Question(u).question = u
    BY DEF Question
  <2> QED
    BY <2>1, <2>2
<1>13. Spent' = Spent \cup OpenOf(a)
  BY <1>1, <1>3, <1>4 DEF Spent, OpenOf, Owned, Live, Final
<1>14. \A b \in Assignments : \A x \in Asked[b] : x.question # t
  BY <1>7 DEF Asked, Question
<1>15. \A x \in Asked[a] : x.stage = "offered"
  BY <1>1, <1>4 DEF Asked, Question
<1>16. t \notin Spent
  BY <1>1 DEF Spent, Final
<1> QED
  BY <1>1, <1>11, <1>12, <1>13, <1>14, <1>15, <1>16

LEMMA RefinedInit == Init => Consent!Init
<1> SUFFICES ASSUME Init PROVE Consent!Init
  OBVIOUS
<1>1. \A a \in Assignments : OpenOf(a) = {}
  BY DEF Init, OpenOf, Owned, Live
<1>2. Asked = [a \in Assignments |-> {}]
  BY <1>1 DEF Asked
<1>3. Spent = {}
  BY DEF Init, Spent, Final
<1> QED
  BY <1>2, <1>3 DEF Init, Consent!Init, Asked, Spent, Question, OpenOf

\* Steps of RouteConsent, as they are seen through the mapping.
LEMMA MappedSteps ==
    ASSUME NEW a \in Assignments, NEW q \in Tokens
    PROVE  /\ ( /\ Asked[a] = {[stage |-> "offered", question |-> q]}
                /\ Asked' = [Asked EXCEPT ![a] = {[stage |-> "pending", question |-> q]}]
                /\ Spent' = Spent /\ left' = left ) => Consent!Consent(a, q)
           /\ ( /\ Asked[a] = {[stage |-> "pending", question |-> q]}
                /\ Asked' = [Asked EXCEPT ![a] = {[stage |-> "selected", question |-> q]}]
                /\ Spent' = Spent /\ left' = [left EXCEPT ![a] = "no"] ) => Consent!Agree(a, q)
           /\ ( /\ \E from \in {"offered", "pending", "selected"} :
                      Asked[a] = {[stage |-> from, question |-> q]}
                /\ Asked' = [Asked EXCEPT ![a] = {}]
                /\ Spent' = Spent \cup {q}
                /\ left' = [left EXCEPT ![a] = "no"] ) => Consent!Close(a, q)
           /\ ( /\ q \notin Spent /\ \A b \in Assignments : \A x \in Asked[b] : x.question # q
                /\ \A x \in Asked[a] : x.stage = "offered"
                /\ Asked' = [Asked EXCEPT ![a] = {[stage |-> "offered", question |-> q]}]
                /\ Spent' = Spent \cup {x.question : x \in Asked[a]}
                /\ left' = left ) => Consent!Ask(a, q)
<1>1. Asked = [b \in Assignments |-> {[stage |-> status[t], question |-> t] :
                                         t \in {u \in Owned(b) : status[u] \in Live}}]
  BY DEF Asked, Question, OpenOf
<1>2. Spent = {t \in Tokens : status[t] \in Final}
  BY DEF Spent
<1>3. ( /\ Asked[a] = {[stage |-> "offered", question |-> q]}
        /\ Asked' = [Asked EXCEPT ![a] = {[stage |-> "pending", question |-> q]}]
        /\ Spent' = Spent /\ left' = left ) => Consent!Consent(a, q)
  BY DEF Consent!Consent, Consent!At, Asked, Question, OpenOf, Spent
<1>4. ( /\ Asked[a] = {[stage |-> "pending", question |-> q]}
        /\ Asked' = [Asked EXCEPT ![a] = {[stage |-> "selected", question |-> q]}]
        /\ Spent' = Spent /\ left' = [left EXCEPT ![a] = "no"] ) => Consent!Agree(a, q)
  BY DEF Consent!Agree, Consent!At, Asked, Question, OpenOf, Spent
<1>5. ( /\ \E from \in {"offered", "pending", "selected"} :
              Asked[a] = {[stage |-> from, question |-> q]}
        /\ Asked' = [Asked EXCEPT ![a] = {}]
        /\ Spent' = Spent \cup {q}
        /\ left' = [left EXCEPT ![a] = "no"] ) => Consent!Close(a, q)
  BY DEF Consent!Close, Consent!At, Asked, Question, OpenOf, Spent
<1>6. ( /\ q \notin Spent /\ \A b \in Assignments : \A x \in Asked[b] : x.question # q
        /\ \A x \in Asked[a] : x.stage = "offered"
        /\ Asked' = [Asked EXCEPT ![a] = {[stage |-> "offered", question |-> q]}]
        /\ Spent' = Spent \cup {x.question : x \in Asked[a]}
        /\ left' = left ) => Consent!Ask(a, q)
  BY DEF Consent!Ask, Consent!At, Asked, Question, OpenOf, Spent
<1> QED
  BY <1>3, <1>4, <1>5, <1>6

\* While a question is open, no choice of its assignment is in force to be left.
LEMMA OpenIsUnchosen ==
    ASSUME Inv, NEW t \in Tokens, status[t] \in {"offered", "pending"}
    PROVE  left = [left EXCEPT ![offer[t].owner] = "no"]
<1>1. offer[t].owner \in Assignments
  BY OneQuestion DEF Live
<1>2. ~Chosen(offer[t].owner)
  BY DEF Chosen, Owned, Inv, OneLive, Live
<1>3. left[offer[t].owner] = "no"
  BY <1>1, <1>2 DEF Inv, LeftIsChosen
<1> QED
  BY <1>3 DEF Inv, TypeOK

\* A route changes and no choice does.
LEMMA RefinedPlan ==
    ASSUME Inv, Binds \/ BindRelease \/ \E a \in Assignments : BindJoint(a)
    PROVE  \E a \in Assignments : Consent!Replan(a)
<1>1. \E a \in Assignments, why \in {"no", "need", "first", "joint"} :
          left' = [left EXCEPT ![a] = why]
  <2>1. CASE \E a \in Assignments : BindJoint(a)
    BY <2>1 DEF BindJoint, Leaving
  <2>2. CASE \E a \in Assignments : BindFirst(a) \/ BindRepair(a)
    <3> PICK a \in Assignments : BindFirst(a) \/ BindRepair(a)
      BY <2>2
    <3> QED
      BY DEF BindFirst, BindRepair, Bind, Leaving
  <2>3. CASE \E a \in Assignments : BindReview(a)
    <3> PICK a \in Assignments : BindReview(a)
      BY <2>3
    <3>1. PICK leaving \in Locked(a) : Bind(a, leaving)
      BY DEF BindReview
    <3>2. Chosen(a) => a \in snap.locked
      BY <3>1 DEF BindReview, Bind, Inv, SnapshotStands
    <3>3. leaving = "no"
      BY <3>1, <3>2 DEF Locked, Leaving
    <3> QED
      BY <3>1, <3>3 DEF Bind
  <2>4. CASE BindRelease
    <3>1. PICK leaving \in Locked(snap.request.owner) : Bind(snap.request.owner, leaving)
      BY <2>4 DEF BindRelease
    <3>2. ~Chosen(snap.request.owner)
      BY <2>4 DEF BindRelease, Inv, ReleasedIsGone
    <3>3. leaving = "no"
      BY <3>1, <3>2 DEF Locked, Leaving
    <3>4. snap.request.owner \in Assignments
      BY <3>1, InCycle DEF Inv, Bind, Snapshot
    <3> QED
      BY <3>1, <3>3, <3>4 DEF Bind
  <2> QED
    BY <2>1, <2>2, <2>3, <2>4 DEF Binds
<1>2. Asked' = Asked /\ Spent' = Spent
  BY BoundUnasked, SameQuestions
<1> QED
  BY <1>1, <1>2 DEF Consent!Replan, Asked, Question, OpenOf, Spent

LEMMA RefinedChoice ==
    ASSUME Inv, BindChoice
    PROVE  \E a \in Assignments, q \in Tokens : Consent!Agree(a, q)
<1> PICK t, a : t = snap.request.token /\ a = snap.request.owner
  OBVIOUS
<1>1. /\ Moves(t, "pending", "selected") /\ offer[t].owner = a
      /\ left' = [left EXCEPT ![a] = "no"]
  BY DEF BindChoice, Bind, Moves
<1>2. t \in Tokens /\ status[t] = "pending"
  BY InCycle DEF BindChoice, Bind, Inv, Snapshot
<1>3. a \in Assignments /\ Asked[a] = {[stage |-> "pending", question |-> t]}
  BY <1>1, <1>2, OneQuestion DEF Live
<1>4. Asked' = [Asked EXCEPT ![a] = {[stage |-> "selected", question |-> t]}] /\ Spent' = Spent
  BY <1>1, <1>2, MovedQuestion DEF Live
<1> QED
  BY <1>1, <1>2, <1>3, <1>4, MappedSteps

\* An open or selected question is closed.
LEMMA RefinedClose ==
    ASSUME Inv, NEW t \in Tokens, NEW from \in {"offered", "pending", "selected"},
           NEW to \in Final, Moves(t, from, to),
           left' = [left EXCEPT ![offer[t].owner] = "no"]
    PROVE  \E a \in Assignments, q \in Tokens : Consent!Close(a, q)
<1> PICK a : a = offer[t].owner
  OBVIOUS
<1>1. status[t] = from /\ from \in Live
  BY DEF Moves, Live
<1>2. a \in Assignments /\ Asked[a] = {[stage |-> from, question |-> t]}
  BY <1>1, OneQuestion
<1>3. Asked' = [Asked EXCEPT ![a] = {}] /\ Spent' = Spent \cup {t}
  BY <1>1, MovedQuestion
<1>4. Consent!Close(a, t)
  BY <1>2, <1>3, MappedSteps
<1> QED
  BY <1>2, <1>4

\* Every step is a step of RouteConsent, or changes nothing it speaks of.
LEMMA RefinedStep ==
    ASSUME Inv, [Next]_vars
    PROVE  [Consent!Next]_(Consent!promise)
<1>1. CASE UNCHANGED <<status, offer, left>>
  BY <1>1, SameQuestions DEF Consent!promise, Asked, Question, OpenOf, Spent
<1>2. CASE Binds \/ BindRelease \/ \E a \in Assignments : BindJoint(a)
  BY <1>2, RefinedPlan DEF Consent!Next
<1>3. CASE BindChoice
  BY <1>3, RefinedChoice DEF Consent!Next
<1>4. CASE Offers
  <2> PICK t \in Tokens, alternative \in Alternatives : OfferRoute(t, alternative)
    BY <1>4 DEF Offers
  <2> PICK a : a = snap.bound
    OBVIOUS
  <2>1. left' = left
    BY DEF OfferRoute, history
  <2>2. a \in Assignments /\ Consent!Ask(a, t)
    BY <2>1, NewQuestion, MappedSteps
  <2> QED
    BY <2>2 DEF Consent!Next
<1>5. CASE Settle
  <2>1. CASE status' # status
    <3> PICK t : t = request.token
      OBVIOUS
    <3>1. request.kind = "choice" /\ Moves(t, "pending", "rejected") /\ left' = left
      BY <1>5, <2>1 DEF Settle, Moves, history
    <3>2. t \in Tokens
      BY <3>1 DEF Inv, TypeOK, Request, NoRequest, Recovery, ChoiceRequest, ReleaseRequest
    <3>3. left' = [left EXCEPT ![offer[t].owner] = "no"]
      BY <3>1, <3>2, OpenIsUnchosen DEF Moves
    <3> QED
      BY <3>1, <3>2, <3>3, RefinedClose DEF Final, Consent!Next
  <2> QED
    BY <1>1, <1>5, <2>1 DEF Settle, history
<1>6. CASE \E c \in Callers : PersistAnswer(c)
  <2> PICK c \in Callers : PersistAnswer(c)
    BY <1>6
  <2>1. left' = left
    BY DEF PersistAnswer, history
  <2>2. CASE Answerable(call[c])
    <3> PICK t : t = call[c].token
      OBVIOUS
    <3>1. t \in Tokens /\ status[t] = "offered"
      BY <2>2 DEF PersistAnswer, Answer, Answerable
    <3>2. CASE Moves(t, "offered", "declined")
      <4>1. left' = [left EXCEPT ![offer[t].owner] = "no"]
        BY <2>1, <3>1, OpenIsUnchosen
      <4> QED
        BY <3>1, <3>2, <4>1, RefinedClose DEF Final, Consent!Next
    <3>3. CASE Moves(t, "offered", "pending")
      <4> PICK a : a = offer[t].owner
        OBVIOUS
      <4>1. a \in Assignments /\ Asked[a] = {[stage |-> "offered", question |-> t]}
        BY <3>1, OneQuestion DEF Live
      <4>2. Asked' = [Asked EXCEPT ![a] = {[stage |-> "pending", question |-> t]}]
            /\ Spent' = Spent
        BY <3>1, <3>3, MovedQuestion DEF Live
      <4>3. Consent!Consent(a, t)
        BY <2>1, <3>1, <4>1, <4>2, MappedSteps
      <4> QED
        BY <3>1, <4>1, <4>3 DEF Consent!Next
    <3> QED
      BY <2>2, <3>2, <3>3 DEF PersistAnswer, Answerable, Moves
  <2> QED
    BY <1>1, <2>1, <2>2 DEF PersistAnswer
<1>7. CASE \E c \in Callers : PersistRelease(c)
  <2> PICK c \in Callers : PersistRelease(c)
    BY <1>7
  <2>1. CASE status' # status
    <3>1. PICK t \in Tokens : Moves(t, "selected", "released") /\ offer[t].owner = call[c].owner
      BY <2>1 DEF PersistRelease, Owned, Moves
    <3>2. left' = [left EXCEPT ![offer[t].owner] = "no"]
      BY <2>1, <3>1 DEF PersistRelease
    <3> QED
      BY <3>1, <3>2, RefinedClose DEF Final, Consent!Next
  <2>2. CASE status' = status
    <3>1. UNCHANGED left
      BY <2>2 DEF PersistRelease, Owned, Inv, TypeOK
    <3> QED
      BY <1>1, <2>2, <3>1 DEF PersistRelease
  <2> QED
    BY <2>1, <2>2
<1>8. CASE Recover
  <2>1. UNCHANGED <<status, offer>>
        /\ left' = [a \in Assignments |-> IF a \in Assignments \ completed THEN "no" ELSE left[a]]
    BY <1>8 DEF Recover
  <2>2. Consent!GiveUp(Assignments \ completed)
    BY <2>1, SameQuestions DEF Consent!GiveUp, Asked, Question, OpenOf, Spent
  <2>3. Assignments \ completed \in SUBSET Assignments
    OBVIOUS
  <2> QED
    BY <2>2, <2>3 DEF Consent!Next
<1> QED
  BY <1>1, <1>2, <1>3, <1>4, <1>5, <1>6, <1>7, <1>8, StepKinds
     DEF Quiet, Plans, Decides, Retain, history

\* One question per assignment, each of them answered at most once and by its user only,
\* and a route in force never left for price, whatever fails and whoever repeats.
THEOREM ConsentImplemented == Spec => ImplementsConsent
<1>1. Init => Consent!Init
  BY RefinedInit
<1>2. Inv /\ [Next]_vars => [Consent!Next]_(Consent!promise)
  BY RefinedStep
<1> QED
  BY <1>1, <1>2, InvHolds, PTL DEF Spec, ImplementsConsent, Consent!Spec

=============================================================================
