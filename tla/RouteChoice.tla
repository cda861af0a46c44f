----------------------------- MODULE RouteChoice -----------------------------
(***************************************************************************)
(* Route choice: PicoT may offer another route for a daily charge           *)
(* assignment, its user answers on a phone or the dashboard, and the next   *)
(* planning accepts or rejects the answer.  Choices, assignments and the    *)
(* one planning request share the commitment store's document.              *)
(*                                                                         *)
(* Three actors use it: the planner loop, which holds PlanningResetBarrier  *)
(* for a whole cycle and writes several times in it; the HTTP thread of the *)
(* dashboard; and the notifier's thread, which polls a Home Assistant       *)
(* helper that serves as mailbox.  The latter two read the clock before     *)
(* they wait for the barrier.  The process may end between any two writes.  *)
(*                                                                         *)
(* An identity of a plan stands for plan and revision, an offer for its     *)
(* owner, plan and whether it has an alternative; instants appear as the    *)
(* two comparisons that are made with them (expired offer, ended day).      *)
(***************************************************************************)
EXTENDS Integers

CONSTANTS
    Assignments,   \* daily charge assignments
    Tokens,        \* random identities of offers, numbered as their text sorts
    MaxPlan,       \* bound on the plans made
    MaxRecoveries, \* bound on the planning recoveries asked for
    Alternatives,  \* whether offers name a route that can be chosen: a subset of BOOLEAN
    WebActions,    \* what the user does on the dashboard: answer or give back
    PhoneActions,  \* what the user answers to a notification
    Together,      \* bound: whether both other threads may wait for the barrier at once
    Faults,        \* the faults this instance allows, a subset of AllFaults
    None           \* neither an offer, a snapshot, a call nor a message

AllFaults ==
    {"crash",       \* the process ends and starts again
     "save_error"}  \* a write of the document or of the notifier's state fails

Callers == {"web", "mailbox"}

Live == {"offered", "pending", "selected"}
Final == {"superseded", "declined", "released", "rejected"}

Offer == [owner: Assignments, plan: 1..MaxPlan, alternative: BOOLEAN]

NoRequest == [kind |-> "none"]
Recovery == [kind |-> "recovery"]
ChoiceRequest == [kind: {"choice"}, owner: Assignments, token: Tokens]
ReleaseRequest == [kind: {"release"}, owner: Assignments]
Request == {NoRequest, Recovery} \cup ChoiceRequest \cup ReleaseRequest

\* What a planning cycle keeps of the document it captured, and what it bound.
Snapshot == [open: SUBSET Assignments, route: [Assignments -> 0..MaxPlan],
             request: Request, wanted: SUBSET Tokens, locked: SUBSET Assignments,
             bound: Assignments \cup {None}]

\* A call with the instant it was made at, as it compares (late).
Answer == [action: {"pv", "automatic"}, token: Tokens, late: BOOLEAN]
GiveBack == [action: {"release"}, owner: Assignments, late: BOOLEAN]
Consumed == [action |-> "consumed"]

Message == [action: {"pv", "automatic"}, token: Tokens,
            state: {"new", "read", "unsaved", "taken"}]

ASSUME RouteChoiceAssumption ==
    /\ Tokens \subseteq Nat /\ MaxPlan \in Nat /\ MaxRecoveries \in Nat
    /\ Alternatives \subseteq BOOLEAN
    /\ WebActions \subseteq {"pv", "automatic", "release"}
    /\ PhoneActions \subseteq {"pv", "automatic"}
    /\ Together \in BOOLEAN /\ Faults \subseteq AllFaults
    /\ None \notin Offer \cup Snapshot \cup Assignments
    /\ None \notin Answer \cup GiveBack \cup Message \cup {Consumed}

VARIABLES
    \* the document
    status,      \* route_choices: status of the offer with a token, "unused" when none
    offer,       \* route_choices: what was offered
    route,       \* daily_assignments: plan and revision, 0 when not bound
    completed,   \* daily_assignments: with a completed_at
    request,     \* daily_recalculation while it is pending
    \* the clock
    expired,     \* offers whose expires_at has passed
    ended,       \* assignments whose day has ended
    \* memory
    stage,       \* where the planner loop is: "idle", "planning" or "bound"
    snap,        \* the snapshot of its cycle
    call,        \* the answer each other thread holds and has not persisted
    mail,        \* the helper's text, and what the notifier made of it
    shown,       \* offers that the user was asked about
    \* bounds and history
    plans, recoveries,
    dropped,     \* offers whose request a recovery replaced
    left         \* why the route leaves the windows of the choice in force, "no" if not

document == <<status, offer, route, completed, request>>
clock == <<expired, ended>>
history == <<plans, recoveries, dropped, left>>
vars == <<document, clock, stage, snap, call, mail, shown, history>>

TypeOK ==
    /\ status \in [Tokens -> Live \cup Final \cup {"unused"}]
    /\ offer \in [Tokens -> Offer \cup {None}]
    /\ \A t \in Tokens : (status[t] = "unused") <=> (offer[t] = None)
    /\ route \in [Assignments -> 0..MaxPlan]
    /\ completed \subseteq Assignments /\ ended \subseteq Assignments
    /\ request \in Request
    /\ expired \subseteq Tokens
    /\ stage \in {"idle", "planning", "bound"}
    /\ snap \in Snapshot \cup {None}
    /\ (stage = "idle") <=> (snap = None)
    /\ call \in [Callers -> Answer \cup GiveBack \cup {Consumed, None}]
    /\ mail \in Message \cup {None}
    /\ shown \subseteq Tokens
    /\ plans \in 0..MaxPlan /\ recoveries \in 0..MaxRecoveries
    /\ dropped \subseteq Tokens
    /\ left \in [Assignments -> {"no", "need", "first", "joint", "price"}]

Init ==
    /\ status = [t \in Tokens |-> "unused"] /\ offer = [t \in Tokens |-> None]
    /\ route = [a \in Assignments |-> 0]
    /\ completed = {} /\ ended = {} /\ expired = {} /\ request = NoRequest
    /\ stage = "idle" /\ snap = None /\ call = [c \in Callers |-> None]
    /\ mail = None /\ shown = {}
    /\ plans = 0 /\ recoveries = 0 /\ dropped = {}
    /\ left = [a \in Assignments |-> "no"]

-----------------------------------------------------------------------------
Owned(a) == {t \in Tokens : offer[t] # None /\ offer[t].owner = a}

Chosen(a) == \E t \in Owned(a) : status[t] = "selected"

Closed(a) == a \in completed \cup ended

\* load_daily_recalculation_request: a recovery is no request for a route.
Manual(r) == r.kind \in {"choice", "release"}

(* What the dashboard and the phone are told. *)

\* route_choice_status: of the records of an assignment the last one by token, as the
\* document is written with sorted keys.
Last(a) == {t \in Owned(a) : \A u \in Owned(a) : u <= t}

ViewStatus(t) ==
    LET a == offer[t].owner IN
    IF \/ status[t] \in Live /\ (Closed(a) \/ route[a] = 0)
       \/ status[t] \in {"offered", "pending"} /\ t \in expired
    THEN "expired"
    ELSE status[t]

\* publish_choice_status and the dashboard show one offer per assignment.
Visible(t, as) == offer[t] # None /\ t \in Last(offer[t].owner) /\ ViewStatus(t) = as

-----------------------------------------------------------------------------
(* The planner loop.  It holds the barrier from Capture to the end of the cycle. *)

\* The poll publishes what the document says and captures it for its planning.
Capture ==
    /\ stage = "idle"
    /\ stage' = "planning"
    /\ shown' = shown \cup {t \in Tokens : status[t] = "offered" /\ Visible(t, "offered")}
    /\ LET open == {a \in Assignments : ~Closed(a)}
           routed == {a \in open : route[a] # 0}
       IN snap' = [open |-> open, route |-> route, request |-> request,
                   wanted |-> {t \in Tokens \ expired :
                                  status[t] = "pending" /\ offer[t].owner \in routed},
                   locked |-> {a \in routed : Chosen(a)}, bound |-> None]
    /\ UNCHANGED <<document, clock, call, mail, history>>

\* Mutant: a cycle that fails keeps its snapshot for the next.
EndKeeping ==
    /\ stage # "idle"
    /\ stage' = "idle"
    /\ UNCHANGED <<document, clock, snap, call, mail, shown, history>>

\* A cycle ends without a further write: nothing to bind or to offer, a planning that
\* was superseded, or a write that failed.
EndCycle ==
    /\ stage # "idle"
    /\ stage' = "idle" /\ snap' = None
    /\ UNCHANGED <<document, clock, call, mail, shown, history>>

\* The owner of the request is completed or its day is over: the request is finished,
\* and its choice stays as it is.
Retain ==
    /\ stage = "planning" /\ Manual(snap.request)
    /\ snap.request.owner \notin snap.open
    /\ request' = NoRequest /\ snap' = [snap EXCEPT !.request = NoRequest]
    /\ UNCHANGED <<status, offer, route, completed, clock, stage, call, mail,
                   shown, history>>

\* bind_daily_main_plan, for every trigger: a new plan and revision.
Bind(a, leaving) ==
    /\ stage = "planning" /\ plans < MaxPlan
    /\ a \in snap.open \ completed /\ route[a] = snap.route[a]
    /\ plans' = plans + 1
    /\ route' = [route EXCEPT ![a] = plans + 1]
    /\ left' = [left EXCEPT ![a] = leaving]
    /\ stage' = "bound" /\ snap' = [snap EXCEPT !.bound = a]
    /\ UNCHANGED <<offer, completed, clock, call, mail, shown, recoveries, dropped>>

\* A binding completes a recovery that is pending.
Recovered == request' = IF request = Recovery THEN NoRequest ELSE request

\* A new route stays inside the windows of a choice in force, or leaves them.
Leaving(a, why) == {"no"} \cup (IF Chosen(a) THEN {why} ELSE {})

\* Mutant: the review of a route does not know of the choices.
Unlocked(a) == Leaving(a, "price")

Locked(a) == IF a \in snap.locked THEN {"no"} ELSE Leaving(a, "price")

\* The first route, or the first after a recovery: planning_route_choices told the
\* planning of no choice, as the assignment had no route.
BindFirst(a) ==
    /\ stage = "planning" /\ ~Manual(snap.request) /\ snap.route[a] = 0
    /\ \E leaving \in Leaving(a, "first") : Bind(a, leaving)
    /\ Recovered /\ UNCHANGED status

\* A shortfall or a reserve that the route no longer covers: no lock applies.
BindRepair(a) ==
    /\ stage = "planning" /\ ~Manual(snap.request) /\ snap.route[a] # 0
    /\ \E leaving \in Leaving(a, "need") : Bind(a, leaving)
    /\ Recovered /\ UNCHANGED status

\* A better route: the choices captured lock it to their windows.
BindReview(a) ==
    /\ stage = "planning" /\ ~Manual(snap.request) /\ snap.route[a] # 0
    /\ \E leaving \in Locked(a) : Bind(a, leaving)
    /\ Recovered /\ UNCHANGED status

\* The route the user asked for is still possible: _accept_route_choice in the same write.
BindChoice ==
    /\ stage = "planning" /\ snap.request.kind = "choice"
    /\ LET t == snap.request.token
           a == snap.request.owner
       IN /\ t \in snap.wanted /\ request = snap.request
          /\ status[t] = "pending"
          /\ offer[t].owner = a /\ offer[t].plan = snap.route[a]
          /\ Bind(a, "no")
          /\ status' = [status EXCEPT ![t] = "selected"]
    /\ request' = NoRequest

\* The route planned after a choice was given back.
BindRelease ==
    /\ stage = "planning" /\ snap.request.kind = "release" /\ request = snap.request
    /\ \E leaving \in Locked(snap.request.owner) : Bind(snap.request.owner, leaving)
    /\ request' = NoRequest /\ UNCHANGED status

\* The poll binds the route of an EV advice that the user executed (accept_pending), which
\* no choice locks, and captures again.
BindJoint(a) ==
    /\ stage = "idle" /\ plans < MaxPlan
    /\ ~Manual(request) /\ route[a] # 0 /\ a \notin completed
    /\ plans' = plans + 1
    /\ route' = [route EXCEPT ![a] = plans + 1]
    /\ \E leaving \in Leaving(a, "joint") : left' = [left EXCEPT ![a] = leaving]
    /\ Recovered
    /\ UNCHANGED <<status, offer, completed, clock, stage, snap, call, mail, shown,
                   recoveries, dropped>>

\* offer_route_choice after a binding: nothing while a choice is pending or selected or
\* was offered like this before; else the new offer supersedes the open ones.
OfferRoute(t, alternative) ==
    /\ stage = "bound" /\ status[t] = "unused" /\ snap.bound \notin completed
    /\ LET new == [owner |-> snap.bound, plan |-> route[snap.bound],
                   alternative |-> alternative]
           previous == Owned(snap.bound)
       IN /\ \A u \in previous : status[u] \notin {"pending", "selected"} /\ offer[u] # new
          /\ offer' = [offer EXCEPT ![t] = new]
          /\ status' = [u \in Tokens |->
                           IF u = t THEN "offered"
                           ELSE IF u \in previous /\ status[u] = "offered" THEN "superseded"
                           ELSE status[u]]
          /\ expired' = IF snap.bound \in ended THEN expired \cup {t} ELSE expired
    /\ stage' = "idle" /\ snap' = None
    /\ UNCHANGED <<route, completed, request, ended, call, mail, shown, history>>

\* Mutant: the request is retained for a next planning, which may not answer it either.
SettleLater ==
    /\ stage = "planning" /\ Manual(snap.request)
    /\ snap.request.owner \in snap.open /\ request = snap.request
    /\ stage' = "idle" /\ snap' = None
    /\ UNCHANGED <<document, clock, call, mail, shown, history>>

\* A request that no binding answered: reject_route_choice, or failed for a release.
Settle ==
    /\ stage = "planning" /\ Manual(snap.request)
    /\ snap.request.owner \in snap.open /\ request = snap.request
    /\ status' = IF request.kind = "choice" /\ status[request.token] = "pending"
                 THEN [status EXCEPT ![request.token] = "rejected"] ELSE status
    /\ request' = NoRequest
    /\ stage' = "idle" /\ snap' = None
    /\ UNCHANGED <<offer, route, completed, clock, call, mail, shown, history>>

\* Execution proves the charge complete: in a poll, or at a checkpoint of a planning.
Complete(a) ==
    /\ ~Closed(a) /\ route[a] # 0
    /\ completed' = completed \cup {a}
    /\ UNCHANGED <<status, offer, route, request, clock, stage, snap, call, mail,
                   shown, history>>

-----------------------------------------------------------------------------
(* The other threads.  Each notes the time and then waits for the barrier. *)

Free(c) == call[c] = None /\ (Together \/ \A d \in Callers : call[d] = None)

\* The dashboard sends the token of an offer that it was shown, however old.
AskOnWeb(action, t) ==
    /\ action \in WebActions /\ Free("web") /\ t \in shown
    /\ call' = [call EXCEPT !["web"] =
                  [action |-> action, token |-> t, late |-> t \in expired]]
    /\ UNCHANGED <<document, clock, stage, snap, mail, shown, history>>

ReleaseOnWeb(a) ==
    /\ "release" \in WebActions /\ Free("web")
    /\ call' = [call EXCEPT !["web"] =
                  [action |-> "release", owner |-> a, late |-> a \in ended]]
    /\ UNCHANGED <<document, clock, stage, snap, mail, shown, history>>

\* The user answers a notification, however old, and Home Assistant writes the helper.
Tap(action, t) ==
    /\ action \in PhoneActions /\ t \in shown /\ offer[t].alternative
    /\ mail' = [action |-> action, token |-> t, state |-> "new"]
    /\ UNCHANGED <<document, clock, stage, snap, call, shown, history>>

\* _poll: a text other than the last one consumed.
PollMailbox ==
    /\ Free("mailbox") /\ mail # None /\ mail.state = "new"
    /\ call' = [call EXCEPT !["mailbox"] = [action |-> mail.action, token |-> mail.token,
                                            late |-> mail.token \in expired]]
    /\ mail' = [mail EXCEPT !.state = "read"]
    /\ UNCHANGED <<document, clock, stage, snap, shown, history>>

\* The call is over: the notifier has yet to save that it consumed the text.
Returned(c) == call' = [call EXCEPT ![c] = IF c = "mailbox" THEN Consumed ELSE None]

\* Mutant: an answer counts for whatever the plan has become.
AnswerableLater(answer) ==
    LET t == answer.token
        a == offer[t].owner
    IN /\ status[t] = "offered" /\ ~answer.late
       /\ a \notin completed /\ route[a] # 0
       /\ answer.action = "pv" => offer[t].alternative /\ request = NoRequest

\* request_route_choice: the offer is open, fresh and of the current plan.
Answerable(answer) ==
    LET t == answer.token
        a == offer[t].owner
    IN /\ status[t] = "offered" /\ ~answer.late
       /\ a \notin completed /\ route[a] = offer[t].plan
       /\ answer.action = "pv" => offer[t].alternative /\ request = NoRequest

\* Everything else changes nothing: a repeated answer, and one that is refused.
PersistAnswer(c) ==
    /\ stage = "idle" /\ call[c] \in Answer
    /\ LET t == call[c].token IN
       IF ~Answerable(call[c])
       THEN UNCHANGED <<status, request>>
       ELSE IF call[c].action = "automatic"
       THEN status' = [status EXCEPT ![t] = "declined"] /\ UNCHANGED request
       ELSE /\ status' = [status EXCEPT ![t] = "pending"]
            /\ request' = [kind |-> "choice", owner |-> offer[t].owner, token |-> t]
    /\ Returned(c)
    /\ UNCHANGED <<offer, route, completed, clock, stage, snap, mail, shown, history>>

\* release_route_choice: nothing to release, or another request pending, is no release.
PersistRelease(c) ==
    /\ stage = "idle" /\ call[c] \in GiveBack
    /\ LET a == call[c].owner
           selected == {t \in Owned(a) : status[t] = "selected"}
       IN IF selected = {} \/ a \in completed \/ call[c].late \/ route[a] = 0
             \/ request # NoRequest
          THEN UNCHANGED <<status, request, left>>
          ELSE /\ \E t \in selected :
                     /\ \A u \in selected : u <= t
                     /\ status' = [status EXCEPT ![t] = "released"]
               /\ request' = [kind |-> "release", owner |-> a]
               /\ left' = [left EXCEPT ![a] = "no"]
    /\ Returned(c)
    /\ UNCHANGED <<offer, route, completed, clock, stage, snap, mail, shown, plans,
                   recoveries, dropped>>

\* The write raises: the document is as it was, and a mailbox text is read again.
PersistFails(c) ==
    /\ "save_error" \in Faults
    /\ stage = "idle" /\ call[c] \in Answer \cup GiveBack
    /\ call' = [call EXCEPT ![c] = None]
    /\ mail' = IF c = "mailbox" /\ mail.state = "read" THEN [mail EXCEPT !.state = "new"]
               ELSE mail
    /\ UNCHANGED <<document, clock, stage, snap, shown, history>>

\* _last_response is set, then saved; a text written meanwhile differs from it.
SaveResponse ==
    /\ call["mailbox"] = Consumed
    /\ call' = [call EXCEPT !["mailbox"] = None]
    /\ \E saved \in {"taken"} \cup (IF "save_error" \in Faults THEN {"unsaved"} ELSE {}) :
          mail' = IF mail.state = "read" THEN [mail EXCEPT !.state = saved] ELSE mail
    /\ UNCHANGED <<document, clock, stage, snap, shown, history>>

\* request_planning_recovery: open assignments lose their route, the request is replaced,
\* and choices are left as they are.
Recover ==
    /\ stage = "idle" /\ recoveries < MaxRecoveries
    /\ recoveries' = recoveries + 1
    /\ route' = [a \in Assignments |-> IF a \in completed THEN route[a] ELSE 0]
    /\ left' = [a \in Assignments |-> IF a \in completed THEN left[a] ELSE "no"]
    /\ dropped' = IF request.kind = "choice" THEN dropped \cup {request.token} ELSE dropped
    /\ request' = Recovery
    /\ UNCHANGED <<status, offer, completed, clock, stage, snap, call, mail, shown, plans>>

-----------------------------------------------------------------------------
(* Time and the process. *)

\* Only an open or a pending offer is compared with its expiry again.
Expire(t) ==
    /\ status[t] \in {"offered", "pending"} /\ t \notin expired /\ ~Closed(offer[t].owner)
    /\ expired' = expired \cup {t}
    /\ UNCHANGED <<document, ended, stage, snap, call, mail, shown, history>>

\* An offer expires no later than its day ends; a completed assignment is over before.
EndDay(a) ==
    /\ ~Closed(a)
    /\ ended' = ended \cup {a}
    /\ expired' = expired \cup {t \in Owned(a) : status[t] \in {"offered", "pending"}}
    /\ UNCHANGED <<document, stage, snap, call, mail, shown, history>>

Restart ==
    /\ "crash" \in Faults
    /\ stage' = "idle" /\ snap' = None /\ call' = [c \in Callers |-> None]
    /\ mail' = IF mail = None \/ mail.state = "taken" THEN mail
               ELSE [mail EXCEPT !.state = "new"]
    /\ UNCHANGED <<document, clock, shown, history>>

Cycle ==
    \/ Capture \/ EndCycle \/ Retain \/ BindChoice \/ BindRelease \/ Settle
    \/ \E a \in Assignments : BindFirst(a) \/ BindRepair(a) \/ BindReview(a) \/ BindJoint(a)
    \/ \E t \in Tokens, alternative \in Alternatives : OfferRoute(t, alternative)

Answers ==
    \/ PollMailbox \/ SaveResponse \/ Recover
    \/ \E c \in Callers : PersistAnswer(c) \/ PersistRelease(c) \/ PersistFails(c)
    \/ \E a \in Assignments : ReleaseOnWeb(a)
    \/ \E action \in {"pv", "automatic"}, t \in Tokens :
          AskOnWeb(action, t) \/ Tap(action, t)

World ==
    \/ \E a \in Assignments : Complete(a) \/ EndDay(a)
    \/ \E t \in Tokens : Expire(t)
    \/ Restart

Next == Cycle \/ Answers \/ World

Spec == Init /\ [][Next]_vars

\* The loop captures again, and a planning is not superseded for ever.
Resolve == Retain \/ Settle \/ BindChoice \/ BindRelease
FairSpec == Spec /\ WF_vars(Capture) /\ WF_vars(EndCycle) /\ SF_vars(Resolve)

-----------------------------------------------------------------------------
(* Properties. *)

\* The planning request, the answer it was made for and what the user sees belong
\* together, over plans, restarts and the day's end: the request of a choice is of a
\* pending offer for the plan its assignment follows; only an assignment that is over or a
\* recovery leaves a pending offer without its request; and the view, which follows the
\* random order of the tokens, never hides an answer behind another offer.
ConsentIsOwned ==
    /\ request.kind = "choice" =>
          /\ status[request.token] = "pending"
          /\ offer[request.token].owner = request.owner
          /\ offer[request.token].plan = route[request.owner]
    /\ \A t \in Tokens : status[t] = "pending" =>
          \/ request = [kind |-> "choice", owner |-> offer[t].owner, token |-> t]
          \/ Closed(offer[t].owner) \/ t \in dropped
    /\ \A t \in Tokens : status[t] \in {"pending", "selected"} => t \in Last(offer[t].owner)

\* One question per assignment is open or in force; a closed one never gains authority
\* again, whoever repeats its answer; consent becomes a route in one step; and a route in
\* force is never left for price (RouteConsent).
Consent == INSTANCE RouteConsent WITH
    Questions <- Tokens,
    asked <- [a \in Assignments |->
                 {[stage |-> status[t], question |-> t] :
                     t \in {u \in Owned(a) : status[u] \in Live}}],
    spent <- {t \in Tokens : status[t] \in Final}

ImplementsConsent == Consent!Spec

\* An answer that was received is accepted or rejected, unless the assignment is over
\* first or a recovery replaced its request.
Outstanding(a) == ~Closed(a) /\ \E t \in Owned(a) \ dropped : status[t] = "pending"

ConsentIsAnswered == \A a \in Assignments : Outstanding(a) ~> ~Outstanding(a)

\* The user is asked about an alternative that is really offered
\* (route-choice-notifications.md), unless it expires or is replaced before.
OfferIsShown ==
    \A t \in Tokens :
        (status[t] = "offered" /\ offer[t].alternative)
            ~> (t \in shown \/ status[t] # "offered" \/ ViewStatus(t) = "expired")
=============================================================================
