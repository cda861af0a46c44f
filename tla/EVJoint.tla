------------------------------- MODULE EVJoint -------------------------------
(***************************************************************************)
(* The joint acceptance of an EV advice and a battery route, over both      *)
(* programs.  Energy Devices (EVSession) publishes its request and the      *)
(* advice the user executed on one Home Assistant sensor and fetches what   *)
(* HEMS published on another, every fifteen seconds; HEMS's EVDeadlineAdvisor *)
(* assesses a request on a worker thread and, on the main loop, has         *)
(* JointEVAdopter bind the battery's route and write a receipt.  The two    *)
(* share nothing else: each acts on a copy of what the other said.          *)
(*                                                                         *)
(* An age limit (300 s on an advice and a receipt, 60 s on the request, 240 s *)
(* on a proof) is a refusal that may come at any time.                     *)
(***************************************************************************)
EXTENDS EVSession

CONSTANT
    Faults      \* the faults this instance allows, a subset of AllFaults

AllFaults ==
    {"publish",   \* a state could not be written or read
     "crash",     \* HEMS stops; its proofs are lost, its store is not
     "replan",    \* another plan becomes active
     "refusal"}   \* fresh measurements refute a selection, or a message is too old

Envelopes == [request: Request \cup {None}, selected: Advice \cup {None}]

\* Of a plan that something rests on it matters only whether it is still active.
OfPlan == [advice: Advice, current: BOOLEAN]

\* Another plan has become active.
NoLonger(set) == {[x EXCEPT !.current = FALSE] : x \in set}

ASSUME EVJointAssumption ==
    /\ Faults \subseteq AllFaults
    /\ None \notin Envelopes \cup Message

VARIABLES
    edStep,      \* where exchange_once is
    held,        \* the envelope it publishes or the message it received
    sensor,      \* sensor.picot_ev_charging_request
    answer,      \* sensor.picot_ev_charging_advice
    hemsStep,    \* what holds EVDeadlineAdvisor.lock, and where it is
    envelope,    \* the envelope that thread read
    current,     \* the plan that was active when it read it still is
    stamps,      \* advices made so far
    proofs,      \* selections: what was published, in memory
    receipts,    \* joint_ev_receipts, in the commitment store
    told,        \* history: a blocked answer for the open session was received
    chosen, powered, withdrawn  \* history, for EVAcceptance

exchange == <<edStep, held, sensor, answer>>
advisor == <<hemsStep, envelope, current, stamps, proofs>>
history == <<chosen, powered, withdrawn>>
allvars == <<vars, exchange, advisor, receipts, told, history>>

JointTypeOK ==
    /\ Types
    /\ edStep \in {"idle", "publish", "fetch", "receive"}
    /\ held \in Envelopes \cup Message \cup {None}
    /\ sensor \in Envelopes \cup {None} /\ answer \in Message \cup {None}
    /\ hemsStep \in {"idle", "assess", "accept", "commit", "block"}
    /\ envelope \in Envelopes \cup {None} /\ current \in BOOLEAN
    /\ stamps \in 0..MaxStamp /\ proofs \subseteq OfPlan /\ receipts \subseteq OfPlan
    /\ told \in BOOLEAN
    /\ chosen \subseteq Advice /\ powered \subseteq Advice /\ withdrawn \subseteq Advice

JointInit ==
    /\ Init
    /\ edStep = "idle" /\ held = None /\ sensor = None /\ answer = None
    /\ hemsStep = "idle" /\ envelope = None /\ current = FALSE
    /\ stamps = 0 /\ proofs = {} /\ receipts = {} /\ told = FALSE
    /\ chosen = {} /\ powered = {} /\ withdrawn = {}

-----------------------------------------------------------------------------
(* exchange_once: publish, fetch, receive; the lock is held only within a call. *)

Exchange ==
    /\ edStep = "idle"
    /\ AdviceExchange
    /\ held' = Envelope /\ edStep' = "publish"
    /\ UNCHANGED <<sensor, answer, advisor, receipts, told>>

Publish ==
    /\ edStep = "publish"
    /\ sensor' = held /\ held' = None
    /\ edStep' = IF held.request = None THEN "idle" ELSE "fetch"
    /\ UNCHANGED <<vars, answer, advisor, receipts, told>>

Fetch ==
    /\ edStep = "fetch"
    /\ held' = answer
    /\ edStep' = IF answer = None THEN "idle" ELSE "receive"
    /\ UNCHANGED <<vars, sensor, answer, advisor, receipts, told>>

\* The part of receive_advice for a blocked answer, which shows its reason.
MatchesBlocked(m) ==
    m.execution_status = "blocked" /\ MatchesExecuted(m) /\ request.state = "accepted"

TakeBlocked(m) ==
    /\ MatchesBlocked(m)
    /\ told' = TRUE /\ UNCHANGED vars

Receive ==
    /\ edStep = "receive"
    /\ \/ ReceiveAdvice(held) /\ told' = (told /\ held.execution_status # "committed")
       \/ TakeBlocked(held)
    /\ edStep' = "idle" /\ held' = None
    /\ UNCHANGED <<sensor, answer, advisor, receipts>>

\* A message that is refused, a request that fails, or a restart.
Matches(m) == MatchesRequest(m) \/ MatchesReceipt(m) \/ MatchesBlocked(m)

ExchangeEnds ==
    /\ \/ edStep = "receive" /\ ("refusal" \in Faults \/ ~Matches(held))
       \/ edStep \in {"publish", "fetch"} /\ "publish" \in Faults
    /\ edStep' = "idle" /\ held' = None
    /\ UNCHANGED <<vars, sensor, answer, advisor, receipts, told>>

-----------------------------------------------------------------------------
(* EVDeadlineAdvisor.refresh, on its worker thread.                         *)

Waiting(e) == e # None /\ e.request # None /\ e.request.state = "requested"

AssessRead ==
    /\ hemsStep = "idle" /\ Waiting(sensor)
    /\ hemsStep' = "assess" /\ envelope' = sensor /\ current' = TRUE
    /\ UNCHANGED <<vars, exchange, stamps, proofs, receipts, told>>

\* The request is read again before the result of the assessment is published.
Assessed(joint) ==
    [session_id |-> envelope.request.session_id,
     request_revision |-> envelope.request.request_revision,
     stamp |-> stamps', joint |-> joint]

AssessPublish(joint) ==
    /\ hemsStep = "assess" /\ stamps < MaxStamp
    /\ sensor.request = envelope.request
    /\ stamps' = stamps + 1
    /\ proofs' = IF joint THEN proofs \cup {[advice |-> Assessed(joint), current |-> current]}
                 ELSE proofs
    /\ \/ answer' = [execution_status |-> "advice", advice |-> Assessed(joint)]
       \/ "publish" \in Faults /\ answer' = answer
    /\ hemsStep' = "idle" /\ envelope' = None /\ current' = FALSE
    /\ UNCHANGED <<vars, edStep, held, sensor, receipts, told>>

AssessEnds ==
    /\ hemsStep = "assess"
    /\ hemsStep' = "idle" /\ envelope' = None /\ current' = FALSE
    /\ UNCHANGED <<vars, exchange, stamps, proofs, receipts, told>>

-----------------------------------------------------------------------------
(* accept_pending, on the main loop, and JointEVAdopter.                    *)

Accepted(e) ==
    /\ e # None /\ e.request # None /\ e.request.state = "accepted"
    /\ e.selected # None /\ e.selected.joint
    /\ e.selected.session_id = e.request.session_id
    /\ e.selected.request_revision = e.request.request_revision

Selected == envelope.selected

\* The slot has begun; of a session that is over nothing is known here.
SlotPassed ==
    IF Opened /\ session.accepted = Selected THEN {session.phase # "before"} ELSE BOOLEAN

AcceptRead ==
    /\ hemsStep = "idle" /\ Accepted(sensor)
    /\ hemsStep' = "accept" /\ envelope' = sensor
    /\ UNCHANGED <<vars, exchange, current, stamps, proofs, receipts, told>>

Receipt == {r \in receipts : r.advice = Selected /\ r.current}
Proof == {p \in proofs : p.advice = Selected}

Committed == hemsStep' = "commit" /\ UNCHANGED <<receipts, proofs>>

\* Mutant: the route is adopted and no receipt is written.
AdoptUnsaved ==
    /\ Receipt = {} /\ sensor = envelope
    /\ \E p \in Proof : p.current
    /\ UNCHANGED <<receipts, proofs>>
    /\ hemsStep' = "commit"

Bound == {[advice |-> Selected, current |-> TRUE]}

\* adopt: the retained plan is still active; the route and the receipt are one write.
\* The route is the retained plan's, or a rebuilt one that becomes active.
Adopt ==
    /\ Receipt = {} /\ sensor = envelope
    /\ \E p \in Proof : p.current
    /\ \A r \in receipts : r.advice # Selected
    /\ \/ receipts' = receipts \cup Bound /\ UNCHANGED proofs
       \/ receipts' = NoLonger(receipts) \cup Bound /\ proofs' = NoLonger(proofs)
    /\ hemsStep' = "commit"

\* Mutant: a proof that a restart has lost is no reason to answer.
RefusedWithProof ==
    \/ TRUE \in SlotPassed
    \/ /\ Receipt = {} /\ Proof # {} /\ sensor = envelope
       /\ \/ \A p \in Proof : ~p.current
          \/ \E r \in receipts : r.advice = Selected
          \/ "refusal" \in Faults

\* Every check that raises: a slot that has begun, no proof, another owner, a
\* selection that fresh measurements refute.
Refused ==
    \/ TRUE \in SlotPassed
    \/ /\ Receipt = {}
       /\ \/ Proof = {}
          \/ sensor = envelope /\ \A p \in Proof : ~p.current
          \/ sensor = envelope /\ \E r \in receipts : r.advice = Selected
          \/ sensor = envelope /\ "refusal" \in Faults

AcceptDecide ==
    /\ hemsStep = "accept"
    /\ \/ FALSE \in SlotPassed /\ Receipt # {} /\ Committed
       \/ FALSE \in SlotPassed /\ Adopt
       \/ Refused /\ hemsStep' = "block" /\ UNCHANGED <<receipts, proofs>>
    /\ UNCHANGED <<vars, exchange, envelope, current, stamps, told>>

\* The request changed between the two reads, or the envelope is too old.
AcceptEnds ==
    /\ hemsStep = "accept"
    /\ \/ FALSE \in SlotPassed /\ Receipt = {} /\ Proof # {} /\ sensor # envelope
       \/ "refusal" \in Faults
    /\ hemsStep' = "idle" /\ envelope' = None
    /\ UNCHANGED <<vars, exchange, current, stamps, proofs, receipts, told>>

\* A receipt that could not be published is followed by a blocked answer.
AcceptPublish ==
    /\ hemsStep \in {"commit", "block"}
    /\ answer' = [execution_status |-> IF hemsStep = "commit" THEN "committed" ELSE "blocked",
                  advice |-> Selected]
    /\ hemsStep' = "idle" /\ envelope' = None
    /\ UNCHANGED <<vars, edStep, held, sensor, current, stamps, proofs, receipts, told>>

AcceptPublishFails ==
    /\ "publish" \in Faults
    /\ \/ hemsStep = "commit" /\ hemsStep' = "block" /\ envelope' = envelope
       \/ hemsStep = "block" /\ hemsStep' = "idle" /\ envelope' = None
    /\ UNCHANGED <<vars, exchange, current, stamps, proofs, receipts, told>>

-----------------------------------------------------------------------------
\* The main loop activates another plan; not while accept_pending runs on it.
Replan ==
    /\ "replan" \in Faults /\ hemsStep \in {"idle", "assess"}
    /\ receipts' = NoLonger(receipts) /\ proofs' = NoLonger(proofs)
    /\ current' = FALSE
    /\ UNCHANGED <<vars, exchange, hemsStep, envelope, stamps, told>>

Crash ==
    /\ "crash" \in Faults
    /\ hemsStep' = "idle" /\ envelope' = None /\ current' = FALSE /\ proofs' = {}
    /\ UNCHANGED <<vars, exchange, stamps, receipts, told>>

\* What Energy Devices does besides the exchange.
Local ==
    /\ Manager
    /\ told' = (told /\ session' # None /\ session'.joint_pending)
    /\ UNCHANGED <<exchange, advisor, receipts>>

Hems ==
    \/ AssessRead \/ AssessEnds \/ (\E joint \in BOOLEAN : AssessPublish(joint))
    \/ AcceptRead \/ AcceptDecide \/ AcceptEnds \/ AcceptPublish \/ AcceptPublishFails
    \/ Replan \/ Crash

Joint(s) == IF s # None /\ s.accepted # None /\ s.accepted.joint THEN {s.accepted} ELSE {}
Over(s) == s # None /\ (s.state \in CLOSED \/ s.cancel_requested)

Recorded ==
    /\ chosen' = chosen \cup Joint(session')
    /\ powered' = powered \cup (IF OrdersOn THEN Joint(session') ELSE {})
    /\ withdrawn' = withdrawn \cup (IF Over(session') THEN Joint(session') ELSE {})

JointNext ==
    /\ \/ Local \/ Exchange \/ Publish \/ Fetch \/ Receive \/ ExchangeEnds
       \/ Hems
    /\ Recorded

JointSpec == JointInit /\ [][JointNext]_allvars

-----------------------------------------------------------------------------
(* Properties.                                                             *)

\* Both programs together keep the promise of EVAcceptance, through copies, lost and
\* repeated messages, crashes, cancellations and other plans: one advice is
\* executed at a time, a route is bound only to an executed advice and once, and
\* the charger is ordered on only for a bound one that was not cancelled.
Acceptance == INSTANCE EVAcceptance WITH
    Advices <- Advice, bound <- {r.advice : r \in receipts}
ImplementsAcceptance == Acceptance!Spec

\* A run that may take power has its receipt in HEMS's store.
ConfirmedIsBound ==
    Opened /\ session.confirmed /\ Joint(session) # {} =>
        \E r \in receipts : r.advice = session.accepted

\* Both loops go on; and a state that can be written or read again and again, or a
\* message that is not too old again and again, once is.
ExchangeSteps == Exchange \/ Publish \/ Fetch \/ Receive \/ ExchangeEnds
HemsSteps ==
    \/ AssessEnds \/ (\E joint \in BOOLEAN : AssessPublish(joint))
    \/ AcceptRead \/ AcceptDecide \/ AcceptEnds \/ AcceptPublish \/ AcceptPublishFails

FairJoint ==
    /\ WF_allvars(ExchangeSteps /\ Recorded) /\ WF_allvars(HemsSteps /\ Recorded)
    /\ SF_allvars(Publish /\ Recorded) /\ SF_allvars(Fetch /\ Recorded)
    /\ SF_allvars(Receive /\ Recorded) /\ SF_allvars(AcceptRead /\ Recorded)
    /\ SF_allvars(AcceptDecide /\ Recorded) /\ SF_allvars(AcceptPublish /\ Recorded)

FairJointSpec == JointSpec /\ FairJoint

\* An executed joint advice does not wait in silence: it is confirmed, cancelled, or
\* a reason why it is not is received, or its slot begins.
PendingIsAnswered ==
    (Opened /\ session.joint_pending) ~>
        (~Opened \/ ~session.joint_pending \/ session.cancel_requested \/ told
         \/ session.phase # "before")
=============================================================================
