-------------------------- MODULE LiveCycleProof --------------------------
(***************************************************************************)
(* What LiveCycle promises for any set of sources and any bound: its type, *)
(* that an admitted planning may start, and that no compared change is     *)
(* forgotten.                                                              *)
(***************************************************************************)
EXTENDS LiveCycle, TLAPS

(* The session's methods *)

\* Every method of the session returns a session.
LEMMA SessionMethods ==
    ASSUME NEW m \in Session, NEW e \in BOOLEAN
    PROVE  /\ \A r \in SUBSET Requests : Observe(m, r, e) \in Session
           /\ \A s \in Sources, v \in Outcomes : ObserveOutcome(m, s, v, e) \in Session
           /\ StartPlannerRun(m) \in Session
           /\ \A c \in BOOLEAN : FinishRequestedRun(m, c) \in Session
<1> DEFINE Outcome == Outcomes \cup {"failed", None}
<1>1. /\ m.planner \in {"idle", "running", "stabilising"}
      /\ m.requests \in SUBSET Requests
      /\ m.outcomes \in [AllSources -> Outcome]
  BY DEF Session
<1>2. PlannerState(m, e) \in {"idle", "running", "stabilising"}
  BY <1>1 DEF PlannerState
<1>3. \A r \in SUBSET Requests : Observe(m, r, e) \in Session
  BY <1>1, <1>2 DEF Observe, Session
<1>4. ASSUME NEW s \in Sources, NEW v \in Outcomes
      PROVE  ObserveOutcome(m, s, v, e) \in Session
  <2>1. Known(m, v) \in [AllSources -> Outcome]
    BY <1>1 DEF Known
  <2>2. [Known(m, v) EXCEPT ![s] = v] \in [AllSources -> Outcome]
    BY <2>1
  <2>3. m.requests \cup Heard(m, s, v) \in SUBSET Requests
    BY <1>1 DEF Heard, Requests, AllSources
  <2> QED  BY <1>2, <2>2, <2>3 DEF ObserveOutcome, Session
<1>5. StartPlannerRun(m) \in Session
  BY <1>1 DEF StartPlannerRun, Session
<1>6. ASSUME NEW c \in BOOLEAN
      PROVE  FinishRequestedRun(m, c) \in Session
  <2>1. /\ [m.outcomes EXCEPT ![Planner] = None] \in [AllSources -> Outcome]
        /\ [m.outcomes EXCEPT ![Planner] = "failed"] \in [AllSources -> Outcome]
    BY <1>1
  <2>2. m.requests \cup {Planner} \in SUBSET Requests
    BY <1>1 DEF Requests, AllSources
  <2> QED  BY <1>1, <2>1, <2>2 DEF FinishRequestedRun, Session
<1> QED  BY <1>3, <1>4, <1>5, <1>6

\* Only the start of a planning drops a pending request, and no observation
\* makes an idle session leave idle.
LEMMA RequestsStay ==
    ASSUME NEW m \in Session, NEW e \in BOOLEAN
    PROVE  /\ \A r \in SUBSET Requests :
                /\ m.requests \cup r = Observe(m, r, e).requests
                /\ m.planner = "idle" => Observe(m, r, e).planner = "idle"
           /\ \A s \in Sources, v \in Outcomes :
                /\ m.requests \subseteq ObserveOutcome(m, s, v, e).requests
                /\ m.planner = "idle" => ObserveOutcome(m, s, v, e).planner = "idle"
           /\ \A c \in BOOLEAN : m.requests \subseteq FinishRequestedRun(m, c).requests
  BY DEF Session, Observe, ObserveOutcome, FinishRequestedRun, PlannerState

-----------------------------------------------------------------------------
(* Type correctness *)

\* The boundary check leaves a session, in the world as it is or the next one.
LEMMA ServicedType ==
    ASSUME TypeOK, NEW completes \in BOOLEAN, Serviced(completes)
    PROVE  /\ monitor' \in Session
           /\ world' \in 1 .. MaxWorld + 1 /\ world <= world'
           /\ completes => world' = world + 1
  BY SessionMethods, LiveCycleAssumption DEF TypeOK, Serviced, Completes

\* What ObserveInput asks for is a set of requests.
LEMMA RequestsOfType == \A version : RequestsOf(version) \in SUBSET Requests
  BY DEF RequestsOf, Requests

LEMMA InitType == Init => TypeOK
  <1> SUFFICES ASSUME Init PROVE TypeOK
    OBVIOUS
  <1>1. NewSession \in Session
    BY DEF NewSession, Session
  <1>2. world \in 1 .. MaxWorld + 1 /\ 0 \in 0 .. world
    BY LiveCycleAssumption DEF Init
  <1> QED  BY <1>1, <1>2 DEF Init, TypeOK, PCs

LEMMA NextType == TypeOK /\ [Next]_vars => TypeOK'
<1> SUFFICES ASSUME TypeOK, [Next]_vars PROVE TypeOK'
  OBVIOUS
<1> USE LiveCycleAssumption
<1>1. CASE Poll
  <2>1. planned' \in BOOLEAN
    BY <1>1 DEF Poll
  <2>2. bundle' \in 0 .. world'
    BY <1>1 DEF Poll, TypeOK
  <2> QED  BY <1>1, <2>1, <2>2 DEF Poll, TypeOK, PCs
<1>2. CASE ObserveInput
  <2>1. monitor' \in Session
    BY <1>2, SessionMethods, RequestsOfType DEF ObserveInput, TypeOK
  <2> QED  BY <1>2, <2>1 DEF ObserveInput, TypeOK, PCs, FreshSnapshotRequired
<1>3. CASE Recapture
  <2>1. pc' \in {"boundary", "publish", "decide"}
    BY <1>3 DEF Recapture, AfterRecapture
  <2> QED  BY <1>3, <2>1 DEF Recapture, TypeOK, PCs
<1>4. CASE ServiceBoundary
  <2>1. PICK completes \in BOOLEAN : Serviced(completes)
    BY <1>4 DEF ServiceBoundary
  <2>2. monitor' \in Session /\ world' \in 1 .. MaxWorld + 1 /\ world <= world'
    BY <2>1, ServicedType
  <2>3. pc' \in {"recapture_completion", "publish"}
    BY <1>4 DEF ServiceBoundary
  <2> QED  BY <1>4, <2>2, <2>3 DEF ServiceBoundary, TypeOK, PCs
<1>5. CASE NoRouteAccepted
  BY <1>5 DEF NoRouteAccepted, TypeOK, PCs
<1>6. CASE RouteAccepted
  <2>1. monitor' \in Session
    BY <1>6, SessionMethods DEF RouteAccepted, TypeOK, Requests
  <2>2. force' \in BOOLEAN
    BY <1>6 DEF RouteAccepted, FreshSnapshotRequired
  <2>3. /\ world' \in 1 .. MaxWorld + 1
        /\ bundle \in 0 .. world' /\ observed \in 0 .. world' /\ answered \in 0 .. world'
    BY <1>6 DEF RouteAccepted, TypeOK
  <2> QED  BY <1>6, <2>1, <2>2, <2>3 DEF RouteAccepted, TypeOK, PCs
<1>7. CASE NoPlanning
  BY <1>7 DEF NoPlanning, TypeOK, PCs
<1>8. CASE StartPlanning
  <2>1. monitor' \in Session
    BY <1>8, SessionMethods DEF StartPlanning, TypeOK
  <2> QED  BY <1>8, <2>1 DEF StartPlanning, TypeOK, PCs
<1>9. CASE Checkpoint
  <2>1. PICK completes \in BOOLEAN :
          /\ Serviced(completes)
          /\ IF completes THEN pc' = "finish" /\ completed' = FALSE
                          ELSE UNCHANGED <<pc, completed>>
    BY <1>9 DEF Checkpoint
  <2>2. monitor' \in Session /\ world' \in 1 .. MaxWorld + 1 /\ world <= world'
    BY <2>1, ServicedType
  <2>3. pc' \in PCs /\ completed' \in BOOLEAN
    BY <2>1 DEF TypeOK, PCs
  <2> QED  BY <1>9, <2>2, <2>3 DEF Checkpoint, TypeOK
<1>10. CASE ApplyResult
  <2>1. monitor' \in Session /\ completed' \in BOOLEAN
    BY <1>10, SessionMethods DEF ApplyResult, TypeOK
  <2>2. world' \in 1 .. MaxWorld + 1 /\ world <= world'
    BY <1>10 DEF ApplyResult, Completes, TypeOK
  <2>3. answered' \in 0 .. world' /\ bundle' \in 0 .. world' /\ observed' \in 0 .. world'
    BY <1>10, <2>2 DEF ApplyResult, TypeOK
  <2> QED  BY <1>10, <2>1, <2>2, <2>3 DEF ApplyResult, TypeOK, PCs
<1>11. CASE FinishPlanning
  <2>1. monitor' \in Session
    BY <1>11, SessionMethods DEF FinishPlanning, TypeOK
  <2> QED  BY <1>11, <2>1 DEF FinishPlanning, TypeOK, PCs
<1>12. CASE WorldChanges
  BY <1>12 DEF WorldChanges, TypeOK
<1>13. CASE ResetRequested
  BY <1>13 DEF ResetRequested, TypeOK
<1>14. CASE StabilisationElapses
  BY <1>14 DEF StabilisationElapses, TypeOK
<1>15. CASE Crash
  <2>1. NewSession \in Session
    BY DEF NewSession, Session
  <2>2. 0 \in 0 .. world
    BY DEF TypeOK
  <2> QED  BY <1>15, <2>1, <2>2 DEF Crash, TypeOK, PCs
<1>16. CASE UNCHANGED vars
  BY <1>16 DEF vars, TypeOK
<1> QED  BY <1>1, <1>2, <1>3, <1>4, <1>5, <1>6, <1>7, <1>8, <1>9, <1>10, <1>11,
            <1>12, <1>13, <1>14, <1>15, <1>16 DEF Next, Loop

\* The loop and its session keep their types; with it, the states the records
\* of domain/runtime.py refuse to represent are never built.
THEOREM TypeCorrect == Spec => []TypeOK
<1> QED  BY InitType, NextType, PTL DEF Spec

-----------------------------------------------------------------------------
(* An admitted planning may start *)

\* What the boundary reports neither drops a request nor ends idleness.
LEMMA ServicedKeepsRequests ==
    ASSUME TypeOK, NEW completes \in BOOLEAN, Serviced(completes)
    PROVE  /\ monitor.requests \subseteq monitor'.requests
           /\ monitor.planner = "idle" => monitor'.planner = "idle"
  BY RequestsStay DEF TypeOK, Serviced

LEMMA NextAdmission == TypeOK /\ AdmissionStands /\ [Next]_vars => AdmissionStands'
<1> SUFFICES ASSUME TypeOK, AdmissionStands, [Next]_vars PROVE AdmissionStands'
  OBVIOUS
<1>1. CASE Poll
  BY <1>1 DEF Poll, AdmissionStands
<1>2. CASE ObserveInput
  BY <1>2 DEF ObserveInput, AdmissionStands, FreshSnapshotRequired
<1>3. CASE Recapture
  BY <1>3 DEF Recapture, AfterRecapture, AdmissionStands
<1>4. CASE ServiceBoundary
  <2>1. /\ monitor.requests \subseteq monitor'.requests
        /\ monitor.planner = "idle" => monitor'.planner = "idle"
    BY <1>4, ServicedKeepsRequests DEF ServiceBoundary
  <2> QED  BY <1>4, <2>1 DEF ServiceBoundary, AdmissionStands
<1>5. CASE NoRouteAccepted
  BY <1>5 DEF NoRouteAccepted, AdmissionStands
<1>6. CASE RouteAccepted
  BY <1>6 DEF RouteAccepted, AdmissionStands, FreshSnapshotRequired
<1>7. CASE NoPlanning \/ StartPlanning
  BY <1>7 DEF NoPlanning, StartPlanning, AdmissionStands
<1>8. CASE Checkpoint \/ ApplyResult \/ FinishPlanning
  BY <1>8 DEF Checkpoint, ApplyResult, FinishPlanning, AdmissionStands
<1>9. CASE WorldChanges \/ ResetRequested \/ StabilisationElapses \/ UNCHANGED vars
  BY <1>9 DEF WorldChanges, ResetRequested, StabilisationElapses, vars, AdmissionStands
<1>10. CASE Crash
  BY <1>10 DEF Crash, AdmissionStands
<1> QED  BY <1>1, <1>2, <1>3, <1>4, <1>5, <1>6, <1>7, <1>8, <1>9, <1>10 DEF Next, Loop

\* Between the decision to plan and the start of the planning nothing makes
\* start_requested_run raise, so that exception never ends the loop.
THEOREM AdmissionIsStable == Spec => []AdmissionStands
<1>1. Init => AdmissionStands
  BY DEF Init, AdmissionStands
<1> QED  BY <1>1, NextAdmission, TypeCorrect, PTL DEF Spec

-----------------------------------------------------------------------------
(* No change is forgotten *)

\* Why: a capture is never older than the comparison before it.
Captured == pc # "wait" => bundle >= observed

LEMMA NextCaptured == TypeOK /\ Captured /\ [Next]_vars => Captured'
<1> SUFFICES ASSUME TypeOK, Captured, [Next]_vars PROVE Captured'
  OBVIOUS
<1>1. CASE Poll \/ ObserveInput
  BY <1>1 DEF Poll, ObserveInput, Captured, TypeOK
<1>2. CASE Recapture
  BY <1>2 DEF Recapture, AfterRecapture, Captured, TypeOK
<1>3. CASE ServiceBoundary \/ NoRouteAccepted \/ RouteAccepted \/ NoPlanning \/ StartPlanning
  BY <1>3 DEF ServiceBoundary, NoRouteAccepted, RouteAccepted, NoPlanning, StartPlanning,
              Captured, TypeOK
<1>4. CASE Checkpoint
  <2>1. PICK completes \in BOOLEAN :
          /\ Serviced(completes)
          /\ IF completes THEN pc' = "finish" /\ completed' = FALSE
                          ELSE UNCHANGED <<pc, completed>>
    BY <1>4 DEF Checkpoint
  <2>2. world <= world' /\ (completes => world' = world + 1) /\ world' \in 1 .. MaxWorld + 1
    BY <2>1, ServicedType
  <2> QED  BY <1>4, <2>1, <2>2, LiveCycleAssumption DEF Checkpoint, Captured, TypeOK
<1>5. CASE ApplyResult
  BY <1>5 DEF ApplyResult, Captured, TypeOK
<1>6. CASE FinishPlanning \/ Crash
  BY <1>6 DEF FinishPlanning, Crash, Captured, TypeOK
<1>7. CASE WorldChanges \/ ResetRequested
  BY <1>7, LiveCycleAssumption DEF WorldChanges, ResetRequested, Captured, TypeOK
<1>8. CASE StabilisationElapses \/ UNCHANGED vars
  BY <1>8 DEF StabilisationElapses, vars, Captured, TypeOK
<1> QED  BY <1>1, <1>2, <1>3, <1>4, <1>5, <1>6, <1>7, <1>8 DEF Next, Loop

LEMMA NextForgets ==
    TypeOK /\ Captured /\ NoChangeForgotten /\ [Next]_vars => NoChangeForgotten'
<1> SUFFICES ASSUME TypeOK, Captured, NoChangeForgotten, [Next]_vars
             PROVE  NoChangeForgotten'
  OBVIOUS
<1>1. CASE Poll \/ Recapture \/ NoRouteAccepted \/ NoPlanning
  BY <1>1 DEF Poll, Recapture, AfterRecapture, NoRouteAccepted, NoPlanning, NoChangeForgotten
<1>2. CASE ObserveInput
  <2>1. monitor'.requests = monitor.requests \cup RequestsOf(bundle)
    BY <1>2, RequestsStay, RequestsOfType DEF ObserveInput, TypeOK
  <2>2. CASE bundle = observed
    BY <1>2, <2>1, <2>2 DEF ObserveInput, NoChangeForgotten
  <2>3. CASE bundle # observed
    <3>1. "change" \in RequestsOf(bundle)
      BY <2>3 DEF RequestsOf
    <3> QED  BY <2>1, <3>1 DEF NoChangeForgotten
  <2> QED  BY <2>2, <2>3
<1>3. CASE ServiceBoundary
  <2>1. /\ monitor.requests \subseteq monitor'.requests
        /\ world <= world' /\ world' \in 1 .. MaxWorld + 1
    BY <1>3, ServicedKeepsRequests, ServicedType DEF ServiceBoundary
  <2> QED
    BY <1>3, <2>1, LiveCycleAssumption DEF ServiceBoundary, NoChangeForgotten, TypeOK
<1>4. CASE RouteAccepted
  <2>1. monitor'.requests = monitor.requests \cup {"joint"}
    BY <1>4, RequestsStay DEF RouteAccepted, TypeOK, Requests
  <2> QED  BY <2>1 DEF NoChangeForgotten
<1>5. CASE StartPlanning
  BY <1>5 DEF StartPlanning, NoChangeForgotten, Captured
<1>6. CASE Checkpoint
  <2>1. PICK completes \in BOOLEAN :
          /\ Serviced(completes)
          /\ IF completes THEN pc' = "finish" /\ completed' = FALSE
                          ELSE UNCHANGED <<pc, completed>>
    BY <1>6 DEF Checkpoint
  <2>2. /\ monitor.requests \subseteq monitor'.requests
        /\ world' \in 1 .. MaxWorld + 1 /\ world <= world'
        /\ completes => world' = world + 1
    BY <2>1, ServicedKeepsRequests, ServicedType
  <2>3. CASE completes
    <3>1. observed' = observed /\ world' > observed
      BY <1>6, <2>2, <2>3 DEF Checkpoint, TypeOK
    <3> QED  BY <3>1 DEF NoChangeForgotten
  <2>4. CASE ~completes
    BY <1>6, <2>1, <2>2, <2>4 DEF Checkpoint, NoChangeForgotten, TypeOK
  <2> QED  BY <2>3, <2>4
<1>7. CASE ApplyResult
  BY <1>7 DEF ApplyResult, NoChangeForgotten, Captured, TypeOK
<1>8. CASE FinishPlanning
  <2>1. monitor.requests \subseteq monitor'.requests
    BY <1>8, RequestsStay DEF FinishPlanning, TypeOK
  <2> QED  BY <1>8, <2>1 DEF FinishPlanning, NoChangeForgotten
<1>9. CASE WorldChanges \/ ResetRequested
  BY <1>9, LiveCycleAssumption DEF WorldChanges, ResetRequested, NoChangeForgotten, TypeOK
<1>10. CASE StabilisationElapses \/ UNCHANGED vars
  BY <1>10 DEF StabilisationElapses, vars, NoChangeForgotten
<1>11. CASE Crash
  BY <1>11 DEF Crash, NoChangeForgotten, TypeOK
<1> QED  BY <1>1, <1>2, <1>3, <1>4, <1>5, <1>6, <1>7, <1>8, <1>9, <1>10, <1>11
         DEF Next, Loop

\* Whatever interleaving of captures, comparisons, completions, accepted routes,
\* resets and restarts: a material change that was compared is planned for, being
\* planned for, asked for, or followed by a newer one.
THEOREM ChangesAreAnswered == Spec => []NoChangeForgotten
<1>1. Init => Captured /\ NoChangeForgotten
  BY DEF Init, Captured, NoChangeForgotten
<1> QED  BY <1>1, NextCaptured, NextForgets, TypeCorrect, PTL DEF Spec
=============================================================================
