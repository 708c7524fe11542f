--------------------------- MODULE DispatchProofs ---------------------------
(***************************************************************************)
(* Theorems of module Dispatch, for every number of incidents, reports,    *)
(* work orders, workers and mutations.                                     *)
(***************************************************************************)
EXTENDS Dispatch, LifecycleProofs, FiniteSetTheorems, TLAPS

------------------------------------------------------------------------------
(***************************************************************************)
(* What the shared row updates do to the types of the tables.              *)
(***************************************************************************)
WorkOrdersOK == workOrder \in [WorkOrders -> WorkOrderRow \cup {None}]
IncidentsOK == incident \in [Incidents -> IncidentRow]
ReportsOK == report \in [Reports -> IntakeStatus]
SyncLogOK == syncLog \in [Mutations -> SyncLogRow \cup {None}]
ReviewsOK == review \in [Mutations -> ReviewRow \cup {None}]

LEMMA ExistingRow ==
  ASSUME TypeOK, NEW o \in WorkOrders, Exists(o)
  PROVE  /\ workOrder[o] \in WorkOrderRow
         /\ workOrder[o].status \in WorkOrderStatus
         /\ workOrder[o].incident \in Incidents
         /\ workOrder[o].worker \in Workers \cup {None}
         /\ workOrder[o].proof \in Proofs
<1>1. workOrder[o] \in WorkOrderRow
  BY DEF TypeOK, Exists
<1>2. QED BY <1>1 DEF WorkOrderRow

LEMMA IncidentFields ==
  ASSUME IncidentsOK, NEW i \in Incidents
  PROVE  /\ incident[i] \in IncidentRow
         /\ incident[i].status \in IncidentStatus
         /\ incident[i].proof \in Proofs
         /\ incident[i].deadline \in Nat \cup {None}
  BY DEF IncidentsOK, IncidentRow

LEMMA RecomputeType ==
  ASSUME ReportsOK, IncidentsOK', NEW changed, RecomputeReports(changed)
  PROVE  ReportsOK'
<1>1. \A r \in Reports : Aggregate(incident', r) \in IntakeStatus
  <2>1. SUFFICES ASSUME NEW r \in Reports
                 PROVE  Aggregate(incident', r) \in IntakeStatus
    OBVIOUS
  <2>2. {incident'[i].status : i \in ChildrenOf(r)} \in SUBSET IncidentStatus
    BY DEF ChildrenOf, IncidentsOK, IncidentRow
  <2>3. QED BY <2>2, AggregateType DEF Aggregate
<1>2. QED BY <1>1 DEF RecomputeReports, ReportsOK

LEMMA UpdateWorkOrderType ==
  ASSUME TypeOK, NEW o \in WorkOrders, Exists(o),
         NEW status \in WorkOrderStatus, NEW worker \in Workers \cup {None},
         NEW evidence \in Proofs, UpdateWorkOrder(o, status, worker, evidence)
  PROVE  WorkOrdersOK' /\ Exists(o)'
<1>1. [status |-> status, incident |-> workOrder[o].incident,
       worker |-> worker, proof |-> evidence] \in WorkOrderRow
  BY ExistingRow DEF WorkOrderRow
<1>2. QED BY <1>1, NoneAssumption
          DEF UpdateWorkOrder, TypeOK, WorkOrdersOK, Exists

LEMMA SetWorkOrderType ==
  ASSUME TypeOK, NEW o \in WorkOrders, Exists(o),
         NEW status \in WorkOrderStatus, NEW evidence \in Proofs,
         SetWorkOrder(o, status, evidence)
  PROVE  WorkOrdersOK' /\ Exists(o)'
BY ExistingRow, UpdateWorkOrderType DEF SetWorkOrder

LEMMA ProgressIncidentType ==
  ASSUME TypeOK, NEW i \in Incidents, NEW status \in IncidentStatus,
         ProgressIncident(i, status)
  PROVE  IncidentsOK'
<1>1. [status |-> status, proof |-> incident[i].proof,
       deadline |-> incident[i].deadline] \in IncidentRow
  BY IncidentFields DEF IncidentRow, TypeOK, IncidentsOK
<1>2. QED BY <1>1 DEF ProgressIncident, TypeOK, IncidentsOK

LEMMA ResolveIncidentType ==
  ASSUME TypeOK, NEW i \in Incidents, NEW s \in Submissions, NEW t \in Nat,
         ResolveIncident(i, s, t)
  PROVE  IncidentsOK'
<1>1. [status |-> "resolved", proof |-> s, deadline |-> t + ConfirmWindow]
        \in IncidentRow
  BY ConstantsAssumption DEF IncidentRow, IncidentStatus, Proofs
<1>2. QED BY <1>1 DEF ResolveIncident, TypeOK, IncidentsOK

LEMMA LogMutationType ==
  ASSUME TypeOK, NEW m \in Mutations, NEW o \in WorkOrders,
         NEW status \in {"applied", "conflict", "rejected"},
         NEW reason \in ConflictReasons \cup RejectReasons \cup {None},
         NEW evidence \in Proofs, LogMutation(m, status, reason, o, evidence)
  PROVE  SyncLogOK'
<1>1. [status |-> status, reason |-> reason, order |-> o,
       evidence |-> evidence] \in SyncLogRow
  BY DEF SyncLogRow
<1>2. QED BY <1>1 DEF LogMutation, TypeOK, SyncLogOK

(***************************************************************************)
(* A transaction that moves a set of incidents (citizen feedback, cron).   *)
(***************************************************************************)
LEMMA MoveSetType ==
  ASSUME TypeOK, NEW status \in IncidentStatus, NEW moved,
         incident' = [i \in Incidents |->
                        IF i \in moved
                          THEN [status |-> status, proof |-> incident[i].proof,
                                deadline |-> incident[i].deadline]
                          ELSE incident[i]]
  PROVE  IncidentsOK'
<1>1. \A i \in Incidents :
        [status |-> status, proof |-> incident[i].proof,
         deadline |-> incident[i].deadline] \in IncidentRow
  BY IncidentFields DEF IncidentRow, TypeOK, IncidentsOK
<1>2. \A i \in Incidents : incident[i] \in IncidentRow
  BY DEF TypeOK
<1>3. QED BY <1>1, <1>2 DEF IncidentsOK

------------------------------------------------------------------------------
(***************************************************************************)
(* Type correctness.                                                       *)
(***************************************************************************)
LEMMA InitType == Init => TypeOK
  BY DEF Init, TypeOK, IncidentRow, IncidentStatus, IntakeStatus, Proofs

LEMMA NextType == TypeOK /\ ReviewMatchesLog /\ [Next]_vars => TypeOK'
<1> SUFFICES ASSUME TypeOK, ReviewMatchesLog, [Next]_vars
             PROVE  TypeOK'
  OBVIOUS
<1> USE DEF Submissions
<1>1. ASSUME NEW o \in WorkOrders, NEW i \in Incidents, CreateWorkOrder(o, i)
      PROVE  TypeOK'
  <2>1. [status |-> "created", incident |-> i, worker |-> None,
         proof |-> None] \in WorkOrderRow
    BY DEF WorkOrderRow, WorkOrderStatus, Proofs
  <2>2. QED BY <1>1, <2>1 DEF CreateWorkOrder, TypeOK
<1>2. ASSUME NEW o \in WorkOrders, NEW i \in Incidents, NEW w \in Workers,
             DispatchWorkOrder(o, i, w)
      PROVE  TypeOK'
  <2>1. [status |-> "dispatched", incident |-> i, worker |-> w,
         proof |-> None] \in WorkOrderRow
    BY DEF WorkOrderRow, WorkOrderStatus, Proofs
  <2>2. IncidentsOK'
    BY <1>2, ProgressIncidentType DEF DispatchWorkOrder, IncidentStatus
  <2>3. ReportsOK'
    BY <1>2, <2>2, RecomputeType DEF DispatchWorkOrder, TypeOK, ReportsOK
  <2>4. QED BY <1>2, <2>1, <2>2, <2>3
            DEF DispatchWorkOrder, TypeOK, IncidentsOK, ReportsOK
<1>3. ASSUME NEW o \in WorkOrders, NEW w \in Workers, StartWorkOrder(o, w)
      PROVE  TypeOK'
  <2>1. WorkOrdersOK'
    BY <1>3, ExistingRow, SetWorkOrderType DEF StartWorkOrder, WorkOrderStatus
  <2>2. IncidentsOK'
    BY <1>3, ExistingRow, ProgressIncidentType
    DEF StartWorkOrder, IncidentStatus
  <2>3. ReportsOK'
    BY <1>3, <2>2, RecomputeType DEF StartWorkOrder, TypeOK, ReportsOK
  <2>4. QED BY <1>3, <2>1, <2>2, <2>3
            DEF StartWorkOrder, TypeOK, WorkOrdersOK, IncidentsOK, ReportsOK
<1>4. ASSUME NEW o \in WorkOrders, NEW s \in Submissions, ResolveWorkOrder(o, s)
      PROVE  TypeOK'
  <2>1. WorkOrdersOK'
    BY <1>4, ExistingRow, SetWorkOrderType
    DEF ResolveWorkOrder, WorkOrderStatus, Proofs
  <2>2. IncidentsOK'
    BY <1>4, ExistingRow, ResolveIncidentType DEF ResolveWorkOrder, TypeOK
  <2>3. ReportsOK'
    BY <1>4, <2>2, RecomputeType DEF ResolveWorkOrder, TypeOK, ReportsOK
  <2>4. QED BY <1>4, <2>1, <2>2, <2>3
            DEF ResolveWorkOrder, TypeOK, WorkOrdersOK, IncidentsOK, ReportsOK
<1>5. ASSUME NEW i \in Incidents, NEW s \in PatchTargets,
             UpdateIncidentStatus(i, s)
      PROVE  TypeOK'
  <2>1. IncidentsOK'
    BY <1>5, ConstantsAssumption, ProgressIncidentType DEF UpdateIncidentStatus
  <2>2. ReportsOK'
    BY <1>5, <2>1, RecomputeType DEF UpdateIncidentStatus, TypeOK, ReportsOK
  <2>3. QED BY <1>5, <2>1, <2>2
            DEF UpdateIncidentStatus, TypeOK, IncidentsOK, ReportsOK
<1>6. ASSUME NEW r \in Reports, CitizenConfirm(r) \/ CitizenDispute(r)
      PROVE  TypeOK'
  <2>1. IncidentsOK'
    BY <1>6, MoveSetType
    DEF CitizenConfirm, CitizenDispute, MoveResolvedChildren, IncidentStatus
  <2>2. ReportsOK'
    BY <1>6 DEF CitizenConfirm, CitizenDispute, TypeOK, ReportsOK, IntakeStatus
  <2>3. QED BY <1>6, <2>1, <2>2
            DEF CitizenConfirm, CitizenDispute, TypeOK, IncidentsOK, ReportsOK
<1>7. CASE AutoConfirmCron
  <2>1. IncidentsOK'
    BY <1>7, MoveSetType DEF AutoConfirmCron, IncidentStatus
  <2>2. ReportsOK'
    BY <1>7, <2>1, RecomputeType DEF AutoConfirmCron, TypeOK, ReportsOK
  <2>3. QED BY <1>7, <2>1, <2>2
            DEF AutoConfirmCron, TypeOK, IncidentsOK, ReportsOK
<1>8. ASSUME NEW m \in Mutations, NEW o \in WorkOrders, ProcessFieldSync(m, o)
      PROVE  TypeOK'
  <2> Exists(o)
    BY <1>8 DEF ProcessFieldSync
  <2>1. CASE SyncUnsupportedAction(m, o) \/ SyncStartConflict(m, o)
    <3>1. SyncLogOK'
      BY <2>1, LogMutationType
      DEF SyncUnsupportedAction, SyncStartConflict, ConflictReasons,
          RejectReasons, Proofs
    <3>2. QED BY <2>1, <3>1
              DEF SyncUnsupportedAction, SyncStartConflict, TypeOK, SyncLogOK
  <2>2. CASE SyncStart(m, o)
    <3>1. WorkOrdersOK'
      BY <2>2, ExistingRow, SetWorkOrderType DEF SyncStart, WorkOrderStatus
    <3>2. IncidentsOK'
      BY <2>2, ExistingRow, ProgressIncidentType DEF SyncStart, IncidentStatus
    <3>3. ReportsOK'
      BY <2>2, <3>2, RecomputeType DEF SyncStart, TypeOK, ReportsOK
    <3>4. SyncLogOK'
      BY <2>2, LogMutationType DEF SyncStart, Proofs
    <3>5. QED BY <2>2, <3>1, <3>2, <3>3, <3>4
              DEF SyncStart, TypeOK, WorkOrdersOK, IncidentsOK, ReportsOK,
                  SyncLogOK
  <2>3. ASSUME NEW s \in Submissions,
               SyncResolveRejected(m, o, s) \/ SyncResolveCompleted(m, o, s)
        PROVE  TypeOK'
    <3>1. SyncLogOK'
      BY <2>3, LogMutationType
      DEF SyncResolveRejected, SyncResolveCompleted, ConflictReasons,
          RejectReasons, Proofs
    <3>2. QED BY <2>3, <3>1
              DEF SyncResolveRejected, SyncResolveCompleted, TypeOK, SyncLogOK
  <2>4. ASSUME NEW s \in Submissions, NEW captured \in 0..now,
               SyncResolveReview(m, o, s, captured)
        PROVE  TypeOK'
    <3>1. SyncLogOK'
      BY <2>4, LogMutationType DEF SyncResolveReview, ConflictReasons, Proofs
    <3>2. [status |-> "pending", order |-> o, evidence |-> s,
           captured |-> captured] \in ReviewRow
      BY DEF ReviewRow, TypeOK
    <3>3. QED BY <2>4, <3>1, <3>2 DEF SyncResolveReview, TypeOK, SyncLogOK
  <2>5. ASSUME NEW s \in Submissions, NEW captured \in 0..now,
               SyncResolve(m, o, s, captured)
        PROVE  TypeOK'
    <3>1. WorkOrdersOK'
      BY <2>5, ExistingRow, SetWorkOrderType
      DEF SyncResolve, WorkOrderStatus, Proofs
    <3>2. IncidentsOK'
      BY <2>5, ExistingRow, ResolveIncidentType DEF SyncResolve, TypeOK
    <3>3. ReportsOK'
      BY <2>5, <3>2, RecomputeType DEF SyncResolve, TypeOK, ReportsOK
    <3>4. SyncLogOK'
      BY <2>5, LogMutationType DEF SyncResolve, Proofs
    <3>5. QED BY <2>5, <3>1, <3>2, <3>3, <3>4
              DEF SyncResolve, TypeOK, WorkOrdersOK, IncidentsOK, ReportsOK,
                  SyncLogOK
  <2>6. QED BY <1>8, <2>1, <2>2, <2>3, <2>4, <2>5 DEF ProcessFieldSync
<1>9. ASSUME NEW m \in Mutations, AcceptWorkerEvidence(m)
      PROVE  TypeOK'
  <2> DEFINE o == review[m].order
             e == review[m].evidence
  <2>1. review[m] \in ReviewRow /\ o \in WorkOrders /\ e \in Submissions
    BY <1>9 DEF AcceptWorkerEvidence, TypeOK, ReviewRow
  <2>2. e.worker \in Workers /\ Exists(o)
    BY <1>9, <2>1 DEF AcceptWorkerEvidence, ReviewMatchesLog
  <2>3. WorkOrdersOK'
    BY <1>9, <2>1, <2>2, UpdateWorkOrderType
    DEF AcceptWorkerEvidence, WorkOrderStatus, Proofs
  <2>4. IncidentsOK'
    BY <1>9, <2>1, <2>2, ExistingRow, ResolveIncidentType
    DEF AcceptWorkerEvidence, TypeOK
  <2>5. ReportsOK'
    BY <1>9, <2>4, RecomputeType DEF AcceptWorkerEvidence, TypeOK, ReportsOK
  <2>6. [status |-> "accepted", order |-> o, evidence |-> e,
         captured |-> review[m].captured] \in ReviewRow
    BY <2>1 DEF ReviewRow
  <2>7. QED BY <1>9, <2>3, <2>4, <2>5, <2>6
            DEF AcceptWorkerEvidence, TypeOK, WorkOrdersOK, IncidentsOK,
                ReportsOK
<1>10. ASSUME NEW m \in Mutations, UpholdDispatcher(m)
      PROVE  TypeOK'
  <2>1. review[m] \in ReviewRow
    BY <1>10 DEF UpholdDispatcher, TypeOK
  <2>2. [status |-> "dismissed", order |-> review[m].order,
         evidence |-> review[m].evidence, captured |-> review[m].captured]
          \in ReviewRow
    BY <2>1 DEF ReviewRow
  <2>3. QED BY <1>10, <2>2 DEF UpholdDispatcher, TypeOK
<1>11. ASSUME NEW o \in WorkOrders, DispatcherCancel(o)
       PROVE  TypeOK'
  <2>1. WorkOrdersOK'
    BY <1>11, ExistingRow, UpdateWorkOrderType
    DEF DispatcherCancel, OpenToDispatcher, WorkOrderStatus
  <2>2. QED BY <1>11, <2>1 DEF DispatcherCancel, TypeOK, WorkOrdersOK
<1>12. ASSUME NEW o \in WorkOrders, NEW w \in Workers, DispatcherReassign(o, w)
       PROVE  TypeOK'
  <2>1. WorkOrdersOK'
    BY <1>12, ExistingRow, UpdateWorkOrderType
    DEF DispatcherReassign, OpenToDispatcher
  <2>2. QED BY <1>12, <2>1 DEF DispatcherReassign, TypeOK, WorkOrdersOK
<1>13. CASE Tick
  BY <1>13 DEF Tick, TypeOK
<1>14. CASE UNCHANGED vars
  BY <1>14 DEF vars, TypeOK
<1>15. QED
  BY <1>1, <1>2, <1>3, <1>4, <1>5, <1>6, <1>7, <1>8, <1>9, <1>10, <1>11,
     <1>12, <1>13, <1>14 DEF Next, StaffNext, CitizenNext

------------------------------------------------------------------------------
(***************************************************************************)
(* What a step may do to incidents and orders together.  Either it carries *)
(* no new evidence: statuses move, orders keep theirs; or it is one        *)
(* resolution: valid evidence e is written to one order and to the         *)
(* incident of that order at once.  The invariants below need no more.     *)
(***************************************************************************)
NoNewEvidence ==
  /\ \A i \in Incidents :
       /\ incident'[i].proof = incident[i].proof
       /\ incident'[i].deadline = incident[i].deadline
       /\ incident'[i].status = "resolved" =>
            \/ incident[i].status = "resolved"
            \/ incident[i].proof # None
  /\ \A o \in WorkOrders : Exists(o) =>
       /\ Exists(o)'
       /\ workOrder'[o].incident = workOrder[o].incident
       /\ workOrder'[o].proof = workOrder[o].proof
       /\ workOrder'[o].status = "completed" =>
            workOrder[o].status = "completed"
  /\ \A o \in WorkOrders : (~ Exists(o) /\ Exists(o)') =>
       /\ workOrder'[o].proof = None
       /\ workOrder'[o].status # "completed"

Resolution(o, e, worker, t) ==
  /\ Exists(o)
  /\ ValidEvidence(e)
  /\ UpdateWorkOrder(o, "completed", worker, e)
  /\ ResolveIncident(workOrder[o].incident, e, t)

ResolutionStep ==
  \E o \in WorkOrders, e \in Submissions, worker \in Workers \cup {None},
     t \in Nat : Resolution(o, e, worker, t)

(***************************************************************************)
(* Rows that only change status keep their evidence.                       *)
(***************************************************************************)
LEMMA ProgressKeepsEvidence ==
  ASSUME TypeOK, NEW i \in Incidents, NEW status \in IncidentStatus,
         ProgressIncident(i, status),
         status = "resolved" => incident[i].proof # None
  PROVE  \A j \in Incidents :
           /\ incident'[j].proof = incident[j].proof
           /\ incident'[j].deadline = incident[j].deadline
           /\ incident'[j].status = "resolved" =>
                \/ incident[j].status = "resolved"
                \/ incident[j].proof # None
  BY DEF ProgressIncident, TypeOK

LEMMA MoveKeepsEvidence ==
  ASSUME TypeOK, NEW status \in IncidentStatus \ {"resolved"}, NEW moved,
         incident' = [i \in Incidents |->
                        IF i \in moved
                          THEN [status |-> status, proof |-> incident[i].proof,
                                deadline |-> incident[i].deadline]
                          ELSE incident[i]]
  PROVE  \A j \in Incidents :
           /\ incident'[j].proof = incident[j].proof
           /\ incident'[j].deadline = incident[j].deadline
           /\ incident'[j].status = "resolved" => incident[j].status = "resolved"
  OBVIOUS

LEMMA OrdersUntouched ==
  ASSUME TypeOK, workOrder' = workOrder
  PROVE  \A o \in WorkOrders :
           /\ Exists(o) =>
                /\ Exists(o)'
                /\ workOrder'[o].incident = workOrder[o].incident
                /\ workOrder'[o].proof = workOrder[o].proof
                /\ workOrder'[o].status = "completed" =>
                     workOrder[o].status = "completed"
           /\ ~ (~ Exists(o) /\ Exists(o)')
  BY DEF Exists

LEMMA RestartKeepsEvidence ==
  ASSUME TypeOK, NEW o \in WorkOrders, Exists(o),
         SetWorkOrder(o, "in_progress", workOrder[o].proof)
  PROVE  \A p \in WorkOrders :
           /\ Exists(p) =>
                /\ Exists(p)'
                /\ workOrder'[p].incident = workOrder[p].incident
                /\ workOrder'[p].proof = workOrder[p].proof
                /\ workOrder'[p].status = "completed" =>
                     workOrder[p].status = "completed"
           /\ ~ (~ Exists(p) /\ Exists(p)')
<1>1. Exists(o)'
  BY ExistingRow, SetWorkOrderType DEF WorkOrderStatus
<1>2. QED BY <1>1 DEF SetWorkOrder, UpdateWorkOrder, TypeOK, Exists

LEMMA OverwriteKeepsEvidence ==
  ASSUME TypeOK, NEW o \in WorkOrders, Exists(o),
         NEW status \in WorkOrderStatus \ {"completed"},
         NEW worker \in Workers \cup {None},
         UpdateWorkOrder(o, status, worker, workOrder[o].proof)
  PROVE  \A p \in WorkOrders :
           /\ Exists(p) =>
                /\ Exists(p)'
                /\ workOrder'[p].incident = workOrder[p].incident
                /\ workOrder'[p].proof = workOrder[p].proof
                /\ workOrder'[p].status = "completed" =>
                     workOrder[p].status = "completed"
           /\ ~ (~ Exists(p) /\ Exists(p)')
<1>1. Exists(o)'
  BY ExistingRow, UpdateWorkOrderType
<1>2. QED BY <1>1 DEF UpdateWorkOrder, TypeOK, Exists

LEMMA InsertedOrder ==
  ASSUME TypeOK, NEW o \in WorkOrders, ~ Exists(o), NEW i \in Incidents,
         NEW status \in WorkOrderStatus \ {"completed"},
         NEW worker \in Workers \cup {None},
         workOrder' = [workOrder EXCEPT
                         ![o] = [status |-> status, incident |-> i,
                                 worker |-> worker, proof |-> None]]
  PROVE  \A p \in WorkOrders :
           /\ Exists(p) =>
                /\ Exists(p)'
                /\ workOrder'[p].incident = workOrder[p].incident
                /\ workOrder'[p].proof = workOrder[p].proof
                /\ workOrder'[p].status = "completed" =>
                     workOrder[p].status = "completed"
           /\ (~ Exists(p) /\ Exists(p)') =>
                /\ workOrder'[p].proof = None
                /\ workOrder'[p].status # "completed"
  BY DEF TypeOK, Exists

(***************************************************************************)
(* Every step is of one of the two kinds.                                  *)
(***************************************************************************)
LEMMA StepKinds ==
  ASSUME TypeOK, EvidenceGate, ReviewMatchesLog, [Next]_vars
  PROVE  NoNewEvidence \/ ResolutionStep
<1> USE DEF NoNewEvidence
<1>1. ASSUME NEW o \in WorkOrders, NEW i \in Incidents, CreateWorkOrder(o, i)
      PROVE  NoNewEvidence
  BY <1>1, InsertedOrder DEF CreateWorkOrder, WorkOrderStatus
<1>2. ASSUME NEW o \in WorkOrders, NEW i \in Incidents, NEW w \in Workers,
             DispatchWorkOrder(o, i, w)
      PROVE  NoNewEvidence
  BY <1>2, InsertedOrder, ProgressKeepsEvidence
  DEF DispatchWorkOrder, WorkOrderStatus, IncidentStatus
<1>3. ASSUME NEW o \in WorkOrders, NEW w \in Workers, StartWorkOrder(o, w)
      PROVE  NoNewEvidence
  BY <1>3, ExistingRow, RestartKeepsEvidence, ProgressKeepsEvidence
  DEF StartWorkOrder, IncidentStatus
<1>4. ASSUME NEW o \in WorkOrders, NEW s \in Submissions, ResolveWorkOrder(o, s)
      PROVE  ResolutionStep
  <2>1. Resolution(o, s, workOrder[o].worker, now)
    BY <1>4 DEF ResolveWorkOrder, SetWorkOrder, Resolution, ValidEvidence
  <2>2. QED BY <1>4, <2>1, ExistingRow
            DEF ResolutionStep, ResolveWorkOrder, TypeOK
<1>5. ASSUME NEW i \in Incidents, NEW s \in PatchTargets,
             UpdateIncidentStatus(i, s)
      PROVE  NoNewEvidence
  <2>1. s \in IncidentStatus
    BY ConstantsAssumption
  <2>2. s = "resolved" => incident[i].proof # None
    BY <1>5
    DEF UpdateIncidentStatus, ProgressIncident, ResolvedEvidenceCheck, TypeOK
  <2>3. QED BY <1>5, <2>1, <2>2, ProgressKeepsEvidence, OrdersUntouched
            DEF UpdateIncidentStatus
<1>6. ASSUME NEW r \in Reports, CitizenConfirm(r) \/ CitizenDispute(r)
      PROVE  NoNewEvidence
  BY <1>6, MoveKeepsEvidence, OrdersUntouched
  DEF CitizenConfirm, CitizenDispute, MoveResolvedChildren, IncidentStatus
<1>7. CASE AutoConfirmCron
  BY <1>7, MoveKeepsEvidence, OrdersUntouched
  DEF AutoConfirmCron, IncidentStatus
<1>8. ASSUME NEW m \in Mutations, NEW o \in WorkOrders, ProcessFieldSync(m, o)
      PROVE  NoNewEvidence \/ ResolutionStep
  <2> Exists(o)
    BY <1>8 DEF ProcessFieldSync
  <2>1. CASE SyncUnsupportedAction(m, o) \/ SyncStartConflict(m, o)
    BY <2>1, OrdersUntouched DEF SyncUnsupportedAction, SyncStartConflict
  <2>2. CASE SyncStart(m, o)
    BY <2>2, ExistingRow, RestartKeepsEvidence, ProgressKeepsEvidence
    DEF SyncStart, IncidentStatus
  <2>3. ASSUME NEW s \in Submissions,
               \/ SyncResolveRejected(m, o, s)
               \/ SyncResolveCompleted(m, o, s)
               \/ \E captured \in 0..now : SyncResolveReview(m, o, s, captured)
        PROVE  NoNewEvidence
    BY <2>3, OrdersUntouched
    DEF SyncResolveRejected, SyncResolveCompleted, SyncResolveReview
  <2>4. ASSUME NEW s \in Submissions, s.worker = Author[m],
               NEW captured \in 0..now, SyncResolve(m, o, s, captured)
        PROVE  ResolutionStep
    <3>1. Resolution(o, s, workOrder[o].worker, captured)
      BY <2>4 DEF SyncResolve, SetWorkOrder, Resolution
    <3>2. captured \in Nat
      BY DEF TypeOK
    <3>3. QED BY <3>1, <3>2, ExistingRow DEF ResolutionStep
  <2>5. QED BY <1>8, <2>1, <2>2, <2>3, <2>4 DEF ProcessFieldSync
<1>9. ASSUME NEW m \in Mutations, AcceptWorkerEvidence(m)
      PROVE  ResolutionStep
  <2> DEFINE o == review[m].order
             e == review[m].evidence
  <2>1. o \in WorkOrders /\ e \in Submissions
    BY <1>9 DEF AcceptWorkerEvidence, TypeOK, ReviewRow
  <2>2. e.worker \in Workers /\ Exists(o) /\ ValidEvidence(e)
    BY <1>9, <2>1 DEF AcceptWorkerEvidence, ReviewMatchesLog, EvidenceGate,
                      Submissions
  <2>3. Resolution(o, e, e.worker, now)
    BY <1>9, <2>2 DEF AcceptWorkerEvidence, Resolution
  <2>4. QED BY <2>1, <2>2, <2>3 DEF ResolutionStep, TypeOK
<1>10. ASSUME NEW m \in Mutations, UpholdDispatcher(m)
       PROVE  NoNewEvidence
  BY <1>10, OrdersUntouched DEF UpholdDispatcher
<1>11. ASSUME NEW o \in WorkOrders, DispatcherCancel(o)
       PROVE  NoNewEvidence
  BY <1>11, ExistingRow, OverwriteKeepsEvidence
  DEF DispatcherCancel, OpenToDispatcher, WorkOrderStatus
<1>12. ASSUME NEW o \in WorkOrders, NEW w \in Workers, DispatcherReassign(o, w)
       PROVE  NoNewEvidence
  BY <1>12, ExistingRow, OverwriteKeepsEvidence
  DEF DispatcherReassign, OpenToDispatcher
<1>13. CASE Tick
  BY <1>13, OrdersUntouched DEF Tick
<1>14. CASE UNCHANGED vars
  BY <1>14, OrdersUntouched DEF vars
<1>15. QED
  BY <1>1, <1>2, <1>3, <1>4, <1>5, <1>6, <1>7, <1>8, <1>9, <1>10, <1>11,
     <1>12, <1>13, <1>14 DEF Next, StaffNext, CitizenNext

------------------------------------------------------------------------------
(***************************************************************************)
(* The sync log and the review queue.                                      *)
(***************************************************************************)

(***************************************************************************)
(* No step deletes a work order.                                           *)
(***************************************************************************)
LEMMA OrdersStay ==
  ASSUME TypeOK, NoNewEvidence \/ ResolutionStep, NEW o \in WorkOrders, Exists(o)
  PROVE  Exists(o)'
<1>1. CASE NoNewEvidence
  BY <1>1 DEF NoNewEvidence
<1>2. CASE ResolutionStep
  <2>1. PICK p \in WorkOrders, e \in Submissions,
             worker \in Workers \cup {None}, t \in Nat :
             Resolution(p, e, worker, t)
    BY <1>2 DEF ResolutionStep
  <2>2. Exists(p)'
    BY <2>1, UpdateWorkOrderType DEF Resolution, WorkOrderStatus, Proofs
  <2>3. QED BY <2>1, <2>2 DEF Resolution, UpdateWorkOrder, TypeOK, Exists
<1>3. QED BY <1>1, <1>2

(***************************************************************************)
(* How the log and the queue move: not at all; one mutation is logged,     *)
(* with its review when there is to be one; or one review is decided.      *)
(***************************************************************************)
LogUnmoved == syncLog' = syncLog /\ review' = review

Logged(m, o) ==
  /\ syncLog[m] = None /\ Exists(o)
  /\ \E status \in {"applied", "conflict", "rejected"},
        reason \in ConflictReasons \cup RejectReasons \cup {None},
        evidence \in Proofs :
       /\ LogMutation(m, status, reason, o, evidence)
       /\ (evidence # None /\ ValidEvidence(evidence)) => status # "rejected"
       /\ IF /\ status = "conflict"
             /\ reason # "conflict_already_completed"
             /\ evidence # None
            THEN /\ ValidEvidence(evidence)
                 /\ \E captured \in Nat :
                      review' = [review EXCEPT
                                   ![m] = [status |-> "pending", order |-> o,
                                           evidence |-> evidence,
                                           captured |-> captured]]
            ELSE review' = review

Decided(m) ==
  /\ syncLog' = syncLog
  /\ review[m] # None /\ review[m].status = "pending"
  /\ \E decision \in {"accepted", "dismissed"} :
       review' = [review EXCEPT
                    ![m] = [status |-> decision, order |-> @.order,
                            evidence |-> @.evidence, captured |-> @.captured]]

LEMMA LogKinds ==
  ASSUME TypeOK, [Next]_vars
  PROVE  \/ LogUnmoved
         \/ \E m \in Mutations, o \in WorkOrders : Logged(m, o)
         \/ \E m \in Mutations : Decided(m)
<1>1. ASSUME NEW o \in WorkOrders, NEW i \in Incidents,
             \/ CreateWorkOrder(o, i)
             \/ \E w \in Workers : DispatchWorkOrder(o, i, w)
      PROVE  LogUnmoved
  BY <1>1 DEF CreateWorkOrder, DispatchWorkOrder, LogUnmoved
<1>2. ASSUME NEW o \in WorkOrders,
             \/ DispatcherCancel(o)
             \/ \E w \in Workers : StartWorkOrder(o, w) \/ DispatcherReassign(o, w)
             \/ \E s \in Submissions : ResolveWorkOrder(o, s)
      PROVE  LogUnmoved
  BY <1>2 DEF DispatcherCancel, StartWorkOrder, DispatcherReassign,
              ResolveWorkOrder, LogUnmoved
<1>3. ASSUME NEW i \in Incidents, NEW s \in PatchTargets,
             UpdateIncidentStatus(i, s)
      PROVE  LogUnmoved
  BY <1>3 DEF UpdateIncidentStatus, LogUnmoved
<1>4. ASSUME NEW r \in Reports, CitizenConfirm(r) \/ CitizenDispute(r)
      PROVE  LogUnmoved
  BY <1>4 DEF CitizenConfirm, CitizenDispute, LogUnmoved
<1>5. CASE AutoConfirmCron \/ Tick \/ UNCHANGED vars
  BY <1>5 DEF AutoConfirmCron, Tick, vars, LogUnmoved
<1>6. ASSUME NEW m \in Mutations, AcceptWorkerEvidence(m) \/ UpholdDispatcher(m)
      PROVE  Decided(m)
  BY <1>6 DEF AcceptWorkerEvidence, UpholdDispatcher, Decided
<1>7. ASSUME NEW m \in Mutations, NEW o \in WorkOrders, ProcessFieldSync(m, o)
      PROVE  Logged(m, o)
  <2> syncLog[m] = None /\ Exists(o)
    BY <1>7 DEF ProcessFieldSync, AlreadyLogged
  <2> USE DEF Logged, ConflictReasons, RejectReasons, Proofs
  <2>1. CASE SyncUnsupportedAction(m, o)
    BY <2>1 DEF SyncUnsupportedAction
  <2>2. CASE SyncStartConflict(m, o)
    BY <2>2 DEF SyncStartConflict
  <2>3. CASE SyncStart(m, o)
    BY <2>3 DEF SyncStart
  <2>4. ASSUME NEW s \in Submissions,
               SyncResolveRejected(m, o, s) \/ SyncResolveCompleted(m, o, s)
        PROVE  Logged(m, o)
    BY <2>4 DEF SyncResolveRejected, SyncResolveCompleted, ValidEvidence
  <2>5. ASSUME NEW s \in Submissions, NEW captured \in 0..now,
               SyncResolveReview(m, o, s, captured)
        PROVE  Logged(m, o)
    <3>1. s \in Proofs /\ s # None /\ ValidEvidence(s) /\ captured \in Nat
      BY <2>5, NoneAssumption DEF SyncResolveReview, TypeOK
    <3>2. PICK reason \in {"reassigned_by_dispatcher", "cancelled_by_dispatcher"} :
            LogMutation(m, "conflict", reason, o, s)
      BY <2>5 DEF SyncResolveReview
    <3>3. review' = [review EXCEPT ![m] = [status |-> "pending", order |-> o,
                                           evidence |-> s,
                                           captured |-> captured]]
      BY <2>5 DEF SyncResolveReview
    <3> HIDE DEF LogMutation, ValidEvidence
    <3>4. QED BY <3>1, <3>2, <3>3
  <2>6. ASSUME NEW s \in Submissions, NEW captured \in 0..now,
               SyncResolve(m, o, s, captured)
        PROVE  Logged(m, o)
    BY <2>6 DEF SyncResolve
  <2>7. QED BY <1>7, <2>1, <2>2, <2>3, <2>4, <2>5, <2>6 DEF ProcessFieldSync
<1>8. QED
  BY <1>1, <1>2, <1>3, <1>4, <1>5, <1>6, <1>7 DEF Next, StaffNext, CitizenNext

LEMMA NextReviewMatchesLog ==
  ASSUME TypeOK, EvidenceGate, ReviewMatchesLog, [Next]_vars
  PROVE  ReviewMatchesLog'
<1>1. \A o \in WorkOrders : Exists(o) => Exists(o)'
  BY StepKinds, OrdersStay
<1>2. \A m \in Mutations : review[m] # None =>
        review[m].order \in WorkOrders /\ workOrder'[review[m].order] # None
  BY <1>1 DEF ReviewMatchesLog, TypeOK, ReviewRow, Exists
<1>3. CASE LogUnmoved
  BY <1>2, <1>3 DEF LogUnmoved, ReviewMatchesLog, Exists
<1>4. ASSUME NEW m \in Mutations, NEW o \in WorkOrders, Logged(m, o)
      PROVE  ReviewMatchesLog'
  <2>1. PICK status \in {"applied", "conflict", "rejected"},
             reason \in ConflictReasons \cup RejectReasons \cup {None},
             evidence \in Proofs :
             Logged(m, o)!2!(status, reason, evidence)
    BY <1>4 DEF Logged
  <2>2. /\ syncLog'[m] = [status |-> status, reason |-> reason, order |-> o,
                          evidence |-> evidence]
        /\ syncLog'[m] # None
        /\ \A n \in Mutations \ {m} : syncLog'[n] = syncLog[n]
    BY <2>1, LogMutationType, NoneAssumption
    DEF LogMutation, TypeOK, SyncLogRow
  <2>3. review[m] = None /\ Exists(o)'
    BY <1>1, <1>4 DEF Logged, ReviewMatchesLog
  <2>4. CASE /\ status = "conflict"
             /\ reason # "conflict_already_completed"
             /\ evidence # None
    <3>1. PICK captured \in Nat :
            review' = [review EXCEPT
                         ![m] = [status |-> "pending", order |-> o,
                                 evidence |-> evidence,
                                 captured |-> captured]]
      BY <2>1, <2>4
    <3>2. evidence \in Submissions
      BY <2>4 DEF Proofs
    <3>3. [status |-> "pending", order |-> o, evidence |-> evidence,
           captured |-> captured] \in ReviewRow
      BY <3>2 DEF ReviewRow
    <3>4. /\ review'[m] = [status |-> "pending", order |-> o,
                           evidence |-> evidence, captured |-> captured]
          /\ review'[m] # None
          /\ \A n \in Mutations \ {m} : review'[n] = review[n]
      BY <3>1, <3>3, NoneAssumption DEF TypeOK
    <3>5. QED BY <1>2, <2>2, <2>3, <2>4, <3>4 DEF ReviewMatchesLog, Exists
  <2>5. CASE ~ (/\ status = "conflict"
                /\ reason # "conflict_already_completed"
                /\ evidence # None)
    <3>1. review' = review
      BY <2>1, <2>5
    <3>2. QED BY <1>2, <2>1, <2>2, <2>3, <2>5, <3>1
              DEF ReviewMatchesLog, Exists
  <2>6. QED BY <2>4, <2>5
<1>5. ASSUME NEW m \in Mutations, Decided(m)
      PROVE  ReviewMatchesLog'
  <2>1. PICK decision \in {"accepted", "dismissed"} :
          review' = [review EXCEPT
                       ![m] = [status |-> decision, order |-> @.order,
                               evidence |-> @.evidence,
                               captured |-> @.captured]]
    BY <1>5 DEF Decided
  <2>2. [status |-> decision, order |-> review[m].order,
         evidence |-> review[m].evidence, captured |-> review[m].captured]
          \in ReviewRow
    BY <1>5 DEF Decided, TypeOK, ReviewRow
  <2>3. \A n \in Mutations :
          /\ review'[n] # None <=> review[n] # None
          /\ review[n] # None => /\ review'[n].order = review[n].order
                                 /\ review'[n].evidence = review[n].evidence
    BY <1>5, <2>1, <2>2, NoneAssumption DEF Decided, TypeOK
  <2>4. syncLog' = syncLog
    BY <1>5 DEF Decided
  <2>5. QED BY <1>2, <2>3, <2>4 DEF ReviewMatchesLog, Exists
<1>6. QED BY <1>3, <1>4, <1>5, LogKinds

------------------------------------------------------------------------------
(***************************************************************************)
(* The inductive invariant.  No conjunct is inductive alone: accepting a   *)
(* review writes the evidence of the review (EvidenceGate needs the        *)
(* queue) to an order that must exist (the types need ReviewMatchesLog),   *)
(* and a PATCH to resolved is bounded by what the proof column implies     *)
(* (ResolvedHasDeadline needs EvidenceGate).                               *)
(***************************************************************************)
IInv ==
  /\ TypeOK
  /\ EvidenceGate
  /\ ResolvedHasDeadline
  /\ ProofCustody
  /\ ReviewMatchesLog

(***************************************************************************)
(* What one resolution leaves in the two rows it writes.                   *)
(***************************************************************************)
LEMMA ResolutionWrites ==
  ASSUME TypeOK, NEW o \in WorkOrders, NEW e \in Submissions,
         NEW worker \in Workers \cup {None}, NEW t \in Nat,
         Resolution(o, e, worker, t)
  PROVE  LET i == workOrder[o].incident
         IN  /\ i \in Incidents
             /\ incident'[i].proof = e /\ e # None
             /\ incident'[i].deadline # None
             /\ \A j \in Incidents \ {i} : incident'[j] = incident[j]
             /\ Exists(o)'
             /\ workOrder'[o].incident = i
             /\ workOrder'[o].proof = e
             /\ \A p \in WorkOrders \ {o} : workOrder'[p] = workOrder[p]
<1>1. workOrder[o].incident \in Incidents
  BY ExistingRow DEF Resolution
<1>2. e # None /\ t + ConfirmWindow # None
  BY NoneAssumption, ConstantsAssumption
<1>3. Exists(o)'
  BY UpdateWorkOrderType DEF Resolution, WorkOrderStatus, Proofs
<1>4. QED
  BY <1>1, <1>2, <1>3 DEF Resolution, UpdateWorkOrder, ResolveIncident, TypeOK

(***************************************************************************)
(* Evidence written to the review queue has passed both checks.            *)
(***************************************************************************)
LEMMA QueueHoldsValidEvidence ==
  ASSUME TypeOK, EvidenceGate, [Next]_vars, NEW n \in Mutations,
         review'[n] # None
  PROVE  ValidEvidence(review'[n].evidence)
<1>1. CASE LogUnmoved
  BY <1>1 DEF LogUnmoved, EvidenceGate
<1>2. ASSUME NEW m \in Mutations, NEW o \in WorkOrders, Logged(m, o)
      PROVE  ValidEvidence(review'[n].evidence)
  BY <1>2 DEF Logged, EvidenceGate, TypeOK
<1>3. ASSUME NEW m \in Mutations, Decided(m)
      PROVE  ValidEvidence(review'[n].evidence)
  BY <1>3 DEF Decided, EvidenceGate, TypeOK
<1>4. QED BY <1>1, <1>2, <1>3, LogKinds

LEMMA NextEvidenceGate == IInv /\ [Next]_vars => EvidenceGate'
<1> SUFFICES ASSUME IInv, [Next]_vars
             PROVE  EvidenceGate'
  OBVIOUS
<1> USE DEF IInv
<1>1. \A m \in Mutations :
        review'[m] # None => ValidEvidence(review'[m].evidence)
  BY QueueHoldsValidEvidence
<1>2. CASE NoNewEvidence
  BY <1>1, <1>2 DEF NoNewEvidence, EvidenceGate, Exists
<1>3. CASE ResolutionStep
  <2>1. PICK o \in WorkOrders, e \in Submissions,
             worker \in Workers \cup {None}, t \in Nat :
             Resolution(o, e, worker, t)
    BY <1>3 DEF ResolutionStep
  <2>2. ValidEvidence(e)
    BY <2>1 DEF Resolution
  <2>3. QED BY <1>1, <2>1, <2>2, ResolutionWrites DEF EvidenceGate, Exists
<1>4. QED BY <1>2, <1>3, StepKinds

LEMMA NextResolvedHasDeadline == IInv /\ [Next]_vars => ResolvedHasDeadline'
<1> SUFFICES ASSUME IInv, [Next]_vars
             PROVE  ResolvedHasDeadline'
  OBVIOUS
<1> USE DEF IInv
<1>1. CASE NoNewEvidence
  BY <1>1 DEF NoNewEvidence, ResolvedHasDeadline
<1>2. CASE ResolutionStep
  BY <1>2, ResolutionWrites DEF ResolutionStep, ResolvedHasDeadline
<1>3. QED BY <1>1, <1>2, StepKinds

LEMMA NextProofCustody == IInv /\ [Next]_vars => ProofCustody'
<1> SUFFICES ASSUME IInv, [Next]_vars,
                    NEW i \in Incidents, incident'[i].proof # None
             PROVE  \E o \in WorkOrders : /\ workOrder'[o] # None
                                          /\ workOrder'[o].incident = i
                                          /\ workOrder'[o].proof
                                               = incident'[i].proof
  BY DEF ProofCustody, Exists
<1> USE DEF IInv
<1>1. CASE NoNewEvidence
  <2>1. PICK o \in WorkOrders : /\ Exists(o)
                                /\ workOrder[o].incident = i
                                /\ workOrder[o].proof = incident[i].proof
    BY <1>1 DEF NoNewEvidence, ProofCustody
  <2>2. QED BY <1>1, <2>1 DEF NoNewEvidence, Exists
<1>2. CASE ResolutionStep
  <2>1. PICK o \in WorkOrders, e \in Submissions,
             worker \in Workers \cup {None}, t \in Nat :
             Resolution(o, e, worker, t)
    BY <1>2 DEF ResolutionStep
  <2>2. CASE i = workOrder[o].incident
    BY <2>1, <2>2, ResolutionWrites DEF Exists
  <2>3. CASE i # workOrder[o].incident
    <3>1. incident'[i] = incident[i]
      BY <2>1, <2>3, ResolutionWrites
    <3>2. PICK p \in WorkOrders : /\ Exists(p)
                                  /\ workOrder[p].incident = i
                                  /\ workOrder[p].proof = incident[i].proof
      BY <3>1 DEF ProofCustody
    <3>3. workOrder'[p] = workOrder[p]
      BY <2>1, <2>3, <3>2, ResolutionWrites
    <3>4. QED BY <3>1, <3>2, <3>3 DEF Exists
  <2>4. QED BY <2>2, <2>3
<1>3. QED BY <1>1, <1>2, StepKinds

LEMMA InitInvariant == Init => IInv
<1>1. Init => \A o \in WorkOrders : ~ Exists(o)
  BY DEF Init, Exists
<1>2. QED BY <1>1, InitType
          DEF Init, IInv, EvidenceGate, ResolvedHasDeadline, ProofCustody,
              ReviewMatchesLog

LEMMA NextInvariant == IInv /\ [Next]_vars => IInv'
<1> SUFFICES ASSUME IInv, [Next]_vars
             PROVE  IInv'
  OBVIOUS
<1>1. TypeOK' /\ ReviewMatchesLog'
  BY NextType, NextReviewMatchesLog DEF IInv
<1>2. /\ EvidenceGate'
      /\ ResolvedHasDeadline'
      /\ ProofCustody'
  BY NextEvidenceGate, NextResolvedHasDeadline, NextProofCustody
<1>3. QED BY <1>1, <1>2 DEF IInv

(***************************************************************************)
(* The invariant holds of every behaviour.                                 *)
(***************************************************************************)
THEOREM Invariance == Spec => []IInv
BY InitInvariant, NextInvariant, PTL DEF Spec

(***************************************************************************)
(* Every table stays within its types: in particular adjudication never    *)
(* updates a work order that does not exist.                               *)
(***************************************************************************)
THEOREM TypeCorrect == Spec => []TypeOK
<1>1. IInv => TypeOK
  BY DEF IInv
<1>2. QED BY <1>1, Invariance, PTL

(***************************************************************************)
(* No order is completed and no incident resolved, by any route, without   *)
(* a photo, notes and a location within 50 m.                              *)
(***************************************************************************)
THEOREM EvidenceIsGated == Spec => []EvidenceGate
<1>1. IInv => EvidenceGate
  BY DEF IInv
<1>2. QED BY <1>1, Invariance, PTL

(***************************************************************************)
(* The cron can find every resolved incident: it has a deadline.           *)
(***************************************************************************)
THEOREM DeadlineIsSet == Spec => []ResolvedHasDeadline
<1>1. IInv => ResolvedHasDeadline
  BY DEF IInv
<1>2. QED BY <1>1, Invariance, PTL

(***************************************************************************)
(* The proof of an incident is the proof of one of its work orders.        *)
(***************************************************************************)
THEOREM CustodyIsKept == Spec => []ProofCustody
<1>1. IInv => ProofCustody
  BY DEF IInv
<1>2. QED BY <1>1, Invariance, PTL

(***************************************************************************)
(* The sync log and the supervisor's queue agree.                          *)
(***************************************************************************)
THEOREM QueueMatchesLog == Spec => []ReviewMatchesLog
<1>1. IInv => ReviewMatchesLog
  BY DEF IInv
<1>2. QED BY <1>1, Invariance, PTL

(***************************************************************************)
(* Outcomes are final, in every step of every behaviour: log rows and the  *)
(* evidence of reviews never change, and nothing that left the queue is    *)
(* pending again.                                                          *)
(***************************************************************************)
THEOREM OutcomesStand == Spec => OutcomesAreFinal
<1> DEFINE Final == \A m \in Mutations :
              /\ syncLog[m] # None => syncLog'[m] = syncLog[m]
              /\ (review[m] = None /\ review'[m] # None) => syncLog[m] = None
              /\ review[m] # None =>
                   /\ review'[m] # None
                   /\ review'[m].order = review[m].order
                   /\ review'[m].evidence = review[m].evidence
                   /\ review'[m].captured = review[m].captured
                   /\ review[m].status # "pending"
                        => review'[m].status # "pending"
<1>1. IInv /\ [Next]_vars => Final
  <2> SUFFICES ASSUME IInv, [Next]_vars
               PROVE  Final
    OBVIOUS
  <2>1. TypeOK /\ ReviewMatchesLog
    BY DEF IInv
  <2>2. CASE LogUnmoved
    BY <2>2 DEF LogUnmoved
  <2>3. ASSUME NEW m \in Mutations, NEW o \in WorkOrders, Logged(m, o)
        PROVE  Final
    <3>1. review[m] = None /\ syncLog[m] = None
      BY <2>1, <2>3 DEF Logged, ReviewMatchesLog
    <3>2. \A n \in Mutations \ {m} :
            syncLog'[n] = syncLog[n] /\ review'[n] = review[n]
      BY <2>1, <2>3 DEF Logged, LogMutation, TypeOK
    <3>3. QED BY <3>1, <3>2
  <2>4. ASSUME NEW m \in Mutations, Decided(m)
        PROVE  Final
    <3>1. PICK decision \in {"accepted", "dismissed"} :
            review' = [review EXCEPT
                         ![m] = [status |-> decision, order |-> @.order,
                                 evidence |-> @.evidence,
                                 captured |-> @.captured]]
      BY <2>4 DEF Decided
    <3>2. [status |-> decision, order |-> review[m].order,
           evidence |-> review[m].evidence, captured |-> review[m].captured]
            \in ReviewRow
      BY <2>1, <2>4 DEF Decided, TypeOK, ReviewRow
    <3>3. QED BY <2>1, <2>4, <3>1, <3>2, NoneAssumption DEF Decided, TypeOK
  <2>5. QED BY <2>1, <2>2, <2>3, <2>4, LogKinds
<1>2. QED BY <1>1, Invariance, PTL DEF Spec, OutcomesAreFinal

------------------------------------------------------------------------------
(***************************************************************************)
(* Without the two citizen endpoints, Dispatch implements                  *)
(* ReportAggregation: the proof of the property AggregationSpec.           *)
(***************************************************************************)

(***************************************************************************)
(* A handler that touches the incidents in changed, and no other, and then *)
(* recomputes the parents of exactly these.                                *)
(***************************************************************************)
Recomputed(changed) ==
  /\ \A i \in Incidents \ changed : incident'[i].status = incident[i].status
  /\ RecomputeReports(changed)

LEMMA OneIncidentRecomputed ==
  ASSUME IncidentsOK, NEW i \in Incidents, NEW row,
         incident' = [incident EXCEPT ![i] = row], RecomputeReports({i})
  PROVE  Recomputed({i})
BY DEF IncidentsOK, Recomputed

LEMMA StaffKinds ==
  ASSUME TypeOK, ReviewMatchesLog, StaffNext
  PROVE  \/ UNCHANGED <<incident, report>>
         \/ \E changed \in SUBSET Incidents : Recomputed(changed)
<1> DEFINE Goal == \/ UNCHANGED <<incident, report>>
                   \/ \E changed \in SUBSET Incidents : Recomputed(changed)
<1> SUFFICES Goal
  OBVIOUS
<1>0. IncidentsOK
  BY DEF TypeOK, IncidentsOK
<1>a. ASSUME NEW o \in WorkOrders, Exists(o),
             NEW row, incident' = [incident EXCEPT ![workOrder[o].incident] = row],
             RecomputeReports({workOrder[o].incident})
      PROVE  Goal
  <2>1. workOrder[o].incident \in Incidents
    BY <1>a, ExistingRow
  <2>2. Recomputed({workOrder[o].incident})
    BY <1>0, <1>a, <2>1, OneIncidentRecomputed
  <2>3. QED BY <2>1, <2>2
<1>1. ASSUME NEW o \in WorkOrders, NEW i \in Incidents, CreateWorkOrder(o, i)
      PROVE  Goal
  BY <1>1 DEF CreateWorkOrder
<1>2. ASSUME NEW o \in WorkOrders, NEW i \in Incidents, NEW w \in Workers,
             DispatchWorkOrder(o, i, w)
      PROVE  Goal
  <2>1. Recomputed({i})
    BY <1>0, <1>2, OneIncidentRecomputed DEF DispatchWorkOrder, ProgressIncident
  <2>2. QED BY <2>1
<1>3. ASSUME NEW o \in WorkOrders, DispatcherCancel(o)
      PROVE  Goal
  BY <1>3 DEF DispatcherCancel
<1>4. ASSUME NEW o \in WorkOrders, NEW w \in Workers, DispatcherReassign(o, w)
      PROVE  Goal
  BY <1>4 DEF DispatcherReassign
<1>5. ASSUME NEW o \in WorkOrders, NEW w \in Workers, StartWorkOrder(o, w)
      PROVE  Goal
  BY <1>5, <1>a DEF StartWorkOrder, ProgressIncident
<1>6. ASSUME NEW o \in WorkOrders, NEW s \in Submissions, ResolveWorkOrder(o, s)
      PROVE  Goal
  BY <1>6, <1>a DEF ResolveWorkOrder, ResolveIncident
<1>7. ASSUME NEW o \in WorkOrders, NEW m \in Mutations, ProcessFieldSync(m, o)
      PROVE  Goal
  <2>1. Exists(o)
    BY <1>7 DEF ProcessFieldSync
  <2>2. CASE SyncUnsupportedAction(m, o)
    BY <2>2 DEF SyncUnsupportedAction
  <2>3. CASE SyncStartConflict(m, o)
    BY <2>3 DEF SyncStartConflict
  <2>4. CASE SyncStart(m, o)
    BY <2>1, <2>4, <1>a DEF SyncStart, ProgressIncident
  <2>5. ASSUME NEW s \in Submissions, SyncResolveRejected(m, o, s)
        PROVE  Goal
    BY <2>5 DEF SyncResolveRejected
  <2>6. ASSUME NEW s \in Submissions, SyncResolveCompleted(m, o, s)
        PROVE  Goal
    BY <2>6 DEF SyncResolveCompleted
  <2>7. ASSUME NEW s \in Submissions, NEW captured \in 0..now,
               SyncResolveReview(m, o, s, captured)
        PROVE  Goal
    BY <2>7 DEF SyncResolveReview
  <2>8. ASSUME NEW s \in Submissions, NEW captured \in 0..now,
               SyncResolve(m, o, s, captured)
        PROVE  Goal
    BY <2>1, <2>8, <1>a DEF SyncResolve, ResolveIncident
  <2>9. QED BY <1>7, <2>2, <2>3, <2>4, <2>5, <2>6, <2>7, <2>8
            DEF ProcessFieldSync
<1>8. ASSUME NEW i \in Incidents, NEW s \in PatchTargets,
             UpdateIncidentStatus(i, s)
      PROVE  Goal
  <2>1. Recomputed({i})
    BY <1>0, <1>8, OneIncidentRecomputed
       DEF UpdateIncidentStatus, ProgressIncident
  <2>2. QED BY <2>1
<1>9. ASSUME NEW m \in Mutations, AcceptWorkerEvidence(m)
      PROVE  Goal
  <2>1. review[m].order \in WorkOrders /\ Exists(review[m].order)
    BY <1>9 DEF AcceptWorkerEvidence, ReviewMatchesLog, TypeOK, ReviewRow
  <2>2. QED BY <1>9, <2>1, <1>a DEF AcceptWorkerEvidence, ResolveIncident
<1>10. ASSUME NEW m \in Mutations, UpholdDispatcher(m)
       PROVE  Goal
  BY <1>10 DEF UpholdDispatcher
<1>11. CASE AutoConfirmCron
  <2>1. Expired \in SUBSET Incidents
    BY DEF Expired
  <2>2. Recomputed(Expired)
    BY <1>11 DEF AutoConfirmCron, Recomputed
  <2>3. QED BY <2>1, <2>2
<1>12. CASE Tick
  BY <1>12 DEF Tick
<1>13. QED
  BY <1>1, <1>2, <1>3, <1>4, <1>5, <1>6, <1>7, <1>8, <1>9, <1>10, <1>11,
     <1>12 DEF StaffNext

------------------------------------------------------------------------------
(***************************************************************************)
(* Recomputing the parents of the incidents a handler touched keeps every  *)
(* report the aggregate of its children.                                   *)
(***************************************************************************)
LEMMA SameAggregate ==
  ASSUME NEW r \in Reports,
         \A i \in ChildrenOf(r) : incident'[i].status = incident[i].status
  PROVE  Aggregate(incident', r) = Aggregate(incident, r)
<1>1. {incident'[i].status : i \in ChildrenOf(r)}
        = {incident[i].status : i \in ChildrenOf(r)}
  OBVIOUS
<1>2. QED BY <1>1 DEF Aggregate

LEMMA RecomputedAggregates ==
  ASSUME ReportsAggregated, NEW changed \in SUBSET Incidents,
         Recomputed(changed)
  PROVE  ReportsAggregated'
<1> SUFFICES ASSUME NEW r \in Reports
             PROVE  report'[r] = Aggregate(incident', r)
  BY DEF ReportsAggregated, Aggregate, ChildrenOf
<1>1. CASE ChildrenOf(r) \cap changed # {}
  BY <1>1 DEF Recomputed, RecomputeReports
<1>2. CASE ChildrenOf(r) \cap changed = {}
  <2>1. \A i \in ChildrenOf(r) : incident'[i].status = incident[i].status
    BY <1>2 DEF Recomputed, ChildrenOf
  <2>2. report'[r] = report[r]
    BY <1>2 DEF Recomputed, RecomputeReports
  <2>3. QED BY <2>1, <2>2, SameAggregate DEF ReportsAggregated
<1>3. QED BY <1>1, <1>2

(***************************************************************************)
(* The instance's copy of the aggregation rule is the rule itself, and the *)
(* aggregate of the table is the aggregate of its column of statuses.      *)
(***************************************************************************)
LEMMA SameVocabulary ==
  /\ Aggregation!IncidentStatus = IncidentStatus
  /\ Aggregation!IntakeStatus = IntakeStatus
  /\ Aggregation!ProgressionRank = ProgressionRank
  /\ Aggregation!DirectMapping = DirectMapping
<1>1. Aggregation!IncidentStatus = IncidentStatus
  BY Zenon DEF Aggregation!IncidentStatus, IncidentStatus
<1>2. Aggregation!IntakeStatus = IntakeStatus
  BY Zenon DEF Aggregation!IntakeStatus, IntakeStatus
<1>3. Aggregation!ProgressionRank = ProgressionRank
  BY <1>1, Zenon DEF Aggregation!ProgressionRank, ProgressionRank
<1>4. Aggregation!DirectMapping = DirectMapping
  BY <1>1, Zenon DEF Aggregation!DirectMapping, DirectMapping
<1>5. QED BY <1>1, <1>2, <1>3, <1>4

LEMMA SameRule ==
  ASSUME NEW children
  PROVE  Aggregation!CalculateIntakeStatus(children)
           = CalculateIntakeStatus(children)
<1>1. \A s : Aggregation!IsResolved(s) = IsResolved(s)
  BY SameVocabulary DEF Aggregation!IsResolved, IsResolved
<1>2. \A active : Aggregation!LeastAdvanced(active) = LeastAdvanced(active)
  BY SameVocabulary, Zenon DEF Aggregation!LeastAdvanced, LeastAdvanced
<1>3. QED BY <1>1, <1>2, SameVocabulary
          DEF Aggregation!CalculateIntakeStatus, CalculateIntakeStatus

LEMMA AggregateOfStatuses ==
  ASSUME NEW inc, NEW r \in Reports
  PROVE  Aggregation!Aggregate([i \in Incidents |-> inc[i].status], r)
           = Aggregate(inc, r)
<1>1. Aggregation!ChildrenOf(r) = ChildrenOf(r)
  BY DEF Aggregation!ChildrenOf, ChildrenOf
<1>2. {[i \in Incidents |-> inc[i].status][j] : j \in ChildrenOf(r)}
        = {inc[j].status : j \in ChildrenOf(r)}
  BY DEF ChildrenOf
<1>3. QED BY <1>1, <1>2, SameRule DEF Aggregation!Aggregate, Aggregate

(***************************************************************************)
(* The statuses before and after a handler's move make an abstract step.   *)
(***************************************************************************)
LEMMA RecomputedMoves ==
  ASSUME TypeOK, TypeOK', ReportsAggregated,
         NEW changed \in SUBSET Incidents, Recomputed(changed)
  PROVE  Aggregation!MoveIncidents
<1> DEFINE moved == {i \in Incidents : incidentStatus'[i] # incidentStatus[i]}
<1>1. incidentStatus' \in [Incidents -> IncidentStatus]
  BY DEF incidentStatus, TypeOK, IncidentRow
<1>. \A i \in Incidents : /\ incidentStatus[i] = incident[i].status
                          /\ incidentStatus'[i] = incident'[i].status
  BY DEF incidentStatus
<1>2. moved \subseteq changed
  BY DEF incidentStatus, Recomputed
<1>3. ASSUME NEW r \in Reports
      PROVE  report'[r] = IF \E i \in moved : r \in Aggregation!ParentsOf(i)
                            THEN Aggregation!Aggregate(incidentStatus', r)
                            ELSE report[r]
  <2>1. Aggregation!Aggregate(incidentStatus', r) = Aggregate(incident', r)
    BY AggregateOfStatuses DEF incidentStatus
  <2>2. report'[r] = Aggregate(incident', r)
    BY RecomputedAggregates DEF ReportsAggregated
  <2>3. CASE \E i \in moved : r \in Aggregation!ParentsOf(i)
    BY <2>1, <2>2, <2>3
  <2>4. CASE ~ \E i \in moved : r \in Aggregation!ParentsOf(i)
    <3>1. \A i \in ChildrenOf(r) : i \in Incidents /\ i \notin moved
      BY <2>4 DEF ChildrenOf, Aggregation!ParentsOf
    <3>2. \A i \in ChildrenOf(r) : incident'[i].status = incident[i].status
      BY <3>1 DEF incidentStatus
    <3>3. report[r] = Aggregate(incident', r)
      BY <3>2, SameAggregate DEF ReportsAggregated
    <3>4. QED BY <2>2, <2>4, <3>3
  <2>5. QED BY <2>3, <2>4
<1>4. report' = [r \in Reports |->
                   IF \E i \in moved : r \in Aggregation!ParentsOf(i)
                     THEN Aggregation!Aggregate(incidentStatus', r)
                     ELSE report[r]]
  BY <1>3 DEF TypeOK
<1>5. QED BY <1>1, <1>4, SameVocabulary DEF Aggregation!MoveIncidents

------------------------------------------------------------------------------
LEMMA InitAggregated == Init => ReportsAggregated
<1> SUFFICES ASSUME Init, NEW r \in Reports
             PROVE  report[r] = Aggregate(incident, r)
  BY DEF ReportsAggregated
<1>1. report[r] = "submitted"
  BY DEF Init
<1>2. \A i \in ChildrenOf(r) : incident[i].status = "reported"
  BY DEF Init, ChildrenOf
<1>3. CASE ChildrenOf(r) = {}
  BY <1>1, <1>3 DEF Aggregate, CalculateIntakeStatus
<1>4. CASE ChildrenOf(r) # {}
  <2>1. {incident[i].status : i \in ChildrenOf(r)} = {"reported"}
    BY <1>2, <1>4
  <2>2. LeastAdvanced({"reported"}) = "reported"
    BY LeastAdvancedExists DEF IncidentStatus
  <2>3. ~ IsResolved("reported")
    BY DEF IsResolved, ProgressionRank, IncidentStatus
  <2>4. DirectMapping["reported"] = "submitted"
    BY DEF DirectMapping, IncidentStatus
  <2>5. CalculateIntakeStatus({"reported"}) = "submitted"
    <3>1. {"reported"} \ {"rejected"} = {"reported"}
      OBVIOUS
    <3>2. QED BY <2>2, <2>3, <2>4, <3>1 DEF CalculateIntakeStatus
  <2>6. QED BY <1>1, <2>1, <2>5 DEF Aggregate
<1>5. QED BY <1>3, <1>4

(***************************************************************************)
(* The staff's platform refines the aggregation of reports.                *)
(***************************************************************************)
THEOREM StaffAggregates == StaffSpec => AggregationSpec
<1> DEFINE Inv == IInv /\ ReportsAggregated
<1>1. Init => Inv /\ Aggregation!Init
  <2> SUFFICES ASSUME Init PROVE Inv /\ Aggregation!Init
    OBVIOUS
  <2>1. Inv
    BY InitInvariant, InitAggregated
  <2>2. incidentStatus \in [Incidents -> IncidentStatus]
    BY <2>1 DEF IInv, TypeOK, IncidentRow, incidentStatus
  <2>3. report = [r \in Reports |-> Aggregation!Aggregate(incidentStatus, r)]
    BY <2>1, AggregateOfStatuses
       DEF ReportsAggregated, IInv, TypeOK, incidentStatus
  <2>4. QED BY <2>1, <2>2, <2>3, SameVocabulary DEF Aggregation!Init
<1>2. Inv /\ [StaffNext]_vars
        => Inv' /\ [Aggregation!Next]_(Aggregation!vars)
  <2> SUFFICES ASSUME Inv, [StaffNext]_vars
               PROVE  Inv' /\ [Aggregation!Next]_(Aggregation!vars)
    OBVIOUS
  <2>1. IInv'
    BY NextInvariant DEF Next
  <2>2. TypeOK /\ TypeOK' /\ ReviewMatchesLog
    BY <2>1 DEF IInv
  <2>3. CASE UNCHANGED <<incident, report>>
    <3>1. ReportsAggregated'
      BY <2>3 DEF ReportsAggregated, Aggregate
    <3>2. UNCHANGED Aggregation!vars
      BY <2>3 DEF Aggregation!vars, incidentStatus
    <3>3. QED BY <2>1, <3>1, <3>2
  <2>4. ASSUME NEW changed \in SUBSET Incidents, Recomputed(changed)
        PROVE  Inv' /\ [Aggregation!Next]_(Aggregation!vars)
    <3>1. ReportsAggregated'
      BY <2>4, RecomputedAggregates
    <3>2. Aggregation!MoveIncidents
      BY <2>2, <2>4, RecomputedMoves
    <3>3. QED BY <2>1, <3>1, <3>2 DEF Aggregation!Next
  <2>5. CASE StaffNext
    BY <2>2, <2>3, <2>4, <2>5, StaffKinds
  <2>6. CASE UNCHANGED vars
    BY <2>3, <2>6 DEF vars
  <2>7. QED BY <2>5, <2>6
<1>3. QED BY <1>1, <1>2, PTL DEF StaffSpec, AggregationSpec, Aggregation!Spec

==============================================================================
