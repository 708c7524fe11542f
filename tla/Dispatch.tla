------------------------------ MODULE Dispatch ------------------------------
(***************************************************************************)
(* Work orders, evidence-gated resolution, citizen feedback, the 72-hour   *)
(* auto-confirm cron, offline field sync and supervisory adjudication:     *)
(* domain/dispatch/services.py with the incident status endpoint of        *)
(* api/v1/incidents.py.                                                    *)
(*                                                                         *)
(* Each handler is one transaction and one action here: this module is     *)
(* about the order of whole handlers.  What two handlers do to each other  *)
(* between their reads and their commits is in HandlerRaces for the status *)
(* columns of incidents, orders and reports, and in OrderRaces for the     *)
(* worker, version and proof of an order, the sync log and the reviews.    *)
(* The version column is left to OrderRaces altogether: its increment is a *)
(* read and a write, and no handler here looks at it.  A handler that      *)
(* raises an HTTP error rolls its transaction back and changes nothing, so *)
(* it is no step: an early return is the negation of a guard.              *)
(***************************************************************************)
EXTENDS Lifecycle, FiniteSets

CONSTANTS
  Incidents, Reports,
  Links,           \* <<r, i>>: report r has an observation routed to i
  WorkOrders,      \* identifiers of work orders
  Workers,         \* field workers
  Mutations,       \* (worker_id, client_mutation_id) pairs, the unique key
                   \* of the sync log
  Author,          \* Author[m]: the worker_id of m
  Photos,          \* distinguishable sets of proof photos
  None,            \* SQL NULL
  ConfirmWindow,   \* the 72 hours, in ticks of the model's clock
  MaxTime,         \* bound: the clock stops here
  PatchTargets     \* bound: statuses a run lets the PATCH endpoint write

(***************************************************************************)
(* A resolution as a worker submits it: photo = None stands for a missing  *)
(* photo or blank notes, near for ST_DWithin(incident, proof, 50 m).       *)
(***************************************************************************)
Submissions == [worker : Workers, photo : Photos \cup {None}, near : BOOLEAN]

HasEvidence(s) == s.photo # None

ValidEvidence(s) == HasEvidence(s) /\ s.near

ASSUME ConstantsAssumption ==
  /\ Links \subseteq Reports \X Incidents
  /\ Author \in [Mutations -> Workers]
  /\ ConfirmWindow \in Nat /\ MaxTime \in Nat
  /\ PatchTargets \subseteq IncidentStatus
  /\ IsFiniteSet(Mutations)

VARIABLES
  incident,    \* table incident
  workOrder,   \* table work_order; None is a row not inserted yet
  report,      \* intake_report.status
  syncLog,     \* table sync_mutation_log; None is a row not inserted yet
  review,      \* table dispatch_conflict_review, by the mutation it is for
  now          \* the server's clock

vars == <<incident, workOrder, report, syncLog, review, now>>

WorkOrderStatus ==
  {"created", "dispatched", "accepted", "in_progress", "completed", "cancelled"}

ConflictReasons ==
  {"reassigned_by_dispatcher", "cancelled_by_dispatcher",
   "conflict_already_completed"}

RejectReasons ==
  {"missing_evidence", "resolution_out_of_bounds", "unsupported_action"}

Proofs == Submissions \cup {None}

(***************************************************************************)
(* proof: resolution_proof_urls and resolution_geom, which are always      *)
(* written together.                                                       *)
(***************************************************************************)
IncidentRow ==
  [status : IncidentStatus, proof : Proofs, deadline : Nat \cup {None}]

WorkOrderRow ==
  [status : WorkOrderStatus, incident : Incidents,
   worker : Workers \cup {None}, proof : Proofs]

SyncLogRow ==
  [status : {"applied", "conflict", "rejected"},
   reason : ConflictReasons \cup RejectReasons \cup {None},
   order : WorkOrders, evidence : Proofs]

ReviewRow ==
  [status : {"pending", "accepted", "dismissed"}, order : WorkOrders,
   evidence : Submissions, captured : Nat]

ASSUME NoneAssumption ==
  /\ None \notin Workers /\ None \notin Photos /\ None \notin Nat
  /\ None \notin Submissions /\ None \notin WorkOrderRow
  /\ None \notin SyncLogRow /\ None \notin ReviewRow

TypeOK ==
  /\ incident \in [Incidents -> IncidentRow]
  /\ workOrder \in [WorkOrders -> WorkOrderRow \cup {None}]
  /\ report \in [Reports -> IntakeStatus]
  /\ syncLog \in [Mutations -> SyncLogRow \cup {None}]
  /\ review \in [Mutations -> ReviewRow \cup {None}]
  /\ now \in Nat

Init ==
  /\ incident = [i \in Incidents |->
                   [status |-> "reported", proof |-> None, deadline |-> None]]
  /\ workOrder = [o \in WorkOrders |-> None]
  /\ report = [r \in Reports |-> "submitted"]
  /\ syncLog = [m \in Mutations |-> None]
  /\ review = [m \in Mutations |-> None]
  /\ now = 0

------------------------------------------------------------------------------
(***************************************************************************)
(* Report aggregation.                                                     *)
(***************************************************************************)

ChildrenOf(r) == {i \in Incidents : <<r, i>> \in Links}

Aggregate(inc, r) ==
  CalculateIntakeStatus({inc[i].status : i \in ChildrenOf(r)})

(* Mutant of RecomputeReports: the recomputation reads before the flush. *)
RecomputeBeforeFlush(changed) ==
  report' = [r \in Reports |->
               IF ChildrenOf(r) \cap changed # {}
                 THEN Aggregate(incident, r)
                 ELSE report[r]]

(***************************************************************************)
(* _recompute_reports_for_incident, over the incident table the handler    *)
(* has just flushed, for every incident it changed.                        *)
(***************************************************************************)
RecomputeReports(changed) ==
  report' = [r \in Reports |->
               IF ChildrenOf(r) \cap changed # {}
                 THEN Aggregate(incident', r)
                 ELSE report[r]]

(***************************************************************************)
(* Row updates shared by the handlers.                                     *)
(***************************************************************************)
Exists(o) == workOrder[o] # None

InHorizon == now + ConfirmWindow <= MaxTime

(* Mutant of MayActOn: nobody asks whose order it is. *)
AnyoneMayActOn(o, w) == TRUE

MayActOn(o, w) == workOrder[o].worker \in {None, w}

(***************************************************************************)
(* What one transaction leaves in the row of an order.                     *)
(***************************************************************************)
UpdateWorkOrder(o, status, worker, evidence) ==
  workOrder' = [workOrder EXCEPT
                  ![o] = [status |-> status, incident |-> @.incident,
                          worker |-> worker, proof |-> evidence]]

(* Mutant of SetWorkOrder: a restart clears the proof. *)
SetWorkOrderAfresh(o, status, evidence) ==
  UpdateWorkOrder(o, status, workOrder[o].worker,
                  IF status = "completed" THEN evidence ELSE None)

(***************************************************************************)
(* Starts and resolutions write the status and the proof; the worker of    *)
(* the order is checked and left as it is, even when there is none.        *)
(***************************************************************************)
SetWorkOrder(o, status, evidence) ==
  UpdateWorkOrder(o, status, workOrder[o].worker, evidence)

ProgressIncident(i, status) ==
  incident' = [incident EXCEPT
                 ![i] = [status |-> status, proof |-> @.proof,
                         deadline |-> @.deadline]]

ResolveIncident(i, evidence, since) ==
  incident' = [incident EXCEPT
                 ![i] = [status |-> "resolved", proof |-> evidence,
                         deadline |-> since + ConfirmWindow]]

------------------------------------------------------------------------------
(***************************************************************************)
(* The REST work-order endpoints.                                          *)
(***************************************************************************)

(***************************************************************************)
(* create_work_order, without and with an assigned worker.  Nothing looks  *)
(* at the status of the incident, nor at its other work orders.            *)
(***************************************************************************)
CreateWorkOrder(o, i) ==
  /\ ~ Exists(o)
  /\ workOrder' = [workOrder EXCEPT
                     ![o] = [status |-> "created", incident |-> i,
                             worker |-> None, proof |-> None]]
  /\ UNCHANGED <<incident, report, syncLog, review, now>>

DispatchWorkOrder(o, i, w) ==
  /\ ~ Exists(o)
  /\ workOrder' = [workOrder EXCEPT
                     ![o] = [status |-> "dispatched", incident |-> i,
                             worker |-> w, proof |-> None]]
  /\ ProgressIncident(i, "assigned")
  /\ RecomputeReports({i})
  /\ UNCHANGED <<syncLog, review, now>>

StartWorkOrder(o, w) ==
  /\ Exists(o)
  /\ MayActOn(o, w)
  /\ workOrder[o].status # "completed"
  /\ SetWorkOrder(o, "in_progress", workOrder[o].proof)
  /\ ProgressIncident(workOrder[o].incident, "in_progress")
  /\ RecomputeReports({workOrder[o].incident})
  /\ UNCHANGED <<syncLog, review, now>>

ResolveWorkOrder(o, s) ==
  /\ Exists(o) /\ InHorizon
  /\ MayActOn(o, s.worker)
  /\ workOrder[o].status # "completed"
  /\ HasEvidence(s)
  /\ s.near
  /\ SetWorkOrder(o, "completed", s)
  /\ ResolveIncident(workOrder[o].incident, s, now)
  /\ RecomputeReports({workOrder[o].incident})
  /\ UNCHANGED <<syncLog, review, now>>

------------------------------------------------------------------------------
(***************************************************************************)
(* Incident status, citizen feedback and the cron.                         *)
(***************************************************************************)

(* Mutant of ResolvedEvidenceCheck: the migration without the constraint. *)
NoEvidenceCheck(row) == TRUE

(***************************************************************************)
(* The table constraint chk_incident_resolved_evidence: a write that would *)
(* leave a resolved incident without a proof location is refused.          *)
(***************************************************************************)
ResolvedEvidenceCheck(row) == row.status = "resolved" => row.proof # None

(***************************************************************************)
(* update_incident_status writes any status over any other.  With RESOLVED *)
(* it writes the request's notes too, which the constraint wants non-NULL; *)
(* the text of notes is not modelled.                                      *)
(***************************************************************************)
UpdateIncidentStatus(i, s) ==
  /\ ProgressIncident(i, s)
  /\ ResolvedEvidenceCheck(incident'[i])
  /\ RecomputeReports({i})
  /\ UNCHANGED <<workOrder, syncLog, review, now>>

ResolvedChildren(r) == {i \in ChildrenOf(r) : incident[i].status = "resolved"}

(***************************************************************************)
(* Write one status over every resolved child of a report.                 *)
(***************************************************************************)
MoveResolvedChildren(r, status) ==
  /\ ResolvedChildren(r) # {}
  /\ incident' = [i \in Incidents |->
                    IF i \in ResolvedChildren(r)
                      THEN [status |-> status, proof |-> incident[i].proof,
                            deadline |-> incident[i].deadline]
                      ELSE incident[i]]

(***************************************************************************)
(* citizen_confirm_report, citizen_dispute_report.  Both write the status  *)
(* of the citizen's own report; neither recomputes a report.               *)
(***************************************************************************)
CitizenConfirm(r) ==
  /\ MoveResolvedChildren(r, "confirmed")
  /\ report' = [report EXCEPT ![r] = "closed"]
  /\ UNCHANGED <<workOrder, syncLog, review, now>>

CitizenDispute(r) ==
  /\ MoveResolvedChildren(r, "appealed")
  /\ report' = [report EXCEPT ![r] = "in_progress"]
  /\ UNCHANGED <<workOrder, syncLog, review, now>>

(***************************************************************************)
(* evaluate_auto_confirm_cron.  A NULL deadline satisfies no comparison.   *)
(***************************************************************************)
Expired ==
  {i \in Incidents : /\ incident[i].status = "resolved"
                     /\ incident[i].deadline # None
                     /\ incident[i].deadline <= now}

AutoConfirmCron ==
  /\ Expired # {}
  /\ incident' = [i \in Incidents |->
                    IF i \in Expired
                      THEN [status |-> "confirmed", proof |-> incident[i].proof,
                            deadline |-> incident[i].deadline]
                      ELSE incident[i]]
  /\ RecomputeReports(Expired)
  /\ UNCHANGED <<workOrder, syncLog, review, now>>

------------------------------------------------------------------------------
(***************************************************************************)
(* process_field_sync: one action per branch.  A mutation that is in the   *)
(* log is answered from the log and changes nothing.  A batch is one       *)
(* transaction; module FieldSync has its failures.                         *)
(***************************************************************************)

LogMutation(m, status, reason, o, evidence) ==
  syncLog' = [syncLog EXCEPT
                ![m] = [status |-> status, reason |-> reason,
                        order |-> o, evidence |-> evidence]]

SyncUnsupportedAction(m, o) ==
  /\ LogMutation(m, "rejected", "unsupported_action", o, None)
  /\ UNCHANGED <<incident, workOrder, report, review, now>>

SyncStartConflict(m, o) ==
  /\ \/ /\ ~ MayActOn(o, Author[m])
        /\ LogMutation(m, "conflict", "reassigned_by_dispatcher", o, None)
     \/ /\ MayActOn(o, Author[m])
        /\ workOrder[o].status = "cancelled"
        /\ LogMutation(m, "conflict", "cancelled_by_dispatcher", o, None)
  /\ UNCHANGED <<incident, workOrder, report, review, now>>

SyncStart(m, o) ==
  /\ MayActOn(o, Author[m])
  /\ workOrder[o].status # "cancelled"
  /\ LogMutation(m, "applied", None, o, None)
  /\ SetWorkOrder(o, "in_progress", workOrder[o].proof)
  /\ ProgressIncident(workOrder[o].incident, "in_progress")
  /\ RecomputeReports({workOrder[o].incident})
  /\ UNCHANGED <<review, now>>

SyncResolveRejected(m, o, s) ==
  /\ \/ /\ ~ HasEvidence(s)
        /\ LogMutation(m, "rejected", "missing_evidence", o, s)
     \/ /\ HasEvidence(s) /\ ~ s.near
        /\ LogMutation(m, "rejected", "resolution_out_of_bounds", o, s)
  /\ UNCHANGED <<incident, workOrder, report, review, now>>

(* Mutant of SyncResolveCompleted: a lost race answered as a rejection. *)
SyncResolveTooLate(m, o, s) ==
  /\ ValidEvidence(s)
  /\ workOrder[o].status = "completed"
  /\ LogMutation(m, "rejected", "missing_evidence", o, s)
  /\ UNCHANGED <<incident, workOrder, report, review, now>>

SyncResolveCompleted(m, o, s) ==
  /\ ValidEvidence(s)
  /\ workOrder[o].status = "completed"
  /\ LogMutation(m, "conflict", "conflict_already_completed", o, s)
  /\ UNCHANGED <<incident, workOrder, report, review, now>>

(* Mutant of SyncResolveReview: conflicts are sorted out before the         *)
(* evidence is validated.                                                   *)
SyncReviewUnchecked(m, o, s, captured) ==
  /\ ~ MayActOn(o, Author[m])
  /\ LogMutation(m, "conflict", "reassigned_by_dispatcher", o, s)
  /\ review' = [review EXCEPT
                  ![m] = [status |-> "pending", order |-> o,
                          evidence |-> s, captured |-> captured]]
  /\ UNCHANGED <<incident, workOrder, report, now>>

(***************************************************************************)
(* The evidence of a reassigned or cancelled order goes to the supervisor. *)
(***************************************************************************)
SyncResolveReview(m, o, s, captured) ==
  /\ ValidEvidence(s)
  /\ workOrder[o].status # "completed"
  /\ \/ /\ ~ MayActOn(o, Author[m])
        /\ LogMutation(m, "conflict", "reassigned_by_dispatcher", o, s)
     \/ /\ MayActOn(o, Author[m])
        /\ workOrder[o].status = "cancelled"
        /\ LogMutation(m, "conflict", "cancelled_by_dispatcher", o, s)
  /\ review' = [review EXCEPT
                  ![m] = [status |-> "pending", order |-> o,
                          evidence |-> s, captured |-> captured]]
  /\ UNCHANGED <<incident, workOrder, report, now>>

SyncResolve(m, o, s, captured) ==
  /\ ValidEvidence(s)
  /\ workOrder[o].status \notin {"completed", "cancelled"}
  /\ MayActOn(o, Author[m])
  /\ InHorizon
  /\ LogMutation(m, "applied", None, o, s)
  /\ SetWorkOrder(o, "completed", s)
  /\ ResolveIncident(workOrder[o].incident, s, captured)
  /\ RecomputeReports({workOrder[o].incident})
  /\ UNCHANGED <<review, now>>

(* Mutant of AlreadyLogged: a retry is executed again. *)
NeverLogged(m) == FALSE

(***************************************************************************)
(* The idempotency check: unique (worker_id, client_mutation_id).          *)
(***************************************************************************)
AlreadyLogged(m) == syncLog[m] # None

(***************************************************************************)
(* The branches of process_field_sync for one mutation of a batch.         *)
(***************************************************************************)
ProcessFieldSync(m, o) ==
  /\ ~ AlreadyLogged(m)
  /\ Exists(o)
  /\ \/ SyncUnsupportedAction(m, o)
     \/ SyncStartConflict(m, o)
     \/ SyncStart(m, o)
     \/ \E s \in Submissions :
          /\ s.worker = Author[m]
          /\ \/ SyncResolveRejected(m, o, s)
             \/ SyncResolveCompleted(m, o, s)
             \/ \E captured \in 0..now :
                  \/ SyncResolveReview(m, o, s, captured)
                  \/ SyncResolve(m, o, s, captured)

------------------------------------------------------------------------------
(***************************************************************************)
(* adjudicate_dispatch_conflict.  Accepting writes the worker's evidence   *)
(* over whatever the order and the incident have become meanwhile.         *)
(***************************************************************************)
AcceptWorkerEvidence(m) ==
  /\ review[m] # None
  /\ review[m].status = "pending"
  /\ InHorizon
  /\ LET o == review[m].order
         e == review[m].evidence
     IN  /\ UpdateWorkOrder(o, "completed", e.worker, e)
         /\ ResolveIncident(workOrder[o].incident, e, now)
         /\ RecomputeReports({workOrder[o].incident})
  /\ review' = [review EXCEPT
                  ![m] = [status |-> "accepted", order |-> @.order,
                          evidence |-> @.evidence, captured |-> @.captured]]
  /\ UNCHANGED <<syncLog, now>>

UpholdDispatcher(m) ==
  /\ review[m] # None
  /\ review[m].status = "pending"
  /\ review' = [review EXCEPT
                  ![m] = [status |-> "dismissed", order |-> @.order,
                          evidence |-> @.evidence, captured |-> @.captured]]
  /\ UNCHANGED <<incident, workOrder, report, syncLog, now>>

------------------------------------------------------------------------------
(***************************************************************************)
(* What dispatchers do straight on the table, through PostgREST under the  *)
(* policy work_order_update_worker (no handler of the service cancels or   *)
(* reassigns).  As documented, only before completion.                     *)
(***************************************************************************)
OpenToDispatcher(o) ==
  Exists(o) /\ workOrder[o].status \notin {"completed", "cancelled"}

DispatcherCancel(o) ==
  /\ OpenToDispatcher(o)
  /\ UpdateWorkOrder(o, "cancelled", workOrder[o].worker, workOrder[o].proof)
  /\ UNCHANGED <<incident, report, syncLog, review, now>>

DispatcherReassign(o, w) ==
  /\ OpenToDispatcher(o)
  /\ workOrder[o].worker # w
  /\ UpdateWorkOrder(o, workOrder[o].status, w, workOrder[o].proof)
  /\ UNCHANGED <<incident, report, syncLog, review, now>>

Tick ==
  /\ now < MaxTime
  /\ now' = now + 1
  /\ UNCHANGED <<incident, workOrder, report, syncLog, review>>

------------------------------------------------------------------------------
(***************************************************************************)
(* Everything but the two citizen endpoints.                               *)
(***************************************************************************)
StaffNext ==
  \/ \E o \in WorkOrders, i \in Incidents :
       \/ CreateWorkOrder(o, i)
       \/ \E w \in Workers : DispatchWorkOrder(o, i, w)
  \/ \E o \in WorkOrders :
       \/ DispatcherCancel(o)
       \/ \E w \in Workers : StartWorkOrder(o, w) \/ DispatcherReassign(o, w)
       \/ \E s \in Submissions : ResolveWorkOrder(o, s)
       \/ \E m \in Mutations : ProcessFieldSync(m, o)
  \/ \E i \in Incidents, s \in PatchTargets : UpdateIncidentStatus(i, s)
  \/ \E m \in Mutations : AcceptWorkerEvidence(m) \/ UpholdDispatcher(m)
  \/ AutoConfirmCron
  \/ Tick

CitizenNext == \E r \in Reports : CitizenConfirm(r) \/ CitizenDispute(r)

Next == StaffNext \/ CitizenNext

(***************************************************************************)
(* Time passes, and the cron is called every hour (a failed call is not    *)
(* retried, but the next one comes): both are weakly fair.  No person is.  *)
(***************************************************************************)
Fairness == WF_vars(Tick) /\ WF_vars(AutoConfirmCron)

Spec == Init /\ [][Next]_vars /\ Fairness

(***************************************************************************)
(* The platform without citizen feedback.                                  *)
(***************************************************************************)
StaffSpec == Init /\ [][StaffNext]_vars

------------------------------------------------------------------------------
(***************************************************************************)
(* Safety                                                                  *)
(***************************************************************************)

(***************************************************************************)
(* The evidence gate.  Whatever the route (REST, sync, adjudication), the  *)
(* proof an order, an incident or a pending review carries passed both the *)
(* photo-and-notes check and the 50 m check, and nothing is completed or   *)
(* resolved without one: not even by the PATCH endpoint, which asks for no *)
(* evidence and is held by the table constraint alone.                     *)
(***************************************************************************)
EvidenceGate ==
  /\ \A i \in Incidents :
       /\ incident[i].proof # None => ValidEvidence(incident[i].proof)
       /\ incident[i].status = "resolved" => incident[i].proof # None
  /\ \A o \in WorkOrders : Exists(o) =>
       /\ workOrder[o].proof # None => ValidEvidence(workOrder[o].proof)
       /\ workOrder[o].status = "completed" => workOrder[o].proof # None
  /\ \A m \in Mutations :
       review[m] # None => ValidEvidence(review[m].evidence)

(***************************************************************************)
(* Every resolved incident has an auto-confirm deadline, so the cron will  *)
(* find it.  The PATCH endpoint writes RESOLVED and no deadline: it is     *)
(* safe only because the table constraint asks for a proof, and a proof    *)
(* was always written with a deadline.                                     *)
(***************************************************************************)
ResolvedHasDeadline ==
  \A i \in Incidents :
    /\ incident[i].status = "resolved" => incident[i].deadline # None
    /\ incident[i].proof # None => incident[i].deadline # None

(***************************************************************************)
(* Chain of custody: the proof a citizen is shown for an incident is one   *)
(* that some work order of that incident holds, after any sequence of      *)
(* restarts, second orders, reassignments and adjudications.               *)
(***************************************************************************)
ProofCustody ==
  \A i \in Incidents :
    incident[i].proof # None =>
      \E o \in WorkOrders : /\ Exists(o)
                            /\ workOrder[o].incident = i
                            /\ workOrder[o].proof = incident[i].proof

(***************************************************************************)
(* The sync log and the supervisor's queue agree: there is a review for a  *)
(* mutation exactly when the log says conflict over a resolution that a    *)
(* dispatcher's action met, and it holds that mutation's evidence; a       *)
(* resolution with valid evidence is never logged as rejected.             *)
(***************************************************************************)
ReviewMatchesLog ==
  \A m \in Mutations :
    /\ review[m] # None =>
         /\ syncLog[m] # None
         /\ review[m].order = syncLog[m].order
         /\ Exists(review[m].order)
         /\ review[m].evidence = syncLog[m].evidence
    /\ syncLog[m] # None =>
         /\ review[m] # None <=>
              /\ syncLog[m].status = "conflict"
              /\ syncLog[m].reason # "conflict_already_completed"
              /\ syncLog[m].evidence # None
         /\ (syncLog[m].evidence # None /\ ValidEvidence(syncLog[m].evidence))
              => syncLog[m].status # "rejected"

(***************************************************************************)
(* Outcomes are final.  A logged mutation is never logged again or changed;*)
(* a review is opened only by the first processing of its mutation, keeps  *)
(* the order and the evidence it was opened with, stays in the table and   *)
(* does not become pending again: a device that sends a mutation twice     *)
(* cannot bring a closed review back, and neither can a later adjudication.*)
(* (That a decided review is not decided once more is OrderRaces's matter.)*)
(***************************************************************************)
OutcomesAreFinal ==
  [][ \A m \in Mutations :
        /\ syncLog[m] # None => syncLog'[m] = syncLog[m]
        /\ (review[m] = None /\ review'[m] # None) => syncLog[m] = None
        /\ review[m] # None =>
             /\ review'[m] # None
             /\ review'[m].order = review[m].order
             /\ review'[m].evidence = review[m].evidence
             /\ review'[m].captured = review[m].captured
             /\ review[m].status # "pending" => review'[m].status # "pending"
    ]_vars

(***************************************************************************)
(* Refinement: without the citizen's two endpoints, every handler keeps    *)
(* the reports aggregated as ReportAggregation says.                       *)
(***************************************************************************)
incidentStatus == [i \in Incidents |-> incident[i].status]

Aggregation == INSTANCE ReportAggregation

AggregationSpec == Aggregation!Spec

(***************************************************************************)
(* Liveness                                                                *)
(***************************************************************************)

(***************************************************************************)
(* The satisfaction loop closes: a resolution does not stay unanswered,    *)
(* for the citizen, the cron, or somebody else takes the incident on.      *)
(***************************************************************************)
ResolutionIsAnswered ==
  \A i \in Incidents :
    incident[i].status = "resolved" ~> incident[i].status # "resolved"

(***************************************************************************)
(* What the documents say and the code does not do.                        *)
(***************************************************************************)

(***************************************************************************)
(* Standing invariant 3: the status of a report is strictly the aggregate  *)
(* of its children.                                                        *)
(***************************************************************************)
ReportsAggregated ==
  \A r \in Reports : report[r] = Aggregate(incident, r)

(***************************************************************************)
(* A completed work order is not started again (the REST endpoint refuses; *)
(* sync does not ask).                                                     *)
(***************************************************************************)
CompletedOrderStaysCompleted ==
  [][ \A o \in WorkOrders :
        (Exists(o) /\ workOrder[o].status = "completed") =>
          workOrder'[o].status = "completed"
    ]_vars

==============================================================================
