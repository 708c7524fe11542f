-------------------------- MODULE ReportAggregation --------------------------
(***************************************************************************)
(* What the platform promises of an intake report's status, with nothing   *)
(* said of who moves the incidents: whenever incidents change status,      *)
(* every report with an observation on one of them is recomputed from its  *)
(* children (recompute_intake_report_status), and no other report moves.   *)
(*                                                                         *)
(* This is the abstract specification that the staff, field and cron       *)
(* handlers of module Dispatch implement.                                  *)
(***************************************************************************)
EXTENDS Lifecycle

CONSTANTS
  Incidents,   \* operational incidents
  Reports,     \* citizen intake reports
  Links        \* <<r, i>>: report r has an observation routed to incident i

ASSUME LinksAssumption == Links \subseteq Reports \X Incidents

VARIABLES
  incidentStatus,   \* incidentStatus[i]: incident.status
  report            \* report[r]: intake_report.status

vars == <<incidentStatus, report>>

ChildrenOf(r) == {i \in Incidents : <<r, i>> \in Links}

ParentsOf(i) == {r \in Reports : <<r, i>> \in Links}

(***************************************************************************)
(* The status a report must have under given incident statuses.            *)
(***************************************************************************)
Aggregate(status, r) == CalculateIntakeStatus({status[i] : i \in ChildrenOf(r)})

TypeOK ==
  /\ incidentStatus \in [Incidents -> IncidentStatus]
  /\ report \in [Reports -> IntakeStatus]

Init ==
  /\ incidentStatus \in [Incidents -> IncidentStatus]
  /\ report = [r \in Reports |-> Aggregate(incidentStatus, r)]

(***************************************************************************)
(* Some incidents move, in one transaction, and their parents with them.   *)
(***************************************************************************)
MoveIncidents ==
  /\ incidentStatus' \in [Incidents -> IncidentStatus]
  /\ LET moved == {i \in Incidents : incidentStatus'[i] # incidentStatus[i]}
     IN  report' = [r \in Reports |->
                      IF \E i \in moved : r \in ParentsOf(i)
                        THEN Aggregate(incidentStatus', r)
                        ELSE report[r]]

Next == MoveIncidents

Spec == Init /\ [][Next]_vars

(***************************************************************************)
(* The table of report statuses a citizen sees, in order of progress.      *)
(***************************************************************************)
CitizenRank ==
  [ submitted |-> 1, processing |-> 2, triaged |-> 3, in_progress |-> 4,
    partially_resolved |-> 5, resolved |-> 6, closed |-> 7 ]

ActiveChildren(r) == {i \in ChildrenOf(r) : incidentStatus[i] # "rejected"}

(***************************************************************************)
(* A report is resolved or closed only when every child that was not       *)
(* rejected is at least resolved, respectively confirmed; and a report     *)
(* with some child still open is neither.  This is what a citizen relies   *)
(* on: one finished issue never closes the others.                         *)
(***************************************************************************)
NoChildLeftBehind ==
  \A r \in Reports :
    /\ report[r] = "resolved" =>
         \A i \in ActiveChildren(r) :
           incidentStatus[i] \in {"resolved", "confirmed"}
    /\ report[r] = "closed" =>
         \A i \in ActiveChildren(r) : incidentStatus[i] = "confirmed"
    /\ report[r] = "rejected" <=>
         (ChildrenOf(r) # {} /\ ActiveChildren(r) = {})

(***************************************************************************)
(* The aggregation is monotone: when incidents only advance along the      *)
(* progression ranks (none is rejected or comes back from rejection), no   *)
(* report moves backwards in the table the citizen reads.                  *)
(***************************************************************************)
ReportsFollowProgress ==
  [][ (\A i \in Incidents :
         incidentStatus'[i] # incidentStatus[i] =>
           /\ "rejected" \notin {incidentStatus[i], incidentStatus'[i]}
           /\ ProgressionRank[incidentStatus'[i]]
                >= ProgressionRank[incidentStatus[i]])
      => \A r \in Reports :
           report[r] # "rejected" /\ report'[r] # "rejected" =>
             CitizenRank[report'[r]] >= CitizenRank[report[r]]
    ]_vars

==============================================================================
