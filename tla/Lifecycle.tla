------------------------------ MODULE Lifecycle ------------------------------
(***************************************************************************)
(* The status vocabulary of CivicBrain and the rule that derives the       *)
(* status of a citizen's intake report from the statuses of the incidents  *)
(* its observations were routed to.                                        *)
(*                                                                         *)
(* Everything here is a constant-level definition: the state machines of   *)
(* the project extend this module.                                         *)
(***************************************************************************)
EXTENDS Integers

(***************************************************************************)
(* IncidentStatus, IntakeStatus: the two enums of domain/intake/models.py. *)
(***************************************************************************)
IncidentStatus ==
  { "reported", "triaged", "verified", "prioritized", "assigned",
    "in_progress", "resolved", "confirmed", "rejected", "appealed",
    "reopened" }

IntakeStatus ==
  { "submitted", "processing", "triaged", "in_progress",
    "partially_resolved", "resolved", "closed", "rejected" }

(***************************************************************************)
(* PROGRESSION_RANK: how far along the linear path a status is.  A         *)
(* rejected incident has no rank; it is excluded before ranks are read.    *)
(***************************************************************************)
ProgressionRank ==
  [ s \in IncidentStatus \ {"rejected"} |->
      CASE s = "reported" -> 1
        [] s = "triaged" -> 2
        [] s = "verified" -> 3
        [] s = "prioritized" -> 4
        [] s = "assigned" -> 5
        [] s \in {"in_progress", "reopened", "appealed"} -> 6
        [] s = "resolved" -> 7
        [] s = "confirmed" -> 8 ]

(***************************************************************************)
(* The direct mapping from the least advanced child to the report.         *)
(***************************************************************************)
DirectMapping ==
  [ s \in IncidentStatus \ {"rejected"} |->
      CASE s = "reported" -> "submitted"
        [] s = "triaged" -> "processing"
        [] s \in {"verified", "prioritized"} -> "triaged"
        [] s \in {"assigned", "in_progress", "reopened", "appealed"}
             -> "in_progress"
        [] s = "resolved" -> "resolved"
        [] s = "confirmed" -> "closed" ]

(* Mutant of IsResolved: only a confirmed child counts as resolved. *)
IsConfirmed(s) == ProgressionRank[s] >= ProgressionRank["confirmed"]

(***************************************************************************)
(* The statuses the code calls resolved: rank at least that of RESOLVED.   *)
(***************************************************************************)
IsResolved(s) == ProgressionRank[s] >= ProgressionRank["resolved"]

(* Mutant of LeastAdvanced: max() for min(). *)
MostAdvanced(active) ==
  CHOOSE s \in active :
    \A t \in active : ProgressionRank[s] >= ProgressionRank[t]

(***************************************************************************)
(* The least advanced of a non-empty set of active statuses.  Statuses of  *)
(* equal rank map to the same report status, so which one min() returns    *)
(* does not matter.                                                        *)
(***************************************************************************)
LeastAdvanced(active) ==
  CHOOSE s \in active :
    \A t \in active : ProgressionRank[s] <= ProgressionRank[t]

(* Mutant of CalculateIntakeStatus: an incident status where an intake      *)
(* status belongs, for want of the direct mapping.                          *)
UnmappedIntakeStatus(children) ==
  IF children \ {"rejected"} = {}
    THEN "submitted"
    ELSE LeastAdvanced(children \ {"rejected"})

(***************************************************************************)
(* calculate_intake_status_from_children.  The code takes a list; only the *)
(* set of statuses in it matters.                                          *)
(***************************************************************************)
CalculateIntakeStatus(children) ==
  LET active == children \ {"rejected"}
  IN  CASE children = {}
             -> "submitted"
        [] children # {} /\ active = {}
             -> "rejected"
        [] /\ \E s \in active : IsResolved(s)
           /\ \E s \in active : ~ IsResolved(s)
             -> "partially_resolved"
        [] OTHER
             -> DirectMapping[LeastAdvanced(active)]

==============================================================================
