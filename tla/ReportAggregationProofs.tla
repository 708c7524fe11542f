----------------------- MODULE ReportAggregationProofs -----------------------
(***************************************************************************)
(* Theorems of module ReportAggregation, for every set of incidents and    *)
(* reports and every way they are linked.                                  *)
(***************************************************************************)
EXTENDS ReportAggregation, LifecycleProofs, TLAPS

StatusesOf(status, r) == {status[i] : i \in ChildrenOf(r)}

(***************************************************************************)
(* The inductive invariant: a report is the aggregate of its children,     *)
(* always.  Reports none of whose children moved are not recomputed, and   *)
(* need not be.                                                            *)
(***************************************************************************)
Aggregated ==
  /\ incidentStatus \in [Incidents -> IncidentStatus]
  /\ report = [r \in Reports |-> Aggregate(incidentStatus, r)]

LEMMA StatusesType ==
  ASSUME NEW status \in [Incidents -> IncidentStatus], NEW r \in Reports
  PROVE  StatusesOf(status, r) \in SUBSET IncidentStatus
  BY DEF StatusesOf, ChildrenOf

LEMMA StepAggregated ==
  ASSUME Aggregated, [Next]_vars
  PROVE  Aggregated'
<1>1. CASE MoveIncidents
  <2> DEFINE moved == {i \in Incidents : incidentStatus'[i] # incidentStatus[i]}
  <2>1. ASSUME NEW r \in Reports, ~ \E i \in moved : r \in ParentsOf(i)
        PROVE  Aggregate(incidentStatus', r) = Aggregate(incidentStatus, r)
    <3>1. \A i \in ChildrenOf(r) : incidentStatus'[i] = incidentStatus[i]
      BY <2>1 DEF ChildrenOf, ParentsOf
    <3>2. {incidentStatus'[i] : i \in ChildrenOf(r)}
            = {incidentStatus[i] : i \in ChildrenOf(r)}
      BY <3>1
    <3>3. QED BY <3>2 DEF Aggregate
  <2>2. report' = [r \in Reports |-> Aggregate(incidentStatus', r)]
    BY <1>1, <2>1 DEF MoveIncidents, Aggregated
  <2>3. QED BY <1>1, <2>2 DEF MoveIncidents, Aggregated
<1>2. CASE UNCHANGED vars
  BY <1>2 DEF vars, Aggregated, Aggregate
<1>3. QED BY <1>1, <1>2 DEF Next

THEOREM AlwaysAggregated == Spec => []Aggregated
<1>1. Init => Aggregated
  BY DEF Init, Aggregated
<1>2. Aggregated /\ [Next]_vars => Aggregated'
  BY StepAggregated
<1>3. QED BY <1>1, <1>2, PTL DEF Spec

(***************************************************************************)
(* Whatever the incidents do, a report keeps an intake status.             *)
(***************************************************************************)
THEOREM ReportTypes == Spec => []TypeOK
<1>1. Aggregated => TypeOK
  <2> SUFFICES ASSUME Aggregated, NEW r \in Reports
               PROVE  Aggregate(incidentStatus, r) \in IntakeStatus
    BY DEF Aggregated, TypeOK
  <2>1. QED BY StatusesType, AggregateType DEF Aggregated, Aggregate, StatusesOf
<1>2. QED BY <1>1, AlwaysAggregated, PTL

(***************************************************************************)
(* A resolved or closed report has no child left open, and a rejected one  *)
(* has rejected children only.                                             *)
(***************************************************************************)
THEOREM NobodyIsLeftBehind == Spec => []NoChildLeftBehind
<1>1. Aggregated => NoChildLeftBehind
  <2> SUFFICES ASSUME Aggregated, NEW r \in Reports
               PROVE  /\ report[r] = "resolved" =>
                           \A i \in ActiveChildren(r) :
                             incidentStatus[i] \in {"resolved", "confirmed"}
                      /\ report[r] = "closed" =>
                           \A i \in ActiveChildren(r) :
                             incidentStatus[i] = "confirmed"
                      /\ report[r] = "rejected" <=>
                           (ChildrenOf(r) # {} /\ ActiveChildren(r) = {})
    BY DEF NoChildLeftBehind
  <2> DEFINE children == StatusesOf(incidentStatus, r)
             active == children \ {"rejected"}
  <2>1. report[r] = CalculateIntakeStatus(children)
    BY DEF Aggregated, Aggregate, StatusesOf
  <2>2. children \in SUBSET IncidentStatus
    BY StatusesType DEF Aggregated
  <2>3. /\ \A i \in ActiveChildren(r) : incidentStatus[i] \in active
        /\ children = {} <=> ChildrenOf(r) = {}
        /\ active = {} <=> ActiveChildren(r) = {}
    BY DEF ActiveChildren, StatusesOf
  <2> HIDE DEF children
  <2>4. QED BY <2>1, <2>2, <2>3, FinalStatusMeaning
<1>2. QED BY <1>1, AlwaysAggregated, PTL

(***************************************************************************)
(* Progress of the children is progress of the report.  One lemma for one  *)
(* status, one for the two sets of statuses before and after a step.       *)
(***************************************************************************)
LEMMA MappingMonotone ==
  ASSUME NEW s \in IncidentStatus \ {"rejected"},
         NEW t \in IncidentStatus \ {"rejected"},
         ProgressionRank[s] <= ProgressionRank[t]
  PROVE  /\ CitizenRank[DirectMapping[s]] <= CitizenRank[DirectMapping[t]]
         /\ CitizenRank[DirectMapping[s]] \in 1..7
         /\ IsResolved(s) => CitizenRank[DirectMapping[s]] > 5
         /\ ~ IsResolved(s) => CitizenRank[DirectMapping[s]] < 5
         /\ IsResolved(s) => IsResolved(t)
<1>1. /\ ProgressionRank[s] \in 1..8
      /\ ProgressionRank[t] \in 1..8
      /\ IsResolved(s) <=> ProgressionRank[s] >= 7
      /\ IsResolved(t) <=> ProgressionRank[t] >= 7
  BY DEF ProgressionRank, IncidentStatus, IsResolved
<1>2. \A x \in IncidentStatus \ {"rejected"} :
        CitizenRank[DirectMapping[x]] =
          CASE ProgressionRank[x] = 1 -> 1
            [] ProgressionRank[x] = 2 -> 2
            [] ProgressionRank[x] \in {3, 4} -> 3
            [] ProgressionRank[x] \in {5, 6} -> 4
            [] ProgressionRank[x] = 7 -> 6
            [] ProgressionRank[x] = 8 -> 7
  BY DEF CitizenRank, DirectMapping, ProgressionRank, IncidentStatus
<1>3. QED BY <1>1, <1>2

LEMMA AggregateMonotone ==
  ASSUME NEW before \in SUBSET IncidentStatus,
         NEW after \in SUBSET IncidentStatus,
         before \ {"rejected"} # {}, after \ {"rejected"} # {},
         \A t \in after \ {"rejected"} : \E s \in before \ {"rejected"} :
           ProgressionRank[s] <= ProgressionRank[t],
         \A s \in before \ {"rejected"} : \E t \in after \ {"rejected"} :
           ProgressionRank[s] <= ProgressionRank[t]
  PROVE  CitizenRank[CalculateIntakeStatus(before)]
           <= CitizenRank[CalculateIntakeStatus(after)]
<1> DEFINE Mixed(c) == /\ \E s \in c : IsResolved(s)
                       /\ \E s \in c : ~ IsResolved(s)
           b == before \ {"rejected"}
           a == after \ {"rejected"}
<1>1. ASSUME NEW c \in SUBSET IncidentStatus, c \ {"rejected"} # {}
      PROVE  CalculateIntakeStatus(c) =
               IF Mixed(c \ {"rejected"})
                 THEN "partially_resolved"
                 ELSE DirectMapping[LeastAdvanced(c \ {"rejected"})]
  <2>1. c # {}
    BY <1>1
  <2>2. QED BY <1>1, <2>1 DEF CalculateIntakeStatus
<1>2. /\ b \in SUBSET (IncidentStatus \ {"rejected"})
      /\ a \in SUBSET (IncidentStatus \ {"rejected"})
  OBVIOUS
<1>3. CitizenRank["partially_resolved"] = 5
  BY DEF CitizenRank
<1> DEFINE lb == LeastAdvanced(b)
           la == LeastAdvanced(a)
<1>4. /\ lb \in b /\ \A s \in b : ProgressionRank[lb] <= ProgressionRank[s]
      /\ la \in a /\ \A t \in a : ProgressionRank[la] <= ProgressionRank[t]
  BY <1>2, LeastAdvancedExists
<1>5. ProgressionRank[lb] <= ProgressionRank[la]
  <2>1. PICK s \in b : ProgressionRank[s] <= ProgressionRank[la]
    BY <1>4
  <2>2. ProgressionRank[lb] <= ProgressionRank[s]
    BY <1>4
  <2>3. /\ ProgressionRank[s] \in 1..8
        /\ ProgressionRank[lb] \in 1..8
        /\ ProgressionRank[la] \in 1..8
    BY <1>2, <1>4, RankFacts
  <2>4. QED BY <2>1, <2>2, <2>3
<1> DEFINE sb == CalculateIntakeStatus(before)
           sa == CalculateIntakeStatus(after)
<1>6. /\ sb = IF Mixed(b) THEN "partially_resolved" ELSE DirectMapping[lb]
      /\ sa = IF Mixed(a) THEN "partially_resolved" ELSE DirectMapping[la]
  BY <1>1
<1> HIDE DEF lb, la, sb, sa
<1> SUFFICES CitizenRank[sb] <= CitizenRank[sa]
  BY DEF sb, sa
<1>7. CASE Mixed(b)
  <2>1. \E t \in a : IsResolved(t)
    BY <1>2, <1>7, MappingMonotone
  <2>2. CASE Mixed(a)
    BY <1>3, <1>7, <1>6, <2>2
  <2>3. CASE ~ Mixed(a)
    <3>1. IsResolved(la)
      BY <1>4, <2>1, <2>3
    <3>2. CitizenRank[DirectMapping[la]] > 5 /\ CitizenRank[DirectMapping[la]] \in 1..7
      BY <1>2, <1>4, <3>1, MappingMonotone, RankFacts
    <3>3. QED BY <1>3, <1>7, <1>6, <2>3, <3>2
  <2>4. QED BY <2>2, <2>3
<1>8. CASE ~ Mixed(b)
  <2>1. CASE Mixed(a)
    <3>1. ~ IsResolved(lb)
      <4>1. CASE IsResolved(lb)
        <5>1. \A s \in b : IsResolved(s)
          BY <1>2, <1>4, <4>1, MappingMonotone
        <5>2. \A t \in a : IsResolved(t)
          BY <1>2, <5>1, MappingMonotone
        <5>3. QED BY <2>1, <5>2
      <4>2. QED BY <4>1
    <3>2. CitizenRank[DirectMapping[lb]] < 5 /\ CitizenRank[DirectMapping[lb]] \in 1..7
      BY <1>2, <1>4, <3>1, MappingMonotone, RankFacts
    <3>3. QED BY <1>3, <1>8, <1>6, <2>1, <3>2
  <2>2. CASE ~ Mixed(a)
    <3>1. CitizenRank[DirectMapping[lb]] <= CitizenRank[DirectMapping[la]]
      BY <1>2, <1>4, <1>5, MappingMonotone
    <3>2. QED BY <1>8, <1>6, <2>2, <3>1
  <2>3. QED BY <2>1, <2>2
<1>9. QED BY <1>7, <1>8

(***************************************************************************)
(* No step that only advances incidents takes a report back.               *)
(***************************************************************************)
THEOREM ProgressIsMonotone == Spec => ReportsFollowProgress
<1> DEFINE Advance ==
             \A i \in Incidents : incidentStatus'[i] # incidentStatus[i] =>
               /\ "rejected" \notin {incidentStatus[i], incidentStatus'[i]}
               /\ ProgressionRank[incidentStatus'[i]]
                    >= ProgressionRank[incidentStatus[i]]
           Kept ==
             \A r \in Reports : report[r] # "rejected" /\ report'[r] # "rejected"
               => CitizenRank[report'[r]] >= CitizenRank[report[r]]
<1>1. ASSUME Aggregated, [Next]_vars, Advance, NEW r \in Reports,
             report[r] # "rejected", report'[r] # "rejected"
      PROVE  CitizenRank[report'[r]] >= CitizenRank[report[r]]
  <2>1. Aggregated'
    BY <1>1, StepAggregated
  <2> DEFINE before == StatusesOf(incidentStatus, r)
             after == StatusesOf(incidentStatus', r)
  <2>2. /\ before \in SUBSET IncidentStatus /\ after \in SUBSET IncidentStatus
        /\ report[r] = CalculateIntakeStatus(before)
        /\ report'[r] = CalculateIntakeStatus(after)
    BY <1>1, <2>1, StatusesType DEF Aggregated, Aggregate, StatusesOf
  <2>3. \A i \in ChildrenOf(r) :
          /\ incidentStatus[i] = "rejected" <=> incidentStatus'[i] = "rejected"
          /\ incidentStatus[i] # "rejected" =>
               ProgressionRank[incidentStatus[i]]
                 <= ProgressionRank[incidentStatus'[i]]
    <3> SUFFICES ASSUME NEW i \in ChildrenOf(r)
                 PROVE  /\ incidentStatus[i] = "rejected"
                             <=> incidentStatus'[i] = "rejected"
                        /\ incidentStatus[i] # "rejected" =>
                             ProgressionRank[incidentStatus[i]]
                               <= ProgressionRank[incidentStatus'[i]]
      OBVIOUS
    <3>1. i \in Incidents /\ incidentStatus[i] \in IncidentStatus
      BY <1>1 DEF ChildrenOf, Aggregated
    <3>2. CASE incidentStatus'[i] = incidentStatus[i]
      BY <3>1, <3>2, RankFacts
    <3>3. CASE incidentStatus'[i] # incidentStatus[i]
      BY <1>1, <2>1, <3>1, <3>3, RankFacts DEF Aggregated
    <3>4. QED BY <3>2, <3>3
  <2>4. CASE ChildrenOf(r) = {}
    <3>1. before = {} /\ after = {}
      BY <2>4 DEF StatusesOf
    <3>2. report[r] = "submitted" /\ report'[r] = "submitted"
      BY <2>2, <3>1 DEF CalculateIntakeStatus
    <3>3. QED BY <3>2 DEF CitizenRank
  <2>5. CASE ChildrenOf(r) # {}
    <3>1. before # {} /\ after # {}
      BY <2>5 DEF StatusesOf
    <3>2. before \ {"rejected"} # {} /\ after \ {"rejected"} # {}
      <4> HIDE DEF before, after
      <4>1. QED BY <1>1, <2>2, <3>1, FinalStatusMeaning
    <3>3. /\ \A t \in after \ {"rejected"} : \E s \in before \ {"rejected"} :
               ProgressionRank[s] <= ProgressionRank[t]
          /\ \A s \in before \ {"rejected"} : \E t \in after \ {"rejected"} :
               ProgressionRank[s] <= ProgressionRank[t]
      BY <2>3 DEF StatusesOf
    <3> HIDE DEF before, after
    <3>4. CitizenRank[CalculateIntakeStatus(before)]
            <= CitizenRank[CalculateIntakeStatus(after)]
      BY <2>2, <3>2, <3>3, AggregateMonotone
    <3>5. QED BY <2>2, <3>4
  <2>6. QED BY <2>4, <2>5
<1>2. Aggregated /\ [Next]_vars => (Advance => Kept)
  BY <1>1
<1>3. QED BY <1>2, AlwaysAggregated, PTL DEF Spec, ReportsFollowProgress

==============================================================================
