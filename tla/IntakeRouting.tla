---------------------------- MODULE IntakeRouting ----------------------------
(***************************************************************************)
(* Intake: a citizen's form or photo becomes a report, its defects become  *)
(* observations, and each observation is linked to an incident that is     *)
(* already open or opens a new one.  One transaction per submission, with  *)
(* one step per observation, while other submissions and the handlers that *)
(* move incidents (module Dispatch, here MoveIncident) commit in between.  *)
(*                                                                         *)
(* Left out: tracking tokens, media, bounding boxes, the audit rows of     *)
(* incident_dedup_link (written, never read), refusals before anything is  *)
(* written (unknown organisation, photo over 10 MB).                       *)
(***************************************************************************)
EXTENDS Lifecycle, Sequences, FiniteSets

CONSTANTS
  Submissions,   \* bound: requests, each used once
  Payloads,      \* what citizens send
  Departments,   \* the organisation's departments, oldest first
  Approved,      \* Approved[c]: department of the approved category c
  Pothole,       \* the one category that the detector's model knows
  Unclassified,  \* the category of a photo nobody could classify
  MoveTargets,   \* bound: what other handlers make of an incident
  MaxEra         \* bound: the clock, in steps of more than 72 hours

DepartmentSet == {Departments[k] : k \in 1..Len(Departments)}

(***************************************************************************)
(* A payload: the form's items (category and department code) or, for a    *)
(* photo, the categories declared and the number of potholes that the      *)
(* detector's model finds (0 when no model is installed); the place, in    *)
(* metres along a street; whether it lies in a ward; the category that the *)
(* description resembles (similarity at least 0.80), if any.               *)
(*                                                                         *)
(* propose_category refuses a department of another organisation.          *)
(***************************************************************************)
ASSUME IntakeConstants ==
  /\ Departments \in Seq(DepartmentSet)
  /\ \A c \in DOMAIN Approved : Approved[c] \in DepartmentSet
  /\ \A p \in Payloads :
       /\ p.kind \in {"form", "photo"}
       /\ p.place \in Nat /\ p.inWard \in BOOLEAN
       /\ p.potholes \in Nat
  /\ MoveTargets \subseteq IncidentStatus
  /\ MaxEra \in Nat

VARIABLES
  opened,       \* committed incidents: the row of each, by its name
  filed,        \* filed[q]: the committed report of q
  submitting,   \* submitting[q]: the transaction of q
  era           \* the clock

intakeVars == <<opened, filed, submitting, era>>

(* An incident is named by the submission and the observation that made it. *)
IncidentNames == Submissions \X Nat

(***************************************************************************)
(* rows: the incidents it created.  loaded: status of each incident it has *)
(* loaded, as first loaded (the session does not refresh it).  children:   *)
(* the incidents its observations were linked to, in order.  known: the    *)
(* incidents open ever since it began.  moved: those that moved after it   *)
(* loaded them.                                                            *)
(***************************************************************************)
NoSubmission ==
  [at |-> "new", payload |-> <<>>, done |-> 0, started |-> 0,
   rows |-> <<>>, loaded |-> <<>>, children |-> <<>>, known |-> {},
   moved |-> {}]

EndedSubmission == [NoSubmission EXCEPT !.at = "done"]

NoReport == [status |-> "none", children |-> {}, overtaken |-> FALSE]

IntakeTypeOK ==
  /\ DOMAIN opened \subseteq IncidentNames
  /\ \A i \in DOMAIN opened :
       /\ opened[i].status \in IncidentStatus
       /\ opened[i].department \in DepartmentSet
  /\ filed \in [Submissions ->
       [status : IntakeStatus \cup {"none"}, children : SUBSET DOMAIN opened,
        overtaken : BOOLEAN]]
  /\ \A q \in Submissions :
       /\ submitting[q].at \in {"new", "routing", "done"}
       /\ submitting[q].known \subseteq DOMAIN opened
       /\ submitting[q].moved \subseteq DOMAIN submitting[q].loaded
  /\ era \in 0..MaxEra

IntakeInit ==
  /\ opened = <<>>
  /\ filed = [q \in Submissions |-> NoReport]
  /\ submitting = [q \in Submissions |-> NoSubmission]
  /\ era = 0

------------------------------------------------------------------------------
DefectOf(category, code, triage) ==
  [category |-> category, code |-> code, triage |-> triage]

(***************************************************************************)
(* What is in the submission: the form's items, or what the detector makes *)
(* of the photo.  The model's potholes go before what the citizen          *)
(* declared; with neither, one unclassified defect waits for a person.     *)
(***************************************************************************)
Detected(p) ==
  CASE p.kind = "form" ->
         [k \in 1..Len(p.items) |->
            DefectOf(p.items[k].category, p.items[k].code, FALSE)]
    [] p.kind = "photo" /\ p.potholes > 0 ->
         [k \in 1..p.potholes |-> DefectOf(Pothole, Pothole, FALSE)]
    [] p.kind = "photo" /\ p.potholes = 0 /\ p.declared # <<>> ->
         [k \in 1..Len(p.declared) |->
            DefectOf(p.declared[k], p.declared[k], FALSE)]
    [] OTHER -> <<DefectOf(Unclassified, Unclassified, TRUE)>>

(***************************************************************************)
(* The department of a defect, as a set of at most one.  A form names it   *)
(* by its code and is believed; a photo's category is looked up among the  *)
(* approved ones, then as a department's code, then given to the oldest.   *)
(***************************************************************************)
DepartmentOf(p, defect) ==
  LET byCode == {defect.code} \cap DepartmentSet
  IN  CASE p.kind = "form" -> byCode
        [] p.kind = "photo" /\ defect.category \in DOMAIN Approved ->
             {Approved[defect.category]}
        [] p.kind = "photo" /\ defect.category \notin DOMAIN Approved
             /\ byCode # {} -> byCode
        [] OTHER -> IF Departments = <<>> THEN {} ELSE {Departments[1]}

------------------------------------------------------------------------------
(***************************************************************************)
(* evaluate_splink_record_linkage.  The weights are log2(m/u) in           *)
(* hundredths of a bit, the prior odds of 5 % among them.  A posterior of  *)
(* 0.85 is odds of 2 ^ 2.50, one of 0.50 is odds of 2 ^ 0; no sum of these *)
(* weights comes near enough to either bound for rounding to matter.       *)
(***************************************************************************)
Far(a, b) == a - b > 50 \/ b - a > 50

SpatialWeight(a, b) ==
  CASE a - b \in -15..15 -> 641
    [] a - b \in -50..50 /\ a - b \notin -15..15 -> 358
    [] OTHER -> -423

(* Mutant of MatchWeight: the prior is left out. *)
WeightWithoutPrior(p, category, row, now) ==
  SpatialWeight(p.place, row.place)
    + (IF now = row.era THEN 317 ELSE -317)
    + (IF category = row.category THEN 425 ELSE -425)
    + (IF p.resembles = row.category THEN 513 ELSE -171)

MatchWeight(p, category, row, now) ==
  -425 + SpatialWeight(p.place, row.place)
    + (IF now = row.era THEN 317 ELSE -317)
    + (IF category = row.category THEN 425 ELSE -425)
    + (IF p.resembles = row.category THEN 513 ELSE -171)

Decision(weight) ==
  CASE weight >= 250 -> "exact_match"
    [] weight >= 0 /\ weight < 250 -> "probable_match"
    [] OTHER -> "distinct"

IsMatch(p, category, row, now) ==
  Decision(MatchWeight(p, category, row, now))
    \in {"exact_match", "probable_match"}

------------------------------------------------------------------------------
(***************************************************************************)
(* A submission begins: its report is inserted, uncommitted.               *)
(***************************************************************************)
IsOpen(status) == status \notin {"confirmed", "rejected"}

BeginSubmission(q, p) ==
  /\ submitting[q].at = "new"
  /\ submitting' = [submitting EXCEPT
       ![q] = [NoSubmission EXCEPT
                 !.at = "routing", !.payload = p, !.started = era,
                 !.known = {i \in DOMAIN opened : IsOpen(opened[i].status)}]]
  /\ UNCHANGED <<opened, filed, era>>

(***************************************************************************)
(* The rows the candidate query returns: of the department, neither        *)
(* confirmed nor rejected, committed or of this very submission.  (The     *)
(* query names no ward, though its comment does.)                          *)
(***************************************************************************)
(* Mutant of Candidates: resolved incidents are left out as well. *)
UnresolvedCandidates(q, department) ==
  {i \in DOMAIN opened : opened[i].department = department
                           /\ IsOpen(opened[i].status)
                           /\ opened[i].status # "resolved"}
  \cup {i \in DOMAIN submitting[q].rows :
          submitting[q].rows[i].department = department}

Candidates(q, department) ==
  {i \in DOMAIN opened : opened[i].department = department
                           /\ IsOpen(opened[i].status)}
  \cup {i \in DOMAIN submitting[q].rows :
          submitting[q].rows[i].department = department}

RowOf(q, i) ==
  IF i \in DOMAIN opened THEN opened[i] ELSE submitting[q].rows[i]

Defect(q) == Detected(submitting[q].payload)[submitting[q].done + 1]

MoreDefects(q) ==
  /\ submitting[q].at = "routing"
  /\ submitting[q].done < Len(Detected(submitting[q].payload))

Weight(q, i) ==
  MatchWeight(submitting[q].payload, Defect(q).category, RowOf(q, i), era)

(***************************************************************************)
(* Among the candidates that match, one of the highest weight; which one   *)
(* of several depends on the order in which the query returned them.       *)
(***************************************************************************)
BestMatches(q, department) ==
  LET matching == {i \in Candidates(q, department) :
                     IsMatch(submitting[q].payload, Defect(q).category,
                             RowOf(q, i), era)}
  IN  {i \in matching : \A j \in matching : Weight(q, j) <= Weight(q, i)}

Load(q, names) ==
  [i \in DOMAIN submitting[q].loaded \cup names |->
     IF i \in DOMAIN submitting[q].loaded THEN submitting[q].loaded[i]
                                          ELSE RowOf(q, i).status]

LinkToIncident(q, department) ==
  \E i \in BestMatches(q, department) :
    submitting' = [submitting EXCEPT
      ![q] = [submitting[q] EXCEPT !.done = @ + 1,
                       !.loaded = Load(q, Candidates(q, department)),
                       !.children = Append(@, i)]]

OpenIncident(q, department) ==
  LET name == <<q, submitting[q].done + 1>>
      row == [department |-> department, category |-> Defect(q).category,
              place |-> submitting[q].payload.place, status |-> "reported",
              era |-> submitting[q].started, routed |-> era]
      loaded == Load(q, Candidates(q, department))
  IN  /\ BestMatches(q, department) = {}
      /\ submitting' = [submitting EXCEPT
           ![q] = [submitting[q] EXCEPT
             !.done = @ + 1,
             !.rows = [i \in DOMAIN @ \cup {name} |->
                         IF i = name THEN row ELSE @[i]],
             !.loaded = [i \in DOMAIN loaded \cup {name} |->
                           IF i = name THEN "reported" ELSE loaded[i]],
             !.children = Append(@, name)]]

(* The place lies in no ward, or a person has to look first. *)
LeaveUnrouted(q) ==
  submitting' = [submitting EXCEPT ![q].done = @ + 1]

(***************************************************************************)
(* One observation.  A form's unknown department code is passed over; a    *)
(* photo in an organisation without departments is refused (AbortIntake).  *)
(***************************************************************************)
RouteObservation(q) ==
  LET p == submitting[q].payload
      department == DepartmentOf(p, Defect(q))
      routed == p.inWard /\ ~ Defect(q).triage
  IN  /\ MoreDefects(q)
      /\ \/ /\ department = {} /\ p.kind = "form"
            /\ LeaveUnrouted(q)
         \/ /\ department # {} /\ ~ routed
            /\ LeaveUnrouted(q)
         \/ /\ routed
            /\ \E d \in department :
                 LinkToIncident(q, d) \/ OpenIncident(q, d)
      /\ UNCHANGED <<opened, filed, era>>

(***************************************************************************)
(* The report's status from the statuses as loaded, and COMMIT.            *)
(***************************************************************************)
ChildSet(q) == {submitting[q].children[k] :
                  k \in 1..Len(submitting[q].children)}

(* Mutant of FiledStatus: only the last observation counts. *)
StatusOfLastChild(q) ==
  LET children == submitting[q].children
  IN  CalculateIntakeStatus(IF children = <<>> THEN {}
        ELSE {submitting[q].loaded[children[Len(children)]]})

FiledStatus(q) ==
  CalculateIntakeStatus({submitting[q].loaded[i] : i \in ChildSet(q)})

CommitIntake(q) ==
  LET mine == submitting[q]
  IN  /\ mine.at = "routing" /\ ~ MoreDefects(q)
      /\ opened' = [i \in DOMAIN opened \cup DOMAIN mine.rows |-> RowOf(q, i)]
      /\ filed' = [filed EXCEPT
           ![q] = [status |-> FiledStatus(q), children |-> ChildSet(q),
                   overtaken |-> mine.moved \cap ChildSet(q) # {}]]
      /\ submitting' = [submitting EXCEPT ![q] = EndedSubmission]
      /\ UNCHANGED era

(* A refusal, a crash, a lost connection. *)
AbortIntake(q) ==
  /\ submitting[q].at = "routing"
  /\ submitting' = [submitting EXCEPT ![q] = EndedSubmission]
  /\ UNCHANGED <<opened, filed, era>>

(***************************************************************************)
(* Another handler moves an incident and recomputes the reports that are   *)
(* committed with an observation on it.                                    *)
(***************************************************************************)
MoveIncident(i, status) ==
  LET after == [opened EXCEPT ![i].status = status]
  IN  /\ i \in DOMAIN opened /\ opened[i].status # status
      /\ opened' = after
      /\ filed' = [q \in Submissions |->
           IF i \in filed[q].children
             THEN [filed[q] EXCEPT
                     !.status = CalculateIntakeStatus(
                       {after[j].status : j \in filed[q].children}),
                     !.overtaken = FALSE]
             ELSE filed[q]]
      /\ submitting' = [q \in Submissions |->
           [submitting[q] EXCEPT
              !.known = IF IsOpen(status) THEN @ ELSE @ \ {i},
              !.moved = @ \cup ({i} \cap DOMAIN submitting[q].loaded)]]
      /\ UNCHANGED era

NextEra ==
  /\ era < MaxEra
  /\ era' = era + 1
  /\ UNCHANGED <<opened, filed, submitting>>

IntakeNext ==
  \/ \E q \in Submissions :
       \/ \E p \in Payloads : BeginSubmission(q, p)
       \/ RouteObservation(q)
       \/ CommitIntake(q)
       \/ AbortIntake(q)
  \/ \E i \in DOMAIN opened, status \in MoveTargets : MoveIncident(i, status)
  \/ NextEra

IntakeSpec == IntakeInit /\ [][IntakeNext]_intakeVars

------------------------------------------------------------------------------
(***************************************************************************)
(* Duplicates come from overlap alone: what a submission opens matches no  *)
(* incident that was committed before it began and stayed open since, and  *)
(* no other incident that it opened before.  Two submissions that overlap  *)
(* do open one each.                                                       *)
(***************************************************************************)
NoLoneDuplicate ==
  \A q \in Submissions :
    LET mine == submitting[q].rows
        duplicates(n, row) ==
          row.department = mine[n].department
            /\ IsMatch(submitting[q].payload, mine[n].category, row,
                       mine[n].routed)
    IN  \A n \in DOMAIN mine :
          /\ \A i \in submitting[q].known : ~ duplicates(n, opened[i])
          /\ \A m \in DOMAIN mine : m[2] < n[2] => ~ duplicates(n, mine[m])

(***************************************************************************)
(* A report is filed with the aggregate of its incidents, and keeps it,    *)
(* unless one of them moved between being read and COMMIT: then it is      *)
(* wrong until the next of its incidents moves.                            *)
(***************************************************************************)
FiledAggregated ==
  \A q \in Submissions :
    filed[q].status # "none" /\ ~ filed[q].overtaken =>
      filed[q].status =
        CalculateIntakeStatus({opened[i].status : i \in filed[q].children})

(***************************************************************************)
(* An observation joins an incident more than 50 metres away only if       *)
(* everything else agrees: category, time and description.  (Then it does, *)
(* however far away the incident is and in whichever ward.)                *)
(***************************************************************************)
FarMergeNeedsEverything ==
  [][ \A q \in Submissions :
        LET k == submitting[q].done + 1
            p == submitting[q].payload
        IN  Len(submitting'[q].children) > Len(submitting[q].children) =>
              LET i == submitting'[q].children[Len(submitting'[q].children)]
                  row == RowOf(q, i)
              IN  i # <<q, k>> /\ Far(p.place, row.place) =>
                    /\ row.category = Defect(q).category
                    /\ row.category = p.resembles
                    /\ row.era = era
    ]_intakeVars
==============================================================================
