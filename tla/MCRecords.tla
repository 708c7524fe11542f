------------------------------ MODULE MCRecords ------------------------------
(***************************************************************************)
(* Values for the constants of ReportAggregation, CausalGraph, Ledger and  *)
(* IntakeRouting, and the four side by side.                               *)
(*                                                                         *)
(* The four share no state, so a behaviour in which two of them move says  *)
(* nothing that one of them alone does not.  focus names the one that      *)
(* moves in a behaviour.                                                   *)
(***************************************************************************)
EXTENDS ReportAggregation, CausalGraph, Ledger, IntakeRouting, TLC

CONSTANTS
  Focuses,
  r1, r2, i1, i2, i3,                        \* ReportAggregation
  n1, n2, n3,                                \* CausalGraph
  roads, water, pothole, leak, other         \* IntakeRouting

VARIABLE focus

(* r1 has three children and shares one of them with r2. *)
ThreeAndOne == {<<r1, i1>>, <<r1, i2>>, <<r1, i3>>, <<r2, i3>>}

(* 80 and what it may cause reach the cap of 100. *)
Priorities == n1 :> 90 @@ n2 :> 80 @@ n3 :> 60

RoadsAndWater == <<roads, water>>

ApprovedCategories == pothole :> roads @@ leak :> water

(***************************************************************************)
(* Forms with two items, with an unknown department, outside every ward;   *)
(* a declared photo, one whose potholes the model finds, one for triage.   *)
(* Places 20 and 30 metres apart, and one far away.                        *)
(***************************************************************************)
Item(category, code) == [category |-> category, code |-> code]

Form(items, place, inWard, resembles) ==
  [kind |-> "form", items |-> items, declared |-> <<>>, potholes |-> 0,
   place |-> place, inWard |-> inWard, resembles |-> resembles]

Photo(declared, potholes, place, resembles) ==
  [kind |-> "photo", items |-> <<>>, declared |-> declared,
   potholes |-> potholes, place |-> place, inWard |-> TRUE,
   resembles |-> resembles]

Sent ==
  { Form(<<Item(pothole, roads), Item(leak, water)>>, 0, TRUE, leak),
    Form(<<Item(pothole, roads), Item(leak, other)>>, 500, TRUE, pothole),
    Form(<<Item(pothole, roads)>>, 0, FALSE, leak),
    Photo(<<leak, other>>, 0, 30, leak),
    Photo(<<>>, 2, 20, other),
    Photo(<<>>, 0, 20, other) }

------------------------------------------------------------------------------
allRecords == <<focus, vars, causalVars, ledgerVars, intakeVars>>

RecordsInit ==
  /\ focus \in Focuses
  /\ Init
  /\ focus # "reports" => incidentStatus = [i \in Incidents |-> "reported"]
  /\ CausalInit /\ LedgerInit /\ IntakeInit

MoveReports ==
  /\ focus = "reports" /\ Next
  /\ UNCHANGED <<focus, causalVars, ledgerVars, intakeVars>>

MoveLinks ==
  /\ focus = "causal" /\ CausalNext
  /\ UNCHANGED <<focus, vars, ledgerVars, intakeVars>>

MoveLedger ==
  /\ focus = "ledger" /\ LedgerNext
  /\ UNCHANGED <<focus, vars, causalVars, intakeVars>>

MoveIntake ==
  /\ focus = "intake" /\ IntakeNext
  /\ UNCHANGED <<focus, vars, causalVars, ledgerVars>>

RecordsNext == MoveReports \/ MoveLinks \/ MoveLedger \/ MoveIntake

RecordsSpec == RecordsInit /\ [][RecordsNext]_allRecords

(***************************************************************************)
(* The rows of each component stay what the tables hold: among others,     *)
(* every score stays within 100 however links raise it, and an incident    *)
(* belongs to a department of the organisation.                            *)
(***************************************************************************)
RecordsTypeOK == TypeOK /\ CausalTypeOK /\ LedgerTypeOK /\ IntakeTypeOK
==============================================================================
