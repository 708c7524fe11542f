--------------------------- MODULE MCAdministration ---------------------------
(***************************************************************************)
(* Values for the constants of Governance, RateLimiter and StaffImport,    *)
(* and the three side by side: they share no state, and focus names the    *)
(* one that moves in a behaviour.                                          *)
(***************************************************************************)
EXTENDS Governance, RateLimiter, StaffImport, TLC

CONSTANTS
  Focuses,
  m1, m2, m3,                            \* Governance
  f1, f2, p1, p2, p3, e1, w1, d1, z1     \* StaffImport

VARIABLE focus

(* Three consistent matrices, one of which rounds up to 0.10. *)
OneOnTheEdge == m1 :> 450000 @@ m2 :> 999998 @@ m3 :> 0

ThreeConsistent == m1 :> 450000 @@ m2 :> 0 @@ m3 :> 120000

(***************************************************************************)
(* f1 has two corporators of one ward and a phone twice; f2 shares a phone *)
(* and the ward.                                                           *)
(***************************************************************************)
Staff(role, phone, email, ward) ==
  [named |-> TRUE, role |-> role, phone |-> phone, email |-> email,
   department |-> d1, zone |-> z1, ward |-> ward]

TwoFiles ==
  f1 :> << Staff("corporator", p1, NoEmail, w1),
           Staff("corporator", p2, e1, w1),
           Staff("field_worker", p3, e1, w1),
           Staff("dispatcher", p3, NoEmail, NoWard) >>
  @@
  f2 :> << Staff("admin", p2, NoEmail, NoWard),
           Staff("dispatcher", Malformed, NoEmail, NoWard),
           Staff("zonal_supervisor", p2, Malformed, NoWard),
           Staff("corporator", p3, NoEmail, w1) >>

(* One file, two rows with the same email. *)
OneEmailTwice ==
  f1 :> << Staff("dispatcher", p1, e1, NoWard),
           Staff("dispatcher", p2, e1, NoWard) >>

------------------------------------------------------------------------------
allAdministration == <<focus, governanceVars, rateVars, importVars>>

AdministrationInit ==
  /\ focus \in Focuses
  /\ GovernanceInit /\ RateInit /\ ImportInit

MoveGovernance ==
  /\ focus = "governance" /\ GovernanceNext
  /\ UNCHANGED <<focus, rateVars, importVars>>

MoveRates ==
  /\ focus = "rates" /\ RateNext
  /\ UNCHANGED <<focus, governanceVars, importVars>>

MoveImports ==
  /\ focus = "import" /\ ImportNext
  /\ UNCHANGED <<focus, governanceVars, rateVars>>

AdministrationNext == MoveGovernance \/ MoveRates \/ MoveImports

AdministrationSpec ==
  /\ AdministrationInit
  /\ [][AdministrationNext]_allAdministration
  /\ GovernanceFairness /\ RateFairness

(***************************************************************************)
(* The rows and keys stay what the tables and Redis hold: among others, no *)
(* import ever makes an administrator.                                     *)
(***************************************************************************)
AdministrationTypeOK == GovernanceTypeOK /\ RateTypeOK /\ ImportTypeOK
==============================================================================
