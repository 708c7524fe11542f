--------------------------- MODULE LifecycleProofs ---------------------------
(***************************************************************************)
(* Lemmas about the derivation of a report's status, for any set of        *)
(* statuses of its incidents, and about the least of a set of numbers.     *)
(***************************************************************************)
EXTENDS Lifecycle, WellFoundedInduction, TLAPS

(***************************************************************************)
(* A non-empty set of active statuses has a least advanced member: this is *)
(* what makes the CHOOSE of LeastAdvanced (Python's min) meaningful.       *)
(***************************************************************************)
LEMMA LeastAdvancedExists ==
  ASSUME NEW active \in SUBSET (IncidentStatus \ {"rejected"}),
         active # {}
  PROVE  /\ LeastAdvanced(active) \in active
         /\ \A s \in active :
              ProgressionRank[LeastAdvanced(active)] <= ProgressionRank[s]
<1>1. \E s \in active :
         \A t \in active : ProgressionRank[s] <= ProgressionRank[t]
  <2>1. \A s \in active : ProgressionRank[s] \in 1..8
    BY DEF ProgressionRank, IncidentStatus
  <2>2. CASE \E s \in active : ProgressionRank[s] = 1
    BY <2>1, <2>2
  <2>3. CASE /\ \A s \in active : ProgressionRank[s] > 1
             /\ \E s \in active : ProgressionRank[s] = 2
    BY <2>1, <2>3
  <2>4. CASE /\ \A s \in active : ProgressionRank[s] > 2
             /\ \E s \in active : ProgressionRank[s] = 3
    BY <2>1, <2>4
  <2>5. CASE /\ \A s \in active : ProgressionRank[s] > 3
             /\ \E s \in active : ProgressionRank[s] = 4
    BY <2>1, <2>5
  <2>6. CASE /\ \A s \in active : ProgressionRank[s] > 4
             /\ \E s \in active : ProgressionRank[s] = 5
    BY <2>1, <2>6
  <2>7. CASE /\ \A s \in active : ProgressionRank[s] > 5
             /\ \E s \in active : ProgressionRank[s] = 6
    BY <2>1, <2>7
  <2>8. CASE \A s \in active : ProgressionRank[s] > 6
    <3>1. CASE \E s \in active : ProgressionRank[s] = 7
      BY <2>1, <2>8, <3>1
    <3>2. CASE \A s \in active : ProgressionRank[s] = 8
      BY <3>2
    <3>3. QED BY <2>1, <2>8, <3>1, <3>2
  <2>9. QED BY <2>1, <2>2, <2>3, <2>4, <2>5, <2>6, <2>7, <2>8
<1>2. QED BY <1>1 DEF LeastAdvanced

(***************************************************************************)
(* Whatever statuses its incidents have, a report gets an intake status.   *)
(***************************************************************************)
LEMMA AggregateType ==
  ASSUME NEW children \in SUBSET IncidentStatus
  PROVE  CalculateIntakeStatus(children) \in IntakeStatus
<1> DEFINE active == children \ {"rejected"}
<1>1. CASE active = {}
  <2>1. \A s \in active : FALSE
    BY <1>1
  <2>2. CASE children = {}
    BY <2>2 DEF CalculateIntakeStatus, IntakeStatus
  <2>3. CASE children # {}
    BY <1>1, <2>3 DEF CalculateIntakeStatus, IntakeStatus
  <2>4. QED BY <2>2, <2>3
<1>2. CASE active # {}
  <2>1. LeastAdvanced(active) \in IncidentStatus \ {"rejected"}
    BY <1>2, LeastAdvancedExists
  <2>2. DirectMapping[LeastAdvanced(active)] \in IntakeStatus
    BY <2>1 DEF DirectMapping, IncidentStatus, IntakeStatus
  <2>3. children # {}
    BY <1>2
  <2>4. CalculateIntakeStatus(children)
          \in {"partially_resolved", DirectMapping[LeastAdvanced(active)]}
    BY <1>2, <2>3 DEF CalculateIntakeStatus
  <2>5. QED BY <2>2, <2>4 DEF IntakeStatus
<1>3. QED BY <1>1, <1>2

(***************************************************************************)
(* The ranks, once and for all.                                            *)
(***************************************************************************)
LEMMA RankFacts ==
  ASSUME NEW s \in IncidentStatus \ {"rejected"}
  PROVE  /\ ProgressionRank[s] \in 1..8
         /\ IsResolved(s) <=> s \in {"resolved", "confirmed"}
         /\ ProgressionRank[s] >= 8 => s = "confirmed"
         /\ DirectMapping[s] = "closed" <=> s = "confirmed"
         /\ DirectMapping[s] = "resolved" <=> s = "resolved"
         /\ DirectMapping[s] # "rejected"
  BY DEF ProgressionRank, DirectMapping, IncidentStatus, IsResolved

(***************************************************************************)
(* What the final statuses of a report say about its children.             *)
(***************************************************************************)
LEMMA FinalStatusMeaning ==
  ASSUME NEW children \in SUBSET IncidentStatus
  PROVE  LET active == children \ {"rejected"}
             status == CalculateIntakeStatus(children)
         IN  /\ status = "resolved" => active \subseteq {"resolved", "confirmed"}
             /\ status = "closed" => active \subseteq {"confirmed"}
             /\ status = "rejected" <=> (children # {} /\ active = {})
<1> DEFINE active == children \ {"rejected"}
<1>1. CASE active = {}
  <2>1. CASE children = {}
    BY <1>1, <2>1 DEF CalculateIntakeStatus
  <2>2. CASE children # {}
    BY <1>1, <2>2 DEF CalculateIntakeStatus
  <2>3. QED BY <2>1, <2>2
<1>2. CASE active # {}
  <2> DEFINE least == LeastAdvanced(active)
  <2>1. /\ active \in SUBSET (IncidentStatus \ {"rejected"})
        /\ children # {}
    BY <1>2
  <2>2. /\ least \in active
        /\ \A s \in active : ProgressionRank[least] <= ProgressionRank[s]
    BY <1>2, <2>1, LeastAdvancedExists
  <2>3. CASE /\ \E s \in active : IsResolved(s)
             /\ \E s \in active : ~ IsResolved(s)
    BY <2>1, <2>3 DEF CalculateIntakeStatus
  <2>4. CASE ~ (/\ \E s \in active : IsResolved(s)
                /\ \E s \in active : ~ IsResolved(s))
    <3>1. CalculateIntakeStatus(children) = DirectMapping[least]
      BY <1>2, <2>1, <2>4 DEF CalculateIntakeStatus
    <3>2. least = "resolved" => active \subseteq {"resolved", "confirmed"}
      BY <2>1, <2>2, <2>4, RankFacts
    <3>3. least = "confirmed" => active \subseteq {"confirmed"}
      <4>1. least = "confirmed" => ProgressionRank[least] = 8
        BY DEF ProgressionRank, IncidentStatus
      <4>2. QED BY <2>1, <2>2, <4>1, RankFacts
    <3>4. QED BY <1>2, <2>1, <2>2, <3>1, <3>2, <3>3, RankFacts
  <2>5. QED BY <2>3, <2>4
<1>3. QED BY <1>1, <1>2


------------------------------------------------------------------------------
(***************************************************************************)
(* Numbers: a set of naturals that is not empty has a least one.  (The     *)
(* library states this of an operator, which no prover here instantiates;  *)
(* of a well-founded relation it can be used.)                             *)
(***************************************************************************)
Smaller == {pair \in Nat \X Nat : pair[1] < pair[2]}

LEMMA LeastExists ==
  ASSUME NEW S \in SUBSET Nat, S # {}
  PROVE  \E m \in S : \A n \in S : m <= n
<1>1. IsWellFoundedOn(OpToRel(<, Nat), Nat)
  BY NatLessThanWellFounded
<1>2. OpToRel(<, Nat) = Smaller
  BY DEF OpToRel, Smaller
<1>3. PICK m \in S : \A n \in S : ~ (<<n, m>> \in Smaller)
  BY <1>1, <1>2, WFMin
<1>4. ASSUME NEW n \in S PROVE m <= n
  <2>1. <<n, m>> \in Nat \X Nat /\ <<n, m>>[1] = n /\ <<n, m>>[2] = m
    BY Zenon
  <2>2. ~ (n < m)
    BY <1>3, <2>1 DEF Smaller
  <2> QED
    BY <2>2
<1> QED
  BY <1>4
==============================================================================
