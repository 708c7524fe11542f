---------------------------- MODULE RecordsProofs ----------------------------
(***************************************************************************)
(* Theorems of modules CausalGraph, Ledger and IntakeRouting, for every    *)
(* number of incidents, requests and citizens: what the cycle trigger of   *)
(* migration 0008 does guarantee and what the stored blast radius never    *)
(* does; the ledger of an incident as one unbroken chain with one noise in *)
(* which tampering shows, whatever the racing publishers and their noise;  *)
(* and filing a report, which aggregates its incidents and merges only     *)
(* what overlaps.                                                          *)
(***************************************************************************)
EXTENDS MCRecords, ReportAggregationProofs,
        FiniteSetTheorems, TLAPS

------------------------------------------------------------------------------
(***************************************************************************)
(* The causal graph.                                                       *)
(***************************************************************************)
(***************************************************************************)
(* A set that closes under the links, holds the symptoms of n and not n    *)
(* itself is a witness that n lies on no cycle.                            *)
(***************************************************************************)
LEMMA Witness ==
  ASSUME NEW E, NEW n \in Nodes, NEW x \in Nodes
  PROVE  x \notin Downstream(E, n) <=>
           \E S \in SUBSET Nodes :
             /\ ClosedUnder(E, S)
             /\ \A e \in E : e[1] = n => e[2] \in S
             /\ x \notin S
BY DEF Downstream

(* More links, more downstream. *)
LEMMA DownstreamGrows ==
  ASSUME NEW E, NEW F, E \subseteq F, NEW n
  PROVE  Downstream(E, n) \subseteq Downstream(F, n)
BY DEF Downstream, ClosedUnder

LEMMA DownstreamFinite ==
  ASSUME NEW E, NEW F, E \subseteq F, NEW n
  PROVE  /\ Cardinality(Downstream(E, n)) \in Nat
         /\ Cardinality(Downstream(E, n)) <= Cardinality(Downstream(F, n))
<1>1. Downstream(F, n) \subseteq Nodes
  BY DEF Downstream
<1>2. IsFiniteSet(Downstream(F, n))
  BY <1>1, CausalConstants, FS_Subset
<1>3. Downstream(E, n) \subseteq Downstream(F, n)
  BY DownstreamGrows
<1> QED
  BY <1>2, <1>3, FS_Subset, FS_CardinalityType

(***************************************************************************)
(* A link whose symptom does not lead back to its root closes no cycle.    *)
(***************************************************************************)
LEMMA NewLinkKeepsAcyclic ==
  ASSUME NEW E \in SUBSET Pairs, NEW r \in Nodes, NEW s \in Nodes,
         Acyclic(E), ~ ClosesCycle(E, r, s)
  PROVE  Acyclic(E \cup {<<r, s>>})
<1> DEFINE F == E \cup {<<r, s>>}
<1> SUFFICES ASSUME NEW n \in Nodes
             PROVE  n \notin Downstream(F, n)
  BY DEF Acyclic
<1>1. r # s /\ r \notin Downstream(E, s)
  BY DEF ClosesCycle
<1>2. PICK S0 \in SUBSET Nodes :
        /\ ClosedUnder(E, S0)
        /\ \A e \in E : e[1] = s => e[2] \in S0
        /\ r \notin S0
  BY <1>1, Witness
<1>3. PICK S1 \in SUBSET Nodes :
        /\ ClosedUnder(E, S1)
        /\ \A e \in E : e[1] = n => e[2] \in S1
        /\ n \notin S1
  BY Witness DEF Acyclic
<1> DEFINE T == S0 \cup {s}
<1>4. /\ T \in SUBSET Nodes
      /\ ClosedUnder(E, T)
      /\ s \in T
      /\ r \notin T
  BY <1>1, <1>2 DEF ClosedUnder
<1> HIDE DEF T
<1>5. SUFFICES \E S \in SUBSET Nodes :
                 /\ \A e \in E : e[1] \in S => e[2] \in S
                 /\ r \in S => s \in S
                 /\ \A e \in E : e[1] = n => e[2] \in S
                 /\ n = r => s \in S
                 /\ n \notin S
  <2>1. PICK S \in SUBSET Nodes :
          /\ \A e \in E : e[1] \in S => e[2] \in S
          /\ r \in S => s \in S
          /\ \A e \in E : e[1] = n => e[2] \in S
          /\ n = r => s \in S
          /\ n \notin S
    BY <1>5
  <2>2. ClosedUnder(F, S) /\ \A e \in F : e[1] = n => e[2] \in S
    BY <2>1 DEF ClosedUnder
  <2> QED
    BY <2>1, <2>2, Witness
<1>6. CASE n = r
  <2> S1 \cup T \in SUBSET Nodes
    BY <1>4
  <2> WITNESS S1 \cup T \in SUBSET Nodes
  <2> QED
    BY <1>3, <1>4, <1>6 DEF ClosedUnder
<1>7. CASE n # r /\ r \notin S1
  <2> WITNESS S1 \in SUBSET Nodes
  <2> QED
    BY <1>3, <1>7 DEF ClosedUnder
<1>8. CASE n # r /\ r \in S1 /\ n \in T
  <2> S1 \cap T \in SUBSET Nodes
    BY <1>4
  <2> WITNESS S1 \cap T \in SUBSET Nodes
  <2> QED
    BY <1>3, <1>4, <1>8 DEF ClosedUnder
<1>9. CASE n # r /\ r \in S1 /\ n \notin T
  <2> S1 \cup T \in SUBSET Nodes
    BY <1>4
  <2> WITNESS S1 \cup T \in SUBSET Nodes
  <2> QED
    BY <1>3, <1>4, <1>9 DEF ClosedUnder
<1> QED
  BY <1>6, <1>7, <1>8, <1>9

------------------------------------------------------------------------------
(***************************************************************************)
(* What a request holds between its statements.  The shapes of rows and    *)
(* requests stand without the ranges of scores and boosts, which a sum     *)
(* over a set decides.                                                     *)
(***************************************************************************)
Columns == {"cause", "symptoms", "boost", "score"}

IsRow(row) ==
  /\ row = [c \in Columns |-> row[c]]
  /\ row.cause \in BOOLEAN
  /\ row.symptoms \in Nat

Fields == {"at", "pair", "loaded", "edges", "checked", "row", "locked"}

IsRequest(r) ==
  /\ r = [f \in Fields |-> r[f]]
  /\ r.at \in Stages
  /\ IsRow(r.loaded) /\ IsRow(r.row)

Leads(E, n) == \E e \in E : e[1] = n

(* The request r is consistent with the committed links E. *)
Consistent(r, E) ==
  /\ IsRequest(r)
  /\ r.at \notin {"new", "done"} =>
       /\ r.pair \in Pairs
       /\ r.loaded.cause => Leads(E, r.pair[1])
  /\ r.at \in {"allowed", "inserted", "flushed", "scored"} => r.edges \subseteq E
  /\ r.at \in {"inserted", "flushed", "scored"} =>
       /\ r.checked \subseteq Pairs
       /\ ~ ClosesCycle(r.checked, r.pair[1], r.pair[2])
  /\ r.at \in {"flushed", "scored"} =>
       /\ r.row.cause
       /\ r.row.symptoms <=
            Cardinality(Downstream(E \cup {r.pair}, r.pair[1]))

RowAgrees(row, n, E) ==
  /\ IsRow(row)
  /\ row.symptoms <= Cardinality(Downstream(E, n))
  /\ row.cause <=> Leads(E, n)

CausalInv ==
  /\ links \subseteq Pairs
  /\ DOMAIN incident = Nodes
  /\ incident = [n \in Nodes |-> incident[n]]
  /\ \A n \in Nodes : RowAgrees(incident[n], n, links)
  /\ linking = [t \in LinkRequests |-> linking[t]]
  /\ \A t \in LinkRequests : Consistent(linking[t], links)

LEMMA ConsistentGrows ==
  ASSUME NEW E, NEW F, E \subseteq F, NEW r, Consistent(r, E)
  PROVE  Consistent(r, F)
<1>1. CASE r.at \in {"flushed", "scored"}
  <2>1. /\ Cardinality(Downstream(E \cup {r.pair}, r.pair[1])) \in Nat
        /\ Cardinality(Downstream(F \cup {r.pair}, r.pair[1])) \in Nat
        /\ Cardinality(Downstream(E \cup {r.pair}, r.pair[1]))
             <= Cardinality(Downstream(F \cup {r.pair}, r.pair[1]))
    BY DownstreamFinite
  <2>2. r.row.symptoms \in Nat
    BY DEF Consistent, IsRequest, IsRow
  <2>3. r.row.symptoms <= Cardinality(Downstream(F \cup {r.pair}, r.pair[1]))
    BY <1>1, <2>1, <2>2 DEF Consistent
  <2> QED
    BY <1>1, <2>3 DEF Consistent, Leads
<1>2. CASE r.at \notin {"flushed", "scored"}
  BY <1>2 DEF Consistent, Leads
<1> QED
  BY <1>1, <1>2

(***************************************************************************)
(* A step that changes one request only keeps the invariant if the request *)
(* stays consistent.                                                       *)
(***************************************************************************)
LEMMA OneRequestMoves ==
  ASSUME CausalInv, NEW t \in LinkRequests, NEW r, Consistent(r, links),
         linking' = [linking EXCEPT ![t] = r], UNCHANGED <<links, incident>>
  PROVE  CausalInv'
BY DEF CausalInv

LEMMA FinishedIsConsistent ==
  ASSUME NEW E
  PROVE  Consistent(FinishedRequest, E)
BY DEF Consistent, FinishedRequest, NewRequest, IsRequest, Fields, IsRow, Columns, Stages

------------------------------------------------------------------------------
LEMMA CausalInvInit == CausalInit => CausalInv
<1> SUFFICES ASSUME CausalInit PROVE CausalInv
  OBVIOUS
<1>1. \A t \in LinkRequests : Consistent(linking[t], links)
  BY DEF CausalInit, Consistent, NewRequest, IsRequest, Fields, IsRow, Columns, Stages
<1>2. ASSUME NEW n \in Nodes PROVE RowAgrees(incident[n], n, links)
  <2>1. Cardinality(Downstream(links, n)) \in Nat
    BY DownstreamFinite
  <2>2. incident[n] = Unlinked(n) /\ links = {}
    BY DEF CausalInit
  <2> QED
    BY <2>1, <2>2 DEF RowAgrees, Unlinked, IsRow, Columns, Leads
<1> QED
  BY <1>1, <1>2 DEF CausalInit, CausalInv

LEMMA LoadKeepsInv ==
  ASSUME CausalInv, NEW t \in LinkRequests, NEW pair \in Pairs,
         LoadIncidents(t, pair)
  PROVE  CausalInv'
<1> DEFINE r == [linking[t] EXCEPT !.at = "loaded", !.pair = pair,
                   !.loaded = incident[pair[1]], !.row = incident[pair[1]]]
<1>1. linking[t] = [f \in Fields |-> linking[t][f]]
  BY DEF CausalInv, Consistent, IsRequest, Fields
<1>2. RowAgrees(incident[pair[1]], pair[1], links)
  BY DEF CausalInv, Pairs
<1>3. /\ r = [f \in Fields |-> r[f]]
      /\ r.at = "loaded"
      /\ r.pair = pair
      /\ r.loaded = incident[pair[1]]
      /\ r.row = incident[pair[1]]
  BY <1>1 DEF Fields
<1> HIDE DEF r
<1>4. Consistent(r, links)
  BY <1>2, <1>3 DEF Consistent, IsRequest, Fields, RowAgrees, Stages
<1>5. linking' = [linking EXCEPT ![t] = r] /\ UNCHANGED <<links, incident>>
  BY DEF LoadIncidents, r
<1> QED
  BY <1>4, <1>5, OneRequestMoves

LEMMA CheckKeepsInv ==
  ASSUME CausalInv, NEW t \in LinkRequests, CheckAcyclic(t)
  PROVE  CausalInv'
<1> DEFINE r == [linking[t] EXCEPT !.at = "allowed", !.edges = CommittedLinks]
<1>1. Consistent(linking[t], links) /\ linking[t].at = "loaded"
  BY DEF CausalInv, CheckAcyclic
<1>2. /\ r = [f \in Fields |-> r[f]]
      /\ r.at = "allowed"
      /\ r.pair = linking[t].pair
      /\ r.loaded = linking[t].loaded
      /\ r.edges = links
      /\ r.checked = linking[t].checked
      /\ r.row = linking[t].row
      /\ r.locked = linking[t].locked
  BY <1>1 DEF Consistent, IsRequest, Fields, CommittedLinks
<1>3. /\ \/ linking' = [linking EXCEPT ![t] = FinishedRequest]
         \/ linking' = [linking EXCEPT ![t] = r]
      /\ UNCHANGED <<links, incident>>
  BY DEF CheckAcyclic
<1> HIDE DEF r
<1>4. Consistent(r, links)
  BY <1>1, <1>2 DEF Consistent, IsRequest, Fields, Stages
<1> QED
  BY <1>3, <1>4, OneRequestMoves, FinishedIsConsistent

LEMMA InsertKeepsInv ==
  ASSUME CausalInv, NEW t \in LinkRequests, InsertLink(t)
  PROVE  CausalInv'
<1> DEFINE r == [linking[t] EXCEPT !.at = "inserted", !.checked = links]
<1>1. Consistent(linking[t], links) /\ linking[t].at = "allowed"
  BY DEF CausalInv, InsertLink
<1>2. /\ r = [f \in Fields |-> r[f]]
      /\ r.at = "inserted"
      /\ r.pair = linking[t].pair
      /\ r.loaded = linking[t].loaded
      /\ r.edges = linking[t].edges
      /\ r.checked = links
      /\ r.row = linking[t].row
      /\ r.locked = linking[t].locked
  BY <1>1 DEF Consistent, IsRequest, Fields
<1>3. /\ \/ linking' = [linking EXCEPT ![t] = FinishedRequest]
         \/ /\ linking' = [linking EXCEPT ![t] = r]
            /\ ~ ClosesCycle(links, linking[t].pair[1], linking[t].pair[2])
      /\ UNCHANGED <<links, incident>>
  BY DEF InsertLink, TriggerRefuses
<1>4. links \subseteq Pairs
  BY DEF CausalInv
<1> HIDE DEF r
<1>5. ASSUME ~ ClosesCycle(links, linking[t].pair[1], linking[t].pair[2])
      PROVE  Consistent(r, links)
  BY <1>1, <1>2, <1>4, <1>5 DEF Consistent, IsRequest, Fields, Stages
<1> QED
  BY <1>3, <1>5, OneRequestMoves, FinishedIsConsistent

LEMMA FlushKeepsInv ==
  ASSUME CausalInv, NEW t \in LinkRequests, FlushRoot(t)
  PROVE  CausalInv'
<1> DEFINE mine == linking[t]
           down == Downstream(mine.edges \cup {mine.pair}, Root(t))
           row == [mine.row EXCEPT !.cause = TRUE,
                                   !.symptoms = Cardinality(down)]
           r == [mine EXCEPT !.at = "flushed", !.row = row,
                             !.locked = row # mine.loaded]
<1>1. Consistent(mine, links) /\ mine.at = "inserted"
  BY DEF CausalInv, FlushRoot
<1>2. /\ Cardinality(down) \in Nat
      /\ Cardinality(down)
           <= Cardinality(Downstream(links \cup {mine.pair}, Root(t)))
  <2>1. mine.edges \cup {mine.pair} \subseteq links \cup {mine.pair}
    BY <1>1 DEF Consistent
  <2> QED
    BY <2>1, DownstreamFinite
<1>3. linking' = [linking EXCEPT ![t] = r] /\ UNCHANGED <<links, incident>>
  BY DEF FlushRoot
<1>4. Root(t) = mine.pair[1]
  BY DEF Root
<1> HIDE DEF down
<1>5. /\ row = [f \in Columns |-> row[f]]
      /\ row.cause = TRUE
      /\ row.symptoms = Cardinality(down)
      /\ row.boost = mine.row.boost
      /\ row.score = mine.row.score
  BY <1>1 DEF Consistent, IsRequest, Fields, IsRow, Columns
<1> HIDE DEF row
<1>6. IsRow(row) /\ row.cause /\ row.symptoms = Cardinality(down)
  BY <1>2, <1>5 DEF IsRow, Columns
<1>7. /\ r = [f \in Fields |-> r[f]]
      /\ r.at = "flushed"
      /\ r.pair = mine.pair
      /\ r.loaded = mine.loaded
      /\ r.edges = mine.edges
      /\ r.checked = mine.checked
      /\ r.row = row
      /\ r.locked = (row # mine.loaded)
  BY <1>1 DEF Consistent, IsRequest, Fields
<1> HIDE DEF r
<1>8. Consistent(r, links)
  BY <1>1, <1>2, <1>4, <1>6, <1>7 DEF Consistent, IsRequest, Fields, Stages
<1> QED
  BY <1>3, <1>8, OneRequestMoves

LEMMA ScoreKeepsInv ==
  ASSUME CausalInv, NEW t \in LinkRequests, ScoreRoot(t)
  PROVE  CausalInv'
<1> DEFINE mine == linking[t]
<1>1. Consistent(mine, links) /\ mine.at = "flushed"
  BY DEF CausalInv, ScoreRoot
<1>2. PICK boost, score :
        /\ linking' = [linking EXCEPT
             ![t] = [@ EXCEPT !.at = "scored",
                       !.row = [mine.row EXCEPT !.score = score,
                                                  !.boost = boost]]]
        /\ UNCHANGED <<links, incident>>
  BY DEF ScoreRoot
<1> DEFINE row == [mine.row EXCEPT !.score = score, !.boost = boost]
           r == [mine EXCEPT !.at = "scored", !.row = row]
<1>3. linking' = [linking EXCEPT ![t] = r]
  BY <1>2
<1>4. /\ row = [f \in Columns |-> row[f]]
      /\ row.cause = mine.row.cause
      /\ row.symptoms = mine.row.symptoms
  BY <1>1 DEF Consistent, IsRequest, Fields, IsRow, Columns
<1> HIDE DEF row
<1>5. IsRow(row) /\ row.cause = mine.row.cause /\ row.symptoms = mine.row.symptoms
  BY <1>1, <1>4 DEF Consistent, IsRequest, Fields, IsRow, Columns
<1>6. /\ r = [f \in Fields |-> r[f]]
      /\ r.at = "scored"
      /\ r.pair = mine.pair
      /\ r.loaded = mine.loaded
      /\ r.edges = mine.edges
      /\ r.checked = mine.checked
      /\ r.row = row
      /\ r.locked = mine.locked
  BY <1>1 DEF Consistent, IsRequest, Fields
<1> HIDE DEF r
<1>7. Consistent(r, links)
  BY <1>1, <1>5, <1>6 DEF Consistent, IsRequest, Fields, Stages
<1> QED
  BY <1>2, <1>3, <1>7, OneRequestMoves

LEMMA CommitKeepsInv ==
  ASSUME CausalInv, NEW t \in LinkRequests, CommitLink(t)
  PROVE  CausalInv'
<1> DEFINE mine == linking[t]
           root == mine.pair[1]
<1>1. /\ Consistent(mine, links) /\ mine.at = "scored"
      /\ links' = links \cup {mine.pair}
      /\ incident' = [incident EXCEPT
                        ![root] = Written(mine.row, mine.loaded, incident[root])]
      /\ linking' = [linking EXCEPT ![t] = FinishedRequest]
  BY DEF CausalInv, CommitLink, Root
<1>2. /\ mine.pair \in Pairs
      /\ root \in Nodes
      /\ links' \subseteq Pairs
  BY <1>1 DEF Consistent, CausalInv, Pairs
<1>3. ASSUME NEW u \in LinkRequests PROVE Consistent(linking'[u], links')
  <2>1. Consistent(linking[u], links) /\ Consistent(FinishedRequest, links')
    BY FinishedIsConsistent DEF CausalInv
  <2>2. Consistent(linking[u], links')
    BY <1>1, <2>1, ConsistentGrows
  <2>3. linking'[u] \in {FinishedRequest, linking[u]}
    BY <1>1 DEF CausalInv
  <2> QED
    BY <2>1, <2>2, <2>3
<1>4. ASSUME NEW n \in Nodes, n # root
      PROVE  RowAgrees(incident'[n], n, links')
  <2>1. incident'[n] = incident[n] /\ RowAgrees(incident[n], n, links)
    BY <1>1, <1>4 DEF CausalInv
  <2>2. /\ Cardinality(Downstream(links, n)) \in Nat
        /\ Cardinality(Downstream(links', n)) \in Nat
        /\ Cardinality(Downstream(links, n)) <= Cardinality(Downstream(links', n))
    BY <1>1, DownstreamFinite
  <2>3. Leads(links', n) <=> Leads(links, n)
    BY <1>1, <1>4 DEF Leads
  <2> QED
    BY <2>1, <2>2, <2>3 DEF RowAgrees, IsRow, Columns
<1>5. RowAgrees(incident'[root], root, links')
  <2> DEFINE old == incident[root]
             new == Written(mine.row, mine.loaded, old)
  <2>1. /\ incident'[root] = new
        /\ RowAgrees(old, root, links)
    BY <1>1, <1>2 DEF CausalInv
  <2>2. /\ Cardinality(Downstream(links, root)) \in Nat
        /\ Cardinality(Downstream(links', root)) \in Nat
        /\ Cardinality(Downstream(links, root))
             <= Cardinality(Downstream(links', root))
    BY <1>1, DownstreamFinite
  <2>3. DOMAIN old = Columns
    BY <2>1 DEF RowAgrees, IsRow
  <2>4. new = [f \in Columns |-> new[f]]
    BY <2>3 DEF Written
  <2>5. /\ new.cause = IF mine.row.cause # mine.loaded.cause
                         THEN mine.row.cause ELSE old.cause
        /\ new.symptoms = IF mine.row.symptoms # mine.loaded.symptoms
                            THEN mine.row.symptoms ELSE old.symptoms
    BY <2>3 DEF Written, Columns
  <2> HIDE DEF new
  <2>6. Leads(links', root)
    BY <1>1 DEF Leads
  <2>7. /\ IsRow(mine.row) /\ IsRow(mine.loaded)
        /\ mine.row.cause
        /\ mine.loaded.cause => Leads(links, root)
        /\ mine.row.symptoms <= Cardinality(Downstream(links', root))
    BY <1>1 DEF Consistent, IsRequest, Fields
  <2>8. new.cause = TRUE
    BY <2>1, <2>5, <2>7 DEF RowAgrees, IsRow, Columns
  <2>9. new.symptoms \in Nat
        /\ new.symptoms <= Cardinality(Downstream(links', root))
    BY <2>1, <2>2, <2>5, <2>7 DEF RowAgrees, IsRow, Columns
  <2> QED
    BY <2>1, <2>4, <2>6, <2>8, <2>9 DEF RowAgrees, IsRow, Columns
<1>6. DOMAIN incident' = Nodes /\ incident' = [n \in Nodes |-> incident'[n]]
  BY <1>1 DEF CausalInv
<1>7. linking' = [u \in LinkRequests |-> linking'[u]]
  BY <1>1 DEF CausalInv
<1> QED
  BY <1>2, <1>3, <1>4, <1>5, <1>6, <1>7 DEF CausalInv

(***************************************************************************)
(* The invariant: rows agree with the committed links, requests with what  *)
(* they have read.                                                         *)
(***************************************************************************)
THEOREM CausalInvariance == CausalSpec => []CausalInv
<1>1. CausalInv /\ [CausalNext]_causalVars => CausalInv'
  <2> SUFFICES ASSUME CausalInv, [CausalNext]_causalVars PROVE CausalInv'
    OBVIOUS
  <2>1. CASE UNCHANGED causalVars
    BY <2>1 DEF causalVars, CausalInv
  <2>2. CASE CausalNext
    <3> PICK t \in LinkRequests :
          \/ \E pair \in Pairs : LoadIncidents(t, pair)
          \/ CheckAcyclic(t) \/ InsertLink(t) \/ FlushRoot(t)
          \/ ScoreRoot(t) \/ CommitLink(t) \/ AbortLink(t)
      BY <2>2 DEF CausalNext
    <3>1. CASE AbortLink(t)
      BY <3>1, OneRequestMoves, FinishedIsConsistent DEF AbortLink
    <3> QED
      BY <3>1, LoadKeepsInv, CheckKeepsInv, InsertKeepsInv, FlushKeepsInv,
         ScoreKeepsInv, CommitKeepsInv
  <2> QED
    BY <2>1, <2>2
<1> QED
  BY <1>1, CausalInvInit, PTL DEF CausalSpec

(***************************************************************************)
(* The stored blast radius of an incident never claims more symptoms than  *)
(* the graph has, and only a root cause has one.                           *)
(***************************************************************************)
THEOREM NeverOverstated == CausalSpec => []CountNeverOverstates
<1>1. CausalInv => CountNeverOverstates
  BY DEF CausalInv, RowAgrees, CountNeverOverstates, GetDownstream, Leads
<1> QED
  BY <1>1, CausalInvariance, PTL

------------------------------------------------------------------------------
(***************************************************************************)
(* A sum over a finite set.  The library folds with a recursive function;  *)
(* that there is one, and what it returns, is shown on the least number of *)
(* elements of a counterexample.                                           *)
(***************************************************************************)
Picked(s) == CHOOSE x \in s : TRUE

Upto(S, n) == {s \in SUBSET S : Cardinality(s) <= n}

SumsOn(sets, score, iter) ==
  iter = [s \in sets |->
            IF s = {} THEN 0 ELSE score[Picked(s)] + iter[s \ {Picked(s)}]]

Total(S, score) == (CHOOSE iter : SumsOn(SUBSET S, score, iter))[S]

LEMMA WithoutPicked ==
  ASSUME NEW S, IsFiniteSet(S), S # {}
  PROVE  /\ S \ {Picked(S)} \subseteq S
         /\ Cardinality(S) \in Nat /\ Cardinality(S \ {Picked(S)}) \in Nat
         /\ Cardinality(S \ {Picked(S)}) = Cardinality(S) - 1
         /\ Picked(S) \in S
<1>1. Picked(S) \in S
  BY DEF Picked
<1> QED
  BY <1>1, FS_RemoveElement, FS_CardinalityType

LEMMA NextSums ==
  ASSUME NEW S, IsFiniteSet(S), NEW score, NEW n \in Nat, n # 0,
         NEW smaller, SumsOn(Upto(S, n - 1), score, smaller)
  PROVE  \E iter : SumsOn(Upto(S, n), score, iter)
<1>1. PICK iter :
        iter = [s \in Upto(S, n) |->
                  IF s = {} THEN 0
                  ELSE score[Picked(s)] + smaller[s \ {Picked(s)}]]
  OBVIOUS
<1>2. ASSUME NEW s \in Upto(S, n), s # {}
      PROVE  s \ {Picked(s)} \in Upto(S, n - 1)
  <2>1. IsFiniteSet(s) /\ s \subseteq S /\ Cardinality(s) <= n
    BY <1>2, FS_Subset DEF Upto
  <2>2. /\ s \ {Picked(s)} \subseteq s
        /\ Cardinality(s) \in Nat /\ Cardinality(s \ {Picked(s)}) \in Nat
        /\ Cardinality(s \ {Picked(s)}) = Cardinality(s) - 1
    BY <1>2, <2>1, WithoutPicked
  <2> QED
    BY <2>1, <2>2 DEF Upto
<1>3. ASSUME NEW s \in Upto(S, n - 1)
      PROVE  s \in Upto(S, n) /\ iter[s] = smaller[s]
  <2>1. s \in Upto(S, n)
    <3>1. s \in SUBSET S /\ Cardinality(s) \in Nat /\ Cardinality(s) <= n - 1
      BY <1>3, FS_Subset, FS_CardinalityType DEF Upto
    <3> QED
      BY <3>1 DEF Upto
  <2> QED
    BY <1>1, <1>3, <2>1 DEF SumsOn
<1>4. ASSUME NEW s \in Upto(S, n), s # {}
      PROVE  smaller[s \ {Picked(s)}] = iter[s \ {Picked(s)}]
  BY <1>2, <1>3, <1>4
<1>5. iter = [s \in Upto(S, n) |->
                IF s = {} THEN 0 ELSE score[Picked(s)] + iter[s \ {Picked(s)}]]
  <2>1. \A s \in Upto(S, n) :
          iter[s] = IF s = {} THEN 0
                    ELSE score[Picked(s)] + iter[s \ {Picked(s)}]
    BY <1>1, <1>4
  <2>2. iter = [s \in Upto(S, n) |-> iter[s]]
    BY <1>1
  <2> QED
    BY <2>1, <2>2
<1> QED
  BY <1>5 DEF SumsOn

LEMMA SumsExist ==
  ASSUME NEW S, IsFiniteSet(S), NEW score
  PROVE  \E iter : SumsOn(SUBSET S, score, iter)
<1> DEFINE Missing == {n \in Nat : ~ \E iter : SumsOn(Upto(S, n), score, iter)}
<1>1. ASSUME Missing # {} PROVE FALSE
  <2>1. PICK n \in Missing : \A m \in Missing : n <= m
    BY <1>1, LeastExists
  <2>2. CASE n = 0
    <3>1. \A s \in Upto(S, 0) : s = {}
      <4>1. ASSUME NEW s \in Upto(S, 0) PROVE s = {}
        <5>1. IsFiniteSet(s) /\ Cardinality(s) \in Nat /\ Cardinality(s) <= 0
          BY <4>1, FS_Subset, FS_CardinalityType DEF Upto
        <5> QED
          BY <5>1, FS_EmptySet
      <4> QED
        BY <4>1
    <3>2. PICK iter : iter = [s \in Upto(S, 0) |-> 0]
      OBVIOUS
    <3>3. iter = [s \in Upto(S, 0) |->
                    IF s = {} THEN 0
                    ELSE score[Picked(s)] + iter[s \ {Picked(s)}]]
      BY <3>1, <3>2
    <3> QED
      BY <2>1, <2>2, <3>3 DEF SumsOn
  <2>3. CASE n # 0
    <3>1. n - 1 \in Nat /\ n - 1 \notin Missing
      BY <2>1, <2>3
    <3>2. PICK smaller : SumsOn(Upto(S, n - 1), score, smaller)
      BY <3>1
    <3> QED
      BY <2>1, <2>3, <3>2, NextSums
  <2> QED
    BY <2>2, <2>3
<1>2. Cardinality(S) \in Nat /\ Cardinality(S) \notin Missing
  BY <1>1, FS_CardinalityType
<1>3. Upto(S, Cardinality(S)) = SUBSET S
  BY FS_Subset DEF Upto
<1> QED
  BY <1>2, <1>3

LEMMA TotalIsNatural ==
  ASSUME NEW S, IsFiniteSet(S), NEW score, \A s \in S : score[s] \in Nat
  PROVE  Total(S, score) \in Nat
<1>1. PICK iter : iter = CHOOSE i : SumsOn(SUBSET S, score, i)
  OBVIOUS
<1>2. SumsOn(SUBSET S, score, iter)
  BY <1>1, SumsExist
<1> DEFINE Wrong == {n \in Nat : \E s \in SUBSET S :
                       Cardinality(s) = n /\ iter[s] \notin Nat}
<1>3. ASSUME Wrong # {} PROVE FALSE
  <2>1. PICK n \in Wrong : \A m \in Wrong : n <= m
    BY <1>3, LeastExists
  <2>2. PICK s \in SUBSET S : Cardinality(s) = n /\ iter[s] \notin Nat
    BY <2>1
  <2>3. iter[s] = IF s = {} THEN 0
                  ELSE score[Picked(s)] + iter[s \ {Picked(s)}]
    BY <1>2 DEF SumsOn
  <2>4. s # {} /\ IsFiniteSet(s)
    BY <2>2, <2>3, FS_Subset
  <2>5. /\ s \ {Picked(s)} \in SUBSET S
        /\ Cardinality(s \ {Picked(s)}) = n - 1 /\ n - 1 \in Nat
        /\ Picked(s) \in S
    <3>1. /\ s \ {Picked(s)} \subseteq s
          /\ Cardinality(s \ {Picked(s)}) \in Nat
          /\ Cardinality(s \ {Picked(s)}) = Cardinality(s) - 1
          /\ Picked(s) \in s
      BY <2>4, WithoutPicked
    <3> QED
      BY <2>2, <3>1
  <2>6. iter[s \ {Picked(s)}] \in Nat
    BY <2>1, <2>5
  <2> QED
    BY <2>2, <2>3, <2>4, <2>5, <2>6
<1>4. Cardinality(S) \in Nat
  BY FS_CardinalityType
<1>5. iter[S] \in Nat
  BY <1>3, <1>4
<1> QED
  BY <1>1, <1>5 DEF Total

(***************************************************************************)
(* Scores.  A link raises the score of its root by at least nothing and to *)
(* 100 at most, whatever the scores of its symptoms add up to.             *)
(***************************************************************************)
LEMMA BoostIsBounded ==
  ASSUME NEW base \in 0..100, NEW down \in SUBSET Nodes,
         NEW score, \A s \in down : score[s] \in Nat
  PROVE  /\ BoostedScore(base, down, score) \in 0..100
         /\ BoostedScore(base, down, score) - base \in 0..100
<1>1. PICK total : total = MapThenSumSet(LAMBDA s : score[s], down)
  OBVIOUS
<1>2. total \in Nat
  <2>1. IsFiniteSet(down)
    BY FS_Subset, CausalConstants
  <2>2. Total(down, score) \in Nat
    BY <2>1, TotalIsNatural
  <2>3. MapThenSumSet(LAMBDA s : score[s], down) = Total(down, score)
    BY DEF MapThenSumSet, MapThenFoldSet, Total, SumsOn, Picked
  <2> QED
    BY <1>1, <2>2, <2>3
<1>3. PICK extra : extra = (base * 15 * total) \div 10000
  OBVIOUS
<1>4. extra \in Nat
  <2>1. PICK weight : weight = base * 15
    OBVIOUS
  <2>2. weight \in Nat
    BY <2>1
  <2>3. weight * total \in Nat
    BY <1>2, <2>2
  <2> QED
    BY <1>3, <2>1, <2>3
<1>5. BoostedScore(base, down, score)
        = IF base + extra < 100 THEN base + extra ELSE 100
  BY <1>1, <1>3 DEF BoostedScore
<1> QED
  BY <1>4, <1>5

(***************************************************************************)
(* CausalInv leaves out the ranges; together they are the type invariant.  *)
(***************************************************************************)
InRange(row) == row.boost \in 0..100 /\ row.score \in 0..100

RequestInRange(r) ==
  /\ r.pair \in Pairs \cup {NoLink}
  /\ r.edges \subseteq Pairs /\ r.checked \subseteq Pairs
  /\ r.locked \in BOOLEAN
  /\ InRange(r.loaded) /\ InRange(r.row)

Ranges ==
  /\ \A n \in Nodes : InRange(incident[n])
  /\ \A t \in LinkRequests : RequestInRange(linking[t])

LEMMA OneRequestInRange ==
  ASSUME CausalInv, Ranges, NEW t \in LinkRequests, NEW r, RequestInRange(r),
         linking' = [linking EXCEPT ![t] = r], UNCHANGED <<links, incident>>
  PROVE  Ranges'
BY DEF CausalInv, Ranges

LEMMA FinishedInRange == RequestInRange(FinishedRequest)
BY DEF RequestInRange, InRange, FinishedRequest, NewRequest

LEMMA LoadInRange ==
  ASSUME CausalInv, Ranges, NEW t \in LinkRequests, NEW pair \in Pairs,
         LoadIncidents(t, pair)
  PROVE  Ranges'
<1>1. PICK r : r = [linking[t] EXCEPT !.at = "loaded", !.pair = pair,
                      !.loaded = incident[pair[1]], !.row = incident[pair[1]]]
  OBVIOUS
<1>2. linking[t] = [f \in Fields |-> linking[t][f]]
  BY DEF CausalInv, Consistent, IsRequest, Fields
<1>3. /\ r.pair = pair
      /\ r.loaded = incident[pair[1]] /\ r.row = incident[pair[1]]
      /\ r.edges = linking[t].edges /\ r.checked = linking[t].checked
      /\ r.locked = linking[t].locked
  BY <1>1, <1>2 DEF Fields
<1>4. RequestInRange(linking[t]) /\ InRange(incident[pair[1]])
  BY DEF Ranges, Pairs
<1>5. RequestInRange(r)
  BY <1>3, <1>4 DEF RequestInRange
<1>6. linking' = [linking EXCEPT ![t] = r] /\ UNCHANGED <<links, incident>>
  BY <1>1 DEF LoadIncidents
<1> QED
  BY <1>5, <1>6, OneRequestInRange

LEMMA CheckOrInsertInRange ==
  ASSUME CausalInv, Ranges, NEW t \in LinkRequests,
         CheckAcyclic(t) \/ InsertLink(t)
  PROVE  Ranges'
<1>1. PICK checked : checked = [linking[t] EXCEPT !.at = "allowed",
                                                  !.edges = CommittedLinks]
  OBVIOUS
<1>2. PICK inserted : inserted = [linking[t] EXCEPT !.at = "inserted",
                                                    !.checked = links]
  OBVIOUS
<1>3. linking[t] = [f \in Fields |-> linking[t][f]] /\ links \subseteq Pairs
  BY DEF CausalInv, Consistent, IsRequest, Fields
<1>4. /\ checked.pair = linking[t].pair
      /\ checked.loaded = linking[t].loaded /\ checked.row = linking[t].row
      /\ checked.edges = links /\ checked.checked = linking[t].checked
      /\ checked.locked = linking[t].locked
  BY <1>1, <1>3 DEF Fields, CommittedLinks
<1>5. /\ inserted.pair = linking[t].pair
      /\ inserted.loaded = linking[t].loaded /\ inserted.row = linking[t].row
      /\ inserted.edges = linking[t].edges /\ inserted.checked = links
      /\ inserted.locked = linking[t].locked
  BY <1>2, <1>3 DEF Fields
<1>6. RequestInRange(linking[t])
  BY DEF Ranges
<1>7. RequestInRange(checked) /\ RequestInRange(inserted)
  BY <1>3, <1>4, <1>5, <1>6 DEF RequestInRange
<1>8. /\ \/ linking' = [linking EXCEPT ![t] = FinishedRequest]
         \/ linking' = [linking EXCEPT ![t] = checked]
         \/ linking' = [linking EXCEPT ![t] = inserted]
      /\ UNCHANGED <<links, incident>>
  BY <1>1, <1>2 DEF CheckAcyclic, InsertLink
<1> QED
  BY <1>7, <1>8, FinishedInRange, OneRequestInRange

LEMMA FlushInRange ==
  ASSUME CausalInv, Ranges, NEW t \in LinkRequests, FlushRoot(t)
  PROVE  Ranges'
<1> DEFINE mine == linking[t]
<1>1. PICK row : row = [mine.row EXCEPT !.cause = TRUE,
         !.symptoms = Cardinality(Downstream(mine.edges \cup {mine.pair},
                                             Root(t)))]
  OBVIOUS
<1>2. PICK r : r = [mine EXCEPT !.at = "flushed", !.row = row,
                                !.locked = row # mine.loaded]
  OBVIOUS
<1>3. /\ mine = [f \in Fields |-> mine[f]]
      /\ mine.row = [c \in Columns |-> mine.row[c]]
  BY DEF CausalInv, Consistent, IsRequest, IsRow, Fields
<1>4. row.boost = mine.row.boost /\ row.score = mine.row.score
  BY <1>1, <1>3 DEF Columns
<1>5. /\ r.pair = mine.pair /\ r.loaded = mine.loaded /\ r.row = row
      /\ r.edges = mine.edges /\ r.checked = mine.checked
      /\ r.locked = (row # mine.loaded)
  BY <1>2, <1>3 DEF Fields
<1>6. RequestInRange(mine)
  BY DEF Ranges
<1>7. RequestInRange(r)
  BY <1>4, <1>5, <1>6 DEF RequestInRange, InRange
<1>8. linking' = [linking EXCEPT ![t] = r] /\ UNCHANGED <<links, incident>>
  BY <1>1, <1>2 DEF FlushRoot
<1> QED
  BY <1>7, <1>8, OneRequestInRange

LEMMA ScoreInRange ==
  ASSUME CausalInv, Ranges, NEW t \in LinkRequests, ScoreRoot(t)
  PROVE  Ranges'
<1> DEFINE mine == linking[t]
<1>1. PICK down : down = Downstream(mine.edges \cup {mine.pair}, Root(t))
  OBVIOUS
<1>2. PICK scores : scores = [n \in Nodes |-> incident[n].score]
  OBVIOUS
<1>3. PICK score : score = BoostedScore(mine.loaded.score, down, scores)
  OBVIOUS
<1>4. PICK boost : boost = score - mine.loaded.score
  OBVIOUS
<1>5. RequestInRange(mine)
  BY DEF Ranges
<1>6. score \in 0..100 /\ boost \in 0..100
  <2>1. mine.loaded.score \in 0..100
    BY <1>5 DEF RequestInRange, InRange
  <2>2. down \in SUBSET Nodes
    BY <1>1 DEF Downstream
  <2>3. \A s \in down : scores[s] \in Nat
    BY <1>2, <2>2 DEF Ranges, InRange
  <2> QED
    BY <1>3, <1>4, <2>1, <2>2, <2>3, BoostIsBounded
<1>7. PICK row : row = [mine.row EXCEPT !.score = score, !.boost = boost]
  OBVIOUS
<1>8. PICK r : r = [mine EXCEPT !.at = "scored", !.row = row]
  OBVIOUS
<1>9. /\ mine = [f \in Fields |-> mine[f]]
      /\ mine.row = [c \in Columns |-> mine.row[c]]
  BY DEF CausalInv, Consistent, IsRequest, IsRow, Fields
<1>10. row.boost = boost /\ row.score = score
  BY <1>7, <1>9 DEF Columns
<1>11. /\ r.pair = mine.pair /\ r.loaded = mine.loaded /\ r.row = row
       /\ r.edges = mine.edges /\ r.checked = mine.checked
       /\ r.locked = mine.locked
  BY <1>8, <1>9 DEF Fields
<1>12. RequestInRange(r)
  BY <1>5, <1>6, <1>10, <1>11 DEF RequestInRange, InRange
<1>13. linking' = [linking EXCEPT ![t] = r] /\ UNCHANGED <<links, incident>>
  BY <1>1, <1>2, <1>3, <1>4, <1>7, <1>8 DEF ScoreRoot
<1> QED
  BY <1>12, <1>13, OneRequestInRange

LEMMA CommitInRange ==
  ASSUME CausalInv, Ranges, NEW t \in LinkRequests, CommitLink(t)
  PROVE  Ranges'
<1> DEFINE mine == linking[t]
<1>1. PICK root : root = Root(t)
  OBVIOUS
<1>2. PICK new : new = Written(mine.row, mine.loaded, incident[root])
  OBVIOUS
<1>3. /\ incident' = [incident EXCEPT ![root] = new]
      /\ linking' = [linking EXCEPT ![t] = FinishedRequest]
  BY <1>1, <1>2 DEF CommitLink
<1>4. root \in Nodes
  BY <1>1 DEF CausalInv, Consistent, CommitLink, Root, Pairs
<1>5. DOMAIN incident[root] = Columns
  BY <1>4 DEF CausalInv, RowAgrees, IsRow
<1>6. InRange(incident[root]) /\ InRange(mine.row)
  BY <1>4 DEF Ranges, RequestInRange
<1>7. InRange(new)
  BY <1>2, <1>5, <1>6 DEF Written, Columns, InRange
<1>8. \A n \in Nodes : incident'[n] = IF n = root THEN new ELSE incident[n]
  BY <1>3 DEF CausalInv
<1>9. \A u \in LinkRequests :
        linking'[u] = IF u = t THEN FinishedRequest ELSE linking[u]
  BY <1>3 DEF CausalInv
<1> QED
  BY <1>7, <1>8, <1>9, FinishedInRange DEF Ranges

(***************************************************************************)
(* Rows and requests have their types: no chain of links takes a score     *)
(* beyond 100, nor a boost below 0.                                        *)
(***************************************************************************)
THEOREM CausalTypes == CausalSpec => []CausalTypeOK
<1>1. CausalInit => Ranges
  <2> SUFFICES ASSUME CausalInit PROVE Ranges
    OBVIOUS
  <2>1. \A n \in Nodes : InRange(incident[n])
    BY CausalConstants DEF CausalInit, InRange, Unlinked
  <2>2. RequestInRange(NewRequest)
    BY DEF RequestInRange, InRange, NewRequest
  <2>3. \A t \in LinkRequests : linking[t] = NewRequest
    BY DEF CausalInit
  <2> QED
    BY <2>1, <2>2, <2>3 DEF Ranges
<1>2. CausalInv /\ Ranges /\ [CausalNext]_causalVars => Ranges'
  <2> SUFFICES ASSUME CausalInv, Ranges, [CausalNext]_causalVars PROVE Ranges'
    OBVIOUS
  <2>1. CASE UNCHANGED causalVars
    BY <2>1 DEF causalVars, Ranges
  <2>2. ASSUME NEW t \in LinkRequests, AbortLink(t) PROVE Ranges'
    BY <2>2, FinishedInRange, OneRequestInRange DEF AbortLink
  <2> QED
    BY <2>1, <2>2, LoadInRange, CheckOrInsertInRange, FlushInRange,
       ScoreInRange, CommitInRange DEF CausalNext
<1>3. CausalInv /\ Ranges => CausalTypeOK
  <2> SUFFICES ASSUME CausalInv, Ranges PROVE CausalTypeOK
    OBVIOUS
  <2>1. ASSUME NEW row, IsRow(row), InRange(row) PROVE row \in IncidentRow
    BY <2>1 DEF IsRow, InRange, Columns, IncidentRow
  <2>2. incident \in [Nodes -> IncidentRow]
    BY <2>1 DEF CausalInv, RowAgrees, Ranges
  <2>3. ASSUME NEW r, IsRequest(r), RequestInRange(r) PROVE r \in LinkRequest
    <3>1. r.loaded \in IncidentRow /\ r.row \in IncidentRow
      BY <2>1, <2>3 DEF IsRequest, RequestInRange
    <3> QED
      BY <2>3, <3>1 DEF IsRequest, Fields, RequestInRange, LinkRequest
  <2>4. linking \in [LinkRequests -> LinkRequest]
    BY <2>3 DEF CausalInv, Consistent, Ranges
  <2> QED
    BY <2>2, <2>4 DEF CausalInv, CausalTypeOK
<1> QED
  BY <1>1, <1>2, <1>3, CausalInvariance, PTL DEF CausalSpec

(***************************************************************************)
(* A link that commits over the links its trigger saw keeps the graph free *)
(* of cycles.                                                              *)
(***************************************************************************)
THEOREM CheckedLinksAreSafe == CausalSpec => CheckedLinkKeepsAcyclic
<1>1. ASSUME CausalInv, NEW t \in LinkRequests, CommitLink(t),
             linking[t].checked = links, Acyclic(links)
      PROVE  Acyclic(links')
  <2> DEFINE pair == linking[t].pair
  <2>1. /\ Consistent(linking[t], links) /\ linking[t].at = "scored"
        /\ links \in SUBSET Pairs
        /\ links' = links \cup {pair}
    BY <1>1 DEF CausalInv, CommitLink
  <2>2. /\ pair \in Pairs
        /\ ~ ClosesCycle(links, pair[1], pair[2])
    BY <1>1, <2>1 DEF Consistent
  <2>3. pair = <<pair[1], pair[2]>> /\ pair[1] \in Nodes /\ pair[2] \in Nodes
    BY <2>2 DEF Pairs
  <2> HIDE DEF pair
  <2>4. Acyclic(links \cup {<<pair[1], pair[2]>>})
    BY <1>1, <2>1, <2>2, <2>3, NewLinkKeepsAcyclic
  <2> QED
    BY <2>1, <2>3, <2>4
<1>2. CausalInv =>
        [ \A t \in LinkRequests :
            CommitLink(t) /\ linking[t].checked = links /\ Acyclic(links)
              => Acyclic(links') ]_causalVars
  BY <1>1
<1> QED
  BY <1>2, CausalInvariance, PTL DEF CheckedLinkKeepsAcyclic

------------------------------------------------------------------------------
(***************************************************************************)
(* The ledger.                                                             *)
(***************************************************************************)
(***************************************************************************)
(* A row that may be published over the given rows: hashed, chained to one *)
(* of them, and with the noise of the first.                               *)
(***************************************************************************)
Linked(row, rows) ==
  /\ row.hash = Digest(row.prev, row.seq, row.status, row.point, row.time)
  /\ IF row.seq = 0
       THEN row.prev = Genesis
       ELSE \E e \in rows : e.seq = row.seq - 1 /\ row.prev = e.hash

Noisy(row, rows) ==
  IF row.seq = 0
    THEN \E offset \in Offsets : row.time = Created + offset
    ELSE \E first \in rows :
           /\ first.seq = 0
           /\ row.point = first.point
           /\ row.time = row.milestone + (first.time - Created)

AsEntry(row) ==
  row = Entry(row.seq, row.status, row.point, row.time, row.milestone, row.prev)

Sound(row, rows) ==
  IsEntry(row) /\ AsEntry(row) /\ Linked(row, rows) /\ Noisy(row, rows)

SoundDraft(d, rows) ==
  \/ d \in [at : {"new", "done"}]
  \/ /\ d = [at |-> "read", row |-> d.row]
     /\ Sound(d.row, rows)

(* Below every row there is one of each smaller number. *)
Gapless(rows) == \A e \in rows : \A k \in 0..e.seq : \E f \in rows : f.seq = k

LedgerInv ==
  /\ draft = [p \in Publishers |-> draft[p]]
  /\ \A row \in ledger : Sound(row, ledger)
  /\ \A e, f \in ledger : e.seq = f.seq => e = f
  /\ ledger # {} => \E first \in ledger : first.seq = 0
  /\ Gapless(ledger)
  /\ \A p \in Publishers : SoundDraft(draft[p], ledger)

------------------------------------------------------------------------------
(* What may be published stays publishable while rows are only added. *)
LEMMA SoundGrows ==
  ASSUME NEW rows, NEW more, rows \subseteq more, NEW row, Sound(row, rows)
  PROVE  Sound(row, more)
BY DEF Sound, Linked, Noisy

(* What Entry makes has the columns of a row. *)
LEMMA EntryIsEntry ==
  ASSUME NEW seq \in Nat, NEW status \in Milestones, NEW point \in Points,
         NEW time \in Int, NEW milestone \in Times, NEW prev
  PROVE  /\ IsEntry(Entry(seq, status, point, time, milestone, prev))
         /\ LET row == Entry(seq, status, point, time, milestone, prev)
            IN  /\ row.seq = seq /\ row.status = status /\ row.point = point
                /\ row.time = time /\ row.milestone = milestone
                /\ row.prev = prev
                /\ row.hash = Digest(prev, seq, status, point, time)
                /\ AsEntry(row)
BY DEF Entry, IsEntry, AsEntry

LEMMA GenesisIsSound ==
  ASSUME LedgerInv, NEW status \in Milestones, NEW milestone \in Times,
         NEW point \in Points, NEW offset \in Offsets
  PROVE  Sound(Entry(0, status, point, Created + offset, milestone, Genesis),
               ledger)
<1> DEFINE row == Entry(0, status, point, Created + offset, milestone, Genesis)
<1>1. Created + offset \in Int
  BY LedgerConstants
<1>2. /\ IsEntry(row)
      /\ row.seq = 0 /\ row.status = status /\ row.point = point
      /\ row.time = Created + offset /\ row.prev = Genesis
      /\ row.hash = Digest(Genesis, 0, status, point, Created + offset)
      /\ AsEntry(row)
  BY <1>1, EntryIsEntry
<1> HIDE DEF row
<1> QED
  BY <1>2 DEF Sound, Linked, Noisy, row

LEMMA NextIsSound ==
  ASSUME LedgerInv, NEW status \in Milestones, NEW milestone \in Times,
         NEW first \in ledger, NEW last \in ledger,
         \A e \in ledger : first.seq <= e.seq /\ e.seq <= last.seq
  PROVE  Sound(Entry(last.seq + 1, status, first.point,
                     milestone + (first.time - Created), milestone, last.hash),
               ledger)
<1> DEFINE time == milestone + (first.time - Created)
           row == Entry(last.seq + 1, status, first.point, time, milestone,
                        last.hash)
<1>1. /\ \A e \in ledger : e.seq \in Nat
      /\ first.point \in Points /\ first.time \in Int
  BY DEF LedgerInv, Sound, IsEntry
<1>2. first.seq = 0
  <2>1. PICK zero \in ledger : zero.seq = 0
    BY DEF LedgerInv
  <2> QED
    BY <1>1, <2>1
<1>3. time \in Int
  BY <1>1, LedgerConstants
<1>4. last.seq + 1 \in Nat /\ last.seq + 1 # 0 /\ (last.seq + 1) - 1 = last.seq
  BY <1>1
<1> HIDE DEF time
<1>5. PICK seq, point, prev :
        seq = last.seq + 1 /\ point = first.point /\ prev = last.hash
  OBVIOUS
<1>6. row = Entry(seq, status, point, time, milestone, prev)
  BY <1>5
<1>7. seq \in Nat /\ seq # 0 /\ seq - 1 = last.seq /\ point \in Points
  BY <1>1, <1>4, <1>5
<1> HIDE DEF row
<1>8. /\ IsEntry(row)
      /\ row.seq = seq /\ row.status = status
      /\ row.point = point /\ row.time = time
      /\ row.milestone = milestone /\ row.prev = prev
      /\ row.hash = Digest(prev, seq, status, point, time)
      /\ AsEntry(row)
  <2>1. PICK entry : entry = Entry(seq, status, point, time, milestone, prev)
    OBVIOUS
  <2>2. /\ IsEntry(entry)
        /\ entry.seq = seq /\ entry.status = status
        /\ entry.point = point /\ entry.time = time
        /\ entry.milestone = milestone /\ entry.prev = prev
        /\ entry.hash = Digest(prev, seq, status, point, time)
        /\ AsEntry(entry)
    BY <1>3, <1>7, <2>1, EntryIsEntry
  <2> QED
    BY <1>6, <2>1, <2>2
<1>9. Linked(row, ledger)
  BY <1>5, <1>7, <1>8 DEF Linked
<1>10. Noisy(row, ledger)
  BY <1>2, <1>5, <1>7, <1>8 DEF Noisy, time
<1>11. Sound(row, ledger)
  BY <1>8, <1>9, <1>10 DEF Sound
<1> QED
  BY <1>11 DEF row, time

------------------------------------------------------------------------------
LEMMA LedgerInvInit == LedgerInit => LedgerInv
BY DEF LedgerInit, LedgerInv, SoundDraft, Gapless

LEMMA ReadKeepsInv ==
  ASSUME LedgerInv, NEW p \in Publishers, NEW status \in Milestones,
         NEW milestone \in Times, ReadChain(p, status, milestone)
  PROVE  LedgerInv'
<1>1. PICK row : Draft(p, row) /\ Sound(row, ledger)
  <2>1. CASE DraftGenesis(p, status, milestone)
    BY <2>1, GenesisIsSound DEF DraftGenesis
  <2>2. CASE DraftNext(p, status, milestone)
    <3>1. PICK first \in ledger, last \in ledger :
            /\ \A e \in ledger : first.seq <= e.seq /\ e.seq <= last.seq
            /\ Draft(p, Entry(last.seq + 1, status, first.point,
                              milestone + (first.time - Created), milestone,
                              last.hash))
      BY <2>2 DEF DraftNext
    <3> QED
      BY <3>1, NextIsSound
  <2> QED
    BY <2>1, <2>2 DEF ReadChain
<1>2. SoundDraft([at |-> "read", row |-> row], ledger)
  BY <1>1 DEF SoundDraft
<1>3. ledger' = ledger
      /\ draft' = [draft EXCEPT ![p] = [at |-> "read", row |-> row]]
  BY <1>1 DEF ReadChain, Draft
<1> QED
  BY <1>2, <1>3 DEF LedgerInv

LEMMA PublishKeepsInv ==
  ASSUME LedgerInv, NEW p \in Publishers, PublishCheckpoint(p)
  PROVE  LedgerInv'
<1> DEFINE row == draft[p].row
<1>1. Sound(row, ledger)
  BY DEF LedgerInv, SoundDraft, PublishCheckpoint
<1>2. \/ ledger' = ledger
      \/ ledger' = ledger \cup {row} /\ \A e \in ledger : e.seq # row.seq
  BY DEF PublishCheckpoint, Taken
<1>3. ledger \subseteq ledger' /\ draft' = [draft EXCEPT ![p] = [at |-> "done"]]
  BY <1>2 DEF PublishCheckpoint
<1>4. \A e \in ledger' : Sound(e, ledger')
  BY <1>1, <1>2, <1>3, SoundGrows DEF LedgerInv
<1>5. \A e, f \in ledger' : e.seq = f.seq => e = f
  BY <1>2 DEF LedgerInv
<1>6. ledger' # {} => \E first \in ledger' : first.seq = 0
  BY <1>1, <1>2 DEF LedgerInv, Sound, Linked
<1>9. Gapless(ledger')
  <2>1. CASE ledger' = ledger
    BY <2>1 DEF LedgerInv
  <2>2. CASE ledger' = ledger \cup {row}
    <3>1. \A e \in ledger : \A k \in 0..e.seq : \E f \in ledger' : f.seq = k
      BY <2>2 DEF LedgerInv, Gapless
    <3>2. ASSUME NEW k \in 0..row.seq PROVE \E f \in ledger' : f.seq = k
      <4>1. CASE k = row.seq
        BY <2>2, <4>1
      <4>2. CASE k # row.seq
        <5>1. row.seq \in Nat
          BY <1>1 DEF Sound, IsEntry
        <5>2. row.seq # 0
          BY <3>2, <4>2, <5>1
        <5>3. PICK e \in ledger : e.seq = row.seq - 1
          BY <1>1, <5>2 DEF Sound, Linked
        <5>4. k \in 0..e.seq
          BY <3>2, <4>2, <5>1, <5>3
        <5> QED
          BY <3>1, <5>3, <5>4
      <4> QED
        BY <4>1, <4>2
    <3> QED
      BY <2>2, <3>1, <3>2 DEF Gapless
  <2> QED
    BY <1>2, <2>1, <2>2
<1>7. ASSUME NEW q \in Publishers PROVE SoundDraft(draft'[q], ledger')
  <2>1. CASE q = p
    BY <1>3, <2>1 DEF LedgerInv, SoundDraft
  <2>2. CASE q # p
    <3>1. draft'[q] = draft[q] /\ SoundDraft(draft[q], ledger)
      BY <1>3, <2>2 DEF LedgerInv
    <3> QED
      BY <1>3, <3>1, SoundGrows DEF SoundDraft
  <2> QED
    BY <2>1, <2>2
<1>8. draft' = [q \in Publishers |-> draft'[q]]
  BY <1>3 DEF LedgerInv
<1> QED
  BY <1>4, <1>5, <1>6, <1>7, <1>8, <1>9 DEF LedgerInv

(***************************************************************************)
(* Every row, published or about to be, fits the rows before it.           *)
(***************************************************************************)
THEOREM LedgerInvariance == LedgerSpec => []LedgerInv
<1>1. LedgerInv /\ [LedgerNext]_ledgerVars => LedgerInv'
  <2>1. LedgerInv /\ UNCHANGED ledgerVars => LedgerInv'
    BY DEF LedgerInv, ledgerVars
  <2> QED
    BY <2>1, ReadKeepsInv, PublishKeepsInv DEF LedgerNext
<1> QED
  BY <1>1, LedgerInvInit, PTL DEF LedgerSpec

(* The rows and drafts have their types. *)
THEOREM LedgerTypes == LedgerSpec => []LedgerTypeOK
<1>1. LedgerInv => LedgerTypeOK
  BY DEF LedgerInv, LedgerTypeOK, SoundDraft, Sound
<1> QED
  BY <1>1, LedgerInvariance, PTL

(* The public endpoint finds every chain valid. *)
THEOREM ChainsVerify == LedgerSpec => []ChainVerifies
<1>1. LedgerInv => ChainVerifies
  BY DEF LedgerInv, ChainVerifies, Verify, Sound, Linked
<1> QED
  BY <1>1, LedgerInvariance, PTL

(* All rows of an incident share one position and one offset. *)
THEOREM NoiseIsDrawnOnce == LedgerSpec => []OneNoise
<1>1. ASSUME LedgerInv, ledger # {}
      PROVE  \E point \in Points, offset \in Offsets :
               \A row \in ledger :
                 /\ row.point = point
                 /\ row.time = offset + IF row.seq = 0 THEN Created
                                                       ELSE row.milestone
  <2>1. PICK first \in ledger : first.seq = 0
    BY <1>1 DEF LedgerInv
  <2>2. first.point \in Points
    BY <1>1 DEF LedgerInv, Sound, IsEntry
  <2>3. PICK offset \in Offsets : first.time = Created + offset
    BY <1>1, <2>1 DEF LedgerInv, Sound, Noisy
  <2>4. ASSUME NEW row \in ledger
        PROVE  /\ row.point = first.point
               /\ row.time = offset + IF row.seq = 0 THEN Created
                                                     ELSE row.milestone
    <3>0. offset \in Int /\ Created \in Int /\ row.milestone \in Int
      BY <1>1, LedgerConstants DEF LedgerInv, Sound, IsEntry
    <3>1. CASE row.seq = 0
      <4>1. row = first
        BY <1>1, <2>1, <3>1 DEF LedgerInv
      <4> QED
        BY <2>3, <3>0, <3>1, <4>1
    <3>2. CASE row.seq # 0
      <4>1. PICK zero \in ledger :
              /\ zero.seq = 0
              /\ row.point = zero.point
              /\ row.time = row.milestone + (zero.time - Created)
        BY <1>1, <3>2 DEF LedgerInv, Sound, Noisy
      <4>2. zero = first
        BY <1>1, <2>1, <4>1 DEF LedgerInv
      <4> QED
        BY <2>3, <3>0, <3>2, <4>1, <4>2
    <3> QED
      BY <3>1, <3>2
  <2> QED
    BY <2>2, <2>4
<1>2. LedgerInv => OneNoise
  BY <1>1 DEF OneNoise
<1> QED
  BY <1>2, LedgerInvariance, PTL

------------------------------------------------------------------------------
(***************************************************************************)
(* What verification notices: two rows of the same number and predecessor  *)
(* with one hash are one row, and a row that is not the last has a         *)
(* successor, which carries its hash.                                      *)
(***************************************************************************)
LEMMA HashIsInjective ==
  ASSUME NEW row, AsEntry(row), row.hash = Digest(row.prev, row.seq, row.status,
                                                  row.point, row.time),
         NEW s, NEW at, NEW time,
         row.hash = Digest(row.prev, row.seq, s, at, time)
  PROVE  Entry(row.seq, s, at, time, row.milestone, row.prev) = row
<1>1. row.status = s /\ row.point = at /\ row.time = time
  BY DEF Digest
<1> QED
  BY <1>1 DEF AsEntry

LEMMA SuccessorChains ==
  ASSUME LedgerInv, NEW row \in ledger, NEW e \in ledger \ {row},
         ~ (e.seq < row.seq)
  PROVE  \E next \in ledger \ {row} :
           /\ next.seq = row.seq + 1 /\ next.seq # 0
           /\ next.seq - 1 = row.seq
           /\ next.prev = row.hash
<1>1. row.seq \in Nat /\ e.seq \in Nat /\ e.seq # row.seq
  BY DEF LedgerInv, Sound, IsEntry
<1>2. row.seq + 1 \in 0..e.seq
  BY <1>1
<1>3. PICK next \in ledger : next.seq = row.seq + 1
  BY <1>2 DEF LedgerInv, Gapless
<1>4. next.seq # 0 /\ next.seq - 1 = row.seq /\ next.seq # row.seq
  BY <1>1, <1>3
<1>5. PICK before \in ledger : before.seq = next.seq - 1 /\ next.prev = before.hash
  BY <1>4 DEF LedgerInv, Sound, Linked
<1>6. before = row
  BY <1>4, <1>5 DEF LedgerInv
<1> QED
  BY <1>3, <1>4, <1>5, <1>6

(* In rows that verify, every row but number 0 has its predecessor. *)
LEMMA NeedsPredecessor ==
  ASSUME NEW rows, Verify(rows), NEW next \in rows, next.seq # 0
  PROVE  \E e \in rows : e.seq = next.seq - 1 /\ next.prev = e.hash
BY DEF Verify

LEMMA ForgeriesShow ==
  ASSUME LedgerInv, NEW row \in ledger, NEW forged \in Altered(row)
  PROVE  /\ forged.seq = row.seq
         /\ forged.hash # row.hash
         /\ ~ Verify((ledger \ {row}) \cup {[forged EXCEPT !.hash = row.hash]})
<1>1. PICK s \in Milestones, at \in Points, time \in {row.time, row.time + 1} :
        forged = Entry(row.seq, s, at, time, row.milestone, row.prev)
  BY DEF Altered
<1>2. forged # row
  BY DEF Altered
<1>3. /\ AsEntry(row)
      /\ row.hash = Digest(row.prev, row.seq, row.status, row.point, row.time)
  BY DEF LedgerInv, Sound, Linked
<1>4. row.hash # Digest(row.prev, row.seq, s, at, time)
  BY <1>1, <1>2, <1>3, HashIsInjective
<1>5. PICK kept : kept = [forged EXCEPT !.hash = row.hash]
  OBVIOUS
<1>6. /\ kept.hash = row.hash /\ kept.prev = row.prev /\ kept.seq = row.seq
      /\ kept.status = s /\ kept.point = at /\ kept.time = time
  BY <1>1, <1>5 DEF Entry
<1>7. ~ Verify((ledger \ {row}) \cup {kept})
  BY <1>4, <1>6 DEF Verify
<1> QED
  BY <1>1, <1>4, <1>5, <1>7 DEF Entry

(***************************************************************************)
(* A change of a published row shows, with or without its hash computed    *)
(* anew when rows follow it, and so does its removal then.                 *)
(***************************************************************************)
THEOREM TamperingShows == LedgerSpec => []TamperEvident
<1>1. ASSUME LedgerInv, NEW row \in ledger, NEW e \in ledger \ {row},
             ~ (e.seq < row.seq), NEW rows, ledger \ {row} \subseteq rows,
             \A f \in rows : \/ f \in ledger \ {row}
                             \/ f.seq = row.seq /\ f.hash # row.hash
      PROVE  ~ Verify(rows)
  <2>1. PICK next \in ledger \ {row} :
          /\ next.seq # 0 /\ next.seq - 1 = row.seq
          /\ next.prev = row.hash
    BY <1>1, SuccessorChains
  <2>2. \A f \in ledger \ {row} : f.seq # row.seq
    BY <1>1 DEF LedgerInv
  <2>3. ASSUME Verify(rows) PROVE FALSE
    <3>1. PICK f \in rows : f.seq = next.seq - 1 /\ next.prev = f.hash
      BY <1>1, <2>1, <2>3, NeedsPredecessor
    <3> QED
      BY <1>1, <2>1, <2>2, <3>1
  <2> QED
    BY <2>3
<1>2. ASSUME LedgerInv, NEW row \in ledger
      PROVE  LET others == ledger \ {row}
                 last == \A e \in others : e.seq < row.seq
             IN  /\ \A forged \in Altered(row) :
                      /\ ~ Verify(others \cup {[forged EXCEPT !.hash = row.hash]})
                      /\ last \/ ~ Verify(others \cup {forged})
                 /\ last \/ ~ Verify(others)
  <2>1. ASSUME NEW e \in ledger \ {row}, ~ (e.seq < row.seq)
        PROVE  /\ ~ Verify(ledger \ {row})
               /\ \A forged \in Altered(row) :
                    ~ Verify((ledger \ {row}) \cup {forged})
    <3>1. ~ Verify(ledger \ {row})
      <4>1. PICK rows : rows = ledger \ {row}
        OBVIOUS
      <4>2. /\ ledger \ {row} \subseteq rows
            /\ \A f \in rows : \/ f \in ledger \ {row}
                               \/ f.seq = row.seq /\ f.hash # row.hash
        BY <4>1
      <4>3. ~ Verify(rows)
        BY <1>1, <1>2, <2>1, <4>2
      <4> QED
        BY <4>1, <4>3
    <3>2. ASSUME NEW forged \in Altered(row)
          PROVE  ~ Verify((ledger \ {row}) \cup {forged})
      <4>1. PICK rows : rows = (ledger \ {row}) \cup {forged}
        OBVIOUS
      <4>2. /\ ledger \ {row} \subseteq rows
            /\ \A f \in rows : \/ f \in ledger \ {row}
                               \/ f.seq = row.seq /\ f.hash # row.hash
        <5>1. forged.seq = row.seq /\ forged.hash # row.hash
          BY <1>2, ForgeriesShow
        <5>2. ASSUME NEW f \in rows
              PROVE  \/ f \in ledger \ {row}
                     \/ f.seq = row.seq /\ f.hash # row.hash
          <6>1. CASE f = forged
            BY <5>1, <6>1
          <6>2. CASE f # forged
            BY <4>1, <6>2
          <6> QED
            BY <6>1, <6>2
        <5> QED
          BY <4>1, <5>2
      <4>3. ~ Verify(rows)
        BY <1>1, <1>2, <2>1, <4>2
      <4> QED
        BY <4>1, <4>3
    <3> QED
      BY <3>1, <3>2
  <2>2. \A forged \in Altered(row) :
          ~ Verify((ledger \ {row}) \cup {[forged EXCEPT !.hash = row.hash]})
    BY <1>2, ForgeriesShow
  <2> QED
    BY <2>1, <2>2
<1>3. LedgerInv => TamperEvident
  BY <1>2 DEF TamperEvident
<1> QED
  BY <1>3, LedgerInvariance, PTL


------------------------------------------------------------------------------
(***************************************************************************)
(* Intake.  A transaction keeps the rows it opened apart from the          *)
(* committed ones, knows the status of each incident it loaded unless that *)
(* moved since, and opened nothing that matched what it could see.         *)
(***************************************************************************)
IsTransaction(t) ==
  /\ t = [at |-> t.at, payload |-> t.payload, done |-> t.done,
          started |-> t.started, rows |-> t.rows, loaded |-> t.loaded,
          children |-> t.children, known |-> t.known, moved |-> t.moved]
  /\ t.at \in {"new", "routing", "done"}
  /\ t.at = "routing" => t.payload \in Payloads
  /\ t.done \in Nat
  /\ t.children \in Seq(IncidentNames)

IsIncidentRow(row) ==
  /\ row = [department |-> row.department, category |-> row.category,
            place |-> row.place, status |-> row.status, era |-> row.era,
            routed |-> row.routed]
  /\ row.department \in DepartmentSet /\ row.status \in IncidentStatus
  /\ row.place \in Nat

OwnRows(q, t) ==
  \A n \in DOMAIN t.rows :
    /\ t.at = "routing"
    /\ n \in IncidentNames /\ n[1] = q /\ n[2] <= t.done
    /\ IsIncidentRow(t.rows[n]) /\ t.rows[n].status = "reported"

LoadedRows(t, committed) ==
  /\ \A k \in 1..Len(t.children) : t.children[k] \in DOMAIN t.loaded
  /\ \A i \in DOMAIN t.loaded :
       /\ i \in DOMAIN committed \cup DOMAIN t.rows
       /\ t.loaded[i] \in IncidentStatus
       /\ i \in DOMAIN t.rows => t.loaded[i] = "reported"
       /\ i \in DOMAIN committed \ t.moved => t.loaded[i] = committed[i].status
  /\ t.moved \subseteq DOMAIN t.loaded

Duplicates(t, n, row) ==
  /\ row.department = t.rows[n].department
  /\ IsMatch(t.payload, t.rows[n].category, row, t.rows[n].routed)

NothingTwice(t, committed) ==
  /\ \A i \in t.known : i \in DOMAIN committed /\ IsOpen(committed[i].status)
  /\ \A n \in DOMAIN t.rows :
       /\ \A i \in t.known : ~ Duplicates(t, n, committed[i])
       /\ \A m \in DOMAIN t.rows :
            m[2] < n[2] => ~ Duplicates(t, n, t.rows[m])

TransactionOK(q, t, committed) ==
  /\ IsTransaction(t)
  /\ OwnRows(q, t)
  /\ LoadedRows(t, committed)
  /\ NothingTwice(t, committed)

FiledOK(answer, committed) ==
  /\ answer \in [status : IntakeStatus \cup {"none"},
                 children : SUBSET DOMAIN committed, overtaken : BOOLEAN]
  /\ answer.status # "none" /\ ~ answer.overtaken =>
       answer.status =
         CalculateIntakeStatus({committed[i].status : i \in answer.children})

(* An incident is committed with the submission that opened it. *)
CommittedOK ==
  \A i \in DOMAIN opened :
    /\ i \in IncidentNames /\ submitting[i[1]].at = "done"
    /\ IsIncidentRow(opened[i])

IntakeInv ==
  /\ submitting = [q \in Submissions |-> submitting[q]]
  /\ filed = [q \in Submissions |-> filed[q]]
  /\ era \in 0..MaxEra
  /\ CommittedOK
  /\ \A q \in Submissions :
       /\ TransactionOK(q, submitting[q], opened)
       /\ FiledOK(filed[q], opened)

------------------------------------------------------------------------------
(* The rows of a transaction have names that no committed row has. *)
LEMMA RowsApart ==
  ASSUME IntakeInv, NEW q \in Submissions, NEW i \in DOMAIN submitting[q].rows
  PROVE  /\ i \notin DOMAIN opened
         /\ RowOf(q, i) = submitting[q].rows[i]
<1>1. i[1] = q /\ submitting[q].at = "routing"
  BY DEF IntakeInv, TransactionOK, OwnRows
<1>2. i \notin DOMAIN opened
  BY <1>1 DEF IntakeInv, CommittedOK
<1> QED
  BY <1>2 DEF RowOf

LEMMA RowIsSound ==
  ASSUME IntakeInv, NEW q \in Submissions,
         NEW i \in DOMAIN opened \cup DOMAIN submitting[q].rows
  PROVE  IsIncidentRow(RowOf(q, i)) /\ i \in IncidentNames
<1>1. CASE i \in DOMAIN opened
  BY <1>1 DEF IntakeInv, CommittedOK, RowOf
<1>2. CASE i \in DOMAIN submitting[q].rows
  BY <1>2, RowsApart DEF IntakeInv, TransactionOK, OwnRows
<1> QED
  BY <1>1, <1>2

LEMMA CandidatesKnown ==
  ASSUME NEW q, NEW department
  PROVE  Candidates(q, department)
           \subseteq DOMAIN opened \cup DOMAIN submitting[q].rows
BY DEF Candidates

(* A transaction that has not begun, or has ended. *)
LEMMA EmptyIsOK ==
  ASSUME NEW q \in Submissions, NEW committed, NEW t,
         t = NoSubmission \/ t = EndedSubmission
  PROVE  TransactionOK(q, t, committed)
<1>1. /\ t.at \in {"new", "done"} /\ t.done = 0 /\ t.rows = <<>>
      /\ t.loaded = <<>> /\ t.children = <<>> /\ t.known = {} /\ t.moved = {}
      /\ t = [at |-> t.at, payload |-> t.payload, done |-> t.done,
              started |-> t.started, rows |-> t.rows, loaded |-> t.loaded,
              children |-> t.children, known |-> t.known, moved |-> t.moved]
  BY DEF NoSubmission, EndedSubmission
<1>2. DOMAIN t.rows = {} /\ DOMAIN t.loaded = {} /\ Len(t.children) = 0
      /\ t.children \in Seq(IncidentNames)
  BY <1>1
<1>3. IsTransaction(t)
  BY <1>1, <1>2 DEF IsTransaction
<1>4. OwnRows(q, t)
  BY <1>2 DEF OwnRows
<1>5. LoadedRows(t, committed)
  BY <1>1, <1>2 DEF LoadedRows
<1>6. NothingTwice(t, committed)
  BY <1>1, <1>2 DEF NothingTwice
<1> QED
  BY <1>3, <1>4, <1>5, <1>6 DEF TransactionOK

LEMMA IntakeInvInit == IntakeInit => IntakeInv
<1> SUFFICES ASSUME IntakeInit PROVE IntakeInv
  OBVIOUS
<1>1. DOMAIN opened = {}
  BY DEF IntakeInit
<1>2. ASSUME NEW q \in Submissions
      PROVE  TransactionOK(q, submitting[q], opened) /\ FiledOK(filed[q], opened)
  <2>1. submitting[q] = NoSubmission /\ filed[q] = NoReport
    BY DEF IntakeInit
  <2>2. TransactionOK(q, submitting[q], opened)
    BY <2>1, EmptyIsOK
  <2>3. FiledOK(filed[q], opened)
    BY <2>1 DEF FiledOK, NoReport
  <2> QED
    BY <2>2, <2>3
<1> QED
  BY <1>1, <1>2, IntakeConstants DEF IntakeInit, IntakeInv, CommittedOK

(* One transaction moves, nothing is committed. *)
LEMMA TransactionMoves ==
  ASSUME IntakeInv, NEW q \in Submissions, NEW t,
         TransactionOK(q, t, opened), submitting[q].at = "done" => t.at = "done",
         submitting' = [submitting EXCEPT ![q] = t],
         UNCHANGED <<opened, filed, era>>
  PROVE  IntakeInv'
<1>1. submitting' = [r \in Submissions |-> submitting'[r]]
      /\ submitting'[q] = t
      /\ \A r \in Submissions \ {q} : submitting'[r] = submitting[r]
  BY DEF IntakeInv
<1>2. CommittedOK'
  BY <1>1 DEF IntakeInv, CommittedOK, IncidentNames
<1>3. ASSUME NEW r \in Submissions
      PROVE  TransactionOK(r, submitting'[r], opened')
  BY <1>1 DEF IntakeInv
<1> QED
  BY <1>1, <1>2, <1>3 DEF IntakeInv

LEMMA BeginKeepsInv ==
  ASSUME IntakeInv, NEW q \in Submissions, NEW p \in Payloads,
         BeginSubmission(q, p)
  PROVE  IntakeInv'
<1>1. PICK t : t = [NoSubmission EXCEPT
                      !.at = "routing", !.payload = p, !.started = era,
                      !.known = {i \in DOMAIN opened : IsOpen(opened[i].status)}]
  OBVIOUS
<1>2. /\ t.at = "routing" /\ t.payload = p /\ t.done = 0 /\ t.rows = <<>>
      /\ t.loaded = <<>> /\ t.children = <<>> /\ t.moved = {}
      /\ t.known = {i \in DOMAIN opened : IsOpen(opened[i].status)}
      /\ t = [at |-> t.at, payload |-> t.payload, done |-> t.done,
              started |-> t.started, rows |-> t.rows, loaded |-> t.loaded,
              children |-> t.children, known |-> t.known, moved |-> t.moved]
  BY <1>1 DEF NoSubmission
<1>3. DOMAIN t.rows = {} /\ DOMAIN t.loaded = {} /\ Len(t.children) = 0
      /\ t.children \in Seq(IncidentNames)
  BY <1>2
<1>4. IsTransaction(t)
  BY <1>2, <1>3 DEF IsTransaction
<1>5. OwnRows(q, t)
  BY <1>3 DEF OwnRows
<1>6. LoadedRows(t, opened)
  BY <1>2, <1>3 DEF LoadedRows
<1>7. NothingTwice(t, opened)
  BY <1>2, <1>3 DEF NothingTwice
<1>8. TransactionOK(q, t, opened)
  BY <1>4, <1>5, <1>6, <1>7 DEF TransactionOK
<1>9. submitting[q].at = "new" /\ submitting' = [submitting EXCEPT ![q] = t]
      /\ UNCHANGED <<opened, filed, era>>
  BY <1>1 DEF BeginSubmission
<1> QED
  BY <1>8, <1>9, TransactionMoves

LEMMA AbortKeepsInv ==
  ASSUME IntakeInv, NEW q \in Submissions, AbortIntake(q)
  PROVE  IntakeInv'
<1>1. TransactionOK(q, EndedSubmission, opened)
  BY EmptyIsOK
<1>2. submitting[q].at = "routing"
      /\ submitting' = [submitting EXCEPT ![q] = EndedSubmission]
      /\ UNCHANGED <<opened, filed, era>>
  BY DEF AbortIntake
<1> QED
  BY <1>1, <1>2, TransactionMoves


------------------------------------------------------------------------------
(***************************************************************************)
(* The weights have an upper bound, so that among the candidates that     *)
(* match there is a best one: when no best one is found, none matches.     *)
(***************************************************************************)
LEMMA WeightBound ==
  ASSUME NEW p, NEW category, NEW row, NEW now
  PROVE  /\ MatchWeight(p, category, row, now) \in Int
         /\ MatchWeight(p, category, row, now) <= 1471
<1>1. SpatialWeight(p.place, row.place) \in {641, 358, -423}
  BY DEF SpatialWeight
<1> QED
  BY <1>1 DEF MatchWeight

Gaps(S, w) == {1471 - w[i] : i \in S}

LEMMA HeaviestExists ==
  ASSUME NEW S, S # {}, NEW w \in [S -> Int], \A i \in S : w[i] <= 1471
  PROVE  \E i \in S : \A j \in S : w[j] <= w[i]
<1>0. \A i \in S : w[i] \in Int /\ 1471 - w[i] \in Nat
  OBVIOUS
<1>1. Gaps(S, w) \in SUBSET Nat /\ Gaps(S, w) # {}
  <2>1. \A n \in Gaps(S, w) : n \in Nat
    BY <1>0 DEF Gaps
  <2>2. Gaps(S, w) # {}
    BY DEF Gaps
  <2> QED
    BY <2>1, <2>2
<1>2. PICK least \in Gaps(S, w) : \A n \in Gaps(S, w) : least <= n
  BY <1>1, LeastExists
<1>3. PICK i \in S : least = 1471 - w[i]
  BY DEF Gaps
<1>4. ASSUME NEW j \in S PROVE w[j] <= w[i]
  <2>1. 1471 - w[j] \in Gaps(S, w)
    BY DEF Gaps
  <2>2. 1471 - w[i] <= 1471 - w[j]
    BY <1>2, <1>3, <2>1
  <2> QED
    BY <1>0, <2>2
<1> QED
  BY <1>4

LEMMA NoBestNoMatch ==
  ASSUME NEW q \in Submissions, NEW department,
         BestMatches(q, department) = {}, NEW i \in Candidates(q, department)
  PROVE  ~ IsMatch(submitting[q].payload, Defect(q).category, RowOf(q, i), era)
<1>1. PICK matching :
        matching = {j \in Candidates(q, department) :
                      IsMatch(submitting[q].payload, Defect(q).category,
                              RowOf(q, j), era)}
  OBVIOUS
<1>2. PICK w : w = [j \in matching |-> Weight(q, j)]
  OBVIOUS
<1>3. w \in [matching -> Int] /\ \A j \in matching : w[j] <= 1471
  BY <1>2, WeightBound DEF Weight
<1>4. BestMatches(q, department) =
        {j \in matching : \A k \in matching : Weight(q, k) <= Weight(q, j)}
  BY <1>1 DEF BestMatches
<1>5. matching = {}
  <2>1. ASSUME matching # {} PROVE FALSE
    <3>1. PICK j \in matching : \A k \in matching : w[k] <= w[j]
      BY <1>3, <2>1, HeaviestExists
    <3> QED
      BY <1>2, <1>4, <3>1
  <2> QED
    BY <2>1
<1> QED
  BY <1>1, <1>5

------------------------------------------------------------------------------
(***************************************************************************)
(* One observation.  What a transaction has loaded after a query that      *)
(* returned some of the rows it can see.                                   *)
(***************************************************************************)
LEMMA LoadFacts ==
  ASSUME IntakeInv, NEW q \in Submissions,
         NEW names \in SUBSET (DOMAIN opened \cup DOMAIN submitting[q].rows),
         NEW i \in DOMAIN Load(q, names)
  PROVE  /\ i \in DOMAIN opened \cup DOMAIN submitting[q].rows
         /\ Load(q, names)[i] \in IncidentStatus
         /\ i \in DOMAIN submitting[q].rows => Load(q, names)[i] = "reported"
         /\ i \in DOMAIN opened \ submitting[q].moved
              => Load(q, names)[i] = opened[i].status
<1> DEFINE t == submitting[q]
<1>1. i \in DOMAIN t.loaded \cup names
  BY DEF Load
<1>2. LoadedRows(t, opened) /\ OwnRows(q, t)
  BY DEF IntakeInv, TransactionOK
<1>3. CASE i \in DOMAIN t.loaded
  BY <1>2, <1>3 DEF Load, LoadedRows
<1>4. CASE i \notin DOMAIN t.loaded
  <2>1. i \in names /\ Load(q, names)[i] = RowOf(q, i).status
    BY <1>1, <1>4 DEF Load
  <2>2. i \in DOMAIN t.rows => RowOf(q, i).status = "reported"
    BY <1>2, RowsApart DEF OwnRows
  <2>3. i \in DOMAIN opened => RowOf(q, i) = opened[i]
    BY DEF RowOf
  <2>4. RowOf(q, i).status \in IncidentStatus
    BY <2>1, RowIsSound DEF IsIncidentRow
  <2> QED
    BY <2>1, <2>2, <2>3, <2>4
<1> QED
  BY <1>3, <1>4

LEMMA LinkKeepsInv ==
  ASSUME IntakeInv, NEW q \in Submissions, NEW department,
         submitting[q].at = "routing", LinkToIncident(q, department),
         UNCHANGED <<opened, filed, era>>
  PROVE  IntakeInv'
<1>0. PICK old : old = submitting[q]
  OBVIOUS
<1>1. PICK i \in BestMatches(q, department) :
        submitting' = [submitting EXCEPT
          ![q] = [submitting[q] EXCEPT !.done = @ + 1,
                           !.loaded = Load(q, Candidates(q, department)),
                           !.children = Append(@, i)]]
  BY DEF LinkToIncident
<1>2. PICK t : t = [old EXCEPT !.done = @ + 1,
                               !.loaded = Load(q, Candidates(q, department)),
                               !.children = Append(@, i)]
  OBVIOUS
<1>3. TransactionOK(q, old, opened)
  BY <1>0 DEF IntakeInv
<1>4. /\ t.at = old.at /\ t.payload = old.payload /\ t.done = old.done + 1
      /\ t.rows = old.rows /\ t.loaded = Load(q, Candidates(q, department))
      /\ t.children = Append(old.children, i) /\ t.known = old.known
      /\ t.moved = old.moved
      /\ t = [at |-> t.at, payload |-> t.payload, done |-> t.done,
              started |-> t.started, rows |-> t.rows, loaded |-> t.loaded,
              children |-> t.children, known |-> t.known, moved |-> t.moved]
  BY <1>2, <1>3 DEF TransactionOK, IsTransaction
<1>5. i \in Candidates(q, department)
  BY DEF BestMatches
<1>6. Candidates(q, department) \subseteq DOMAIN opened \cup DOMAIN old.rows
  BY <1>0, CandidatesKnown
<1>7. i \in IncidentNames
  BY <1>0, <1>5, <1>6, RowIsSound
<1>8. IsTransaction(t)
  BY <1>3, <1>4, <1>7 DEF TransactionOK, IsTransaction
<1>9. OwnRows(q, t)
  BY <1>3, <1>4 DEF TransactionOK, IsTransaction, OwnRows, IncidentNames
<1>10. LoadedRows(t, opened)
  <2>1. DOMAIN t.loaded = DOMAIN old.loaded \cup Candidates(q, department)
    BY <1>0, <1>4 DEF Load
  <2>2. ASSUME NEW k \in 1..Len(t.children)
        PROVE  t.children[k] \in DOMAIN t.loaded
    <3>1. old.children \in Seq(IncidentNames)
          /\ \A j \in 1..Len(old.children) : old.children[j] \in DOMAIN old.loaded
      BY <1>3 DEF TransactionOK, IsTransaction, LoadedRows
    <3>2. \/ t.children[k] = i
          \/ k \in 1..Len(old.children) /\ t.children[k] = old.children[k]
      BY <1>4, <1>7, <2>2, <3>1
    <3> QED
      BY <1>5, <2>1, <3>1, <3>2
  <2>3. \A j \in DOMAIN t.loaded :
          /\ j \in DOMAIN opened \cup DOMAIN t.rows
          /\ t.loaded[j] \in IncidentStatus
          /\ j \in DOMAIN t.rows => t.loaded[j] = "reported"
          /\ j \in DOMAIN opened \ t.moved => t.loaded[j] = opened[j].status
    BY <1>0, <1>4, <1>6, LoadFacts
  <2>4. t.moved \subseteq DOMAIN t.loaded
    BY <1>3, <1>4, <2>1 DEF TransactionOK, LoadedRows
  <2> QED
    BY <2>2, <2>3, <2>4 DEF LoadedRows
<1>11. NothingTwice(t, opened)
  BY <1>3, <1>4 DEF TransactionOK, NothingTwice, Duplicates
<1>12. TransactionOK(q, t, opened)
  BY <1>8, <1>9, <1>10, <1>11 DEF TransactionOK
<1>13. submitting' = [submitting EXCEPT ![q] = t]
  BY <1>0, <1>1, <1>2
<1> QED
  BY <1>12, <1>13, TransactionMoves

LEMMA LeaveKeepsInv ==
  ASSUME IntakeInv, NEW q \in Submissions, submitting[q].at = "routing",
         LeaveUnrouted(q), UNCHANGED <<opened, filed, era>>
  PROVE  IntakeInv'
<1>0. PICK old : old = submitting[q]
  OBVIOUS
<1>1. PICK t : t = [old EXCEPT !.done = @ + 1]
  OBVIOUS
<1>2. TransactionOK(q, old, opened)
  BY <1>0 DEF IntakeInv
<1>3. /\ t.at = old.at /\ t.payload = old.payload /\ t.done = old.done + 1
      /\ t.rows = old.rows /\ t.loaded = old.loaded
      /\ t.children = old.children /\ t.known = old.known
      /\ t.moved = old.moved
      /\ t = [at |-> t.at, payload |-> t.payload, done |-> t.done,
              started |-> t.started, rows |-> t.rows, loaded |-> t.loaded,
              children |-> t.children, known |-> t.known, moved |-> t.moved]
  BY <1>1, <1>2 DEF TransactionOK, IsTransaction
<1>4. IsTransaction(t)
  BY <1>2, <1>3 DEF TransactionOK, IsTransaction
<1>5. OwnRows(q, t)
  BY <1>2, <1>3 DEF TransactionOK, IsTransaction, OwnRows, IncidentNames
<1>6. LoadedRows(t, opened)
  BY <1>2, <1>3 DEF TransactionOK, LoadedRows
<1>7. NothingTwice(t, opened)
  BY <1>2, <1>3 DEF TransactionOK, NothingTwice, Duplicates
<1>8. TransactionOK(q, t, opened)
  BY <1>4, <1>5, <1>6, <1>7 DEF TransactionOK
<1>9. submitting' = [submitting EXCEPT ![q] = t]
  BY <1>0, <1>1 DEF LeaveUnrouted
<1> QED
  BY <1>8, <1>9, TransactionMoves


LEMMA OpenKeepsInv ==
  ASSUME IntakeInv, NEW q \in Submissions, NEW department \in DepartmentSet,
         submitting[q].at = "routing", OpenIncident(q, department),
         UNCHANGED <<opened, filed, era>>
  PROVE  IntakeInv'
<1>1. PICK old : old = submitting[q]
  OBVIOUS
<1>2. PICK name : name = <<q, old.done + 1>>
  OBVIOUS
<1>3. PICK row : row = [department |-> department, category |-> Defect(q).category,
                        place |-> old.payload.place, status |-> "reported",
                        era |-> old.started, routed |-> era]
  OBVIOUS
<1>4. PICK loaded : loaded = Load(q, Candidates(q, department))
  OBVIOUS
<1>5. PICK t : t = [old EXCEPT
             !.done = @ + 1,
             !.rows = [i \in DOMAIN @ \cup {name} |->
                         IF i = name THEN row ELSE @[i]],
             !.loaded = [i \in DOMAIN loaded \cup {name} |->
                           IF i = name THEN "reported" ELSE loaded[i]],
             !.children = Append(@, name)]
  OBVIOUS
<1>6. submitting' = [submitting EXCEPT ![q] = t] /\ BestMatches(q, department) = {}
  BY <1>1, <1>2, <1>3, <1>4, <1>5 DEF OpenIncident
<1>7. TransactionOK(q, old, opened) /\ old.at = "routing"
  BY <1>1 DEF IntakeInv
<1>8. /\ t.at = old.at /\ t.payload = old.payload /\ t.done = old.done + 1
      /\ t.rows = [i \in DOMAIN old.rows \cup {name} |->
                     IF i = name THEN row ELSE old.rows[i]]
      /\ t.loaded = [i \in DOMAIN loaded \cup {name} |->
                       IF i = name THEN "reported" ELSE loaded[i]]
      /\ t.children = Append(old.children, name) /\ t.known = old.known
      /\ t.moved = old.moved
      /\ t = [at |-> t.at, payload |-> t.payload, done |-> t.done,
              started |-> t.started, rows |-> t.rows, loaded |-> t.loaded,
              children |-> t.children, known |-> t.known, moved |-> t.moved]
  BY <1>5, <1>7 DEF TransactionOK, IsTransaction
<1>9. /\ name \in IncidentNames /\ name[1] = q /\ name[2] = old.done + 1
      /\ old.done \in Nat /\ old.children \in Seq(IncidentNames)
      /\ old.payload \in Payloads
  BY <1>2, <1>7 DEF TransactionOK, IsTransaction, IncidentNames
<1>10. name \notin DOMAIN old.rows
  BY <1>7, <1>9 DEF TransactionOK, OwnRows
<1>11. name \notin DOMAIN opened
  BY <1>1, <1>7, <1>9 DEF IntakeInv, CommittedOK
<1>12. /\ DOMAIN t.rows = DOMAIN old.rows \cup {name} /\ t.rows[name] = row
       /\ \A i \in DOMAIN old.rows : t.rows[i] = old.rows[i]
  BY <1>8, <1>10
<1>13. /\ DOMAIN t.loaded = DOMAIN loaded \cup {name}
       /\ t.loaded[name] = "reported"
       /\ \A i \in DOMAIN loaded : i # name => t.loaded[i] = loaded[i]
  BY <1>8
<1>14. IsIncidentRow(row) /\ row.status = "reported" /\ row.department = department
       /\ row.category = Defect(q).category /\ row.routed = era
  BY <1>3, <1>9, IntakeConstants DEF IsIncidentRow, IncidentStatus
<1>15. IsTransaction(t)
  BY <1>7, <1>8, <1>9 DEF TransactionOK, IsTransaction
<1>16. OwnRows(q, t)
  <2>1. ASSUME NEW n \in DOMAIN old.rows
        PROVE  /\ t.at = "routing"
               /\ n \in IncidentNames /\ n[1] = q /\ n[2] <= t.done
               /\ IsIncidentRow(t.rows[n]) /\ t.rows[n].status = "reported"
    <3>1. /\ n \in IncidentNames /\ n[1] = q /\ n[2] <= old.done
          /\ IsIncidentRow(old.rows[n]) /\ old.rows[n].status = "reported"
      BY <1>7, <2>1 DEF TransactionOK, OwnRows
    <3>2. n[2] <= t.done
      BY <1>8, <1>9, <3>1 DEF IncidentNames
    <3> QED
      BY <1>7, <1>8, <1>12, <3>1, <3>2
  <2>2. name[2] <= t.done
    BY <1>8, <1>9
  <2> QED
    BY <1>7, <1>8, <1>9, <1>12, <1>14, <2>1, <2>2 DEF OwnRows
<1>17. LoadedRows(t, opened)
  <2>1. /\ Candidates(q, department) \subseteq DOMAIN opened \cup DOMAIN old.rows
        /\ DOMAIN loaded = DOMAIN old.loaded \cup Candidates(q, department)
    BY <1>1, <1>4, CandidatesKnown DEF Load
  <2>2. \A j \in DOMAIN loaded :
          /\ j \in DOMAIN opened \cup DOMAIN old.rows
          /\ loaded[j] \in IncidentStatus
          /\ j \in DOMAIN old.rows => loaded[j] = "reported"
          /\ j \in DOMAIN opened \ old.moved => loaded[j] = opened[j].status
    BY <1>1, <1>4, <2>1, LoadFacts
  <2>3. \A j \in DOMAIN t.loaded :
          /\ j \in DOMAIN opened \cup DOMAIN t.rows
          /\ t.loaded[j] \in IncidentStatus
          /\ j \in DOMAIN t.rows => t.loaded[j] = "reported"
          /\ j \in DOMAIN opened \ t.moved => t.loaded[j] = opened[j].status
    BY <1>8, <1>11, <1>12, <1>13, <2>2 DEF IncidentStatus
  <2>4. ASSUME NEW k \in 1..Len(t.children)
        PROVE  t.children[k] \in DOMAIN t.loaded
    <3>1. \A j \in 1..Len(old.children) : old.children[j] \in DOMAIN old.loaded
      BY <1>7 DEF TransactionOK, LoadedRows
    <3>2. \/ t.children[k] = name
          \/ k \in 1..Len(old.children) /\ t.children[k] = old.children[k]
      BY <1>8, <1>9, <2>4
    <3> QED
      BY <1>13, <2>1, <3>1, <3>2
  <2>5. t.moved \subseteq DOMAIN t.loaded
    BY <1>7, <1>8, <1>13, <2>1 DEF TransactionOK, LoadedRows
  <2> QED
    BY <2>3, <2>4, <2>5 DEF LoadedRows
<1>18. NothingTwice(t, opened)
  <2>1. \A i \in t.known : i \in DOMAIN opened /\ IsOpen(opened[i].status)
    BY <1>7, <1>8 DEF TransactionOK, NothingTwice
  <2>2. ASSUME NEW n \in DOMAIN old.rows
        PROVE  /\ \A i \in t.known : ~ Duplicates(t, n, opened[i])
               /\ \A m \in DOMAIN t.rows :
                    m[2] < n[2] => ~ Duplicates(t, n, t.rows[m])
    <3>1. /\ \A i \in old.known : ~ Duplicates(old, n, opened[i])
          /\ \A m \in DOMAIN old.rows :
               m[2] < n[2] => ~ Duplicates(old, n, old.rows[m])
      BY <1>7 DEF TransactionOK, NothingTwice
    <3>2. \A theirs : Duplicates(t, n, theirs) <=> Duplicates(old, n, theirs)
      BY <1>8, <1>12 DEF Duplicates
    <3>3. n[2] <= old.done /\ n[2] \in Nat
      BY <1>7 DEF TransactionOK, OwnRows, IncidentNames
    <3>4. ~ (name[2] < n[2])
      BY <1>9, <3>3
    <3> QED
      BY <1>8, <1>12, <3>1, <3>2, <3>4
  <2>3. ASSUME NEW i \in Candidates(q, department)
        PROVE  ~ Duplicates(t, name, RowOf(q, i))
    <3>1. ~ IsMatch(old.payload, row.category, RowOf(q, i), row.routed)
      BY <1>1, <1>6, <1>14, NoBestNoMatch
    <3> QED
      BY <1>8, <1>12, <3>1 DEF Duplicates
  <2>4. ASSUME NEW i \in t.known PROVE ~ Duplicates(t, name, opened[i])
    <3>1. CASE opened[i].department = department
      <4>1. i \in Candidates(q, department) /\ RowOf(q, i) = opened[i]
        BY <2>1, <3>1 DEF Candidates, RowOf
      <4> QED
        BY <2>3, <4>1
    <3>2. CASE opened[i].department # department
      BY <1>12, <1>14, <3>2 DEF Duplicates
    <3> QED
      BY <3>1, <3>2
  <2>5. ASSUME NEW m \in DOMAIN t.rows, m[2] < name[2]
        PROVE  ~ Duplicates(t, name, t.rows[m])
    <3>1. m # name
      BY <1>9, <2>5
    <3>2. m \in DOMAIN old.rows /\ t.rows[m] = old.rows[m]
      BY <1>12, <3>1
    <3>3. CASE old.rows[m].department = department
      <4>1. m \in Candidates(q, department) /\ RowOf(q, m) = t.rows[m]
        BY <1>1, <3>2, <3>3, RowsApart DEF Candidates
      <4> QED
        BY <2>3, <4>1
    <3>4. CASE old.rows[m].department # department
      BY <1>12, <1>14, <3>2, <3>4 DEF Duplicates
    <3> QED
      BY <3>3, <3>4
  <2> QED
    BY <1>12, <2>1, <2>2, <2>4, <2>5 DEF NothingTwice
<1>19. TransactionOK(q, t, opened)
  BY <1>15, <1>16, <1>17, <1>18 DEF TransactionOK
<1>20. submitting[q].at = "done" => t.at = "done"
  BY <1>1, <1>7
<1> QED
  BY <1>6, <1>19, <1>20, TransactionMoves

LEMMA RouteKeepsInv ==
  ASSUME IntakeInv, NEW q \in Submissions, RouteObservation(q)
  PROVE  IntakeInv'
<1>1. submitting[q].at = "routing" /\ UNCHANGED <<opened, filed, era>>
  BY DEF RouteObservation, MoreDefects
<1>2. \/ LeaveUnrouted(q)
      \/ \E d \in DepartmentOf(submitting[q].payload, Defect(q)) :
           LinkToIncident(q, d) \/ OpenIncident(q, d)
  BY DEF RouteObservation
<1>3. DepartmentOf(submitting[q].payload, Defect(q)) \subseteq DepartmentSet
  <2>1. Departments # <<>> => Departments[1] \in DepartmentSet
    BY IntakeConstants
  <2> QED
    BY <2>1, IntakeConstants DEF DepartmentOf
<1> QED
  BY <1>1, <1>2, <1>3, LeaveKeepsInv, LinkKeepsInv, OpenKeepsInv

------------------------------------------------------------------------------
(***************************************************************************)
(* COMMIT: to the others, more rows are committed, and none of theirs.     *)
(***************************************************************************)
LEMMA OthersSeeCommit ==
  ASSUME NEW q \in Submissions, NEW t, NEW before, NEW after,
         TransactionOK(q, t, before),
         DOMAIN before \subseteq DOMAIN after,
         \A i \in DOMAIN before : after[i] = before[i],
         \A i \in DOMAIN t.rows : i \notin DOMAIN after
  PROVE  TransactionOK(q, t, after)
<1>1. LoadedRows(t, after)
  BY DEF TransactionOK, LoadedRows
<1>2. NothingTwice(t, after)
  BY DEF TransactionOK, NothingTwice
<1> QED
  BY <1>1, <1>2 DEF TransactionOK

LEMMA FiledStays ==
  ASSUME NEW answer, NEW before, NEW after, FiledOK(answer, before),
         DOMAIN before \subseteq DOMAIN after,
         \A i \in answer.children : after[i].status = before[i].status
  PROVE  FiledOK(answer, after)
<1>1. {after[i].status : i \in answer.children}
        = {before[i].status : i \in answer.children}
  OBVIOUS
<1> QED
  BY <1>1 DEF FiledOK


LEMMA CommitKeepsIntake ==
  ASSUME IntakeInv, NEW q \in Submissions, CommitIntake(q)
  PROVE  IntakeInv'
<1>1. PICK t : t = submitting[q]
  OBVIOUS
<1>2. TransactionOK(q, t, opened) /\ t.at = "routing"
  BY <1>1 DEF IntakeInv, CommitIntake
<1>3. /\ opened' = [i \in DOMAIN opened \cup DOMAIN t.rows |-> RowOf(q, i)]
      /\ submitting' = [submitting EXCEPT ![q] = EndedSubmission]
      /\ era' = era
  BY <1>1 DEF CommitIntake
<1>4. /\ DOMAIN opened' = DOMAIN opened \cup DOMAIN t.rows
      /\ \A i \in DOMAIN opened : opened'[i] = opened[i]
      /\ \A i \in DOMAIN t.rows : opened'[i] = t.rows[i]
  BY <1>1, <1>3, RowsApart DEF RowOf
<1>5. submitting' = [r \in Submissions |-> submitting'[r]]
      /\ submitting'[q] = EndedSubmission
      /\ \A r \in Submissions \ {q} : submitting'[r] = submitting[r]
  BY <1>3 DEF IntakeInv
<1>6. EndedSubmission.at = "done"
  BY DEF EndedSubmission, NoSubmission
<1>7. CommittedOK'
  <2>1. ASSUME NEW i \in DOMAIN opened'
        PROVE  /\ i \in IncidentNames /\ submitting'[i[1]].at = "done"
               /\ IsIncidentRow(opened'[i])
    <3>1. CASE i \in DOMAIN opened
      <4>1. /\ i \in IncidentNames /\ submitting[i[1]].at = "done"
            /\ IsIncidentRow(opened[i])
        BY <3>1 DEF IntakeInv, CommittedOK
      <4>2. i[1] \in Submissions
        BY <4>1 DEF IncidentNames
      <4> QED
        BY <1>4, <1>5, <1>6, <3>1, <4>1, <4>2
    <3>2. CASE i \in DOMAIN t.rows
      <4>1. i \in IncidentNames /\ i[1] = q /\ IsIncidentRow(t.rows[i])
        BY <1>2, <3>2 DEF TransactionOK, OwnRows
      <4> QED
        BY <1>4, <1>5, <1>6, <3>2, <4>1
    <3> QED
      BY <1>4, <3>1, <3>2
  <2> QED
    BY <2>1 DEF CommittedOK
<1>8. ASSUME NEW r \in Submissions
      PROVE  TransactionOK(r, submitting'[r], opened')
  <2>1. CASE r = q
    BY <1>5, <2>1, EmptyIsOK
  <2>2. CASE r # q
    <3>1. PICK theirs : theirs = submitting[r]
      OBVIOUS
    <3>2. TransactionOK(r, theirs, opened) /\ submitting'[r] = theirs
      BY <1>5, <2>2, <3>1 DEF IntakeInv
    <3>3. ASSUME NEW i \in DOMAIN theirs.rows PROVE i \notin DOMAIN opened'
      <4>1. i[1] = r /\ i \notin DOMAIN opened
        BY <3>1, <3>2, <3>3, RowsApart DEF TransactionOK, OwnRows
      <4>2. i \notin DOMAIN t.rows
        BY <1>2, <2>2, <4>1 DEF TransactionOK, OwnRows
      <4> QED
        BY <1>4, <4>1, <4>2
    <3>4. PICK after : after = opened'
      OBVIOUS
    <3>5. TransactionOK(r, theirs, after)
      BY <1>4, <3>2, <3>3, <3>4, OthersSeeCommit
    <3> QED
      BY <3>2, <3>4, <3>5
  <2> QED
    BY <2>1, <2>2
<1>9. PICK answer :
        answer = [status |-> FiledStatus(q), children |-> ChildSet(q),
                  overtaken |-> t.moved \cap ChildSet(q) # {}]
  OBVIOUS
<1>10. filed' = [filed EXCEPT ![q] = answer]
  BY <1>1, <1>9 DEF CommitIntake
<1>11. FiledOK(answer, opened')
  <2>1. ASSUME NEW i \in ChildSet(q)
        PROVE  /\ i \in DOMAIN opened' /\ opened'[i].status \in IncidentStatus
               /\ t.loaded[i] \in IncidentStatus
               /\ i \notin t.moved => opened'[i].status = t.loaded[i]
    <3>1. i \in DOMAIN t.loaded
      BY <1>1, <1>2 DEF ChildSet, TransactionOK, LoadedRows
    <3>2. /\ i \in DOMAIN opened'
          /\ t.loaded[i] \in IncidentStatus
          /\ i \in DOMAIN t.rows => t.loaded[i] = "reported"
          /\ i \in DOMAIN opened \ t.moved => t.loaded[i] = opened[i].status
      BY <1>2, <1>4, <3>1 DEF TransactionOK, LoadedRows
    <3>3. opened'[i].status \in IncidentStatus
      BY <1>7, <3>2 DEF CommittedOK, IsIncidentRow
    <3>4. i \in DOMAIN t.rows => opened'[i].status = "reported"
      BY <1>2, <1>4 DEF TransactionOK, OwnRows
    <3> QED
      BY <1>4, <3>2, <3>3, <3>4
  <2>2. \A i \in ChildSet(q) :
          /\ i \in DOMAIN opened' /\ opened'[i].status \in IncidentStatus
          /\ t.loaded[i] \in IncidentStatus
          /\ i \notin t.moved => opened'[i].status = t.loaded[i]
    BY <2>1
  <2>3. FiledStatus(q) \in IntakeStatus
    <3>1. {t.loaded[i] : i \in ChildSet(q)} \in SUBSET IncidentStatus
      BY <2>2
    <3> QED
      BY <1>1, <3>1, AggregateType DEF FiledStatus
  <2>4. ASSUME t.moved \cap ChildSet(q) = {}
        PROVE  {t.loaded[i] : i \in ChildSet(q)}
                 = {opened'[i].status : i \in ChildSet(q)}
    BY <2>2, <2>4
  <2>5. ~ answer.overtaken =>
          answer.status =
            CalculateIntakeStatus({opened'[i].status : i \in answer.children})
    BY <1>1, <1>9, <2>4 DEF FiledStatus
  <2>6. answer \in [status : IntakeStatus \cup {"none"},
                    children : SUBSET DOMAIN opened', overtaken : BOOLEAN]
    BY <1>9, <2>2, <2>3
  <2> QED
    BY <2>5, <2>6 DEF FiledOK
<1>12. ASSUME NEW r \in Submissions PROVE FiledOK(filed'[r], opened')
  <2>1. CASE r = q
    BY <1>10, <1>11, <2>1 DEF IntakeInv
  <2>2. CASE r # q
    <3>1. filed'[r] = filed[r] /\ FiledOK(filed[r], opened)
      BY <1>10, <2>2 DEF IntakeInv
    <3>2. PICK after : after = opened'
      OBVIOUS
    <3>3. \A i \in filed[r].children : after[i].status = opened[i].status
      BY <1>4, <3>1, <3>2 DEF FiledOK
    <3>4. FiledOK(filed[r], after)
      BY <1>4, <3>1, <3>2, <3>3, FiledStays
    <3> QED
      BY <3>1, <3>2, <3>4
  <2> QED
    BY <2>1, <2>2
<1>13. filed' = [r \in Submissions |-> filed'[r]]
  BY <1>10 DEF IntakeInv
<1>14. era' \in 0..MaxEra
  BY <1>3 DEF IntakeInv
<1> QED
  BY <1>5, <1>7, <1>8, <1>12, <1>13, <1>14 DEF IntakeInv

------------------------------------------------------------------------------
(***************************************************************************)
(* Another handler moves an incident: those that loaded it are overtaken,  *)
(* and the reports filed with it are computed anew.                        *)
(***************************************************************************)
LEMMA MoveKeepsIntake ==
  ASSUME IntakeInv, NEW i \in DOMAIN opened, NEW status \in MoveTargets,
         MoveIncident(i, status)
  PROVE  IntakeInv'
<1>1. PICK after : after = [opened EXCEPT ![i].status = status]
  OBVIOUS
<1>2. IsIncidentRow(opened[i]) /\ status \in IncidentStatus
  BY IntakeConstants DEF IntakeInv, CommittedOK
<1>3. /\ opened' = after /\ DOMAIN after = DOMAIN opened
      /\ \A j \in DOMAIN opened \ {i} : after[j] = opened[j]
      /\ after[i] = [opened[i] EXCEPT !.status = status]
  BY <1>1 DEF MoveIncident
<1>4. /\ IsIncidentRow(after[i]) /\ after[i].status = status
      /\ after[i].department = opened[i].department
      /\ after[i].category = opened[i].category
      /\ after[i].place = opened[i].place
      /\ after[i].era = opened[i].era
  BY <1>2, <1>3 DEF IsIncidentRow
<1>5. ASSUME NEW q \in Submissions
      PROVE  TransactionOK(q, submitting'[q], after)
             /\ submitting'[q].at = submitting[q].at
  <2>1. PICK t : t = submitting[q]
    OBVIOUS
  <2>2. TransactionOK(q, t, opened)
    BY <2>1 DEF IntakeInv
  <2>3. PICK u : u = submitting'[q]
    OBVIOUS
  <2>4. u = [t EXCEPT !.known = IF IsOpen(status) THEN @ ELSE @ \ {i},
                      !.moved = @ \cup ({i} \cap DOMAIN t.loaded)]
    BY <2>1, <2>3 DEF MoveIncident
  <2>5. /\ u.at = t.at /\ u.payload = t.payload /\ u.done = t.done
        /\ u.rows = t.rows /\ u.loaded = t.loaded /\ u.children = t.children
        /\ u.known = (IF IsOpen(status) THEN t.known ELSE t.known \ {i})
        /\ u.moved = t.moved \cup ({i} \cap DOMAIN t.loaded)
        /\ u = [at |-> u.at, payload |-> u.payload, done |-> u.done,
                started |-> u.started, rows |-> u.rows, loaded |-> u.loaded,
                children |-> u.children, known |-> u.known, moved |-> u.moved]
    BY <2>2, <2>4 DEF TransactionOK, IsTransaction
  <2>6. IsTransaction(u)
    BY <2>2, <2>5 DEF TransactionOK, IsTransaction
  <2>7. OwnRows(q, u)
    BY <2>2, <2>5 DEF TransactionOK, OwnRows
  <2>8. LoadedRows(u, after)
    BY <1>3, <2>2, <2>5 DEF TransactionOK, LoadedRows
  <2>9. NothingTwice(u, after)
    <3>1. \A j \in u.known : j \in DOMAIN after /\ IsOpen(after[j].status)
      BY <1>3, <1>4, <2>2, <2>5 DEF TransactionOK, NothingTwice
    <3>2. \A n, row : Duplicates(u, n, row) <=> Duplicates(t, n, row)
      BY <2>5 DEF Duplicates
    <3>3. \A n : Duplicates(u, n, after[i]) <=> Duplicates(u, n, opened[i])
      BY <1>4 DEF Duplicates, IsMatch, MatchWeight
    <3>4. u.known \subseteq t.known
      BY <2>5
    <3>5. /\ \A j \in t.known : j \in DOMAIN opened
          /\ \A n \in DOMAIN t.rows :
               /\ \A j \in t.known : ~ Duplicates(t, n, opened[j])
               /\ \A m \in DOMAIN t.rows :
                    m[2] < n[2] => ~ Duplicates(t, n, t.rows[m])
      BY <2>2 DEF TransactionOK, NothingTwice
    <3>6. ASSUME NEW n \in DOMAIN u.rows, NEW j \in u.known
          PROVE  ~ Duplicates(u, n, after[j])
      BY <1>3, <2>5, <3>2, <3>3, <3>4, <3>5
    <3>7. ASSUME NEW n \in DOMAIN u.rows, NEW m \in DOMAIN u.rows,
                 m[2] < n[2]
          PROVE  ~ Duplicates(u, n, u.rows[m])
      BY <2>5, <3>2, <3>5, <3>7
    <3> QED
      BY <3>1, <3>6, <3>7 DEF NothingTwice
  <2>10. TransactionOK(q, u, after)
    BY <2>6, <2>7, <2>8, <2>9 DEF TransactionOK
  <2> QED
    BY <2>1, <2>3, <2>5, <2>10
<1>6. CommittedOK'
  BY <1>3, <1>4, <1>5 DEF IntakeInv, CommittedOK, IncidentNames
<1>7. ASSUME NEW q \in Submissions PROVE FiledOK(filed'[q], after)
  <2>1. FiledOK(filed[q], opened)
    BY DEF IntakeInv
  <2>2. CASE i \notin filed[q].children
    <3>1. filed'[q] = filed[q]
      BY <2>2 DEF MoveIncident
    <3>2. \A j \in filed[q].children : after[j].status = opened[j].status
      BY <1>3, <2>1, <2>2 DEF FiledOK
    <3> QED
      BY <1>3, <2>1, <3>1, <3>2, FiledStays
  <2>3. CASE i \in filed[q].children
    <3>1. PICK children : children = filed[q].children
      OBVIOUS
    <3>2. filed'[q] = [filed[q] EXCEPT
            !.status = CalculateIntakeStatus({after[j].status : j \in children}),
            !.overtaken = FALSE]
      BY <1>1, <2>3, <3>1 DEF MoveIncident
    <3>3. children \subseteq DOMAIN after
      BY <1>3, <2>1, <3>1 DEF FiledOK
    <3>4. {after[j].status : j \in children} \in SUBSET IncidentStatus
      BY <1>3, <1>6, <3>3 DEF CommittedOK, IsIncidentRow
    <3>5. CalculateIntakeStatus({after[j].status : j \in children})
            \in IntakeStatus
      BY <3>4, AggregateType
    <3>6. /\ filed'[q].children = children
          /\ filed'[q].status =
               CalculateIntakeStatus({after[j].status : j \in children})
          /\ filed'[q].overtaken = FALSE
          /\ filed'[q] = [status |-> filed'[q].status, children |-> children,
                          overtaken |-> FALSE]
      BY <2>1, <3>1, <3>2 DEF FiledOK
    <3> QED
      BY <3>3, <3>5, <3>6 DEF FiledOK
  <2> QED
    BY <2>2, <2>3
<1>8. /\ submitting' = [q \in Submissions |-> submitting'[q]]
      /\ filed' = [q \in Submissions |-> filed'[q]]
      /\ era' \in 0..MaxEra
  BY DEF IntakeInv, MoveIncident
<1> QED
  BY <1>3, <1>5, <1>6, <1>7, <1>8 DEF IntakeInv

LEMMA EraKeepsInv ==
  ASSUME IntakeInv, NextEra
  PROVE  IntakeInv'
<1>1. era' \in 0..MaxEra /\ UNCHANGED <<opened, filed, submitting>>
  BY IntakeConstants DEF IntakeInv, NextEra
<1> QED
  BY <1>1 DEF IntakeInv, CommittedOK

(***************************************************************************)
(* The invariant of intake, for every number of submissions, every payload *)
(* and every way in which they overlap with each other and with the        *)
(* handlers that move incidents.                                           *)
(***************************************************************************)
THEOREM IntakeInvariance == IntakeSpec => []IntakeInv
<1>1. IntakeInv /\ [IntakeNext]_intakeVars => IntakeInv'
  <2>1. IntakeInv /\ UNCHANGED intakeVars => IntakeInv'
    BY DEF IntakeInv, CommittedOK, intakeVars
  <2>2. IntakeInv /\ IntakeNext => IntakeInv'
    BY BeginKeepsInv, RouteKeepsInv, CommitKeepsIntake, AbortKeepsInv,
       MoveKeepsIntake, EraKeepsInv DEF IntakeNext
  <2> QED
    BY <2>1, <2>2
<1> QED
  BY <1>1, IntakeInvInit, PTL DEF IntakeSpec

(* The rows of intake have their types. *)
THEOREM IntakeTypes == IntakeSpec => []IntakeTypeOK
<1>1. IntakeInv => IntakeTypeOK
  BY DEF IntakeInv, IntakeTypeOK, CommittedOK, TransactionOK, IsTransaction,
         LoadedRows, NothingTwice, FiledOK, IsIncidentRow
<1> QED
  BY <1>1, IntakeInvariance, PTL

(***************************************************************************)
(* A report keeps the aggregate of its incidents unless one of them moved  *)
(* between being read and COMMIT.                                          *)
(***************************************************************************)
THEOREM FiledReportsAggregate == IntakeSpec => []FiledAggregated
<1>1. IntakeInv => FiledAggregated
  BY DEF IntakeInv, FiledOK, FiledAggregated
<1> QED
  BY <1>1, IntakeInvariance, PTL

(***************************************************************************)
(* What a submission opens matches nothing that was open all along, and    *)
(* nothing that it opened before.                                          *)
(***************************************************************************)
THEOREM DuplicatesNeedOverlap == IntakeSpec => []NoLoneDuplicate
<1>1. IntakeInv => NoLoneDuplicate
  BY DEF IntakeInv, TransactionOK, NothingTwice, Duplicates, NoLoneDuplicate
<1> QED
  BY <1>1, IntakeInvariance, PTL

(***************************************************************************)
(* An observation that joins an incident: one of the best matches.         *)
(***************************************************************************)
LEMMA JoinedMatches ==
  ASSUME IntakeInv, IntakeNext, NEW q \in Submissions,
         Len(submitting'[q].children) > Len(submitting[q].children)
  PROVE  /\ submitting[q].at = "routing"
         /\ LET i == submitting'[q].children[Len(submitting'[q].children)]
            IN  \/ i = <<q, submitting[q].done + 1>>
                \/ \E department : i \in BestMatches(q, department)
<1>0. PICK old : old = submitting[q]
  OBVIOUS
<1>1. /\ submitting = [r \in Submissions |-> submitting[r]]
      /\ old = [at |-> old.at, payload |-> old.payload, done |-> old.done,
                started |-> old.started, rows |-> old.rows,
                loaded |-> old.loaded, children |-> old.children,
                known |-> old.known, moved |-> old.moved]
      /\ old.children \in Seq(IncidentNames) /\ Len(old.children) \in Nat
  BY <1>0 DEF IntakeInv, TransactionOK, IsTransaction
<1>2. submitting'[q].children # old.children
      /\ Len(submitting'[q].children) > Len(old.children)
  BY <1>0, <1>1
<1>3. submitting'[q].children # <<>>
  BY <1>1, <1>2
<1>4. \A p : ~ BeginSubmission(q, p)
  BY <1>1, <1>3 DEF BeginSubmission, NoSubmission
<1>5. \A r \in Submissions \ {q} :
        /\ \A p : ~ BeginSubmission(r, p)
        /\ ~ RouteObservation(r) /\ ~ CommitIntake(r) /\ ~ AbortIntake(r)
  BY <1>0, <1>1, <1>2 DEF BeginSubmission, RouteObservation, LinkToIncident,
       OpenIncident, LeaveUnrouted, CommitIntake, AbortIntake
<1>6. ~ CommitIntake(q) /\ ~ AbortIntake(q)
  BY <1>1, <1>3 DEF CommitIntake, AbortIntake, EndedSubmission, NoSubmission
<1>7. ASSUME NEW i, NEW status, MoveIncident(i, status) PROVE FALSE
  <2>1. submitting'[q] =
          [old EXCEPT !.known = IF IsOpen(status) THEN @ ELSE @ \ {i},
                      !.moved = @ \cup ({i} \cap DOMAIN old.loaded)]
    BY <1>0, <1>7 DEF MoveIncident
  <2> QED
    BY <1>1, <1>2, <2>1
<1>8. ~ NextEra
  BY <1>0, <1>2 DEF NextEra
<1>9. RouteObservation(q)
  BY <1>4, <1>5, <1>6, <1>7, <1>8 DEF IntakeNext
<1>10. ~ LeaveUnrouted(q)
  BY <1>0, <1>1, <1>2 DEF LeaveUnrouted
<1>11. PICK department :
         LinkToIncident(q, department) \/ OpenIncident(q, department)
  BY <1>9, <1>10 DEF RouteObservation
<1>12. ASSUME NEW i, submitting'[q].children = Append(old.children, i)
       PROVE  submitting'[q].children[Len(submitting'[q].children)] = i
  BY <1>1, <1>12
<1>13. CASE LinkToIncident(q, department)
  <2>1. PICK i \in BestMatches(q, department) :
          submitting'[q] = [old EXCEPT
                              !.done = @ + 1,
                              !.loaded = Load(q, Candidates(q, department)),
                              !.children = Append(@, i)]
    BY <1>0, <1>1, <1>13 DEF LinkToIncident
  <2>2. submitting'[q].children = Append(old.children, i)
    BY <1>1, <2>1
  <2>3. submitting'[q].children[Len(submitting'[q].children)] = i
    BY <1>12, <2>2
  <2> QED
    BY <1>9, <2>3 DEF RouteObservation, MoreDefects
<1>14. CASE OpenIncident(q, department)
  <2>1. PICK name : name = <<q, old.done + 1>>
    OBVIOUS
  <2>2. submitting'[q].children = Append(old.children, name)
    BY <1>0, <1>1, <1>14, <2>1 DEF OpenIncident
  <2>3. submitting'[q].children[Len(submitting'[q].children)] = name
    BY <1>12, <2>2
  <2> QED
    BY <1>0, <1>9, <2>1, <2>3 DEF RouteObservation, MoreDefects
<1> QED
  BY <1>11, <1>13, <1>14

(* More than 50 metres cost so much that the rest has to agree. *)
LEMMA FarNeedsAll ==
  ASSUME NEW p, NEW category, NEW row, NEW now,
         p.place \in Nat, row.place \in Nat, Far(p.place, row.place),
         IsMatch(p, category, row, now)
  PROVE  row.category = category /\ row.category = p.resembles /\ row.era = now
<1>1. SpatialWeight(p.place, row.place) = -423
  BY DEF SpatialWeight, Far
<1>2. MatchWeight(p, category, row, now) >= 0
  BY WeightBound DEF IsMatch, Decision
<1> QED
  BY <1>1, <1>2 DEF MatchWeight

(***************************************************************************)
(* An incident more than 50 metres away is joined only when category, time *)
(* and description all agree, in whatever step of whatever behaviour.      *)
(***************************************************************************)
THEOREM FarMergesAgree == IntakeSpec => FarMergeNeedsEverything
<1>1. ASSUME IntakeInv, IntakeNext, NEW q \in Submissions,
             Len(submitting'[q].children) > Len(submitting[q].children)
      PROVE  LET i == submitting'[q].children[Len(submitting'[q].children)]
                 row == RowOf(q, i)
                 p == submitting[q].payload
             IN  i # <<q, submitting[q].done + 1>> /\ Far(p.place, row.place) =>
                   /\ row.category = Defect(q).category
                   /\ row.category = p.resembles
                   /\ row.era = era
  <2>1. PICK i : i = submitting'[q].children[Len(submitting'[q].children)]
    OBVIOUS
  <2>2. PICK p : p = submitting[q].payload
    OBVIOUS
  <2>3. ASSUME i # <<q, submitting[q].done + 1>>,
               Far(p.place, RowOf(q, i).place)
        PROVE  /\ RowOf(q, i).category = Defect(q).category
               /\ RowOf(q, i).category = p.resembles
               /\ RowOf(q, i).era = era
    <3>1. PICK department : i \in BestMatches(q, department)
      BY <1>1, <2>1, <2>3, JoinedMatches
    <3>2. /\ i \in Candidates(q, department)
          /\ IsMatch(p, Defect(q).category, RowOf(q, i), era)
      BY <2>2, <3>1 DEF BestMatches
    <3>3. i \in DOMAIN opened \cup DOMAIN submitting[q].rows
      BY <3>2, CandidatesKnown
    <3>4. RowOf(q, i).place \in Nat
      BY <1>1, <3>3, RowIsSound DEF IsIncidentRow
    <3>5. submitting[q].at = "routing"
      BY <1>1, JoinedMatches
    <3>6. p \in Payloads
      BY <1>1, <2>2, <3>5 DEF IntakeInv, TransactionOK, IsTransaction
    <3>7. p.place \in Nat
      BY <3>6, IntakeConstants
    <3> QED
      BY <2>3, <3>2, <3>4, <3>7, FarNeedsAll
  <2> QED
    BY <2>1, <2>2, <2>3
<1>2. IntakeInv /\ [IntakeNext]_intakeVars =>
      [ \A q \in Submissions :
          LET k == submitting[q].done + 1
              p == submitting[q].payload
          IN  Len(submitting'[q].children) > Len(submitting[q].children) =>
                LET i == submitting'[q].children[Len(submitting'[q].children)]
                    row == RowOf(q, i)
                IN  i # <<q, k>> /\ Far(p.place, row.place) =>
                      /\ row.category = Defect(q).category
                      /\ row.category = p.resembles
                      /\ row.era = era ]_intakeVars
  BY <1>1
<1> QED
  BY <1>2, IntakeInvariance, PTL DEF IntakeSpec, FarMergeNeedsEverything
------------------------------------------------------------------------------
(* Side by side, each of the four behaves as it does alone. *)
LEMMA EachKeepsRecords ==
  RecordsSpec => Spec /\ CausalSpec /\ LedgerSpec /\ IntakeSpec
<1>1. RecordsInit => Init /\ CausalInit /\ LedgerInit /\ IntakeInit
  BY DEF RecordsInit
<1>2. [RecordsNext]_allRecords =>
        /\ [Next]_vars
        /\ [CausalNext]_causalVars
        /\ [LedgerNext]_ledgerVars
        /\ [IntakeNext]_intakeVars
  BY DEF RecordsNext, MoveReports, MoveLinks, MoveLedger, MoveIntake, allRecords
<1> QED
  BY <1>1, <1>2, PTL DEF RecordsSpec, Spec, CausalSpec, LedgerSpec, IntakeSpec

(***************************************************************************)
(* The rows of the four stay what the tables hold: no score beyond 100, no *)
(* incident of a department that the organisation lacks.                   *)
(***************************************************************************)
THEOREM RecordsTypes == RecordsSpec => []RecordsTypeOK
<1>1. TypeOK /\ CausalTypeOK /\ LedgerTypeOK /\ IntakeTypeOK => RecordsTypeOK
  BY DEF RecordsTypeOK
<1> QED
  BY <1>1, EachKeepsRecords, ReportTypes, CausalTypes, LedgerTypes, IntakeTypes,
     PTL
==============================================================================
