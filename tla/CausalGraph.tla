----------------------------- MODULE CausalGraph -----------------------------
(***************************************************************************)
(* Causal links between incidents: POST /causal/links as the SQL           *)
(* statements of interleaving transactions, against the unique pair and    *)
(* the cycle trigger of migration 0008, under READ COMMITTED.              *)
(*                                                                         *)
(* Each request first loads the two incidents, then the committed links,   *)
(* and checks them itself; the SELECT of the children's scores flushes the *)
(* new link (whose trigger checks again) and then the root's row; COMMIT   *)
(* flushes the root's row again with its new score.  The locks that a      *)
(* foreign key takes on an incident do not conflict with the UPDATE of its *)
(* other columns, so nothing keeps two links of one pair of incidents, in  *)
(* opposite directions, apart.                                             *)
(***************************************************************************)
EXTENDS Integers, FiniteSets, FiniteSetsExt

CONSTANTS
  Nodes,          \* incidents of one organisation
  BasePriority,   \* BasePriority[n]: incident.priority_score before any link
  LinkRequests,   \* bound: requests, each used once
  NoLink

(***************************************************************************)
(* The trigger follows at most 50 links; so it follows all of them.        *)
(***************************************************************************)
ASSUME CausalConstants ==
  /\ IsFiniteSet(Nodes) /\ Cardinality(Nodes) <= 50
  /\ BasePriority \in [Nodes -> 0..100]
  /\ NoLink \notin Nodes \X Nodes

Pairs == Nodes \X Nodes

VARIABLES
  links,      \* committed rows of incident_causal_link: <<root, symptom>>
  incident,   \* the committed columns of incident that a link changes
  linking     \* the transaction of each request

causalVars == <<links, incident, linking>>

IncidentRow ==
  [cause : BOOLEAN, symptoms : Nat, boost : 0..100, score : 0..100]

(***************************************************************************)
(* loaded: the root's row in the session.  edges: the links the handler    *)
(* read.  checked: the links the trigger saw.  row: the root's row as the  *)
(* session will write it.  locked: the root's row is updated, uncommitted. *)
(***************************************************************************)
Stages == {"new", "loaded", "allowed", "inserted", "flushed", "scored", "done"}

LinkRequest ==
  [at : Stages, pair : Pairs \cup {NoLink}, loaded : IncidentRow,
   edges : SUBSET Pairs, checked : SUBSET Pairs, row : IncidentRow,
   locked : BOOLEAN]

CausalTypeOK ==
  /\ links \subseteq Pairs
  /\ incident \in [Nodes -> IncidentRow]
  /\ linking \in [LinkRequests -> LinkRequest]

Unlinked(n) ==
  [cause |-> FALSE, symptoms |-> 0, boost |-> 0, score |-> BasePriority[n]]

NewRequest ==
  [at |-> "new", pair |-> NoLink,
   loaded |-> [cause |-> FALSE, symptoms |-> 0, boost |-> 0, score |-> 0],
   edges |-> {}, checked |-> {},
   row |-> [cause |-> FALSE, symptoms |-> 0, boost |-> 0, score |-> 0],
   locked |-> FALSE]

(* Refused, committed or rolled back. *)
FinishedRequest == [NewRequest EXCEPT !.at = "done"]

CausalInit ==
  /\ links = {}
  /\ incident = [n \in Nodes |-> Unlinked(n)]
  /\ linking = [t \in LinkRequests |-> NewRequest]

------------------------------------------------------------------------------
(***************************************************************************)
(* The graph.  What is downstream of n is in every set that holds n's      *)
(* symptoms and, with an incident, its symptoms; n itself is there only if *)
(* it lies on a cycle.                                                     *)
(***************************************************************************)
ClosedUnder(E, S) == \A e \in E : e[1] \in S => e[2] \in S

Downstream(E, n) ==
  {x \in Nodes : \A S \in SUBSET Nodes :
     ClosedUnder(E, S) /\ (\A e \in E : e[1] = n => e[2] \in S) => x \in S}

Acyclic(E) == \A n \in Nodes : n \notin Downstream(E, n)

ClosesCycle(E, root, symptom) ==
  root = symptom \/ root \in Downstream(E, symptom)

(***************************************************************************)
(* The score a root gets for its symptoms' scores, rounded down to whole   *)
(* points: min(100, P * (1 + sum of 0.15 * P_j / 100)).                    *)
(***************************************************************************)
(* Mutant of BoostedScore: not capped. *)
BoostedUncapped(base, symptoms, score) ==
  base + (base * 15 * MapThenSumSet(LAMBDA s : score[s], symptoms)) \div 10000

BoostedScore(base, symptoms, score) ==
  LET total == MapThenSumSet(LAMBDA s : score[s], symptoms)
      scaled == base + (base * 15 * total) \div 10000
  IN  IF scaled < 100 THEN scaled ELSE 100

------------------------------------------------------------------------------
Root(t) == linking[t].pair[1]

LoadIncidents(t, pair) ==
  /\ linking[t].at = "new"
  /\ linking' = [linking EXCEPT
       ![t] = [@ EXCEPT !.at = "loaded", !.pair = pair,
                        !.loaded = incident[pair[1]], !.row = incident[pair[1]]]]
  /\ UNCHANGED <<links, incident>>

(* Mutant of CommittedLinks: other sessions' uncommitted links count. *)
DirtyLinks ==
  links \cup {linking[t].pair : t \in {u \in LinkRequests :
                  linking[u].at \in {"inserted", "flushed", "scored"}}}

CommittedLinks == links

CheckAcyclic(t) ==
  /\ linking[t].at = "loaded"
  /\ LET refused == ClosesCycle(CommittedLinks, Root(t), linking[t].pair[2])
     IN  linking' = [linking EXCEPT
           ![t] = IF refused THEN FinishedRequest
                  ELSE [@ EXCEPT !.at = "allowed", !.edges = CommittedLinks]]
  /\ UNCHANGED <<links, incident>>

(* Mutant of TriggerRefuses: only the link itself, turned round. *)
TriggerSeesReverseLink(root, symptom) ==
  root = symptom \/ <<symptom, root>> \in links

TriggerRefuses(root, symptom) == ClosesCycle(links, root, symptom)

(***************************************************************************)
(* INSERT: an uncommitted row with the same pair makes it wait.  The       *)
(* trigger's answer and the wait are one step: the row is not seen by      *)
(* anyone before COMMIT, whenever it was inserted.                         *)
(***************************************************************************)
InsertLink(t) ==
  LET mine == linking[t]
      refused == TriggerRefuses(mine.pair[1], mine.pair[2])
                   \/ mine.pair \in links
  IN  /\ mine.at = "allowed"
      /\ \A u \in LinkRequests :
           linking[u].at \in {"inserted", "flushed", "scored"} =>
             linking[u].pair # mine.pair
      /\ linking' = [linking EXCEPT
           ![t] = IF refused THEN FinishedRequest
                  ELSE [@ EXCEPT !.at = "inserted", !.checked = links]]
      /\ UNCHANGED <<links, incident>>

RowIsFree(t) ==
  \A u \in LinkRequests \ {t} : linking[u].locked => Root(u) # Root(t)

(***************************************************************************)
(* UPDATE of the root: its flag and its count, from the links read before. *)
(* No statement is sent when neither differs from what was loaded.         *)
(***************************************************************************)
FlushRoot(t) ==
  LET mine == linking[t]
      down == Downstream(mine.edges \cup {mine.pair}, Root(t))
      row == [mine.row EXCEPT !.cause = TRUE, !.symptoms = Cardinality(down)]
  IN  /\ mine.at = "inserted"
      /\ row # mine.loaded => RowIsFree(t)
      /\ linking' = [linking EXCEPT
           ![t] = [@ EXCEPT !.at = "flushed", !.row = row,
                            !.locked = row # mine.loaded]]
      /\ UNCHANGED <<links, incident>>

(***************************************************************************)
(* SELECT of the scores of what the handler found downstream; the new      *)
(* score is computed from the root's score as it was loaded.               *)
(***************************************************************************)
ScoreRoot(t) ==
  LET mine == linking[t]
      down == Downstream(mine.edges \cup {mine.pair}, Root(t))
      score == BoostedScore(mine.loaded.score, down,
                            [n \in Nodes |-> incident[n].score])
  IN  /\ mine.at = "flushed"
      /\ linking' = [linking EXCEPT
           ![t] = [@ EXCEPT !.at = "scored",
                     !.row = [mine.row EXCEPT !.score = score,
                                !.boost = score - mine.loaded.score]]]
      /\ UNCHANGED <<links, incident>>

(***************************************************************************)
(* The last UPDATE and COMMIT.  Only columns that differ from what was     *)
(* loaded are written.                                                     *)
(***************************************************************************)
Written(row, loaded, current) ==
  [c \in DOMAIN current |-> IF row[c] # loaded[c] THEN row[c] ELSE current[c]]

CommitLink(t) ==
  LET mine == linking[t]
  IN  /\ mine.at = "scored"
      /\ mine.row # mine.loaded => RowIsFree(t)
      /\ links' = links \cup {mine.pair}
      /\ incident' = [incident EXCEPT
                        ![Root(t)] = Written(mine.row, mine.loaded, @)]
      /\ linking' = [linking EXCEPT ![t] = FinishedRequest]

(* A lost connection, a crash: nothing of the transaction stays. *)
AbortLink(t) ==
  /\ linking[t].at \notin {"new", "done"}
  /\ linking' = [linking EXCEPT ![t] = FinishedRequest]
  /\ UNCHANGED <<links, incident>>

CausalNext ==
  \E t \in LinkRequests :
    \/ \E pair \in Pairs : LoadIncidents(t, pair)
    \/ CheckAcyclic(t)
    \/ InsertLink(t)
    \/ FlushRoot(t)
    \/ ScoreRoot(t)
    \/ CommitLink(t)
    \/ AbortLink(t)

CausalSpec == CausalInit /\ [][CausalNext]_causalVars

------------------------------------------------------------------------------
(***************************************************************************)
(* GET /causal/incidents/{id}/downstream.                                  *)
(***************************************************************************)
GetDownstream(n) ==
  LET down == Downstream(links, n)
  IN  [symptoms |-> down, count |-> Cardinality(down),
       base |-> incident[n].score - incident[n].boost]

(***************************************************************************)
(* The blast radius stored with an incident never claims more symptoms     *)
(* than the graph has, whatever raced or rolled back; and a stored one is  *)
(* that of a root cause.  (It may claim fewer: a link further down does    *)
(* not update the roots above it.)                                         *)
(***************************************************************************)
CountNeverOverstates ==
  \A n \in Nodes :
    /\ incident[n].symptoms <= GetDownstream(n).count
    /\ incident[n].cause <=> \E e \in links : e[1] = n

(***************************************************************************)
(* The trigger closes every gap but one: a link that commits over the very *)
(* links its trigger saw never closes a cycle, even though the links its   *)
(* handler read were older.                                                *)
(***************************************************************************)
CheckedLinkKeepsAcyclic ==
  [][ \A t \in LinkRequests :
        CommitLink(t) /\ linking[t].checked = links /\ Acyclic(links)
          => Acyclic(links') ]_causalVars

(***************************************************************************)
(* docs/specs/phase-7.md, "Hard Invariant": a link that would form a cycle *)
(* cannot be persisted.  It can: two links whose triggers each ran before  *)
(* the other's COMMIT.                                                     *)
(***************************************************************************)
NoCycleIsPersisted == Acyclic(links)
==============================================================================
