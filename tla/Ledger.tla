------------------------------- MODULE Ledger --------------------------------
(***************************************************************************)
(* The Jan Sunwai ledger of one incident: record_ledger_checkpoint as two  *)
(* steps (it reads the chain, then inserts and commits), so that several   *)
(* callers race for the next link, and what the public chain endpoint      *)
(* verifies.                                                               *)
(*                                                                         *)
(* The chain of one incident shares nothing with another's.  SHA-256 is    *)
(* taken as injective: a hash is the tuple of what was hashed.             *)
(***************************************************************************)
EXTENDS Integers

CONSTANTS
  Milestones,   \* lifecycle statuses that are published
  Points,       \* perturbed positions: what the noise may give
  Offsets,      \* time offsets the noise may give, none of them 0
  Times,        \* bound: times at which milestones are reached
  Created,      \* incident.created_at
  Publishers,   \* bound: calls of record_ledger_checkpoint, each used once
  Genesis       \* sixty-four zeros

ASSUME LedgerConstants ==
  /\ Times \subseteq Int /\ Created \in Int
  /\ Offsets \subseteq Int \ {0}

VARIABLES
  ledger,   \* the committed rows
  draft     \* draft[p]: what the call p is about to insert

ledgerVars == <<ledger, draft>>

(***************************************************************************)
(* compute_entry_hash.                                                     *)
(***************************************************************************)
(* Mutant of Digest: the position is left out of the payload. *)
DigestWithoutPoint(prev, seq, status, point, time) ==
  <<prev, seq, status, time>>

Digest(prev, seq, status, point, time) == <<prev, seq, status, point, time>>

(***************************************************************************)
(* JanSunwaiLedgerEntry, without the columns that no hash covers (SLA,     *)
(* appeal, media count, ETA).  milestone is the time the caller gave; it   *)
(* is not stored.                                                          *)
(***************************************************************************)
Entry(seq, status, point, time, milestone, prev) ==
  [seq |-> seq, status |-> status, point |-> point, time |-> time,
   milestone |-> milestone, prev |-> prev,
   hash |-> Digest(prev, seq, status, point, time)]

IsEntry(row) ==
  /\ DOMAIN row =
       {"seq", "status", "point", "time", "milestone", "prev", "hash"}
  /\ row.seq \in Nat /\ row.status \in Milestones
  /\ row.point \in Points /\ row.time \in Int /\ row.milestone \in Times

LedgerTypeOK ==
  /\ \A row \in ledger : IsEntry(row)
  /\ \A p \in Publishers :
       \/ draft[p] \in [at : {"new", "done"}]
       \/ /\ draft[p] = [at |-> "read", row |-> draft[p].row]
          /\ IsEntry(draft[p].row)

LedgerInit ==
  /\ ledger = {}
  /\ draft = [p \in Publishers |-> [at |-> "new"]]

------------------------------------------------------------------------------
(***************************************************************************)
(* record_ledger_checkpoint up to its INSERT.  The first row of an         *)
(* incident draws the noise; its time counts from the creation of the      *)
(* incident, whatever milestone the caller gave.  A later row takes the    *)
(* position and the offset of the first and chains to the last.            *)
(***************************************************************************)
Draft(p, row) == draft' = [draft EXCEPT ![p] = [at |-> "read", row |-> row]]

DraftGenesis(p, status, milestone) ==
  /\ ledger = {}
  /\ \E point \in Points, offset \in Offsets :
       Draft(p, Entry(0, status, point, Created + offset, milestone, Genesis))

(* Mutant of DraftNext: every checkpoint draws its own noise. *)
DraftFreshNoise(p, status, milestone) ==
  \E last \in ledger, point \in Points, offset \in Offsets :
    /\ \A e \in ledger : e.seq <= last.seq
    /\ Draft(p, Entry(last.seq + 1, status, point, milestone + offset,
                      milestone, last.hash))

DraftNext(p, status, milestone) ==
  \E first, last \in ledger :
    /\ \A e \in ledger : first.seq <= e.seq /\ e.seq <= last.seq
    /\ Draft(p, Entry(last.seq + 1, status, first.point,
                      milestone + (first.time - Created), milestone, last.hash))

ReadChain(p, status, milestone) ==
  /\ draft[p].at = "new"
  /\ DraftGenesis(p, status, milestone) \/ DraftNext(p, status, milestone)
  /\ UNCHANGED ledger

(***************************************************************************)
(* INSERT and COMMIT: refused when another call has published the same     *)
(* number or the same status since (uq_ledger_incident_seq, _status).  The *)
(* call then raises, and nothing in the repository tries again.            *)
(***************************************************************************)
(* Mutant of Taken: the key on the sequence number is missing. *)
TakenByStatus(row) == \E e \in ledger : e.status = row.status

Taken(row) == \E e \in ledger : e.seq = row.seq \/ e.status = row.status

PublishCheckpoint(p) ==
  /\ draft[p].at = "read"
  /\ ledger' = IF Taken(draft[p].row) THEN ledger
                                      ELSE ledger \cup {draft[p].row}
  /\ draft' = [draft EXCEPT ![p] = [at |-> "done"]]

LedgerNext ==
  \E p \in Publishers :
    \/ \E status \in Milestones, milestone \in Times :
         ReadChain(p, status, milestone)
    \/ PublishCheckpoint(p)

LedgerSpec == LedgerInit /\ [][LedgerNext]_ledgerVars

------------------------------------------------------------------------------
(***************************************************************************)
(* verify_incident_ledger_chain: the numbers are 0, 1, 2... and none       *)
(* twice, each row carries the hash of the one before it, and its own hash *)
(* is that of its columns.                                                 *)
(***************************************************************************)
Verify(rows) ==
  \A row \in rows :
    /\ \A e \in rows : e.seq = row.seq => e = row
    /\ IF row.seq = 0
         THEN row.prev = Genesis
         ELSE \E e \in rows : e.seq = row.seq - 1 /\ row.prev = e.hash
    /\ row.hash = Digest(row.prev, row.seq, row.status, row.point, row.time)

(***************************************************************************)
(* Whoever raced, what is published is one unbroken chain: the public      *)
(* endpoint reports is_valid for it.                                       *)
(***************************************************************************)
ChainVerifies == Verify(ledger)

(***************************************************************************)
(* Anti-composition: all rows of an incident show the same position and    *)
(* the same offset, so that averaging them removes no noise; calls that    *)
(* race to be the first draw noise twice, but only one draw is published.  *)
(***************************************************************************)
OneNoise ==
  ledger # {} =>
    \E point \in Points, offset \in Offsets :
      \A row \in ledger :
        /\ row.point = point
        /\ row.time = offset + IF row.seq = 0 THEN Created ELSE row.milestone

(***************************************************************************)
(* What verification notices.  Any change of a row's hashed columns; for a *)
(* row that is not the last, also a change with the hash computed anew,    *)
(* and its removal.  (It cannot notice either of the last row: nothing     *)
(* comes after it.)                                                        *)
(***************************************************************************)
Altered(row) ==
  {Entry(row.seq, s, at, time, row.milestone, row.prev) :
     s \in Milestones, at \in Points, time \in {row.time, row.time + 1}}
  \ {row}

TamperEvident ==
  \A row \in ledger :
    LET others == ledger \ {row}
        last == \A e \in others : e.seq < row.seq
    IN  /\ \A forged \in Altered(row) :
             /\ ~ Verify(others \cup {[forged EXCEPT !.hash = row.hash]})
             /\ last \/ ~ Verify(others \cup {forged})
        /\ last \/ ~ Verify(others)
==============================================================================
