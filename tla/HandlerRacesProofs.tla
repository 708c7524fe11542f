------------------------- MODULE HandlerRacesProofs -------------------------
(***************************************************************************)
(* Theorems of module HandlerRaces: what interleaved handlers keep of the  *)
(* reports, for any number of incidents, reports, work orders and requests *)
(* at a time, and any calls.                                               *)
(***************************************************************************)
EXTENDS HandlerRaces, LifecycleProofs, TLAPS

------------------------------------------------------------------------------
(***************************************************************************)
(* The inductive invariant.                                                *)
(***************************************************************************)
PartialRows == UNION {[S -> Statuses] : S \in SUBSET Rows}

TransactionRow ==
  [state : {"new", "active", "committed", "rolled_back"},
   call : Calls \cup {None}, loaded : PartialRows, todo : Seq(Statement),
   wrote : PartialRows, alone : BOOLEAN]

(***************************************************************************)
(* TypeOK as functions and records, and a call for whoever has begun.      *)
(***************************************************************************)
Typed ==
  /\ table \in [Rows -> Statuses] /\ PartlyTyped(table)
  /\ txn \in [Requests -> TransactionRow]
  /\ \A t \in Requests :
       /\ PartlyTyped(txn[t].loaded) /\ PartlyTyped(txn[t].wrote)
       /\ txn[t].state # "new" => txn[t].call \in Calls

LocksExclusive ==
  \A t, u \in Requests :
    Active(t) /\ Active(u) /\ t # u
      => DOMAIN txn[t].wrote \cap DOMAIN txn[u].wrote = {}

AloneIsAlone ==
  \A t, u \in Requests : Active(t) /\ txn[t].alone /\ t # u => ~ Active(u)

IsStaff(t) == txn[t].call.handler \in Staff

(***************************************************************************)
(* A status assigned to rows is one of theirs.                             *)
(***************************************************************************)
Assignable(s) ==
  s.op # "recompute" => \A x \in s.rows : s.to \in StatusOf(x)

(***************************************************************************)
(* The rows a transaction has written or is going to write: a staff        *)
(* handler writes a report only after one of its incidents, and a citizen  *)
(* nothing but the report and its incidents.                               *)
(***************************************************************************)
Owns(t, x) ==
  IF IsStaff(t)
    THEN x \in Reports =>
           \E i \in ChildrenOf(x) : i \in DOMAIN txn[t].wrote
    ELSE x \in {txn[t].call.row} \cup ChildrenOf(txn[t].call.row)

OwnsRows(t) ==
  /\ \A x \in DOMAIN txn[t].wrote : Owns(t, x)
  /\ \A k \in 1..Len(txn[t].todo) : \A x \in txn[t].todo[k].rows : Owns(t, x)

(***************************************************************************)
(* What is to be done: at most the first statement has a report in hand.   *)
(***************************************************************************)
Outcome(c) == IF c.handler = "resolve" THEN "completed" ELSE "in_progress"

StaffStatement(c, s, k) ==
  /\ s.op \in {"load", "update", "move", "recompute"}
  /\ s.op = "move" => s.rows \subseteq Incidents
  /\ s.op = "recompute" => s.rows \subseteq Reports
  /\ s.op = "load" =>
       \/ \E x \in Incidents : s.rows = {x}
       \/ k = 1 /\ \E x \in Reports : s.rows = {x}
  /\ s.op = "update" =>
       /\ k = 1
       /\ \/ \E x \in Reports : s.rows = {x}
          \/ /\ c.handler \in {"start", "resolve"}
             /\ s.rows = {c.row} /\ s.to = Outcome(c)

CitizenStatement(s) == s.op \in {"answer", "update"}

TodoOK(t) ==
  \A k \in 1..Len(txn[t].todo) :
    /\ Assignable(txn[t].todo[k])
    /\ IF IsStaff(t) THEN StaffStatement(txn[t].call, txn[t].todo[k], k)
                     ELSE CitizenStatement(txn[t].todo[k])

(***************************************************************************)
(* A resolution has the completion of its order ahead, and will write it,  *)
(* or has written it.                                                      *)
(***************************************************************************)
ResolveOK(t) ==
  txn[t].call.handler = "resolve" =>
    LET o == txn[t].call.row
    IN  \/ /\ txn[t].todo # <<>>
           /\ txn[t].todo[1].op = "update"
           /\ txn[t].todo[1].rows = {o}
           /\ txn[t].loaded[o] # "completed"
        \/ o \in DOMAIN txn[t].wrote /\ txn[t].wrote[o] = "completed"

(***************************************************************************)
(* A report is guarded by t when t holds the lock of one of its incidents  *)
(* and nothing can move the others.  A guarded report has what follows     *)
(* from its incidents, as t sees them, or t is about to see to it.         *)
(***************************************************************************)
Unanswered(i) ==
  \A u \in Requests :
    txn[u].state = "committed" /\ txn[u].call.handler \notin Staff
      => i \notin ChildrenOf(txn[u].call.row)

Guarded(t, r) ==
  /\ \E i \in ChildrenOf(r) : i \in DOMAIN txn[t].wrote
  /\ \/ txn[t].alone
     \/ \E i \in Incidents : ChildrenOf(r) = {i} /\ Unanswered(i)

Fresh(t, r) == Aggregate([i \in Incidents |-> Visible(t, i)], r)

InHand(t, r) ==
  /\ txn[t].todo # <<>>
  /\ txn[t].todo[1].op \in {"load", "update"}
  /\ txn[t].todo[1].rows = {r}

InLine(t, r) ==
  \E k \in 1..Len(txn[t].todo) :
    txn[t].todo[k].op = "recompute" /\ r \in txn[t].todo[k].rows

Settled(t, r) ==
  IF InHand(t, r)
    THEN /\ txn[t].todo[1].to = Fresh(t, r)
         /\ txn[t].todo[1].op = "update"
              => txn[t].loaded[r] # txn[t].todo[1].to
    ELSE InLine(t, r) \/ Visible(t, r) = Fresh(t, r)

ReportsFollow(t) ==
  IsStaff(t) => \A r \in Reports : Guarded(t, r) => Settled(t, r)

RunningOK(t) == OwnsRows(t) /\ TodoOK(t) /\ ResolveOK(t) /\ ReportsFollow(t)

RacesInv ==
  /\ Typed
  /\ LocksExclusive
  /\ AloneIsAlone
  /\ \A t \in Requests : Active(t) => RunningOK(t)
  /\ SingleChildAggregated

------------------------------------------------------------------------------
(***************************************************************************)
(* Statuses, tables and what is to be done.                                *)
(***************************************************************************)
LEMMA StatusFacts ==
  /\ \A x \in Incidents : /\ x \in Rows \ (Reports \cup Orders)
                          /\ StatusOf(x) = IncidentStatus
  /\ \A x \in Reports : /\ x \in Rows \ (Incidents \cup Orders)
                        /\ StatusOf(x) = IntakeStatus
  /\ \A x \in Orders : /\ x \in Rows \ (Incidents \cup Reports)
                       /\ StatusOf(x) = OrderStatus
  /\ \A x \in Rows : StatusOf(x) \subseteq Statuses
BY HandlerConstants DEF StatusOf, Rows, Statuses

LEMMA PutFacts ==
  ASSUME NEW f \in PartialRows, PartlyTyped(f),
         NEW x \in Rows, NEW v \in StatusOf(x)
  PROVE  /\ Put(f, x, v) \in PartialRows /\ PartlyTyped(Put(f, x, v))
         /\ DOMAIN Put(f, x, v) = DOMAIN f \cup {x}
         /\ Put(f, x, v)[x] = v
         /\ \A y \in DOMAIN f \ {x} : Put(f, x, v)[y] = f[y]
<1> DEFINE g == Put(f, x, v)
<1>1. /\ DOMAIN g = DOMAIN f \cup {x}
      /\ g[x] = v
      /\ \A y \in DOMAIN f \ {x} : g[y] = f[y]
  BY DEF Put
<1>2. DOMAIN g \in SUBSET Rows
  BY <1>1 DEF PartlyTyped
<1>3. \A y \in DOMAIN g : g[y] \in StatusOf(y)
  BY <1>1 DEF PartlyTyped
<1>4. \A y \in DOMAIN g : g[y] \in Statuses
  BY <1>2, <1>3, StatusFacts
<1>5. g \in [DOMAIN g -> Statuses]
  BY <1>4 DEF Put
<1>6. QED BY <1>1, <1>2, <1>3, <1>5 DEF PartialRows, PartlyTyped

LEMMA OverFacts ==
  ASSUME NEW f \in PartialRows, PartlyTyped(f),
         NEW g \in PartialRows, PartlyTyped(g)
  PROVE  /\ Over(f, g) \in PartialRows /\ PartlyTyped(Over(f, g))
         /\ DOMAIN Over(f, g) = DOMAIN f \cup DOMAIN g
         /\ Over(f, g) \in [DOMAIN f \cup DOMAIN g -> Statuses]
         /\ \A y \in DOMAIN f : Over(f, g)[y] = f[y]
         /\ \A y \in DOMAIN g \ DOMAIN f : Over(f, g)[y] = g[y]
<1> DEFINE h == Over(f, g)
<1>1. /\ DOMAIN h = DOMAIN f \cup DOMAIN g
      /\ \A y \in DOMAIN f : h[y] = f[y]
      /\ \A y \in DOMAIN g \ DOMAIN f : h[y] = g[y]
  BY DEF Over
<1>2. DOMAIN h \in SUBSET Rows
  BY <1>1 DEF PartlyTyped
<1>3. \A y \in DOMAIN h : h[y] \in StatusOf(y)
  BY <1>1 DEF PartlyTyped
<1>4. \A y \in DOMAIN h : h[y] \in Statuses
  BY <1>2, <1>3, StatusFacts
<1>5. h \in [DOMAIN h -> Statuses]
  BY <1>4 DEF Over
<1>6. QED BY <1>1, <1>2, <1>3, <1>5 DEF PartialRows, PartlyTyped

LEMMA NothingWritten ==
  <<>> \in PartialRows /\ PartlyTyped(<<>>) /\ DOMAIN <<>> = {}
<1>1. <<>> \in [{} -> Statuses]
  OBVIOUS
<1>2. QED BY <1>1 DEF PartialRows, PartlyTyped

(***************************************************************************)
(* The rows of a call.                                                     *)
(***************************************************************************)
LEMMA CallFacts ==
  ASSUME NEW c \in Calls
  PROVE  /\ c.handler \in Staff \cup {"confirm", "dispute"}
         /\ c.handler = "patch" =>
              c.row \in Incidents /\ c.to \in IncidentStatus
         /\ c.handler \in {"start", "resolve"} => c.row \in Orders
         /\ c.handler \notin Staff => c.row \in Reports
BY HandlerConstants DEF Call, Staff

LEMMA IncidentOfOrder ==
  ASSUME NEW o \in Orders
  PROVE  IncidentOf(o) \in Incidents
BY HandlerConstants DEF IncidentOf

(***************************************************************************)
(* One statement or two.                                                   *)
(***************************************************************************)
Only(p, op, rows, to) ==
  /\ p \in Seq(Statement) /\ Len(p) = 1
  /\ p[1].op = op /\ p[1].rows = rows /\ p[1].to = to

LEMMA OneStatement ==
  ASSUME NEW op \in {"load", "update", "move", "recompute", "answer"},
         NEW x \in Rows, NEW to \in Statuses \cup {None}
  PROVE  Only(Do(op, {x}, to), op, {x}, to)
<1> DEFINE first == [op |-> op, rows |-> {x}, to |-> to]
<1>1. {x} # {} /\ {x} \subseteq Rows
  OBVIOUS
<1>2. Do(op, {x}, to) = <<first>>
  BY <1>1 DEF Do
<1>3. /\ first \in Statement
      /\ first.op = op /\ first.rows = {x} /\ first.to = to
  BY <1>1 DEF Statement
<1> HIDE DEF first
<1>4. <<first>> \in Seq(Statement) /\ Len(<<first>>) = 1 /\ <<first>>[1] = first
  BY <1>3
<1>5. QED BY <1>2, <1>3, <1>4 DEF Only

LEMMA ConcatFacts ==
  ASSUME NEW p \in Seq(Statement), NEW q \in Seq(Statement)
  PROVE  /\ p \o q \in Seq(Statement)
         /\ Len(p \o q) = Len(p) + Len(q)
         /\ \A k \in 1..Len(p \o q) :
              (p \o q)[k] = IF k <= Len(p) THEN p[k] ELSE q[k - Len(p)]
OBVIOUS

TwoOf(p, a, b) ==
  /\ p \in Seq(Statement)
  /\ \A k \in 1..Len(p) : \/ p[k] = a /\ a.rows # {} /\ k = 1
                          \/ p[k] = b /\ b.rows # {}
  /\ a.rows # {} => Len(p) >= 1 /\ p[1] = a
  /\ b.rows # {} => \E k \in 1..Len(p) : p[k] = b
  /\ a.rows = {} /\ b.rows = {} => Len(p) = 0

LEMMA DoOneFacts ==
  ASSUME NEW a \in Statement, NEW p, p = Do(a.op, a.rows, a.to)
  PROVE  TwoOf(p, a, a)
<1>1. a = [op |-> a.op, rows |-> a.rows, to |-> a.to]
  BY DEF Statement
<1>2. CASE a.rows = {}
  <2>1. p = <<>>
    BY <1>2 DEF Do
  <2>2. p \in Seq(Statement) /\ Len(p) = 0 /\ \A k \in 1..Len(p) : FALSE
    BY <2>1
  <2>3. QED BY <1>2, <2>2 DEF TwoOf
<1>3. CASE a.rows # {}
  <2>1. p = <<a>>
    BY <1>1, <1>3 DEF Do
  <2>2. p \in Seq(Statement) /\ Len(p) = 1 /\ p[1] = a
    BY <2>1
  <2>3. QED BY <1>3, <2>2 DEF TwoOf
<1>4. QED BY <1>2, <1>3

LEMMA DoTwoFacts ==
  ASSUME NEW a \in Statement, NEW b \in Statement,
         NEW p, p = Do(a.op, a.rows, a.to) \o Do(b.op, b.rows, b.to)
  PROVE  TwoOf(p, a, b)
<1> PICK da, db : /\ da = Do(a.op, a.rows, a.to)
                  /\ db = Do(b.op, b.rows, b.to)
  OBVIOUS
<1>1. /\ a = [op |-> a.op, rows |-> a.rows, to |-> a.to]
      /\ b = [op |-> b.op, rows |-> b.rows, to |-> b.to]
  BY DEF Statement
<1>2. /\ da \in Seq(Statement)
      /\ Len(da) = IF a.rows = {} THEN 0 ELSE 1
      /\ a.rows # {} => da[1] = a
  BY <1>1 DEF Do
<1>3. /\ db \in Seq(Statement)
      /\ Len(db) = IF b.rows = {} THEN 0 ELSE 1
      /\ b.rows # {} => db[1] = b
  BY <1>1 DEF Do
<1>4. /\ p \in Seq(Statement)
      /\ Len(p) = Len(da) + Len(db)
      /\ \A k \in 1..Len(p) :
           p[k] = IF k <= Len(da) THEN da[k] ELSE db[k - Len(da)]
  BY <1>2, <1>3, ConcatFacts
<1>5. b.rows # {} => p[Len(da) + 1] = b /\ Len(da) + 1 \in 1..Len(p)
  BY <1>2, <1>3, <1>4
<1>6. ASSUME NEW k \in 1..Len(p)
      PROVE  \/ p[k] = a /\ a.rows # {} /\ k = 1
             \/ p[k] = b /\ b.rows # {}
  <2>1. Len(da) \in 0..1 /\ Len(db) \in 0..1
    BY <1>2, <1>3
  <2>2. CASE k <= Len(da)
    <3>1. k = 1 /\ a.rows # {} /\ p[k] = da[1]
      BY <1>2, <1>4, <2>1, <2>2
    <3>2. QED BY <1>2, <3>1
  <2>3. CASE ~ (k <= Len(da))
    <3>1. k - Len(da) = 1 /\ b.rows # {} /\ p[k] = db[k - Len(da)]
      BY <1>3, <1>4, <2>1, <2>3
    <3>2. QED BY <1>3, <3>1
  <2>4. QED BY <2>2, <2>3
<1>7. a.rows # {} => Len(p) >= 1 /\ p[1] = a
  BY <1>2, <1>3, <1>4
<1>8. a.rows = {} /\ b.rows = {} => Len(p) = 0
  BY <1>2, <1>3, <1>4
<1>9. QED BY <1>4, <1>5, <1>6, <1>7, <1>8 DEF TwoOf

(***************************************************************************)
(* What is pushed goes before the statements that are left.                *)
(***************************************************************************)
LEMMA PushFacts ==
  ASSUME NEW p \in Seq(Statement), NEW old \in Seq(Statement), old # <<>>
  PROVE  LET new == p \o Tail(old)
         IN  /\ new \in Seq(Statement)
             /\ \A k \in 1..Len(new) :
                  \/ k \in 1..Len(p) /\ new[k] = p[k]
                  \/ \E j \in 2..Len(old) : /\ new[k] = old[j]
                                            /\ k = 1 => j = 2 /\ Len(p) = 0
                                            /\ k # 1 => k >= 2
             /\ \A k \in 1..Len(p) : k \in 1..Len(new) /\ new[k] = p[k]
             /\ \A j \in 2..Len(old) : \E k \in 1..Len(new) : new[k] = old[j]
             /\ new # <<>> <=> Len(new) >= 1
<1> DEFINE new == p \o Tail(old)
<1>1. /\ Len(old) \in Nat /\ Len(old) >= 1 /\ Len(p) \in Nat
      /\ Tail(old) \in Seq(Statement)
      /\ Len(Tail(old)) = Len(old) - 1
      /\ \A k \in 1..Len(Tail(old)) : Tail(old)[k] = old[k + 1]
  OBVIOUS
<1>2. /\ new \in Seq(Statement)
      /\ Len(new) = Len(p) + Len(old) - 1
      /\ \A k \in 1..Len(new) :
           new[k] = IF k <= Len(p) THEN p[k] ELSE old[k - Len(p) + 1]
  BY <1>1
<1> HIDE DEF new
<1>3. ASSUME NEW k \in 1..Len(new)
      PROVE  \/ k \in 1..Len(p) /\ new[k] = p[k]
             \/ \E j \in 2..Len(old) : /\ new[k] = old[j]
                                       /\ k = 1 => j = 2 /\ Len(p) = 0
                                       /\ k # 1 => k >= 2
  <2>1. CASE k <= Len(p)
    BY <1>1, <1>2, <2>1
  <2>2. CASE k > Len(p)
    <3>1. k - Len(p) + 1 \in 2..Len(old)
      BY <1>1, <1>2, <2>2
    <3>2. new[k] = old[k - Len(p) + 1]
      BY <1>1, <1>2, <2>2
    <3>3. k = 1 => Len(p) = 0 /\ k - Len(p) + 1 = 2
      BY <1>1, <2>2
    <3>4. QED BY <3>1, <3>2, <3>3
  <2>3. QED BY <1>1, <2>1, <2>2
<1>4. \A k \in 1..Len(p) : k \in 1..Len(new) /\ new[k] = p[k]
  BY <1>1, <1>2
<1>5. ASSUME NEW j \in 2..Len(old)
      PROVE  \E k \in 1..Len(new) : new[k] = old[j]
  <2>1. j - 1 + Len(p) \in 1..Len(new) /\ ~ (j - 1 + Len(p) <= Len(p))
    BY <1>1, <1>2
  <2>2. new[j - 1 + Len(p)] = old[(j - 1 + Len(p)) - Len(p) + 1]
    BY <1>2, <2>1
  <2>3. (j - 1 + Len(p)) - Len(p) + 1 = j
    BY <1>1
  <2>4. QED BY <2>1, <2>2, <2>3
<1>6. new # <<>> <=> Len(new) >= 1
  BY <1>2
<1>7. QED BY <1>2, <1>3, <1>4, <1>5, <1>6 DEF new

(***************************************************************************)
(* The statement that comes next.                                          *)
(***************************************************************************)
LEMMA NextStatement ==
  ASSUME NEW p \in Seq(Statement), NEW old \in Seq(Statement), old # <<>>,
         NEW new, new = p \o Tail(old)
  PROVE  /\ Len(p) >= 1 => new # <<>> /\ new[1] = p[1]
         /\ (Len(p) = 0 /\ new # <<>>) => 2 \in 2..Len(old) /\ new[1] = old[2]
<1>1. /\ Len(old) \in Nat /\ Len(old) >= 1 /\ Len(p) \in Nat
      /\ Tail(old) \in Seq(Statement)
      /\ Len(Tail(old)) = Len(old) - 1
      /\ \A k \in 1..Len(Tail(old)) : Tail(old)[k] = old[k + 1]
  OBVIOUS
<1>2. /\ new \in Seq(Statement)
      /\ Len(new) = Len(p) + Len(old) - 1
      /\ \A k \in 1..Len(new) :
           new[k] = IF k <= Len(p) THEN p[k] ELSE old[k - Len(p) + 1]
  BY <1>1
<1>3. new # <<>> <=> Len(new) >= 1
  BY <1>2
<1>4. ASSUME Len(p) >= 1 PROVE new # <<>> /\ new[1] = p[1]
  BY <1>1, <1>2, <1>3, <1>4
<1>5. ASSUME Len(p) = 0, new # <<>>
      PROVE  2 \in 2..Len(old) /\ new[1] = old[2]
  <2>1. 1 \in 1..Len(new) /\ Len(old) >= 2 /\ ~ (1 <= Len(p))
    BY <1>1, <1>2, <1>3, <1>5
  <2>2. new[1] = old[1 - Len(p) + 1] /\ 1 - Len(p) + 1 = 2
    BY <1>1, <1>2, <1>5, <2>1
  <2>3. QED BY <1>1, <2>1, <2>2
<1>6. QED BY <1>4, <1>5

------------------------------------------------------------------------------
(***************************************************************************)
(* What a transaction sees.                                                *)
(***************************************************************************)
LEMMA TransactionFields ==
  ASSUME Typed, NEW t \in Requests
  PROVE  /\ txn[t].state \in {"new", "active", "committed", "rolled_back"}
         /\ txn[t].call \in Calls \cup {None}
         /\ txn[t].loaded \in PartialRows /\ PartlyTyped(txn[t].loaded)
         /\ txn[t].wrote \in PartialRows /\ PartlyTyped(txn[t].wrote)
         /\ txn[t].todo \in Seq(Statement)
         /\ txn[t].alone \in BOOLEAN
         /\ Active(t) => txn[t].call \in Calls
BY DEF Typed, TransactionRow, Active

LEMMA VisibleTyped ==
  ASSUME Typed, NEW t \in Requests, NEW x \in Rows
  PROVE  Visible(t, x) \in StatusOf(x)
BY DEF Typed, PartlyTyped, Visible

LEMMA FreshTyped ==
  ASSUME Typed, NEW t \in Requests, NEW r \in Reports
  PROVE  Fresh(t, r) \in IntakeStatus
<1> DEFINE view == [i \in Incidents |-> Visible(t, i)]
<1>1. \A i \in Incidents : view[i] \in IncidentStatus
  BY VisibleTyped, StatusFacts
<1>2. {view[i] : i \in ChildrenOf(r)} \in SUBSET IncidentStatus
  BY <1>1 DEF ChildrenOf
<1>3. QED BY <1>2, AggregateType DEF Fresh, Aggregate

LEMMA FirstStatement ==
  ASSUME Typed, NEW t \in Requests, txn[t].todo # <<>>
  PROVE  /\ Head(txn[t].todo) = txn[t].todo[1]
         /\ 1 \in 1..Len(txn[t].todo)
         /\ txn[t].todo[1] \in Statement
         /\ txn[t].todo[1].rows \subseteq Rows
         /\ txn[t].todo[1].to \in Statuses \cup {None}
         /\ \A k \in 1..Len(txn[t].todo) : txn[t].todo[k] \in Statement
<1>1. txn[t].todo \in Seq(Statement)
  BY TransactionFields
<1>2. /\ Head(txn[t].todo) = txn[t].todo[1]
      /\ 1 \in 1..Len(txn[t].todo)
      /\ \A k \in 1..Len(txn[t].todo) : txn[t].todo[k] \in Statement
  BY <1>1
<1>3. QED BY <1>2 DEF Statement

------------------------------------------------------------------------------
(***************************************************************************)
(* What a step of one transaction does to the others: as long as nothing   *)
(* is committed and nobody begins, nothing.                                *)
(***************************************************************************)
SameRun(u) ==
  /\ txn'[u].state = txn[u].state
  /\ txn'[u].call = txn[u].call
  /\ txn'[u].loaded = txn[u].loaded
  /\ txn'[u].todo = txn[u].todo
  /\ txn'[u].wrote = txn[u].wrote
  /\ txn'[u].alone => txn[u].alone

LEMMA AnswersStay ==
  ASSUME \A u \in Requests : txn[u].state = "committed" =>
           txn'[u].state = "committed" /\ txn'[u].call = txn[u].call,
         NEW i \in Incidents, Unanswered(i)'
  PROVE  Unanswered(i)
BY DEF Unanswered

LEMMA Bystander ==
  ASSUME Typed, NEW u \in Requests, Active(u), RunningOK(u),
         table' = table, SameRun(u),
         \A i \in Incidents : Unanswered(i)' => Unanswered(i)
  PROVE  RunningOK(u)'
<1> USE DEF SameRun
<1>1. OwnsRows(u)'
  BY DEF RunningOK, OwnsRows, Owns, IsStaff
<1>2. TodoOK(u)'
  BY DEF RunningOK, TodoOK, IsStaff
<1>3. ResolveOK(u)'
  BY DEF RunningOK, ResolveOK
<1>4. ASSUME IsStaff(u), NEW r \in Reports, Guarded(u, r)'
      PROVE  Settled(u, r)'
  <2>1. Guarded(u, r)
    BY <1>4 DEF Guarded
  <2>2. Settled(u, r)
    BY <1>4, <2>1 DEF RunningOK, ReportsFollow
  <2>3. \A x : Visible(u, x)' = Visible(u, x)
    BY DEF Visible
  <2>4. Fresh(u, r)' = Fresh(u, r)
    BY <2>3 DEF Fresh
  <2>5. InHand(u, r)' = InHand(u, r) /\ InLine(u, r)' = InLine(u, r)
    BY DEF InHand, InLine
  <2>6. QED BY <2>2, <2>3, <2>4, <2>5 DEF Settled
<1>5. QED BY <1>1, <1>2, <1>3, <1>4 DEF RunningOK, ReportsFollow, IsStaff

LEMMA RecordUpdate ==
  ASSUME NEW row \in TransactionRow, NEW l, NEW w, NEW q
  PROVE  [row EXCEPT !.loaded = l, !.wrote = w, !.todo = q]
           = [state |-> row.state, call |-> row.call, loaded |-> l,
              todo |-> q, wrote |-> w, alone |-> row.alone]
<1>1. PICK new : new = [row EXCEPT !.loaded = l, !.wrote = w, !.todo = q]
  OBVIOUS
<1>2. new = [f \in {"state", "call", "loaded", "todo", "wrote", "alone"} |->
               IF f = "todo" THEN q
               ELSE IF f = "wrote" THEN w
               ELSE IF f = "loaded" THEN l
               ELSE row[f]]
  BY <1>1 DEF TransactionRow
<1>3. QED BY <1>1, <1>2

After(t, loaded, wrote, p) ==
  /\ Typed'
  /\ table' = table
  /\ txn'[t].state = "active" /\ txn'[t].call = txn[t].call
  /\ txn'[t].loaded = loaded /\ txn'[t].wrote = wrote
  /\ txn'[t].todo = p \o Tail(txn[t].todo)
  /\ txn'[t].todo \in Seq(Statement)
  /\ txn'[t].alone = txn[t].alone
  /\ \A u \in Requests \ {t} : txn'[u] = txn[u]

LEMMA ProceedFacts ==
  ASSUME Typed, NEW t \in Requests, Active(t), txn[t].todo # <<>>,
         NEW loaded \in PartialRows, PartlyTyped(loaded),
         NEW wrote \in PartialRows, PartlyTyped(wrote),
         NEW p \in Seq(Statement), Proceed(t, loaded, wrote, p)
  PROVE  After(t, loaded, wrote, p)
<1> DEFINE todo == p \o Tail(txn[t].todo)
           row == [state |-> txn[t].state, call |-> txn[t].call,
                   loaded |-> loaded, todo |-> todo, wrote |-> wrote,
                   alone |-> txn[t].alone]
<1>1. txn \in [Requests -> TransactionRow] /\ txn[t] \in TransactionRow
  BY DEF Typed
<1>2. todo \in Seq(Statement)
  BY <1>1, PushFacts DEF TransactionRow
<1>3. row \in TransactionRow
  BY <1>1, <1>2 DEF TransactionRow
<1> HIDE DEF todo
<1>4. txn' = [txn EXCEPT ![t] = row]
  <2>1. txn' = [txn EXCEPT ![t].loaded = loaded, ![t].wrote = wrote,
                           ![t].todo = todo]
    BY DEF Proceed, todo
  <2>2. [txn[t] EXCEPT !.loaded = loaded, !.wrote = wrote, !.todo = todo] = row
    BY <1>1, RecordUpdate
  <2>3. DOMAIN txn = Requests /\ txn = [u \in Requests |-> txn[u]]
    BY <1>1
  <2>4. txn' = [txn EXCEPT ![t] = [txn[t] EXCEPT !.loaded = loaded,
                                                 !.wrote = wrote,
                                                 !.todo = todo]]
    BY <2>1, <2>3
  <2>5. QED BY <2>2, <2>4
<1>5. txn' \in [Requests -> TransactionRow] /\ txn'[t] = row
  BY <1>1, <1>3, <1>4
<1>6. \A u \in Requests \ {t} : txn'[u] = txn[u]
  BY <1>1, <1>4
<1>7. table' = table
  BY DEF Proceed
<1>8. /\ txn'[t].state = "active" /\ txn'[t].call = txn[t].call
      /\ txn'[t].loaded = loaded /\ txn'[t].wrote = wrote
      /\ txn'[t].todo = todo /\ txn'[t].alone = txn[t].alone
  BY <1>5 DEF Active
<1>9. Typed'
  <2>1. \A u \in Requests :
          /\ PartlyTyped(txn'[u].loaded) /\ PartlyTyped(txn'[u].wrote)
          /\ txn'[u].state # "new" => txn'[u].call \in Calls
    BY <1>6, <1>8 DEF Typed, Active
  <2>2. QED BY <1>5, <1>7, <2>1 DEF Typed, PartlyTyped
<1>10. QED BY <1>2, <1>6, <1>7, <1>8, <1>9 DEF todo, After

LEMMA ProceedKeepsInv ==
  ASSUME RacesInv, NEW t \in Requests, Active(t), txn[t].todo # <<>>,
         NEW loaded \in PartialRows, PartlyTyped(loaded),
         NEW wrote \in PartialRows, PartlyTyped(wrote),
         NEW p \in Seq(Statement), Proceed(t, loaded, wrote, p),
         \A u \in Requests \ {t} :
           Active(u) => DOMAIN wrote \cap DOMAIN txn[u].wrote = {},
         RunningOK(t)'
  PROVE  RacesInv'
<1>1. /\ Typed'
      /\ table' = table
      /\ txn'[t].state = "active" /\ txn'[t].call = txn[t].call
      /\ txn'[t].wrote = wrote
      /\ txn'[t].alone = txn[t].alone
      /\ \A u \in Requests \ {t} : txn'[u] = txn[u]
  BY ProceedFacts DEF RacesInv, After
<1>2. \A u \in Requests : Active(u)' <=> Active(u)
  BY <1>1 DEF Active
<1>3. LocksExclusive'
  BY <1>1, <1>2 DEF RacesInv, LocksExclusive
<1>4. AloneIsAlone'
  BY <1>1, <1>2 DEF RacesInv, AloneIsAlone
<1>5. \A i \in Incidents : Unanswered(i)' => Unanswered(i)
  BY <1>1, AnswersStay DEF Active
<1>6. ASSUME NEW u \in Requests \ {t}, Active(u)
      PROVE  RunningOK(u)'
  BY <1>1, <1>5, <1>6, Bystander DEF RacesInv, SameRun
<1>7. SingleChildAggregated'
  BY <1>1, <1>5 DEF RacesInv, SingleChildAggregated, Unanswered
<1>8. QED BY <1>1, <1>2, <1>3, <1>4, <1>6, <1>7 DEF RacesInv

------------------------------------------------------------------------------
(***************************************************************************)
(* A statement is done and others are pushed: what is left keeps in shape. *)
(***************************************************************************)
Pushes(t, p) ==
  /\ txn'[t].call = txn[t].call
  /\ txn'[t].todo = p \o Tail(txn[t].todo)
  /\ txn'[t].alone = txn[t].alone
  /\ table' = table
  /\ DOMAIN txn[t].wrote \subseteq DOMAIN txn'[t].wrote

LEMMA OwnsGrows ==
  ASSUME NEW t \in Requests, NEW p, Pushes(t, p), NEW x, Owns(t, x)
  PROVE  Owns(t, x)'
BY DEF Pushes, Owns, IsStaff

LEMMA LaterStatements ==
  ASSUME NEW c, NEW s \in Statement, NEW j \in Nat, j >= 2,
         StaffStatement(c, s, j), NEW k \in Nat
  PROVE  /\ StaffStatement(c, s, k)
         /\ s.op # "update"
         /\ s.op = "load" => \E x \in Incidents : s.rows = {x}
BY DEF StaffStatement

LEMMA PushKeeps ==
  ASSUME Typed, NEW t \in Requests, RunningOK(t), txn[t].todo # <<>>,
         NEW p \in Seq(Statement), Pushes(t, p),
         \A x \in DOMAIN txn'[t].wrote : Owns(t, x)',
         \A k \in 1..Len(p) :
           /\ Assignable(p[k])
           /\ IF IsStaff(t) THEN StaffStatement(txn[t].call, p[k], k)
                            ELSE CitizenStatement(p[k])
           /\ \A x \in p[k].rows : Owns(t, x)'
  PROVE  OwnsRows(t)' /\ TodoOK(t)'
<1>1. txn[t].todo \in Seq(Statement)
  BY TransactionFields
<1> DEFINE new == p \o Tail(txn[t].todo)
<1>2. SUFFICES ASSUME NEW k \in 1..Len(new)
               PROVE  /\ Assignable(new[k])
                      /\ IF IsStaff(t) THEN StaffStatement(txn[t].call, new[k], k)
                                       ELSE CitizenStatement(new[k])
                      /\ \A x \in new[k].rows : Owns(t, x)'
  BY DEF Pushes, OwnsRows, TodoOK, IsStaff
<1>3. new \in Seq(Statement) /\ k \in Nat
  BY <1>1, PushFacts
<1>4. CASE k \in 1..Len(p) /\ new[k] = p[k]
  BY <1>4
<1>5. ASSUME NEW j \in 2..Len(txn[t].todo), new[k] = txn[t].todo[j]
      PROVE  /\ Assignable(new[k])
             /\ IF IsStaff(t) THEN StaffStatement(txn[t].call, new[k], k)
                              ELSE CitizenStatement(new[k])
             /\ \A x \in new[k].rows : Owns(t, x)'
  <2>1. /\ j \in 1..Len(txn[t].todo) /\ j \in Nat /\ j >= 2
        /\ txn[t].todo[j] \in Statement
    BY <1>1
  <2>2. /\ Assignable(txn[t].todo[j])
        /\ IF IsStaff(t) THEN StaffStatement(txn[t].call, txn[t].todo[j], j)
                         ELSE CitizenStatement(txn[t].todo[j])
        /\ \A x \in txn[t].todo[j].rows : Owns(t, x)
    BY <2>1 DEF RunningOK, TodoOK, OwnsRows
  <2>3. \A x \in txn[t].todo[j].rows : Owns(t, x)'
    BY <2>2, OwnsGrows
  <2>4. IsStaff(t) => StaffStatement(txn[t].call, txn[t].todo[j], k)
    BY <1>3, <2>1, <2>2, LaterStatements
  <2>5. QED BY <1>5, <2>2, <2>3, <2>4
<1>6. \/ k \in 1..Len(p) /\ new[k] = p[k]
      \/ \E j \in 2..Len(txn[t].todo) : new[k] = txn[t].todo[j]
  BY <1>1, PushFacts
<1> HIDE DEF new
<1>7. QED BY <1>4, <1>5, <1>6

(***************************************************************************)
(* A staff handler that is at something else leaves a report settled.      *)
(***************************************************************************)
LEMMA Elsewhere ==
  ASSUME Typed, NEW t \in Requests, RunningOK(t), IsStaff(t),
         txn[t].todo # <<>>, NEW p \in Seq(Statement), Pushes(t, p),
         NEW r \in Reports, Settled(t, r), ~ InHand(t, r),
         Len(p) >= 1 => ~ (p[1].op \in {"load", "update"} /\ p[1].rows = {r}),
         (txn[t].todo[1].op = "recompute" /\ r \in txn[t].todo[1].rows) =>
           \E k \in 1..Len(p) : p[k].op = "recompute" /\ r \in p[k].rows,
         Visible(t, r)' = Visible(t, r), Fresh(t, r)' = Fresh(t, r)
  PROVE  Settled(t, r)' /\ ~ InHand(t, r)'
<1>1. txn[t].todo \in Seq(Statement)
  BY TransactionFields
<1> DEFINE old == txn[t].todo
           new == p \o Tail(old)
<1>2. \A j \in 2..Len(old) :
        ~ (old[j].op \in {"load", "update"} /\ old[j].rows = {r})
  <2> SUFFICES ASSUME NEW j \in 2..Len(old)
               PROVE  ~ (old[j].op \in {"load", "update"} /\ old[j].rows = {r})
    OBVIOUS
  <2>1. /\ j \in 1..Len(old) /\ j \in Nat /\ j >= 2 /\ old[j] \in Statement
    BY <1>1
  <2>2. StaffStatement(txn[t].call, old[j], j)
    BY <2>1 DEF RunningOK, TodoOK
  <2>3. /\ old[j].op # "update"
        /\ old[j].op = "load" => \E x \in Incidents : old[j].rows = {x}
    BY <2>1, <2>2, LaterStatements
  <2>4. QED BY <2>3, StatusFacts
<1>3. /\ new \in Seq(Statement)
      /\ \A k \in 1..Len(new) :
           \/ k \in 1..Len(p) /\ new[k] = p[k]
           \/ \E j \in 2..Len(old) : new[k] = old[j]
      /\ \A k \in 1..Len(p) : k \in 1..Len(new) /\ new[k] = p[k]
      /\ \A j \in 2..Len(old) : \E k \in 1..Len(new) : new[k] = old[j]
  <2>1. new \in Seq(Statement)
    BY <1>1, PushFacts
  <2>2. ASSUME NEW k \in 1..Len(new)
        PROVE  \/ k \in 1..Len(p) /\ new[k] = p[k]
               \/ \E j \in 2..Len(old) : new[k] = old[j]
    BY <1>1, PushFacts
  <2>3. \A k \in 1..Len(p) : k \in 1..Len(new) /\ new[k] = p[k]
    BY <1>1, PushFacts
  <2>4. \A j \in 2..Len(old) : \E k \in 1..Len(new) : new[k] = old[j]
    BY <1>1, PushFacts
  <2>5. QED BY <2>1, <2>2, <2>3, <2>4
<1>4. Len(p) \in Nat /\ Len(new) \in Nat /\ Len(old) \in Nat
  BY <1>1, <1>3
<1>5. txn'[t].todo = new
  BY DEF Pushes
<1> HIDE DEF new
<1>6. ~ InHand(t, r)'
  <2> SUFFICES ASSUME new # <<>>
               PROVE  ~ (new[1].op \in {"load", "update"} /\ new[1].rows = {r})
    BY <1>5 DEF InHand
  <2>1. 1 \in 1..Len(new)
    BY <1>3
  <2>2. CASE 1 \in 1..Len(p) /\ new[1] = p[1]
    <3>1. Len(p) >= 1
      BY <1>4, <2>2
    <3>2. QED BY <2>2, <3>1
  <2>3. CASE \E j \in 2..Len(old) : new[1] = old[j]
    BY <1>2, <2>3
  <2>4. QED BY <1>3, <2>1, <2>2, <2>3
<1>7. InLine(t, r) => InLine(t, r)'
  <2> SUFFICES ASSUME NEW k \in 1..Len(old),
                      old[k].op = "recompute", r \in old[k].rows
               PROVE  \E n \in 1..Len(new) :
                        new[n].op = "recompute" /\ r \in new[n].rows
    BY <1>5 DEF InLine
  <2>1. CASE k = 1
    BY <1>3, <2>1
  <2>2. CASE k # 1
    <3>1. k \in 2..Len(old)
      BY <1>4, <2>2
    <3>2. QED BY <1>3, <3>1
  <2>3. QED BY <2>1, <2>2
<1>8. QED BY <1>6, <1>7 DEF Settled

------------------------------------------------------------------------------
(***************************************************************************)
(* The statements of a transaction, one by one.                            *)
(***************************************************************************)
LEMMA GuardedBefore ==
  ASSUME RacesInv, NEW t \in Requests, Active(t), NEW p, Pushes(t, p),
         \A u \in Requests \ {t} : txn'[u] = txn[u],
         txn'[t].state = "active",
         NEW r \in Reports, Guarded(t, r)',
         \A i \in ChildrenOf(r) :
           i \in DOMAIN txn'[t].wrote => i \in DOMAIN txn[t].wrote
  PROVE  Guarded(t, r)
<1>1. \A i \in Incidents : Unanswered(i)' => Unanswered(i)
  BY AnswersStay DEF Active
<1>2. QED BY <1>1 DEF Guarded, Pushes

LEMMA NothingPushed ==
  ASSUME Typed, NEW t \in Requests, RunningOK(t), IsStaff(t),
         txn[t].todo # <<>>, NEW p \in Seq(Statement), Pushes(t, p),
         Len(p) = 0, NEW r \in Reports
  PROVE  ~ InHand(t, r)'
<1>1. SUFFICES ASSUME txn'[t].todo # <<>>
               PROVE  ~ (/\ txn'[t].todo[1].op \in {"load", "update"}
                         /\ txn'[t].todo[1].rows = {r})
  BY DEF InHand
<1>2. PICK new, old : new = txn'[t].todo /\ old = txn[t].todo
  OBVIOUS
<1>3. new = p \o Tail(old) /\ old \in Seq(Statement) /\ old # <<>> /\ new # <<>>
  BY <1>1, <1>2, TransactionFields DEF Pushes
<1>4. 2 \in 2..Len(old) /\ new[1] = old[2]
  BY <1>3, NextStatement
<1>5. 2 \in 1..Len(old) /\ old[2] \in Statement
  BY <1>3, <1>4
<1>6. StaffStatement(txn[t].call, old[2], 2)
  BY <1>2, <1>5 DEF RunningOK, TodoOK
<1>7. ~ (old[2].op \in {"load", "update"} /\ old[2].rows = {r})
  BY <1>5, <1>6, LaterStatements, StatusFacts
<1>8. QED BY <1>2, <1>4, <1>7

LEMMA LoadKeepsInv ==
  ASSUME RacesInv, NEW t \in Requests, Load(t)
  PROVE  RacesInv'
<1> PICK s : s = txn[t].todo[1]
  OBVIOUS
<1>1. /\ Active(t) /\ txn[t].todo # <<>> /\ Typed /\ RunningOK(t)
  BY DEF Load, Upcoming, RacesInv
<1>2. /\ Head(txn[t].todo) = s /\ s \in Statement /\ s.rows \subseteq Rows
      /\ s.to \in Statuses \cup {None}
      /\ 1 \in 1..Len(txn[t].todo)
  BY <1>1, FirstStatement
<1>3. s.op = "load"
  BY <1>2 DEF Load, Upcoming
<1>4. IsStaff(t) /\ StaffStatement(txn[t].call, s, 1) /\ Assignable(s)
  BY <1>1, <1>2, <1>3 DEF RunningOK, TodoOK, CitizenStatement
<1>5. PICK x \in s.rows :
        LET loaded == Put(txn[t].loaded, x, Visible(t, x))
        IN  Proceed(t, loaded, txn[t].wrote,
                    IF x \in Incidents THEN Do("move", {x}, s.to)
                                       ELSE Flush(x, s.to, loaded))
  BY <1>2 DEF Load
<1>6. /\ s.rows = {x} /\ x \in Incidents \cup Reports /\ x \in Rows
      /\ s.to \in StatusOf(x) /\ Owns(t, x)
  <2>1. s.rows = {x} /\ x \in Incidents \cup Reports
    BY <1>3, <1>4 DEF StaffStatement
  <2>2. s.to \in StatusOf(x)
    BY <1>3, <1>4 DEF Assignable
  <2>3. Owns(t, x)
    BY <1>1, <1>2 DEF RunningOK, OwnsRows
  <2>4. QED BY <1>2, <2>1, <2>2, <2>3
<1> PICK loaded : loaded = Put(txn[t].loaded, x, Visible(t, x))
  OBVIOUS
<1> PICK p : p = IF x \in Incidents THEN Do("move", {x}, s.to)
                                    ELSE Flush(x, s.to, loaded)
  OBVIOUS
<1>7. /\ loaded \in PartialRows /\ PartlyTyped(loaded)
      /\ loaded[x] = Visible(t, x)
  <2>1. /\ txn[t].loaded \in PartialRows /\ PartlyTyped(txn[t].loaded)
        /\ Visible(t, x) \in StatusOf(x)
    BY <1>1, <1>6, VisibleTyped, TransactionFields
  <2>2. QED BY <1>6, <2>1, PutFacts
<1>8. /\ p \in Seq(Statement)
      /\ Len(p) = 0 \/ Len(p) = 1
      /\ Len(p) = 1 => /\ p[1].op = IF x \in Incidents THEN "move" ELSE "update"
                       /\ p[1].rows = {x} /\ p[1].to = s.to
      /\ x \notin Incidents => (Len(p) = 1 <=> Visible(t, x) # s.to)
  <2>1. PICK op : op = IF x \in Incidents THEN "move" ELSE "update"
    OBVIOUS
  <2>2. op \in {"load", "update", "move", "recompute", "answer"}
    BY <2>1
  <2>3. Only(Do(op, {x}, s.to), op, {x}, s.to)
    BY <1>2, <1>6, <2>2, OneStatement
  <2>4. <<>> \in Seq(Statement) /\ Len(<<>>) = 0
    OBVIOUS
  <2>5. CASE x \notin Incidents /\ loaded[x] = s.to
    <3>1. p = <<>>
      BY <2>5 DEF Flush
    <3>2. Len(p) = 0 /\ p \in Seq(Statement)
      BY <2>4, <3>1
    <3>3. Len(p) # 1
      <4>1. 0 # 1
        OBVIOUS
      <4>2. QED BY <3>2, <4>1, Zenon
    <3>4. Visible(t, x) = s.to
      BY <1>7, <2>5
    <3>5. QED BY <3>2, <3>3, <3>4
  <2>6. CASE x \in Incidents \/ loaded[x] # s.to
    <3>1. p = Do(op, {x}, s.to)
      BY <2>1, <2>6 DEF Flush
    <3>2. /\ p \in Seq(Statement) /\ Len(p) = 1
          /\ p[1].op = op /\ p[1].rows = {x} /\ p[1].to = s.to
      BY <2>3, <3>1 DEF Only
    <3>3. QED BY <1>7, <2>1, <2>6, <3>2
  <2>7. QED BY <2>5, <2>6
<1>9. Proceed(t, loaded, txn[t].wrote, p)
  BY <1>5
<1>10. /\ txn[t].wrote \in PartialRows /\ PartlyTyped(txn[t].wrote)
       /\ txn[t].todo \in Seq(Statement)
  BY <1>1, TransactionFields
<1>11. /\ Typed' /\ table' = table
       /\ txn'[t].state = "active" /\ txn'[t].call = txn[t].call
       /\ txn'[t].loaded = loaded /\ txn'[t].wrote = txn[t].wrote
       /\ txn'[t].todo = p \o Tail(txn[t].todo)
       /\ txn'[t].alone = txn[t].alone
       /\ \A u \in Requests \ {t} : txn'[u] = txn[u]
  <2>1. After(t, loaded, txn[t].wrote, p)
    BY <1>1, <1>7, <1>8, <1>9, <1>10, ProceedFacts
  <2>2. QED BY <2>1 DEF After
<1>12. Pushes(t, p)
  BY <1>11 DEF Pushes
<1>13. OwnsRows(t)' /\ TodoOK(t)'
  <2>1. \A y \in DOMAIN txn'[t].wrote : Owns(t, y)'
    BY <1>1, <1>11, <1>12, OwnsGrows DEF RunningOK, OwnsRows
  <2>2. Owns(t, x)'
    BY <1>6, <1>12, OwnsGrows
  <2>3. ASSUME NEW k \in 1..Len(p)
        PROVE  /\ Assignable(p[k])
               /\ StaffStatement(txn[t].call, p[k], k)
               /\ \A y \in p[k].rows : Owns(t, y)'
    <3>1. k = 1 /\ Len(p) = 1
      <4>1. k \in 1..Len(p)
        OBVIOUS
      <4>2. CASE Len(p) = 0
        BY <4>1, <4>2
      <4>3. CASE Len(p) = 1
        <5>1. k \in 1..1
          BY <4>1, <4>3
        <5>2. QED BY <4>3, <5>1
      <4>4. QED BY <1>8, <4>2, <4>3
    <3>2. /\ p[k].op = IF x \in Incidents THEN "move" ELSE "update"
          /\ p[k].rows = {x} /\ p[k].to = s.to
      BY <1>8, <3>1
    <3>3. QED BY <1>6, <2>2, <3>1, <3>2 DEF Assignable, StaffStatement
  <2>4. QED BY <1>1, <1>4, <1>8, <1>12, <2>1, <2>3, PushKeeps
<1>14. ResolveOK(t)'
  BY <1>1, <1>3, <1>11 DEF RunningOK, ResolveOK
<1>15. ASSUME NEW r \in Reports, Guarded(t, r)'
       PROVE  Settled(t, r)'
  <2>1. Guarded(t, r)
    BY <1>1, <1>11, <1>12, <1>15, GuardedBefore
  <2>2. Settled(t, r)
    BY <1>1, <1>4, <2>1 DEF RunningOK, ReportsFollow
  <2>3. \A y : Visible(t, y)' = Visible(t, y)
    BY <1>11 DEF Visible
  <2>4. Fresh(t, r)' = Fresh(t, r)
    BY <2>3 DEF Fresh
  <2>5. CASE x # r
    <3>1. ~ InHand(t, r)
      BY <1>6, <2>5 DEF InHand
    <3>2. Len(p) >= 1 =>
            ~ (p[1].op \in {"load", "update"} /\ p[1].rows = {r})
      <4>1. Len(p) >= 1 => Len(p) = 1
        BY <1>8
      <4>2. QED BY <1>8, <2>5, <4>1
    <3>3. QED BY <1>1, <1>3, <1>4, <1>8, <1>12, <2>2, <2>3, <2>4, <3>1, <3>2,
                 Elsewhere
  <2>6. CASE x = r
    <3>1. InHand(t, r) /\ s.to = Fresh(t, r) /\ x \notin Incidents
      BY <1>1, <1>3, <1>6, <2>2, <2>6, StatusFacts DEF Settled, InHand
    <3>2. CASE Visible(t, r) # s.to
      <4>1. /\ Len(p) = 1 /\ 1 \in 1..Len(p)
            /\ p[1].op = "update" /\ p[1].rows = {r} /\ p[1].to = s.to
        BY <1>8, <2>6, <3>1, <3>2
      <4>2. txn'[t].todo # <<>> /\ txn'[t].todo[1] = p[1]
        <5>1. p \in Seq(Statement) /\ Len(p) >= 1
          BY <1>8, <4>1
        <5>2. txn'[t].todo = p \o Tail(txn[t].todo)
          BY <1>11
        <5>3. PICK new, old : new = txn'[t].todo /\ old = txn[t].todo
          OBVIOUS
        <5>4. new = p \o Tail(old) /\ old \in Seq(Statement) /\ old # <<>>
          BY <1>1, <1>10, <5>2, <5>3
        <5>5. new # <<>> /\ new[1] = p[1]
          BY <5>1, <5>4, NextStatement
        <5>6. QED BY <5>3, <5>5
      <4>3. txn'[t].loaded[r] # s.to
        BY <1>7, <1>11, <2>6, <3>2
      <4>4. QED BY <2>4, <3>1, <4>1, <4>2, <4>3 DEF Settled, InHand
    <3>3. CASE Visible(t, r) = s.to
      <4>1. Len(p) = 0
        BY <1>8, <2>6, <3>1, <3>3
      <4>2. ~ InHand(t, r)'
        BY <1>1, <1>4, <1>8, <1>12, <4>1, NothingPushed
      <4>3. QED BY <2>3, <2>4, <3>1, <3>3, <4>2 DEF Settled
    <3>4. QED BY <3>2, <3>3
  <2>7. QED BY <2>5, <2>6
<1>16. RunningOK(t)'
  BY <1>11, <1>13, <1>14, <1>15 DEF RunningOK, ReportsFollow
<1>17. \A u \in Requests \ {t} :
         Active(u) => DOMAIN txn[t].wrote \cap DOMAIN txn[u].wrote = {}
  BY <1>1 DEF RacesInv, LocksExclusive
<1>18. QED
  BY <1>1, <1>7, <1>8, <1>9, <1>10, <1>16, <1>17, ProceedKeepsInv

LEMMA RecomputeKeepsInv ==
  ASSUME RacesInv, NEW t \in Requests, Recompute(t)
  PROVE  RacesInv'
<1> PICK s : s = txn[t].todo[1]
  OBVIOUS
<1>1. /\ Active(t) /\ txn[t].todo # <<>> /\ Typed /\ RunningOK(t)
  BY DEF Recompute, Upcoming, RacesInv
<1>2. /\ Head(txn[t].todo) = s /\ s \in Statement /\ s.rows \subseteq Rows
      /\ 1 \in 1..Len(txn[t].todo)
  BY <1>1, FirstStatement
<1>3. s.op = "recompute"
  BY <1>2 DEF Recompute, Upcoming
<1>4. IsStaff(t) /\ s.rows \subseteq Reports
  BY <1>1, <1>2, <1>3 DEF RunningOK, TodoOK, CitizenStatement, StaffStatement
<1>5. PICK r \in s.rows :
        Proceed(t, txn[t].loaded, txn[t].wrote,
                Do("load", {r}, Aggregate([i \in Incidents |-> Visible(t, i)], r))
                  \o Do("recompute", s.rows \ {r}, None))
  BY <1>2 DEF Recompute
<1>ab. PICK a, b : /\ a = [op |-> "load", rows |-> {r}, to |-> Fresh(t, r)]
                    /\ b = [op |-> "recompute", rows |-> s.rows \ {r}, to |-> None]
  OBVIOUS
<1>p. PICK p : p = Do(a.op, a.rows, a.to) \o Do(b.op, b.rows, b.to)
  OBVIOUS
<1>6. r \in Reports /\ Fresh(t, r) \in IntakeStatus /\ Fresh(t, r) \in Statuses
  BY <1>1, <1>4, FreshTyped DEF Statuses
<1>7. /\ a \in Statement /\ b \in Statement
      /\ a.op = "load" /\ a.rows = {r} /\ a.to = Fresh(t, r)
      /\ b.op = "recompute" /\ b.rows = s.rows \ {r} /\ b.to = None
  BY <1>ab, <1>2, <1>6, StatusFacts DEF Statement
<1>8. TwoOf(p, a, b)
  BY <1>p, <1>7, DoTwoFacts
<1>9. /\ p \in Seq(Statement)
      /\ \A k \in 1..Len(p) : (p[k] = a /\ k = 1) \/ p[k] = b
      /\ Len(p) >= 1 /\ p[1] = a
      /\ b.rows # {} => \E k \in 1..Len(p) : p[k] = b
  <2>1. a.rows # {}
    BY <1>7
  <2>2. QED BY <1>8, <2>1 DEF TwoOf
<1>10. Proceed(t, txn[t].loaded, txn[t].wrote, p)
  BY <1>p, <1>5, <1>7 DEF Fresh
<1>11. /\ txn[t].wrote \in PartialRows /\ PartlyTyped(txn[t].wrote)
       /\ txn[t].loaded \in PartialRows /\ PartlyTyped(txn[t].loaded)
       /\ txn[t].todo \in Seq(Statement)
  BY <1>1, TransactionFields
<1>12. /\ table' = table
       /\ txn'[t].state = "active" /\ txn'[t].call = txn[t].call
       /\ txn'[t].loaded = txn[t].loaded /\ txn'[t].wrote = txn[t].wrote
       /\ txn'[t].todo = p \o Tail(txn[t].todo)
       /\ txn'[t].alone = txn[t].alone
       /\ \A u \in Requests \ {t} : txn'[u] = txn[u]
  <2>1. After(t, txn[t].loaded, txn[t].wrote, p)
    BY <1>1, <1>9, <1>10, <1>11, ProceedFacts
  <2>2. QED BY <2>1 DEF After
<1>13. Pushes(t, p)
  BY <1>12 DEF Pushes
<1>14. OwnsRows(t)' /\ TodoOK(t)'
  <2>1. \A y \in DOMAIN txn'[t].wrote : Owns(t, y)'
    BY <1>1, <1>12, <1>13, OwnsGrows DEF RunningOK, OwnsRows
  <2>2. \A y \in s.rows : Owns(t, y)'
    BY <1>1, <1>2, <1>13, OwnsGrows DEF RunningOK, OwnsRows
  <2>3. ASSUME NEW k \in 1..Len(p)
        PROVE  /\ Assignable(p[k])
               /\ StaffStatement(txn[t].call, p[k], k)
               /\ \A y \in p[k].rows : Owns(t, y)'
    <3>1. CASE p[k] = a /\ k = 1
      <4>1. Assignable(a)
        BY <1>6, <1>7, StatusFacts DEF Assignable
      <4>2. StaffStatement(txn[t].call, a, 1)
        BY <1>6, <1>7 DEF StaffStatement
      <4>3. QED BY <1>7, <2>2, <3>1, <4>1, <4>2
    <3>2. CASE p[k] = b
      BY <1>4, <1>7, <2>2, <3>2 DEF Assignable, StaffStatement
    <3>3. (p[k] = a /\ k = 1) \/ p[k] = b
      BY <1>9
    <3>4. QED BY <3>1, <3>2, <3>3
  <2>4. QED BY <1>1, <1>4, <1>9, <1>13, <2>1, <2>3, PushKeeps
<1>15. ResolveOK(t)'
  BY <1>1, <1>3, <1>12 DEF RunningOK, ResolveOK
<1>16. ASSUME NEW q \in Reports, Guarded(t, q)'
       PROVE  Settled(t, q)'
  <2>1. Guarded(t, q)
    BY <1>1, <1>12, <1>13, <1>16, GuardedBefore
  <2>2. Settled(t, q)
    BY <1>1, <1>4, <2>1 DEF RunningOK, ReportsFollow
  <2>3. \A y : Visible(t, y)' = Visible(t, y)
    BY <1>12 DEF Visible
  <2>4. Fresh(t, q)' = Fresh(t, q)
    BY <2>3 DEF Fresh
  <2>5. CASE q # r
    <3>1. ~ InHand(t, q)
      BY <1>3 DEF InHand
    <3>2. ~ (p[1].op \in {"load", "update"} /\ p[1].rows = {q})
      BY <1>7, <1>9, <2>5
    <3>3. q \in s.rows =>
            \E k \in 1..Len(p) : p[k].op = "recompute" /\ q \in p[k].rows
      <4>1. SUFFICES ASSUME q \in s.rows
                     PROVE  \E k \in 1..Len(p) :
                              p[k].op = "recompute" /\ q \in p[k].rows
        OBVIOUS
      <4>2. q \in b.rows
        BY <1>7, <2>5, <4>1
      <4>3. PICK k \in 1..Len(p) : p[k] = b
        BY <1>9, <4>2
      <4>4. QED BY <1>7, <4>2, <4>3
    <3>4. (txn[t].todo[1].op = "recompute" /\ q \in txn[t].todo[1].rows) =>
            \E k \in 1..Len(p) : p[k].op = "recompute" /\ q \in p[k].rows
      BY <3>3
    <3>5. p \in Seq(Statement) /\ Visible(t, q)' = Visible(t, q)
      BY <1>9, <2>3
    <3>6. QED BY <1>1, <1>4, <1>13, <2>2, <2>4, <3>1, <3>2, <3>4, <3>5, Elsewhere
  <2>6. CASE q = r
    <3>1. PICK new, old : new = txn'[t].todo /\ old = txn[t].todo
      OBVIOUS
    <3>2. new = p \o Tail(old) /\ old \in Seq(Statement) /\ old # <<>>
      BY <1>1, <1>11, <1>12, <3>1
    <3>3. new # <<>> /\ new[1] = p[1]
      BY <1>9, <3>2, NextStatement
    <3>4. txn'[t].todo # <<>> /\ txn'[t].todo[1] = a
      BY <1>9, <3>1, <3>3
    <3>5. QED BY <1>7, <2>4, <2>6, <3>4 DEF Settled, InHand
  <2>7. QED BY <2>5, <2>6
<1>17. RunningOK(t)'
  BY <1>12, <1>14, <1>15, <1>16 DEF RunningOK, ReportsFollow
<1>18. \A u \in Requests \ {t} :
         Active(u) => DOMAIN txn[t].wrote \cap DOMAIN txn[u].wrote = {}
  BY <1>1 DEF RacesInv, LocksExclusive
<1>19. QED
  BY <1>1, <1>9, <1>10, <1>11, <1>17, <1>18, ProceedKeepsInv

LEMMA FreshSame ==
  ASSUME NEW t \in Requests, NEW r \in Reports,
         \A i \in ChildrenOf(r) : Visible(t, i)' = Visible(t, i)
  PROVE  Fresh(t, r)' = Fresh(t, r)
<1> PICK old, new : /\ old = [i \in Incidents |-> Visible(t, i)]
                    /\ new = [i \in Incidents |-> Visible(t, i)']
  OBVIOUS
<1>1. \A i \in ChildrenOf(r) : i \in Incidents /\ new[i] = old[i]
  BY DEF ChildrenOf
<1>2. {new[i] : i \in ChildrenOf(r)} = {old[i] : i \in ChildrenOf(r)}
  BY <1>1
<1>3. Fresh(t, r) = CalculateIntakeStatus({old[i] : i \in ChildrenOf(r)})
  BY DEF Fresh, Aggregate
<1>4. Fresh(t, r)' = CalculateIntakeStatus({new[i] : i \in ChildrenOf(r)})
  BY DEF Fresh, Aggregate
<1>5. QED BY <1>2, <1>3, <1>4

LEMMA WriteKeepsInv ==
  ASSUME RacesInv, NEW t \in Requests, Write(t)
  PROVE  RacesInv'
<1>s. PICK s : s = txn[t].todo[1]
  OBVIOUS
<1>1. /\ Active(t) /\ txn[t].todo # <<>> /\ Typed /\ RunningOK(t)
  BY DEF Write, Upcoming, RacesInv
<1>2. /\ Head(txn[t].todo) = s /\ s \in Statement /\ s.rows \subseteq Rows
      /\ s.to \in Statuses \cup {None}
      /\ 1 \in 1..Len(txn[t].todo)
  BY <1>s, <1>1, FirstStatement
<1>3. s.op = "update" \/ s.op = "move"
  BY <1>2 DEF Write, Upcoming
<1>4. /\ Assignable(s)
      /\ IsStaff(t) => StaffStatement(txn[t].call, s, 1)
      /\ ~ IsStaff(t) => s.op = "update"
  BY <1>s, <1>1, <1>2, <1>3 DEF RunningOK, TodoOK, CitizenStatement
<1>5. PICK x \in s.rows :
        /\ ~ Locked(t, x)
        /\ Proceed(t, Put(txn[t].loaded, x, s.to),
                   Put(txn[t].wrote, x,
                       IF s.to # txn[t].loaded[x] THEN s.to ELSE Visible(t, x)),
                   (IF s.op = "move"
                      THEN Do("recompute", ParentsOf(x), None)
                      ELSE <<>>)
                     \o Do(s.op, s.rows \ {x}, s.to))
  BY <1>2 DEF Write
<1>w. PICK w : w = IF s.to # txn[t].loaded[x] THEN s.to ELSE Visible(t, x)
  OBVIOUS
<1>l. PICK loaded : loaded = Put(txn[t].loaded, x, s.to)
  OBVIOUS
<1>r. PICK wrote : wrote = Put(txn[t].wrote, x, w)
  OBVIOUS
<1>ab. PICK a, b :
         /\ a = [op |-> "recompute",
                 rows |-> IF s.op = "move" THEN ParentsOf(x) ELSE {},
                 to |-> None]
         /\ b = [op |-> s.op, rows |-> s.rows \ {x}, to |-> s.to]
  OBVIOUS
<1>p. PICK p : p = Do(a.op, a.rows, a.to) \o Do(b.op, b.rows, b.to)
  OBVIOUS
<1>6. x \in Rows /\ s.to \in StatusOf(x) /\ Owns(t, x)
  BY <1>s, <1>1, <1>2, <1>3, <1>4 DEF Assignable, RunningOK, OwnsRows
<1>7. ParentsOf(x) \subseteq Reports
  BY DEF ParentsOf
<1>8. /\ a \in Statement /\ b \in Statement
      /\ a.op = "recompute" /\ a.to = None
      /\ a.rows = IF s.op = "move" THEN ParentsOf(x) ELSE {}
      /\ b.op = s.op /\ b.rows = s.rows \ {x} /\ b.to = s.to
  <2>1. a.rows \subseteq Rows /\ a.rows = IF s.op = "move" THEN ParentsOf(x) ELSE {}
    BY <1>ab, <1>7, StatusFacts
  <2>2. a.op = "recompute" /\ a.to = None /\ a \in Statement
    BY <1>ab, <2>1 DEF Statement
  <2>3. b.op = s.op /\ b.rows = s.rows \ {x} /\ b.to = s.to
    BY <1>ab
  <2>4. b \in Statement
    BY <1>ab, <1>2, <1>3 DEF Statement
  <2>5. QED BY <2>1, <2>2, <2>3, <2>4
<1>9. TwoOf(p, a, b)
  BY <1>p, <1>8, DoTwoFacts
<1>10. /\ p \in Seq(Statement)
       /\ \A k \in 1..Len(p) : \/ p[k] = a /\ a.rows # {} /\ k = 1
                               \/ p[k] = b /\ b.rows # {}
       /\ a.rows # {} => Len(p) >= 1 /\ p[1] = a
       /\ a.rows = {} /\ b.rows = {} => Len(p) = 0
  BY <1>9 DEF TwoOf
<1>11. Proceed(t, loaded, wrote, p)
  <2>1. (IF s.op = "move" THEN Do("recompute", ParentsOf(x), None) ELSE <<>>)
          = Do(a.op, a.rows, a.to)
    BY <1>8 DEF Do
  <2>2. Do(s.op, s.rows \ {x}, s.to) = Do(b.op, b.rows, b.to)
    BY <1>8
  <2>3. QED BY <1>w, <1>l, <1>r, <1>p, <1>5, <2>1, <2>2
<1>12. w \in StatusOf(x)
  BY <1>w, <1>1, <1>6, VisibleTyped
<1>13. /\ loaded \in PartialRows /\ PartlyTyped(loaded)
       /\ wrote \in PartialRows /\ PartlyTyped(wrote)
       /\ DOMAIN wrote = DOMAIN txn[t].wrote \cup {x}
       /\ wrote[x] = w
       /\ \A y \in DOMAIN txn[t].wrote \ {x} : wrote[y] = txn[t].wrote[y]
  <2>1. /\ txn[t].wrote \in PartialRows /\ PartlyTyped(txn[t].wrote)
        /\ txn[t].loaded \in PartialRows /\ PartlyTyped(txn[t].loaded)
    BY <1>1, TransactionFields
  <2>2. loaded \in PartialRows /\ PartlyTyped(loaded)
    BY <1>l, <1>6, <2>1, PutFacts
  <2>3. wrote \in PartialRows /\ PartlyTyped(wrote)
    BY <1>r, <1>6, <1>12, <2>1, PutFacts
  <2>4. /\ DOMAIN wrote = DOMAIN txn[t].wrote \cup {x}
        /\ wrote[x] = w
        /\ \A y \in DOMAIN txn[t].wrote \ {x} : wrote[y] = txn[t].wrote[y]
    BY <1>r DEF Put
  <2>5. QED BY <2>2, <2>3, <2>4
<1>14. /\ table' = table
       /\ txn'[t].state = "active" /\ txn'[t].call = txn[t].call
       /\ txn'[t].loaded = loaded /\ txn'[t].wrote = wrote
       /\ txn'[t].todo = p \o Tail(txn[t].todo)
       /\ txn'[t].alone = txn[t].alone
       /\ \A u \in Requests \ {t} : txn'[u] = txn[u]
  <2>1. After(t, loaded, wrote, p)
    BY <1>1, <1>10, <1>11, <1>13, ProceedFacts
  <2>2. QED BY <2>1 DEF After
<1>15. Pushes(t, p)
  BY <1>13, <1>14 DEF Pushes
<1>16. /\ Visible(t, x)' = w
       /\ \A y : y # x => Visible(t, y)' = Visible(t, y)
  BY <1>13, <1>14 DEF Visible
<1>17. IsStaff(t) /\ s.op = "update" => a.rows = {} /\ b.rows = {} /\ s.rows = {x}
  <2>1. IsStaff(t) /\ s.op = "update" => s.rows = {x}
    BY <1>4 DEF StaffStatement
  <2>2. QED BY <1>8, <2>1
<1>18. s.op = "move" => x \in Incidents /\ s.rows \subseteq Incidents
  BY <1>4 DEF StaffStatement
<1>19. OwnsRows(t)' /\ TodoOK(t)'
  <2>1. \A y \in s.rows : Owns(t, y)'
    BY <1>s, <1>1, <1>2, <1>15, OwnsGrows DEF RunningOK, OwnsRows
  <2>2. \A y \in DOMAIN txn'[t].wrote : Owns(t, y)'
    <3>1. \A y \in DOMAIN txn[t].wrote : Owns(t, y)'
      BY <1>1, <1>15, OwnsGrows DEF RunningOK, OwnsRows
    <3>2. QED BY <1>13, <1>14, <2>1, <3>1
  <2>3. \A y \in a.rows : IsStaff(t) => Owns(t, y)'
    <3>1. SUFFICES ASSUME NEW y \in a.rows, IsStaff(t)
                   PROVE  \E i \in ChildrenOf(y) : i \in DOMAIN txn'[t].wrote
      BY <1>14 DEF Owns, IsStaff
    <3>2. s.op = "move" /\ x \in ChildrenOf(y)
      BY <1>8, <1>18 DEF ParentsOf, ChildrenOf
    <3>3. QED BY <1>13, <1>14, <3>2
  <2>4. ASSUME NEW k \in 1..Len(p)
        PROVE  /\ Assignable(p[k])
               /\ IF IsStaff(t) THEN StaffStatement(txn[t].call, p[k], k)
                                ELSE CitizenStatement(p[k])
               /\ \A y \in p[k].rows : Owns(t, y)'
    <3>1. CASE p[k] = a /\ a.rows # {}
      <4>1. s.op = "move" /\ IsStaff(t)
        BY <1>4, <1>8, <1>3, <3>1
      <4>2. Assignable(a)
        BY <1>8 DEF Assignable
      <4>3. StaffStatement(txn[t].call, a, k)
        BY <1>7, <1>8, <4>1 DEF StaffStatement
      <4>4. QED BY <2>3, <3>1, <4>1, <4>2, <4>3
    <3>2. CASE p[k] = b /\ b.rows # {}
      <4>1. Assignable(b) /\ \A y \in b.rows : Owns(t, y)'
        BY <1>4, <1>3, <1>8, <2>1 DEF Assignable
      <4>2. IsStaff(t) => StaffStatement(txn[t].call, b, k)
        <5>1. SUFFICES ASSUME IsStaff(t)
                       PROVE  StaffStatement(txn[t].call, b, k)
          OBVIOUS
        <5>2. s.op = "move"
          BY <1>3, <1>17, <3>2, <5>1
        <5>3. QED BY <1>8, <1>18, <5>2 DEF StaffStatement
      <4>3. ~ IsStaff(t) => CitizenStatement(b)
        BY <1>4, <1>8 DEF CitizenStatement
      <4>4. QED BY <3>2, <4>1, <4>2, <4>3
    <3>3. \/ p[k] = a /\ a.rows # {}
          \/ p[k] = b /\ b.rows # {}
      BY <1>10
    <3>4. QED BY <3>1, <3>2, <3>3
  <2>5. p \in Seq(Statement)
    BY <1>10
  <2>6. QED BY <1>1, <1>15, <2>2, <2>4, <2>5, PushKeeps
<1>20. ResolveOK(t)'
  <2>1. SUFFICES ASSUME txn[t].call.handler = "resolve"
                 PROVE  /\ txn[t].call.row \in DOMAIN wrote
                        /\ wrote[txn[t].call.row] = "completed"
    BY <1>14 DEF ResolveOK
  <2>o. PICK o : o = txn[t].call.row
    OBVIOUS
  <2>2. o \in Orders /\ o \notin Incidents /\ o \notin Reports /\ IsStaff(t)
    <3>1. txn[t].call \in Calls
      BY <1>1, TransactionFields
    <3>2. QED BY <2>1, <2>o, <3>1, CallFacts, StatusFacts DEF IsStaff, Staff
  <2>3. \/ s.op = "update" /\ s.rows = {o} /\ txn[t].loaded[o] # "completed"
        \/ o \in DOMAIN txn[t].wrote /\ txn[t].wrote[o] = "completed"
    BY <1>s, <1>1, <2>1, <2>o DEF RunningOK, ResolveOK
  <2>4. CASE x = o
    <3>1. s.op = "update" /\ s.rows = {o}
      BY <1>3, <1>17, <1>18, <2>2, <2>4
    <3>2. s.to = "completed"
      <4>1. ~ \E y \in Reports : s.rows = {y}
        BY <2>2, <3>1
      <4>2. s.to = Outcome(txn[t].call)
        BY <1>4, <2>2, <3>1, <4>1 DEF StaffStatement
      <4>3. QED BY <2>1, <4>2 DEF Outcome
    <3>3. w = "completed"
      BY <1>w, <2>3, <2>4, <3>2 DEF Visible
    <3>4. QED BY <1>13, <2>o, <2>4, <3>3
  <2>5. CASE x # o
    <3>1. o \in DOMAIN txn[t].wrote \ {x} /\ txn[t].wrote[o] = "completed"
      BY <2>3, <2>5
    <3>2. QED BY <1>13, <2>o, <3>1
  <2>6. QED BY <2>4, <2>5
<1>21. ASSUME IsStaff(t), NEW r \in Reports, Guarded(t, r)'
       PROVE  Settled(t, r)'
  <2>1. CASE x \in Incidents /\ r \in ParentsOf(x)
    <3>1. s.op = "move"
      <4>1. ~ (s.op = "update" /\ s.rows = {x})
        <5>1. txn[t].call.handler \in {"start", "resolve"} =>
                txn[t].call.row \notin Incidents
          <6>1. txn[t].call \in Calls
            BY <1>1, TransactionFields
          <6>2. QED BY <6>1, CallFacts, StatusFacts
        <5>2. QED BY <1>4, <1>21, <2>1, <5>1, StatusFacts DEF StaffStatement
      <4>2. QED BY <1>3, <1>17, <1>21, <4>1
    <3>2. /\ a.rows # {} /\ r \in a.rows /\ a.op = "recompute"
          /\ Len(p) >= 1 /\ p[1] = a
      <4>1. a.rows # {} /\ r \in a.rows
        BY <1>8, <2>1, <3>1
      <4>2. QED BY <1>8, <1>10, <4>1
    <3>3. PICK new, old : new = txn'[t].todo /\ old = txn[t].todo
      OBVIOUS
    <3>4. /\ new = p \o Tail(old) /\ old \in Seq(Statement) /\ old # <<>>
          /\ new \in Seq(Statement)
      <4>1. p \in Seq(Statement) /\ old \in Seq(Statement) /\ old # <<>>
        BY <1>1, <1>10, <3>3, TransactionFields
      <4>2. new = p \o Tail(old)
        BY <1>14, <3>3
      <4>3. QED BY <4>1, <4>2
    <3>5. new # <<>> /\ new[1] = p[1]
      BY <1>10, <3>2, <3>4, NextStatement
    <3>6. 1 \in 1..Len(new)
      BY <3>4, <3>5
    <3>7. txn'[t].todo[1].op = "recompute" /\ r \in txn'[t].todo[1].rows
      BY <3>2, <3>3, <3>5
    <3>8. QED BY <3>3, <3>6, <3>7 DEF Settled, InHand, InLine
  <2>2. CASE ~ (x \in Incidents /\ r \in ParentsOf(x))
    <3>1. x \notin ChildrenOf(r)
      BY <2>2 DEF ChildrenOf, ParentsOf
    <3>2. Guarded(t, r)
      <4>1. \A i \in ChildrenOf(r) :
              i \in DOMAIN txn'[t].wrote => i \in DOMAIN txn[t].wrote
        BY <1>13, <1>14, <3>1
      <4>2. QED BY <1>1, <1>14, <1>15, <1>21, <4>1, GuardedBefore
    <3>3. Settled(t, r)
      BY <1>1, <1>21, <3>2 DEF RunningOK, ReportsFollow
    <3>4. Fresh(t, r)' = Fresh(t, r)
      <4>1. \A i \in ChildrenOf(r) : Visible(t, i)' = Visible(t, i)
        BY <1>16, <3>1
      <4>2. QED BY <4>1, FreshSame
    <3>5. CASE x # r
      <4>1. ~ InHand(t, r)
        <5>1. ~ (s.op \in {"load", "update"} /\ s.rows = {r})
          BY <1>3, <3>5
        <5>2. QED BY <1>s, <5>1 DEF InHand
      <4>2. Len(p) >= 1 =>
              ~ (p[1].op \in {"load", "update"} /\ p[1].rows = {r})
        <5>1. SUFFICES ASSUME Len(p) >= 1
                       PROVE  ~ p[1].op \in {"load", "update"}
          OBVIOUS
        <5>2. 1 \in 1..Len(p)
          BY <1>10, <5>1
        <5>3. \/ p[1] = a
              \/ p[1] = b /\ b.rows # {}
          BY <1>10, <5>2
        <5>4. b.rows # {} => b.op = "move"
          BY <1>3, <1>8, <1>17, <1>21
        <5>5. QED BY <1>8, <5>3, <5>4
      <4>3. ~ (txn[t].todo[1].op = "recompute" /\ r \in txn[t].todo[1].rows)
        BY <1>s, <1>3
      <4>4. p \in Seq(Statement) /\ Visible(t, r)' = Visible(t, r)
        BY <1>10, <1>16, <3>5
      <4>5. QED BY <1>1, <1>15, <1>21, <3>3, <3>4, <4>1, <4>2, <4>3, <4>4,
                   Elsewhere
    <3>6. CASE x = r
      <4>1. s.op = "update"
        BY <1>3, <1>18, <3>6, StatusFacts
      <4>2. s.rows = {r} /\ Len(p) = 0
        BY <1>10, <1>17, <1>21, <3>6, <4>1
      <4>3. s.to = Fresh(t, r) /\ txn[t].loaded[r] # s.to
        BY <1>s, <1>1, <3>3, <4>1, <4>2 DEF Settled, InHand
      <4>4. Visible(t, r)' = s.to
        BY <1>w, <1>16, <3>6, <4>3
      <4>5. ~ InHand(t, r)'
        <5>1. p \in Seq(Statement)
          BY <1>10
        <5>2. QED BY <1>1, <1>15, <1>21, <4>2, <5>1, NothingPushed
      <4>6. QED BY <3>4, <4>3, <4>4, <4>5 DEF Settled
    <3>7. QED BY <3>5, <3>6
  <2>3. QED BY <2>1, <2>2
<1>22. RunningOK(t)'
  BY <1>14, <1>19, <1>20, <1>21 DEF RunningOK, ReportsFollow, IsStaff
<1>23. \A u \in Requests \ {t} :
         Active(u) => DOMAIN wrote \cap DOMAIN txn[u].wrote = {}
  BY <1>1, <1>5, <1>13 DEF RacesInv, LocksExclusive, Locked
<1>24. QED
  BY <1>1, <1>10, <1>11, <1>13, <1>22, <1>23, ProceedKeepsInv

LEMMA AnswerKeepsInv ==
  ASSUME RacesInv, NEW t \in Requests, Answer(t)
  PROVE  RacesInv'
<1>s. PICK s : s = txn[t].todo[1]
  OBVIOUS
<1>1. /\ Active(t) /\ txn[t].todo # <<>> /\ Typed /\ RunningOK(t)
  BY DEF Answer, Upcoming, RacesInv
<1>2. /\ Head(txn[t].todo) = s /\ s \in Statement /\ s.rows \subseteq Rows
      /\ s.to \in Statuses \cup {None}
      /\ 1 \in 1..Len(txn[t].todo)
  BY <1>s, <1>1, FirstStatement
<1>3. s.op = "answer"
  BY <1>2 DEF Answer, Upcoming
<1>4. /\ Assignable(s) /\ ~ IsStaff(t)
      /\ \A x \in s.rows : Owns(t, x)
  BY <1>s, <1>1, <1>2, <1>3 DEF RunningOK, TodoOK, OwnsRows, StaffStatement
<1>q. PICK r : r = txn[t].call.row
  OBVIOUS
<1>5. r \in Reports /\ r \in Rows
  <2>1. txn[t].call \in Calls
    BY <1>1, TransactionFields
  <2>2. QED BY <1>4, <1>q, <2>1, CallFacts, StatusFacts DEF IsStaff
<1>6. /\ txn[t].loaded \in PartialRows /\ PartlyTyped(txn[t].loaded)
      /\ txn[t].wrote \in PartialRows /\ PartlyTyped(txn[t].wrote)
      /\ txn[t].todo \in Seq(Statement)
  BY <1>1, TransactionFields
<1>d. PICK resolved, read :
        /\ resolved = {i \in s.rows : table[i] = "resolved"}
        /\ read = [i \in s.rows |-> table[i]]
  OBVIOUS
<1>l. PICK loaded : loaded = Over(read, txn[t].loaded)
  OBVIOUS
<1>v. PICK v : v = IF s.to = "confirmed" THEN "closed" ELSE "in_progress"
  OBVIOUS
<1>ab. PICK a, b :
         /\ a = [op |-> "update", rows |-> IF loaded[r] = v THEN {} ELSE {r},
                 to |-> v]
         /\ b = [op |-> "update", rows |-> resolved, to |-> s.to]
  OBVIOUS
<1>7. /\ a \in Statement /\ a.op = "update" /\ a.to = v /\ a.rows \subseteq {r}
      /\ a.rows = (IF loaded[r] = v THEN {} ELSE {r})
      /\ v \in IntakeStatus
  <2>1. v \in IntakeStatus /\ v \in Statuses
    BY <1>v DEF IntakeStatus, Statuses
  <2>2. a.op = "update" /\ a.to = v /\ a.rows \subseteq {r}
    BY <1>ab
  <2>3. a.rows = (IF loaded[r] = v THEN {} ELSE {r})
    BY <1>ab
  <2>4. a \in Statement
    <3>1. a.rows \in SUBSET Rows
      BY <1>5, <2>2
    <3>2. QED BY <1>ab, <2>1, <2>2, <3>1 DEF Statement
  <2>5. QED BY <2>1, <2>2, <2>3, <2>4
<1>8. /\ b \in Statement /\ b.op = "update" /\ b.to = s.to
      /\ b.rows = resolved /\ b.rows \subseteq s.rows
  <2>1. b.op = "update" /\ b.to = s.to /\ b.rows = resolved /\ b.rows \subseteq s.rows
    BY <1>ab, <1>d
  <2>2. b \in Statement
    BY <1>ab, <1>2, <2>1 DEF Statement
  <2>3. QED BY <2>1, <2>2
<1>9. PICK p : /\ Proceed(t, loaded, txn[t].wrote, p)
               /\ TwoOf(p, a, b) \/ TwoOf(p, b, a)
  <2>r. PICK report, children :
          /\ report = Flush(r, v, loaded)
          /\ children = Do("update", resolved, s.to)
    OBVIOUS
  <2>1. \E todo \in {report \o children, children \o report} :
          Proceed(t, loaded, txn[t].wrote, todo)
    BY <2>r, <1>2, <1>q, <1>d, <1>l, <1>v DEF Answer
  <2>2. report = Do(a.op, a.rows, a.to)
    BY <2>r, <1>7 DEF Flush, Do
  <2>3. children = Do(b.op, b.rows, b.to)
    BY <2>r, <1>8
  <2>4. PICK p : /\ p = report \o children \/ p = children \o report
                 /\ Proceed(t, loaded, txn[t].wrote, p)
    BY <2>1
  <2>5. CASE p = report \o children
    BY <1>7, <1>8, <2>2, <2>3, <2>4, <2>5, DoTwoFacts
  <2>6. CASE p = children \o report
    BY <1>7, <1>8, <2>2, <2>3, <2>4, <2>6, DoTwoFacts
  <2>7. QED BY <2>4, <2>5, <2>6
<1>10. /\ p \in Seq(Statement)
       /\ \A k \in 1..Len(p) : p[k] = a \/ p[k] = b
  BY <1>9 DEF TwoOf
<1>11. loaded \in PartialRows /\ PartlyTyped(loaded)
  <2>1. /\ \A x \in s.rows : table[x] \in StatusOf(x) /\ table[x] \in Statuses
        /\ s.rows \in SUBSET Rows
    BY <1>1, <1>2 DEF Typed, PartlyTyped
  <2>2. read \in PartialRows /\ PartlyTyped(read)
    BY <1>d, <2>1 DEF PartialRows, PartlyTyped
  <2>3. QED BY <1>l, <1>6, <2>2, OverFacts
<1>12. /\ table' = table
       /\ txn'[t].state = "active" /\ txn'[t].call = txn[t].call
       /\ txn'[t].wrote = txn[t].wrote
       /\ txn'[t].todo = p \o Tail(txn[t].todo)
       /\ txn'[t].alone = txn[t].alone
  <2>1. After(t, loaded, txn[t].wrote, p)
    BY <1>1, <1>6, <1>9, <1>10, <1>11, ProceedFacts
  <2>2. QED BY <2>1 DEF After
<1>13. Pushes(t, p)
  BY <1>12 DEF Pushes
<1>14. OwnsRows(t)' /\ TodoOK(t)'
  <2>1. \A y \in DOMAIN txn'[t].wrote : Owns(t, y)'
    BY <1>1, <1>12, <1>13, OwnsGrows DEF RunningOK, OwnsRows
  <2>2. \A y \in s.rows \cup {r} : Owns(t, y)'
    <3>1. Owns(t, r)
      BY <1>4, <1>q DEF Owns
    <3>2. QED BY <1>4, <1>13, <3>1, OwnsGrows
  <2>3. ASSUME NEW k \in 1..Len(p)
        PROVE  /\ Assignable(p[k])
               /\ CitizenStatement(p[k])
               /\ \A y \in p[k].rows : Owns(t, y)'
    <3>1. CASE p[k] = a
      BY <1>5, <1>7, <2>2, <3>1, StatusFacts DEF Assignable, CitizenStatement
    <3>2. CASE p[k] = b
      BY <1>3, <1>4, <1>8, <2>2, <3>2 DEF Assignable, CitizenStatement
    <3>3. p[k] = a \/ p[k] = b
      BY <1>10
    <3>4. QED BY <3>1, <3>2, <3>3
  <2>4. p \in Seq(Statement)
    BY <1>10
  <2>5. QED BY <1>1, <1>4, <1>13, <2>1, <2>3, <2>4, PushKeeps
<1>15. ResolveOK(t)' /\ ReportsFollow(t)'
  BY <1>4, <1>12 DEF ResolveOK, ReportsFollow, IsStaff, Staff
<1>16. RunningOK(t)'
  BY <1>14, <1>15 DEF RunningOK
<1>17. \A u \in Requests \ {t} :
         Active(u) => DOMAIN txn[t].wrote \cap DOMAIN txn[u].wrote = {}
  BY <1>1 DEF RacesInv, LocksExclusive
<1>18. QED
  BY <1>1, <1>6, <1>9, <1>10, <1>11, <1>16, <1>17, ProceedKeepsInv

------------------------------------------------------------------------------
(***************************************************************************)
(* A request begins.                                                       *)
(***************************************************************************)
Begun(t, c, read, todo) ==
  /\ Typed' /\ table' = table /\ ~ Active(t) /\ txn[t].state = "new"
  /\ txn'[t].state = "active" /\ txn'[t].call = c
  /\ txn'[t].loaded = [x \in read |-> table[x]]
  /\ txn'[t].wrote = <<>> /\ txn'[t].todo = todo
  /\ txn'[t].alone => \A v \in Requests : ~ Active(v)
  /\ \A u \in Requests \ {t} : SameRun(u) /\ (txn'[u].alone => ~ Active(u))

LEMMA BeginFacts ==
  ASSUME Typed, NEW t \in Requests, NEW c \in Calls, NEW read \in SUBSET Rows,
         NEW todo \in Seq(Statement), Begin(t, c, read, todo)
  PROVE  Begun(t, c, read, todo)
<1>l. PICK loaded, alone :
        /\ loaded = [x \in read |-> table[x]]
        /\ alone = \A v \in Requests : ~ Active(v)
  OBVIOUS
<1>1. /\ txn[t].state = "new" /\ table' = table
      /\ txn' = [u \in Requests |->
                   IF u = t
                     THEN Transaction("active", c, loaded, todo, alone)
                     ELSE [txn[u] EXCEPT !.alone = @ /\ ~ Active(u)]]
  BY <1>l DEF Begin
<1>2. /\ txn'[t] = Transaction("active", c, loaded, todo, alone)
      /\ \A u \in Requests \ {t} :
           txn'[u] = [txn[u] EXCEPT !.alone = @ /\ ~ Active(u)]
  BY <1>1
<1>3. /\ txn'[t].state = "active" /\ txn'[t].call = c
      /\ txn'[t].loaded = loaded /\ txn'[t].wrote = <<>>
      /\ txn'[t].todo = todo /\ txn'[t].alone = alone
  BY <1>2 DEF Transaction
<1>4. loaded \in PartialRows /\ PartlyTyped(loaded)
  <2>1. \A x \in read : table[x] \in StatusOf(x) /\ table[x] \in Statuses
    BY DEF Typed, PartlyTyped
  <2>2. QED BY <1>l, <2>1 DEF PartialRows, PartlyTyped
<1>5. alone \in BOOLEAN
  BY <1>l
<1>6. txn'[t] \in TransactionRow
  BY <1>2, <1>4, <1>5, NothingWritten DEF Transaction, TransactionRow
<1>7. ASSUME NEW u \in Requests \ {t}
      PROVE  /\ txn'[u] \in TransactionRow /\ SameRun(u)
             /\ txn'[u].alone => ~ Active(u)
  <2>a. PICK active : active \in BOOLEAN /\ (active <=> Active(u))
    BY DEF Active
  <2>r. PICK row : row = txn[u]
    OBVIOUS
  <2>1. row \in TransactionRow /\ row.alone \in BOOLEAN
    BY <2>r DEF Typed, TransactionRow
  <2>2. PICK flag : flag \in BOOLEAN /\ flag = (row.alone /\ ~ Active(u))
    BY <2>1 DEF Active
  <2>3. txn'[u] = [row EXCEPT !.alone = flag]
    BY <1>2, <2>r, <2>2
  <2>4. /\ txn'[u] \in TransactionRow
        /\ txn'[u].state = row.state /\ txn'[u].call = row.call
        /\ txn'[u].loaded = row.loaded /\ txn'[u].todo = row.todo
        /\ txn'[u].wrote = row.wrote /\ txn'[u].alone = flag
    BY <2>1, <2>2, <2>3 DEF TransactionRow
  <2>5. (flag => row.alone) /\ (flag => ~ Active(u))
    BY <2>2
  <2>6. QED BY <2>r, <2>4, <2>5 DEF SameRun
<1>8. Typed'
  <2>1. txn' \in [Requests -> TransactionRow]
    BY <1>1, <1>6, <1>7
  <2>2. \A u \in Requests :
          /\ PartlyTyped(txn'[u].loaded) /\ PartlyTyped(txn'[u].wrote)
          /\ txn'[u].state # "new" => txn'[u].call \in Calls
    <3>1. \A u \in Requests \ {t} :
            /\ PartlyTyped(txn'[u].loaded) /\ PartlyTyped(txn'[u].wrote)
            /\ txn'[u].state # "new" => txn'[u].call \in Calls
      BY <1>7 DEF SameRun, Typed
    <3>2. QED BY <1>3, <1>4, <3>1, NothingWritten
  <2>3. QED BY <1>1, <2>1, <2>2 DEF Typed, PartlyTyped
<1>9. QED BY <1>l, <1>1, <1>3, <1>7, <1>8 DEF Begun, Active

LEMMA BeginKeepsInv ==
  ASSUME RacesInv, NEW t \in Requests, NEW c \in Calls, NEW read \in SUBSET Rows,
         NEW todo \in Seq(Statement), Begin(t, c, read, todo),
         OwnsRows(t)', TodoOK(t)', ResolveOK(t)'
  PROVE  RacesInv'
<1>1. /\ Typed' /\ table' = table /\ ~ Active(t) /\ txn[t].state = "new"
      /\ txn'[t].state = "active" /\ txn'[t].call = c
      /\ txn'[t].wrote = <<>>
      /\ txn'[t].alone => \A v \in Requests : ~ Active(v)
      /\ \A u \in Requests \ {t} :
           /\ SameRun(u)
           /\ txn'[u].alone => ~ Active(u)
  BY BeginFacts DEF RacesInv, Begun
<1>2. \A u \in Requests \ {t} :
        /\ txn'[u].state = txn[u].state /\ txn'[u].call = txn[u].call
        /\ txn'[u].wrote = txn[u].wrote
  BY <1>1 DEF SameRun
<1>3. \A u \in Requests \ {t} : Active(u)' <=> Active(u)
  BY <1>2 DEF Active
<1>4. LocksExclusive'
  BY <1>1, <1>2, <1>3, NothingWritten DEF RacesInv, LocksExclusive
<1>5. AloneIsAlone'
  BY <1>1, <1>3 DEF AloneIsAlone
<1>6. \A i \in Incidents : Unanswered(i)' => Unanswered(i)
  <2>1. \A u \in Requests : txn[u].state = "committed" =>
          txn'[u].state = "committed" /\ txn'[u].call = txn[u].call
    BY <1>1, <1>2
  <2>2. QED BY <2>1, AnswersStay
<1>7. ASSUME NEW u \in Requests \ {t}, Active(u)
      PROVE  RunningOK(u)'
  BY <1>1, <1>6, <1>7, Bystander DEF RacesInv
<1>8. RunningOK(t)'
  <2>1. \A r \in Reports : ~ Guarded(t, r)'
    BY <1>1, NothingWritten DEF Guarded
  <2>2. QED BY <2>1 DEF RunningOK, ReportsFollow
<1>9. SingleChildAggregated'
  BY <1>1, <1>6 DEF RacesInv, SingleChildAggregated, Unanswered
<1>10. QED BY <1>1, <1>3, <1>4, <1>5, <1>7, <1>8, <1>9 DEF RacesInv

(***************************************************************************)
(* The statements a handler starts with.                                   *)
(***************************************************************************)
LEMMA BeginOneKeepsInv ==
  ASSUME RacesInv, NEW t \in Requests, NEW c \in Calls, NEW read \in SUBSET Rows,
         NEW a \in Statement, Assignable(a), c.handler # "resolve",
         IF c.handler \in Staff
           THEN StaffStatement(c, a, 1) /\ a.rows \cap Reports = {}
           ELSE CitizenStatement(a) /\ a.rows \subseteq ChildrenOf(c.row),
         Begin(t, c, read, Do(a.op, a.rows, a.to))
  PROVE  RacesInv'
<1>p. PICK p : p = Do(a.op, a.rows, a.to)
  OBVIOUS
<1>1. TwoOf(p, a, a)
  BY <1>p, DoOneFacts
<1>2. p \in Seq(Statement) /\ \A k \in 1..Len(p) : p[k] = a /\ k = 1
  <2>1. p \in Seq(Statement) /\ Len(p) \in Nat
    BY <1>1 DEF TwoOf
  <2>2. CASE a.rows = {}
    <3>1. Len(p) = 0
      BY <1>1, <2>2 DEF TwoOf
    <3>2. QED BY <2>1, <3>1
  <2>3. CASE a.rows # {}
    <3>1. p = <<a>>
      BY <1>p, <2>3 DEF Do, Statement
    <3>2. Len(p) = 1 /\ p[1] = a
      BY <3>1
    <3>3. QED BY <2>1, <3>2
  <2>4. QED BY <2>2, <2>3
<1>3. Begin(t, c, read, p)
  BY <1>p
<1>4. txn'[t].call = c /\ txn'[t].wrote = <<>> /\ txn'[t].todo = p
  <2>1. Begun(t, c, read, p)
    BY <1>2, <1>3, BeginFacts DEF RacesInv
  <2>2. QED BY <2>1 DEF Begun
<1>5. OwnsRows(t)'
  <2>1. \A x \in a.rows : Owns(t, x)'
    BY <1>4 DEF Owns, IsStaff
  <2>2. \A k \in 1..Len(p) : \A x \in p[k].rows : Owns(t, x)'
    BY <1>2, <2>1
  <2>3. QED BY <1>4, <2>2, NothingWritten DEF OwnsRows
<1>6. TodoOK(t)'
  <2>1. \A k \in 1..Len(p) :
          /\ Assignable(p[k])
          /\ IF c.handler \in Staff THEN StaffStatement(c, p[k], k)
                                    ELSE CitizenStatement(p[k])
    BY <1>2
  <2>2. QED BY <1>4, <2>1 DEF TodoOK, IsStaff
<1>7. ResolveOK(t)'
  BY <1>4 DEF ResolveOK
<1>8. QED BY <1>2, <1>3, <1>5, <1>6, <1>7, BeginKeepsInv

LEMMA BeginPatchKeepsInv ==
  ASSUME RacesInv, NEW t \in Requests, NEW c \in Calls, BeginPatch(t, c)
  PROVE  RacesInv'
<1>a. PICK a : a = [op |-> "move", rows |-> {c.row}, to |-> c.to]
  OBVIOUS
<1>1. c.handler = "patch" /\ c.row \in Incidents /\ c.to \in IncidentStatus
  BY CallFacts DEF BeginPatch
<1>2. {c.row} \in SUBSET Rows /\ c.to \in Statuses
  BY <1>1, StatusFacts DEF Statuses
<1>3. a \in Statement /\ a.op = "move" /\ a.rows = {c.row} /\ a.to = c.to
  BY <1>a, <1>2 DEF Statement
<1>4. Assignable(a)
  BY <1>1, <1>3, StatusFacts DEF Assignable
<1>5. StaffStatement(c, a, 1) /\ a.rows \cap Reports = {}
  BY <1>1, <1>3, StatusFacts DEF StaffStatement
<1>6. Begin(t, c, {c.row}, Do(a.op, a.rows, a.to))
  BY <1>3 DEF BeginPatch
<1>7. c.handler \in Staff /\ c.handler # "resolve"
  BY <1>1 DEF Staff
<1>8. QED BY <1>2, <1>3, <1>4, <1>5, <1>6, <1>7, BeginOneKeepsInv

LEMMA BeginCronKeepsInv ==
  ASSUME RacesInv, NEW t \in Requests, NEW c \in Calls, BeginCron(t, c)
  PROVE  RacesInv'
<1>1. c.handler = "cron"
  BY DEF BeginCron
<1>2. PICK expired \in SUBSET {i \in Incidents : table[i] = "resolved"} :
        Begin(t, c, expired, Do("move", expired, "confirmed"))
  BY DEF BeginCron
<1>a. PICK a : a = [op |-> "move", rows |-> expired, to |-> "confirmed"]
  OBVIOUS
<1>3. expired \subseteq Incidents /\ expired \in SUBSET Rows
  BY StatusFacts
<1>4. "confirmed" \in IncidentStatus /\ "confirmed" \in Statuses
  BY DEF IncidentStatus, Statuses
<1>5. a \in Statement /\ a.op = "move" /\ a.rows = expired /\ a.to = "confirmed"
  BY <1>a, <1>3, <1>4 DEF Statement
<1>6. Assignable(a)
  BY <1>3, <1>4, <1>5, StatusFacts DEF Assignable
<1>7. StaffStatement(c, a, 1) /\ a.rows \cap Reports = {}
  BY <1>3, <1>5, StatusFacts DEF StaffStatement
<1>8. Begin(t, c, expired, Do(a.op, a.rows, a.to))
  BY <1>2, <1>5
<1>9. c.handler \in Staff /\ c.handler # "resolve"
  BY <1>1 DEF Staff
<1>10. QED BY <1>3, <1>5, <1>6, <1>7, <1>8, <1>9, BeginOneKeepsInv

LEMMA BeginAnswerKeepsInv ==
  ASSUME RacesInv, NEW t \in Requests, NEW c \in Calls,
         BeginConfirm(t, c) \/ BeginDispute(t, c)
  PROVE  RacesInv'
<1>1. c.handler \in {"confirm", "dispute"}
  BY DEF BeginConfirm, BeginDispute
<1>2. PICK to \in {"confirmed", "appealed"} :
        Begin(t, c, {c.row}, Do("answer", ChildrenOf(c.row), to))
  BY DEF BeginConfirm, BeginDispute
<1>a. PICK a : a = [op |-> "answer", rows |-> ChildrenOf(c.row), to |-> to]
  OBVIOUS
<1>3. c.handler \notin Staff /\ c.handler # "resolve" /\ c.row \in Reports
  BY <1>1, CallFacts DEF Staff
<1>4. /\ ChildrenOf(c.row) \subseteq Incidents
      /\ ChildrenOf(c.row) \in SUBSET Rows /\ {c.row} \in SUBSET Rows
  BY <1>3, StatusFacts DEF ChildrenOf
<1>5. to \in IncidentStatus /\ to \in Statuses
  BY DEF IncidentStatus, Statuses
<1>6. /\ a \in Statement /\ a.op = "answer" /\ a.rows = ChildrenOf(c.row)
      /\ a.to = to
  BY <1>a, <1>4, <1>5 DEF Statement
<1>7. Assignable(a)
  BY <1>4, <1>5, <1>6, StatusFacts DEF Assignable
<1>8. CitizenStatement(a) /\ a.rows \subseteq ChildrenOf(c.row)
  BY <1>6 DEF CitizenStatement
<1>9. Begin(t, c, {c.row}, Do(a.op, a.rows, a.to))
  BY <1>2, <1>6
<1>10. QED BY <1>3, <1>4, <1>6, <1>7, <1>8, <1>9, BeginOneKeepsInv

LEMMA BeginOrderKeepsInv ==
  ASSUME RacesInv, NEW t \in Requests, NEW c \in Calls,
         BeginStart(t, c) \/ BeginResolve(t, c)
  PROVE  RacesInv'
<1>1. /\ c.handler \in {"start", "resolve"} /\ c.row \in Orders
      /\ c.handler \in Staff
  BY CallFacts DEF BeginStart, BeginResolve, Staff
<1>i. PICK i : i = IncidentOf(c.row)
  OBVIOUS
<1>2. i \in Incidents
  BY <1>i, <1>1, IncidentOfOrder
<1>3. PICK to \in {"in_progress", "resolved"} :
        /\ table[c.row] # "completed"
        /\ Begin(t, c, {c.row}, Do("update", {c.row}, Outcome(c))
                                  \o Do("load", {i}, to))
  BY <1>i DEF BeginStart, BeginResolve, Outcome
<1>ab. PICK a, b :
         /\ a = [op |-> "update", rows |-> {c.row}, to |-> Outcome(c)]
         /\ b = [op |-> "load", rows |-> {i}, to |-> to]
  OBVIOUS
<1>4. /\ {c.row} \in SUBSET Rows /\ {i} \in SUBSET Rows
      /\ Outcome(c) \in OrderStatus /\ Outcome(c) \in Statuses
      /\ to \in IncidentStatus /\ to \in Statuses
  BY <1>1, <1>2, StatusFacts DEF Outcome, OrderStatus, IncidentStatus, Statuses
<1>5. a \in Statement /\ a.op = "update" /\ a.rows = {c.row} /\ a.to = Outcome(c)
  BY <1>ab, <1>4 DEF Statement
<1>6. b \in Statement /\ b.op = "load" /\ b.rows = {i} /\ b.to = to
  BY <1>ab, <1>4 DEF Statement
<1>p. PICK p : p = Do(a.op, a.rows, a.to) \o Do(b.op, b.rows, b.to)
  OBVIOUS
<1>7. TwoOf(p, a, b)
  BY <1>p, <1>5, <1>6, DoTwoFacts
<1>8. /\ p \in Seq(Statement)
      /\ \A k \in 1..Len(p) : (p[k] = a /\ k = 1) \/ p[k] = b
      /\ Len(p) >= 1 /\ p[1] = a
  <2>1. a.rows # {}
    BY <1>5
  <2>2. QED BY <1>7, <2>1 DEF TwoOf
<1>9. Begin(t, c, {c.row}, p)
  BY <1>p, <1>3, <1>5, <1>6
<1>10. /\ txn'[t].call = c /\ txn'[t].wrote = <<>> /\ txn'[t].todo = p
       /\ txn'[t].loaded = [x \in {c.row} |-> table[x]]
  <2>1. Begun(t, c, {c.row}, p)
    BY <1>4, <1>8, <1>9, BeginFacts DEF RacesInv
  <2>2. QED BY <2>1 DEF Begun
<1>11. OwnsRows(t)'
  <2>1. \A x \in {c.row, i} : x \notin Reports
    BY <1>1, <1>2, StatusFacts
  <2>2. \A x \in {c.row, i} : Owns(t, x)'
    BY <1>1, <1>10, <2>1 DEF Owns, IsStaff
  <2>3. \A k \in 1..Len(p) : \A x \in p[k].rows : Owns(t, x)'
    BY <1>5, <1>6, <1>8, <2>2
  <2>4. QED BY <1>10, <2>3, NothingWritten DEF OwnsRows
<1>12. TodoOK(t)'
  <2>1. Assignable(a) /\ StaffStatement(c, a, 1)
    BY <1>1, <1>4, <1>5, StatusFacts DEF Assignable, StaffStatement
  <2>2. Assignable(b) /\ \A k \in Nat : StaffStatement(c, b, k)
    BY <1>2, <1>4, <1>6, StatusFacts DEF Assignable, StaffStatement
  <2>3. ASSUME NEW k \in 1..Len(p)
        PROVE  Assignable(p[k]) /\ StaffStatement(c, p[k], k)
    <3>1. k \in Nat
      BY <1>8
    <3>2. (p[k] = a /\ k = 1) \/ p[k] = b
      BY <1>8
    <3>3. QED BY <2>1, <2>2, <3>1, <3>2
  <2>4. QED BY <1>1, <1>10, <2>3 DEF TodoOK, IsStaff
<1>13. ResolveOK(t)'
  <2>1. p # <<>> /\ p[1].op = "update" /\ p[1].rows = {c.row}
    BY <1>5, <1>8
  <2>2. txn'[t].loaded[c.row] # "completed"
    BY <1>3, <1>10
  <2>3. QED BY <1>10, <2>1, <2>2 DEF ResolveOK
<1>14. QED BY <1>4, <1>8, <1>9, <1>11, <1>12, <1>13, BeginKeepsInv

------------------------------------------------------------------------------
(***************************************************************************)
(* The end of a transaction.                                               *)
(***************************************************************************)
Ends(t, state) ==
  /\ txn' \in [Requests -> TransactionRow]
  /\ txn'[t].state = state /\ txn'[t].call = txn[t].call
  /\ txn'[t].wrote = <<>> /\ txn'[t].loaded = <<>>
  /\ \A u \in Requests \ {t} : txn'[u] = txn[u]

LEMMA EndFacts ==
  ASSUME Typed, NEW t \in Requests, Active(t),
         NEW state \in {"committed", "rolled_back"},
         txn' = [txn EXCEPT ![t] = Transaction(state, @.call, <<>>, <<>>, FALSE)]
  PROVE  Ends(t, state)
<1>r. PICK row : row = Transaction(state, txn[t].call, <<>>, <<>>, FALSE)
  OBVIOUS
<1>1. row \in TransactionRow
  <2>1. txn[t].call \in Calls \cup {None}
    BY TransactionFields
  <2>2. QED BY <1>r, <2>1, NothingWritten DEF Transaction, TransactionRow
<1>2. /\ row.state = state /\ row.call = txn[t].call
      /\ row.wrote = <<>> /\ row.loaded = <<>>
  BY <1>r DEF Transaction
<1>3. txn \in [Requests -> TransactionRow] /\ txn' = [txn EXCEPT ![t] = row]
  BY <1>r DEF Typed
<1>4. /\ txn' \in [Requests -> TransactionRow] /\ txn'[t] = row
      /\ \A u \in Requests \ {t} : txn'[u] = txn[u]
  BY <1>1, <1>3
<1>5. QED BY <1>2, <1>4 DEF Ends

LEMMA EndTypes ==
  ASSUME Typed, NEW t \in Requests, Active(t),
         NEW state \in {"committed", "rolled_back"}, Ends(t, state),
         table' \in [Rows -> Statuses], PartlyTyped(table)'
  PROVE  Typed'
<1>1. \A u \in Requests \ {t} :
        /\ PartlyTyped(txn'[u].loaded) /\ PartlyTyped(txn'[u].wrote)
        /\ txn'[u].state # "new" => txn'[u].call \in Calls
  BY DEF Ends, Typed
<1>2. /\ PartlyTyped(txn'[t].loaded) /\ PartlyTyped(txn'[t].wrote)
      /\ txn'[t].call \in Calls
  BY NothingWritten, TransactionFields DEF Ends
<1>3. txn' \in [Requests -> TransactionRow]
  BY DEF Ends
<1>4. \A u \in Requests :
        /\ PartlyTyped(txn'[u].loaded) /\ PartlyTyped(txn'[u].wrote)
        /\ txn'[u].state # "new" => txn'[u].call \in Calls
  BY <1>1, <1>2
<1>5. QED BY <1>3, <1>4 DEF Typed, PartlyTyped

LEMMA EndStays ==
  ASSUME RacesInv, NEW t \in Requests, Active(t),
         NEW state \in {"committed", "rolled_back"}, Ends(t, state)
  PROVE  /\ ~ Active(t)'
         /\ \A u \in Requests \ {t} : SameRun(u) /\ (Active(u)' <=> Active(u))
         /\ LocksExclusive' /\ AloneIsAlone'
         /\ \A i \in Incidents : Unanswered(i)' => Unanswered(i)
<1>1. ~ Active(t)' /\ \A u \in Requests \ {t} : Active(u)' <=> Active(u)
  BY DEF Ends, Active
<1>2. \A u \in Requests \ {t} : SameRun(u)
  BY DEF Ends, SameRun
<1>3. LocksExclusive'
  BY <1>1 DEF RacesInv, LocksExclusive, Ends
<1>4. AloneIsAlone'
  BY <1>1 DEF RacesInv, AloneIsAlone, Ends
<1>5. \A i \in Incidents : Unanswered(i)' => Unanswered(i)
  <2>1. \A u \in Requests : txn[u].state = "committed" =>
          txn'[u].state = "committed" /\ txn'[u].call = txn[u].call
    BY DEF Ends, Active
  <2>2. QED BY <2>1, AnswersStay
<1>6. QED BY <1>1, <1>2, <1>3, <1>4, <1>5

LEMMA RollbackKeepsInv ==
  ASSUME RacesInv, NEW t \in Requests, Rollback(t)
  PROVE  RacesInv'
<1>1. Active(t) /\ table' = table /\ Typed
  BY DEF Rollback, RacesInv
<1>2. Ends(t, "rolled_back")
  BY <1>1, EndFacts DEF Rollback
<1>3. Typed'
  <2>1. table' \in [Rows -> Statuses] /\ PartlyTyped(table)'
    BY <1>1 DEF Typed, PartlyTyped
  <2>2. QED BY <1>1, <1>2, <2>1, EndTypes
<1>4. /\ ~ Active(t)'
      /\ \A u \in Requests \ {t} : SameRun(u) /\ (Active(u)' <=> Active(u))
      /\ LocksExclusive' /\ AloneIsAlone'
      /\ \A i \in Incidents : Unanswered(i)' => Unanswered(i)
  BY <1>1, <1>2, EndStays
<1>5. ASSUME NEW u \in Requests \ {t}, Active(u)
      PROVE  RunningOK(u)'
  BY <1>1, <1>4, <1>5, Bystander DEF RacesInv
<1>6. SingleChildAggregated'
  BY <1>1, <1>4 DEF RacesInv, SingleChildAggregated, Unanswered
<1>7. QED BY <1>3, <1>4, <1>5, <1>6 DEF RacesInv

(***************************************************************************)
(* A report of one incident is written only with the incident, by staff,   *)
(* or by a citizen who answers for the incident.                           *)
(***************************************************************************)
LEMMA WrittenTogether ==
  ASSUME NEW t \in Requests, OwnsRows(t), NEW r \in Reports,
         NEW i \in Incidents, ChildrenOf(r) = {i}, r \in DOMAIN txn[t].wrote
  PROVE  IF IsStaff(t) THEN i \in DOMAIN txn[t].wrote
                       ELSE i \in ChildrenOf(txn[t].call.row)
<1>1. Owns(t, r)
  BY DEF OwnsRows
<1>2. CASE IsStaff(t)
  BY <1>1, <1>2 DEF Owns
<1>3. CASE ~ IsStaff(t)
  <2>1. r \notin ChildrenOf(txn[t].call.row)
    BY StatusFacts DEF ChildrenOf
  <2>2. QED BY <1>1, <1>3, <2>1 DEF Owns
<1>4. QED BY <1>2, <1>3

LEMMA AnswersOwn ==
  ASSUME NEW t \in Requests, OwnsRows(t), ~ IsStaff(t), Typed, Active(t),
         NEW i \in Incidents, i \in DOMAIN txn[t].wrote
  PROVE  i \in ChildrenOf(txn[t].call.row)
<1>1. Owns(t, i)
  BY DEF OwnsRows
<1>2. txn[t].call.row \in Reports
  <2>1. txn[t].call \in Calls
    BY TransactionFields
  <2>2. QED BY <2>1, CallFacts DEF IsStaff
<1>3. QED BY <1>1, <1>2, StatusFacts DEF Owns

(***************************************************************************)
(* What a commit makes of the table is what the transaction saw.           *)
(***************************************************************************)
LEMMA CommitFacts ==
  ASSUME RacesInv, NEW t \in Requests, Commit(t)
  PROVE  /\ Active(t) /\ txn[t].todo = <<>> /\ Typed /\ RunningOK(t)
         /\ Ends(t, "committed") /\ Typed'
         /\ \A x \in Rows : table'[x] = Visible(t, x)
<1>1. /\ Active(t) /\ txn[t].todo = <<>> /\ Typed /\ RunningOK(t)
      /\ table' = Over(txn[t].wrote, table)
  BY DEF Commit, RacesInv
<1>2. Ends(t, "committed")
  BY <1>1, EndFacts DEF Commit
<1>w. PICK wrote, old, new : wrote = txn[t].wrote /\ old = table /\ new = table'
  OBVIOUS
<1>3. /\ wrote \in PartialRows /\ PartlyTyped(wrote) /\ DOMAIN wrote \subseteq Rows
      /\ old \in [Rows -> Statuses] /\ PartlyTyped(old)
      /\ new = Over(wrote, old)
  BY <1>w, <1>1, TransactionFields DEF Typed, PartlyTyped
<1>4. old \in PartialRows /\ DOMAIN old = Rows
  BY <1>3 DEF PartialRows
<1>5. /\ new \in [DOMAIN wrote \cup DOMAIN old -> Statuses] /\ PartlyTyped(new)
      /\ \A y \in DOMAIN wrote : new[y] = wrote[y]
      /\ \A y \in DOMAIN old \ DOMAIN wrote : new[y] = old[y]
  BY <1>3, <1>4, OverFacts
<1>6. DOMAIN wrote \cup DOMAIN old = Rows
  BY <1>3, <1>4
<1>7. new \in [Rows -> Statuses]
  BY <1>5, <1>6
<1>8. Typed'
  <2>1. table' \in [Rows -> Statuses] /\ PartlyTyped(table)'
    BY <1>w, <1>5, <1>7 DEF PartlyTyped
  <2>2. QED BY <1>1, <1>2, <2>1, EndTypes
<1>9. \A x \in Rows : table'[x] = Visible(t, x)
  BY <1>w, <1>4, <1>5 DEF Visible
<1>10. QED BY <1>1, <1>2, <1>8, <1>9

LEMMA CommittedAggregate ==
  ASSUME NEW t \in Requests, NEW r \in Reports, Visible(t, r) = Fresh(t, r),
         \A x \in Rows : table'[x] = Visible(t, x)
  PROVE  table'[r] = Aggregate(table', r)
<1>v. PICK view, new : view = [i \in Incidents |-> Visible(t, i)] /\ new = table'
  OBVIOUS
<1>1. \A i \in ChildrenOf(r) : new[i] = view[i]
  BY <1>v, StatusFacts DEF ChildrenOf
<1>2. {new[i] : i \in ChildrenOf(r)} = {view[i] : i \in ChildrenOf(r)}
  BY <1>1
<1>3. Aggregate(new, r) = Aggregate(view, r)
  BY <1>2 DEF Aggregate
<1>4. Fresh(t, r) = Aggregate(view, r)
  BY <1>v DEF Fresh
<1>5. table'[r] = Visible(t, r)
  BY StatusFacts
<1>6. QED BY <1>v, <1>3, <1>4, <1>5

LEMMA CommitSettled ==
  ASSUME RacesInv, NEW t \in Requests, Commit(t), IsStaff(t),
         NEW r \in Reports, Guarded(t, r)
  PROVE  table'[r] = Aggregate(table', r)
<1>1. /\ txn[t].todo = <<>> /\ RunningOK(t)
      /\ \A x \in Rows : table'[x] = Visible(t, x)
  BY CommitFacts
<1>2. Settled(t, r)
  BY <1>1 DEF RunningOK, ReportsFollow
<1>3. ~ InHand(t, r) /\ ~ InLine(t, r)
  BY <1>1 DEF InHand, InLine
<1>4. Visible(t, r) = Fresh(t, r)
  BY <1>2, <1>3 DEF Settled
<1>5. QED BY <1>1, <1>4, CommittedAggregate

LEMMA CommitKeepsInv ==
  ASSUME RacesInv, NEW t \in Requests, Commit(t)
  PROVE  RacesInv'
<1>1. /\ Active(t) /\ Typed /\ Typed' /\ RunningOK(t) /\ OwnsRows(t)
      /\ Ends(t, "committed")
      /\ \A x \in Rows : table'[x] = Visible(t, x)
  BY CommitFacts DEF RunningOK
<1>2. /\ ~ Active(t)'
      /\ \A u \in Requests \ {t} : SameRun(u) /\ (Active(u)' <=> Active(u))
      /\ LocksExclusive' /\ AloneIsAlone'
      /\ \A i \in Incidents : Unanswered(i)' => Unanswered(i)
  BY <1>1, EndStays
<1>3. /\ \A x \in Rows \ DOMAIN txn[t].wrote : table'[x] = table[x]
      /\ txn'[t].state = "committed" /\ txn'[t].call = txn[t].call
  BY <1>1 DEF Visible, Ends
<1>4. ASSUME NEW r \in Reports, NEW i \in Incidents, ChildrenOf(r) = {i},
             Unanswered(i)', i \notin DOMAIN txn[t].wrote
      PROVE  r \notin DOMAIN txn[t].wrote
  <2>1. ~ IsStaff(t) => i \notin ChildrenOf(txn[t].call.row)
    BY <1>3, <1>4 DEF Unanswered, IsStaff
  <2>2. QED BY <1>1, <1>4, <2>1, WrittenTogether
<1>5. ASSUME NEW u \in Requests \ {t}, Active(u)
      PROVE  RunningOK(u)'
  <2>1. /\ RunningOK(u) /\ SameRun(u)
    BY <1>2, <1>5 DEF RacesInv
  <2>s. /\ txn'[u].state = txn[u].state /\ txn'[u].call = txn[u].call
        /\ txn'[u].loaded = txn[u].loaded /\ txn'[u].todo = txn[u].todo
        /\ txn'[u].wrote = txn[u].wrote
        /\ txn'[u].alone => txn[u].alone
    BY <2>1 DEF SameRun
  <2>2. OwnsRows(u)'
    BY <2>1, <2>s DEF RunningOK, OwnsRows, Owns, IsStaff
  <2>3. TodoOK(u)'
    BY <2>1, <2>s DEF RunningOK, TodoOK, IsStaff
  <2>4. ResolveOK(u)'
    BY <2>1, <2>s DEF RunningOK, ResolveOK
  <2>5. ASSUME IsStaff(u), NEW r \in Reports, Guarded(u, r)'
        PROVE  Settled(u, r)'
    <3>1. ~ txn'[u].alone
      BY <1>1, <1>5, <2>s DEF RacesInv, AloneIsAlone
    <3>2. PICK i \in Incidents : /\ ChildrenOf(r) = {i} /\ Unanswered(i)'
                                 /\ i \in DOMAIN txn[u].wrote
      BY <2>5, <2>s, <3>1 DEF Guarded
    <3>3. Guarded(u, r)
      BY <1>2, <3>2 DEF Guarded
    <3>4. Settled(u, r)
      BY <2>1, <2>5, <3>3 DEF RunningOK, ReportsFollow
    <3>5. i \notin DOMAIN txn[t].wrote
      BY <1>1, <1>5, <3>2 DEF RacesInv, LocksExclusive
    <3>6. r \notin DOMAIN txn[t].wrote
      BY <1>4, <3>2, <3>5
    <3>7. Visible(u, i)' = Visible(u, i) /\ Visible(u, r)' = Visible(u, r)
      BY <1>3, <2>s, <3>5, <3>6, StatusFacts DEF Visible
    <3>8. Fresh(u, r)' = Fresh(u, r)
      <4>1. \A j \in ChildrenOf(r) : Visible(u, j)' = Visible(u, j)
        BY <3>2, <3>7
      <4>2. QED BY <4>1, FreshSame
    <3>9. InHand(u, r)' = InHand(u, r) /\ InLine(u, r)' = InLine(u, r)
      BY <2>s DEF InHand, InLine
    <3>10. QED BY <2>s, <3>4, <3>7, <3>8, <3>9 DEF Settled
  <2>6. QED BY <2>2, <2>3, <2>4, <2>5, <2>s DEF RunningOK, ReportsFollow, IsStaff
<1>6. ASSUME NEW r \in Reports, NEW i \in Incidents, ChildrenOf(r) = {i},
             Unanswered(i)'
      PROVE  table'[r] = Aggregate(table', r)
  <2>1. CASE i \in DOMAIN txn[t].wrote
    <3>1. IsStaff(t)
      <4>1. ~ IsStaff(t) => i \notin ChildrenOf(txn[t].call.row)
        BY <1>3, <1>6 DEF Unanswered, IsStaff
      <4>2. QED BY <1>1, <2>1, <4>1, AnswersOwn
    <3>2. Guarded(t, r)
      BY <1>2, <1>6, <2>1 DEF Guarded
    <3>3. QED BY <3>1, <3>2, CommitSettled
  <2>2. CASE i \notin DOMAIN txn[t].wrote
    <3>1. r \notin DOMAIN txn[t].wrote
      BY <1>4, <1>6, <2>2
    <3>2. table[r] = Aggregate(table, r)
      BY <1>2, <1>6 DEF RacesInv, SingleChildAggregated, Unanswered
    <3>3. table'[r] = table[r] /\ table'[i] = table[i]
      BY <1>3, <2>2, <3>1, StatusFacts
    <3>n. PICK old, new : old = table /\ new = table'
      OBVIOUS
    <3>4. {new[j] : j \in ChildrenOf(r)} = {old[j] : j \in ChildrenOf(r)}
      BY <1>6, <3>3, <3>n
    <3>5. Aggregate(new, r) = Aggregate(old, r)
      BY <3>4 DEF Aggregate
    <3>6. QED BY <3>2, <3>3, <3>5, <3>n
  <2>3. QED BY <2>1, <2>2
<1>7. SingleChildAggregated'
  BY <1>6 DEF SingleChildAggregated, Unanswered
<1>8. QED BY <1>1, <1>2, <1>5, <1>7 DEF RacesInv

------------------------------------------------------------------------------
(***************************************************************************)
(* The theorems.                                                           *)
(***************************************************************************)
LEMMA InitEstablishesInv ==
  ASSUME Init
  PROVE  RacesInv
<1>1. PICK incident \in [Incidents -> StartStatuses],
           order \in [Orders -> {"dispatched", "in_progress", "completed"}] :
        table = Over(Over(incident, order),
                     [r \in Reports |-> Aggregate(incident, r)])
  BY DEF Init
<1>r. PICK report, both :
        /\ report = [r \in Reports |-> Aggregate(incident, r)]
        /\ both = Over(incident, order)
  OBVIOUS
<1>2. incident \in PartialRows /\ PartlyTyped(incident)
  <2>1. incident \in [Incidents -> Statuses] /\ Incidents \in SUBSET Rows
    BY HandlerConstants, StatusFacts DEF Statuses
  <2>2. \A x \in Incidents : incident[x] \in StatusOf(x)
    BY HandlerConstants, StatusFacts
  <2>3. QED BY <2>1, <2>2 DEF PartialRows, PartlyTyped
<1>3. order \in PartialRows /\ PartlyTyped(order)
  <2>1. \A x \in Orders : order[x] \in StatusOf(x) /\ order[x] \in Statuses
    BY StatusFacts DEF OrderStatus, Statuses
  <2>2. order \in [Orders -> Statuses] /\ Orders \in SUBSET Rows
    BY <2>1, StatusFacts
  <2>3. QED BY <2>1, <2>2 DEF PartialRows, PartlyTyped
<1>4. report \in PartialRows /\ PartlyTyped(report)
  <2>1. ASSUME NEW r \in Reports
        PROVE  Aggregate(incident, r) \in IntakeStatus
    <3>1. \A i \in Incidents : incident[i] \in IncidentStatus
      BY HandlerConstants
    <3>2. {incident[i] : i \in ChildrenOf(r)} \in SUBSET IncidentStatus
      BY <3>1 DEF ChildrenOf
    <3>3. QED BY <3>2, AggregateType DEF Aggregate
  <2>2. \A r \in Reports : report[r] \in StatusOf(r) /\ report[r] \in Statuses
    BY <1>r, <2>1, StatusFacts
  <2>3. report \in [Reports -> Statuses] /\ Reports \in SUBSET Rows
    BY <1>r, <2>2, StatusFacts
  <2>4. QED BY <2>2, <2>3 DEF PartialRows, PartlyTyped
<1>5. DOMAIN incident = Incidents /\ DOMAIN order = Orders /\ DOMAIN report = Reports
  BY <1>r
<1>6. /\ both \in PartialRows /\ PartlyTyped(both)
      /\ DOMAIN both = Incidents \cup Orders
      /\ \A i \in Incidents : both[i] = incident[i]
  BY <1>r, <1>2, <1>3, <1>5, OverFacts
<1>t. PICK all : all = Over(both, report)
  OBVIOUS
<1>7. /\ PartlyTyped(all) /\ all \in [DOMAIN both \cup DOMAIN report -> Statuses]
      /\ \A x \in DOMAIN both : all[x] = both[x]
      /\ \A x \in DOMAIN report \ DOMAIN both : all[x] = report[x]
  <2>1. PartlyTyped(all) /\ all \in [DOMAIN both \cup DOMAIN report -> Statuses]
    BY <1>t, <1>4, <1>6, OverFacts
  <2>2. /\ \A x \in DOMAIN both : all[x] = both[x]
        /\ \A x \in DOMAIN report \ DOMAIN both : all[x] = report[x]
    BY <1>t DEF Over
  <2>3. QED BY <2>1, <2>2
<1>8. DOMAIN both \cup DOMAIN report = Rows
  BY <1>5, <1>6 DEF Rows
<1>9. table = all
  BY <1>1, <1>r, <1>t
<1>10. \A t \in Requests : txn[t] = Transaction("new", None, <<>>, <<>>, FALSE)
  BY DEF Init
<1>11. Transaction("new", None, <<>>, <<>>, FALSE) \in TransactionRow
  BY NothingWritten DEF Transaction, TransactionRow
<1>12. Typed
  <2>1. table \in [Rows -> Statuses]
    BY <1>7, <1>8, <1>9
  <2>2. PartlyTyped(table)
    BY <1>7, <1>9
  <2>3. txn \in [Requests -> TransactionRow]
    BY <1>11 DEF Init
  <2>4. \A t \in Requests :
          /\ txn[t].state = "new" /\ txn[t].loaded = <<>> /\ txn[t].wrote = <<>>
    BY <1>10 DEF Transaction
  <2>5. QED BY <2>1, <2>2, <2>3, <2>4, NothingWritten DEF Typed
<1>13. \A t \in Requests : ~ Active(t)
  BY <1>10 DEF Transaction, Active
<1>14. SingleChildAggregated
  <2>1. SUFFICES ASSUME NEW r \in Reports
                 PROVE  table[r] = Aggregate(table, r)
    BY DEF SingleChildAggregated
  <2>2. r \in DOMAIN report \ DOMAIN both
    BY <1>5, <1>6, StatusFacts
  <2>3. all[r] = Aggregate(incident, r)
    BY <1>r, <1>7, <2>2
  <2>4. \A i \in ChildrenOf(r) : all[i] = incident[i]
    BY <1>6, <1>7 DEF ChildrenOf
  <2>5. {all[i] : i \in ChildrenOf(r)} = {incident[i] : i \in ChildrenOf(r)}
    BY <2>4
  <2>6. Aggregate(all, r) = Aggregate(incident, r)
    BY <2>5 DEF Aggregate
  <2>7. QED BY <1>9, <2>3, <2>6
<1>15. QED BY <1>12, <1>13, <1>14 DEF RacesInv, LocksExclusive, AloneIsAlone

LEMMA UnchangedKeepsInv ==
  ASSUME RacesInv, UNCHANGED vars
  PROVE  RacesInv'
<1> USE DEF vars
<1>1. Typed'
  BY DEF RacesInv, Typed, PartlyTyped
<1>2. LocksExclusive' /\ AloneIsAlone'
  BY DEF RacesInv, LocksExclusive, AloneIsAlone, Active
<1>3. \A i \in Incidents : Unanswered(i)' => Unanswered(i)
  BY DEF Unanswered
<1>4. ASSUME NEW t \in Requests, Active(t)'
      PROVE  RunningOK(t)'
  <2>1. Active(t) /\ RunningOK(t) /\ SameRun(t) /\ Typed
    BY <1>4 DEF Active, RacesInv, SameRun
  <2>2. QED BY <1>3, <2>1, Bystander
<1>5. SingleChildAggregated'
  BY <1>3 DEF RacesInv, SingleChildAggregated, Unanswered
<1>6. QED BY <1>1, <1>2, <1>4, <1>5 DEF RacesInv

LEMMA HandleKeepsInv ==
  ASSUME RacesInv, NEW t \in Requests, Handle(t)
  PROVE  RacesInv'
<1>1. ASSUME NEW c \in Calls, BeginPatch(t, c) PROVE RacesInv'
  BY <1>1, BeginPatchKeepsInv
<1>2. ASSUME NEW c \in Calls, BeginStart(t, c) \/ BeginResolve(t, c)
      PROVE  RacesInv'
  BY <1>2, BeginOrderKeepsInv
<1>3. ASSUME NEW c \in Calls, BeginConfirm(t, c) \/ BeginDispute(t, c)
      PROVE  RacesInv'
  BY <1>3, BeginAnswerKeepsInv
<1>4. ASSUME NEW c \in Calls, BeginCron(t, c) PROVE RacesInv'
  BY <1>4, BeginCronKeepsInv
<1>5. CASE Load(t)
  BY <1>5, LoadKeepsInv
<1>6. CASE Write(t)
  BY <1>6, WriteKeepsInv
<1>7. CASE Recompute(t)
  BY <1>7, RecomputeKeepsInv
<1>8. CASE Answer(t)
  BY <1>8, AnswerKeepsInv
<1>9. CASE Commit(t)
  BY <1>9, CommitKeepsInv
<1>10. CASE Rollback(t)
  BY <1>10, RollbackKeepsInv
<1>11. QED
  BY <1>1, <1>2, <1>3, <1>4, <1>5, <1>6, <1>7, <1>8, <1>9, <1>10 DEF Handle

(***************************************************************************)
(* However the statements of concurrent handlers interleave, their locks   *)
(* exclude each other, and a staff handler that holds the lock of the only *)
(* incident of a report, or that runs alone, has the report right or is    *)
(* about to make it right.                                                 *)
(***************************************************************************)
THEOREM RacesInvariance == Spec => []RacesInv
<1>1. Init => RacesInv
  BY InitEstablishesInv
<1>2. RacesInv /\ [Next]_vars => RacesInv'
  BY HandleKeepsInv, UnchangedKeepsInv DEF Next
<1>3. QED BY <1>1, <1>2, PTL DEF Spec

(***************************************************************************)
(* The rows and the transactions keep their types.                         *)
(***************************************************************************)
THEOREM RaceTypes == Spec => []TypeOK
<1>1. RacesInv => TypeOK
  <2> SUFFICES ASSUME Typed PROVE TypeOK
    BY DEF RacesInv
  <2>2. DOMAIN table = Rows /\ PartlyTyped(table) /\ DOMAIN txn = Requests
    BY DEF Typed
  <2>3. ASSUME NEW t \in Requests
        PROVE  /\ txn[t].state \in {"new", "active", "committed", "rolled_back"}
               /\ txn[t].call \in Calls \cup {None}
               /\ \A k \in DOMAIN txn[t].todo : txn[t].todo[k] \in Statement
               /\ PartlyTyped(txn[t].loaded) /\ PartlyTyped(txn[t].wrote)
               /\ txn[t].alone \in BOOLEAN
    <3>1. txn[t].todo \in Seq(Statement)
      BY TransactionFields
    <3>2. \A k \in DOMAIN txn[t].todo : txn[t].todo[k] \in Statement
      BY <3>1
    <3>3. QED BY <3>2, TransactionFields
  <2>4. QED BY <2>2, <2>3 DEF TypeOK
<1>2. QED BY <1>1, RacesInvariance, PTL

(***************************************************************************)
(* A report of one incident is the aggregate of that incident in every     *)
(* committed state, until a citizen has answered for the incident.         *)
(***************************************************************************)
THEOREM SingleChildren == Spec => []SingleChildAggregated
<1>1. RacesInv => SingleChildAggregated
  BY DEF RacesInv
<1>2. QED BY <1>1, RacesInvariance, PTL

LEMMA CommittingStep ==
  ASSUME RacesInv, [Next]_vars, NEW t \in Requests, Active(t),
         txn'[t].state = "committed"
  PROVE  Commit(t)
<1>1. txn[t].state = "active" /\ Typed
  BY DEF Active, RacesInv
<1>2. PICK u \in Requests : Handle(u)
  BY <1>1 DEF Next, vars
<1>3. ASSUME NEW c \in Calls, NEW read, NEW todo, Begin(u, c, read, todo)
      PROVE  FALSE
  <2>1. u # t
    BY <1>1, <1>3 DEF Begin
  <2>2. txn'[t] = [txn[t] EXCEPT !.alone = @ /\ ~ Active(t)]
    BY <1>3, <2>1 DEF Begin
  <2>3. txn'[t].state = txn[t].state
    BY <1>1, <2>2 DEF Typed, TransactionRow
  <2>4. QED BY <1>1, <2>3
<1>4. ASSUME NEW c \in Calls
      PROVE  ~ (\/ BeginPatch(u, c) \/ BeginStart(u, c) \/ BeginResolve(u, c)
                \/ BeginConfirm(u, c) \/ BeginDispute(u, c) \/ BeginCron(u, c))
  BY <1>3 DEF BeginPatch, BeginStart, BeginResolve, BeginConfirm, BeginDispute,
              BeginCron
<1>5. ASSUME NEW loaded, NEW wrote, NEW todo, Proceed(u, loaded, wrote, todo)
      PROVE  FALSE
  <2>1. txn \in [Requests -> TransactionRow]
    BY <1>1 DEF Typed
  <2>2. txn'[t].state = txn[t].state
    BY <1>5, <2>1 DEF Proceed, TransactionRow
  <2>3. QED BY <1>1, <2>2
<1>6. ~ Load(u) /\ ~ Write(u) /\ ~ Recompute(u) /\ ~ Answer(u)
  BY <1>5 DEF Load, Write, Recompute, Answer
<1>7. ASSUME Ends(u, "rolled_back") PROVE FALSE
  BY <1>1, <1>7 DEF Ends
<1>8. ~ Rollback(u)
  BY <1>1, <1>7, EndFacts DEF Rollback
<1>9. Commit(u)
  BY <1>2, <1>4, <1>6, <1>8 DEF Handle
<1>10. u = t
  BY <1>1, <1>9, CommitFacts DEF Ends
<1>11. QED BY <1>9, <1>10

(***************************************************************************)
(* A staff handler that runs alone commits every report of every incident  *)
(* it touched aggregated, whatever races did to the reports before.        *)
(***************************************************************************)
THEOREM LoneHandlers == Spec => LoneHandlerRepairs
<1>1. ASSUME RacesInv, [Next]_vars, NEW t \in Requests,
             Committing(t, Staff), txn[t].alone,
             NEW i \in Touched(t), NEW r \in ParentsOf(i)
      PROVE  table'[r] = Aggregate(table', r)
  <2>1. Commit(t) /\ IsStaff(t)
    BY <1>1, CommittingStep DEF Committing, IsStaff
  <2>2. r \in Reports /\ i \in ChildrenOf(r) /\ i \in DOMAIN txn[t].wrote
    BY DEF Touched, ParentsOf, ChildrenOf
  <2>3. Guarded(t, r)
    BY <1>1, <2>2 DEF Guarded
  <2>4. QED BY <1>1, <2>1, <2>2, <2>3, CommitSettled
<1>2. RacesInv /\ [Next]_vars =>
        [\A t \in Requests :
           (Committing(t, Staff) /\ txn[t].alone) =>
             \A i \in Touched(t) : \A r \in ParentsOf(i) :
               table'[r] = Aggregate(table', r)]_vars
  BY <1>1
<1>3. QED BY <1>2, RacesInvariance, PTL DEF Spec, LoneHandlerRepairs

(***************************************************************************)
(* A resolution that succeeds has completed its work order.                *)
(***************************************************************************)
THEOREM ResolutionsComplete == Spec => ResolveCompletesItsOrder
<1>1. ASSUME RacesInv, [Next]_vars, NEW t \in Requests,
             Committing(t, {"resolve"})
      PROVE  table'[txn[t].call.row] = "completed"
  <2>1. Commit(t) /\ txn[t].call.handler = "resolve"
    BY <1>1, CommittingStep DEF Committing
  <2>2. /\ txn[t].todo = <<>> /\ RunningOK(t) /\ Typed /\ Active(t)
        /\ \A x \in Rows : table'[x] = Visible(t, x)
    BY <1>1, <2>1, CommitFacts
  <2>3. txn[t].call.row \in Rows
    <3>1. txn[t].call \in Calls
      BY <2>2, TransactionFields
    <3>2. QED BY <2>1, <3>1, CallFacts, StatusFacts
  <2>4. /\ txn[t].call.row \in DOMAIN txn[t].wrote
        /\ txn[t].wrote[txn[t].call.row] = "completed"
    BY <2>1, <2>2 DEF RunningOK, ResolveOK
  <2>5. QED BY <2>2, <2>3, <2>4 DEF Visible
<1>2. RacesInv /\ [Next]_vars =>
        [\A t \in Requests :
           Committing(t, {"resolve"}) => table'[txn[t].call.row] = "completed"
        ]_vars
  BY <1>1
<1>3. QED BY <1>2, RacesInvariance, PTL DEF Spec, ResolveCompletesItsOrder

==============================================================================
