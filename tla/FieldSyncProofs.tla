--------------------------- MODULE FieldSyncProofs ----------------------------
(***************************************************************************)
(* Field sync keeps its promises for every queue, every number of requests *)
(* in flight and every number of faults.                                   *)
(***************************************************************************)
EXTENDS FieldSync, FiniteSetTheorems, WellFoundedInduction, TLAPS

(***************************************************************************)
(* EffectsAreLogged of any status and any log.                             *)
(***************************************************************************)
Applied(rows, action) ==
  \E m \in Mutations : rows[m] = "applied" /\ Action[m] = action

Effects(status, rows) ==
  /\ status = "completed" <=> Applied(rows, "resolve")
  /\ status = "in_progress" => Applied(rows, "start")
  /\ status = "dispatched" =>
       ~ Applied(rows, "start") /\ ~ Applied(rows, "resolve")

(***************************************************************************)
(* What the device knows is in the log, and the log has no gaps: mutations *)
(* are decided in the order in which they were queued.                     *)
(***************************************************************************)
AnswersAreLogged ==
  \A m \in Mutations : answer[m] # None => answer[m] = log[m]

LogIsPrefix ==
  \A j, k \in 1..Len(Queue) :
    j < k /\ log[Queue[k]] # None => log[Queue[j]] # None

(***************************************************************************)
(* A request outside of its transaction holds nothing; only its answer may *)
(* say something, and it says what the log does.                           *)
(***************************************************************************)
Quiet(c) ==
  request[c].state # "running" =>
    /\ request[c].wrote = None /\ request[c].loaded = None
    /\ request[c].at = "check"
    /\ \A m \in Mutations : request[c].inserted[m] = None
    /\ request[c].state # "answered" =>
         \A m \in Mutations : request[c].results[m] = None

ResultsAreLogged(c) ==
  \A m \in Mutations : request[c].results[m] # None =>
    request[c].results[m] \in {log[m], request[c].inserted[m]}

(***************************************************************************)
(* The locks: nobody else inserts the key of an uncommitted row, and one   *)
(* transaction at a time writes the work order.                            *)
(***************************************************************************)
KeysAreLocked(c) ==
  \A m \in Mutations : request[c].inserted[m] # None =>
    /\ log[m] = None
    /\ \A d \in Connections \ {c} : request[d].inserted[m] = None

OrderIsLocked(c) ==
  request[c].wrote # None =>
    \A d \in Connections \ {c} : request[d].wrote = None

(***************************************************************************)
(* A batch is processed in order and leaves no gap either.                 *)
(***************************************************************************)
Decided(c, m) == log[m] # None \/ request[c].inserted[m] # None

BatchInOrder(c) ==
  \A j, k \in 1..Len(Queue) :
    j <= k =>
      /\ k \in request[c].todo => j \in request[c].todo \/ Decided(c, Queue[j])
      /\ request[c].inserted[Queue[k]] # None =>
           j \notin request[c].todo /\ Decided(c, Queue[j])

(***************************************************************************)
(* Where the current mutation stands.                                      *)
(***************************************************************************)
StatementInOrder(c) ==
  /\ request[c].todo = {} => request[c].at = "check"
  /\ request[c].at = "write" =>
       /\ request[c].outcome = "applied"
       /\ request[c].loaded # None
       /\ Arbitrate(Current(c), request[c].loaded) = "applied"
  /\ request[c].at = "insert" => request[c].outcome # None

LoadedIsRecent(c) ==
  /\ request[c].wrote # "dispatched"
  /\ request[c].wrote = None /\ request[c].loaded # None /\ order = "dispatched"
       => request[c].loaded = "dispatched"

(***************************************************************************)
(* Written, and its log row still to be inserted.                          *)
(***************************************************************************)
Pending(c) == request[c].at = "insert" /\ request[c].outcome = "applied"

Merged(c) ==
  [m \in Mutations |-> IF request[c].inserted[m] # None
                         THEN request[c].inserted[m] ELSE log[m]]

(***************************************************************************)
(* What the transaction would leave: nothing applied if it has not written *)
(* the order, and else an order that is what the log would say, unless the *)
(* row it waits to insert is there already and will be refused.            *)
(***************************************************************************)
WorkMatchesRows(c) ==
  /\ request[c].wrote = None =>
       ~ Pending(c) /\ \A m \in Mutations : request[c].inserted[m] # "applied"
  /\ request[c].wrote # None /\ ~ Pending(c) =>
       Effects(request[c].wrote, Merged(c))
  /\ request[c].wrote # None /\ Pending(c) /\ log[Current(c)] = None =>
       Effects(request[c].wrote, [Merged(c) EXCEPT ![Current(c)] = "applied"])

SessionOK(c) ==
  /\ Quiet(c) /\ ResultsAreLogged(c) /\ BatchInOrder(c)
  /\ StatementInOrder(c) /\ LoadedIsRecent(c) /\ WorkMatchesRows(c)

LocksOK(c) == KeysAreLocked(c) /\ OrderIsLocked(c)

SyncInv ==
  /\ TypeOK
  /\ AnswersAreLogged
  /\ LogIsPrefix
  /\ Effects(order, log)
  /\ \A c \in Connections : SessionOK(c) /\ LocksOK(c)

------------------------------------------------------------------------------
(***************************************************************************)
(* The current mutation of a batch is the first one not processed.         *)
(***************************************************************************)
LEMMA LeastExists ==
  ASSUME NEW S \in SUBSET Nat, S # {}
  PROVE  \E k \in S : \A j \in S : k <= j
<1> DEFINE T == {1..k : k \in S}
<1>1. T \subseteq FiniteSubsetsOf(Nat)
  <2> SUFFICES ASSUME NEW k \in S
               PROVE  1..k \in FiniteSubsetsOf(Nat)
    OBVIOUS
  <2>1. IsFiniteSet(1..k)
    BY FS_Interval
  <2> QED
    BY <2>1 DEF FiniteSubsetsOf
<1>2. PICK x \in T : \A y \in T : ~ (<<y, x>> \in StrictSubsetOrdering(Nat))
  <2>1. IsWellFoundedOn(StrictSubsetOrdering(Nat), FiniteSubsetsOf(Nat))
    BY FS_StrictSubsetOrderingWellFounded
  <2>2. T # {}
    OBVIOUS
  <2> HIDE DEF T
  <2> QED
    BY <1>1, <2>1, <2>2, WFMin
<1>3. PICK k \in S : x = 1..k
  OBVIOUS
<1>4. ASSUME NEW j \in S, j < k
      PROVE  FALSE
  <2>1. 1..j \subseteq 1..k /\ 1..j \in SUBSET Nat /\ 1..k \in SUBSET Nat
    BY <1>4
  <2>2. k \in 1..k /\ k \notin 1..j
    BY <1>4
  <2>3. <<1..j, 1..k>> \in StrictSubsetOrdering(Nat)
    BY <2>1, <2>2 DEF StrictSubsetOrdering
  <2> QED
    BY <1>2, <1>3, <2>3
<1> QED
  BY <1>4

RequestRow ==
  [state : {"idle", "sent", "running", "answered"},
   todo : SUBSET (1..Len(Queue)),
   at : {"check", "load", "write", "insert"},
   loaded : OrderStatus \cup {None},
   wrote : OrderStatus \cup {None},
   outcome : Outcomes \cup {None},
   inserted : [Mutations -> Outcomes \cup {None}],
   results : [Mutations -> Outcomes \cup {None}]]

LEMMA RequestFields ==
  ASSUME TypeOK, NEW c \in Connections
  PROVE  /\ request[c] \in RequestRow
         /\ request[c].state \in {"idle", "sent", "running", "answered"}
         /\ request[c].todo \in SUBSET (1..Len(Queue))
         /\ request[c].at \in {"check", "load", "write", "insert"}
         /\ request[c].loaded \in OrderStatus \cup {None}
         /\ request[c].wrote \in OrderStatus \cup {None}
         /\ request[c].outcome \in Outcomes \cup {None}
         /\ request[c].inserted \in [Mutations -> Outcomes \cup {None}]
         /\ request[c].results \in [Mutations -> Outcomes \cup {None}]
<1>1. request[c] \in RequestRow
  BY DEF TypeOK, RequestRow
<1> QED
  BY <1>1 DEF RequestRow

LEMMA QueueFacts ==
  /\ Len(Queue) \in Nat
  /\ \A k \in 1..Len(Queue) : Queue[k] \in Mutations
  /\ \A m \in Mutations : \E k \in 1..Len(Queue) : m = Queue[k]
  BY SyncConstants DEF Mutations

LEMMA CurrentFacts ==
  ASSUME TypeOK, NEW c \in Connections, request[c].todo # {}
  PROVE  /\ Position(c) \in request[c].todo
         /\ Position(c) \in 1..Len(Queue)
         /\ \A j \in request[c].todo : Position(c) <= j
         /\ Current(c) \in Mutations
         /\ Current(c) = Queue[Position(c)]
<1>1. request[c].todo \in SUBSET Nat /\ request[c].todo \subseteq 1..Len(Queue)
  BY RequestFields
<1>2. \E k \in request[c].todo : \A j \in request[c].todo : k <= j
  BY <1>1, LeastExists
<1>3. /\ Position(c) \in request[c].todo
      /\ \A j \in request[c].todo : Position(c) <= j
  BY <1>2 DEF Position
<1> QED
  BY <1>1, <1>3, QueueFacts DEF Current

------------------------------------------------------------------------------
LEMMA InitSync == Init => SyncInv
<1> SUFFICES ASSUME Init
             PROVE  SyncInv
  OBVIOUS
<1> USE SyncConstants DEF Init
<1>1. TypeOK
  BY QueueFacts DEF TypeOK, Idle, OrderStatus
<1>2. AnswersAreLogged /\ LogIsPrefix
  BY QueueFacts DEF AnswersAreLogged, LogIsPrefix
<1>3. Effects(order, log)
  BY DEF Effects, Applied, Outcomes
<1>4. ASSUME NEW c \in Connections
      PROVE  SessionOK(c) /\ LocksOK(c)
  <2>1. request[c] = Idle
    OBVIOUS
  <2>2. /\ Quiet(c) /\ ResultsAreLogged(c) /\ KeysAreLocked(c)
        /\ OrderIsLocked(c) /\ BatchInOrder(c)
    BY <2>1, QueueFacts DEF Idle, Quiet, ResultsAreLogged, KeysAreLocked,
         OrderIsLocked, BatchInOrder, Decided
  <2>3. StatementInOrder(c) /\ LoadedIsRecent(c) /\ WorkMatchesRows(c)
    BY <2>1 DEF Idle, StatementInOrder, LoadedIsRecent, WorkMatchesRows,
         Pending, OrderStatus, Outcomes
  <2> QED
    BY <2>2, <2>3 DEF SessionOK, LocksOK
<1> QED
  BY <1>1, <1>2, <1>3, <1>4 DEF SyncInv

(***************************************************************************)
(* A step in which one request moves and nothing is committed: the others  *)
(* keep what they had, for a lock is mutual.                               *)
(***************************************************************************)
OnlyRequest(c) ==
  /\ \A d \in Connections \ {c} : request'[d] = request[d]
  /\ UNCHANGED <<order, log>>

LEMMA SameSession ==
  ASSUME NEW c \in Connections, SessionOK(c), request'[c] = request[c],
         UNCHANGED <<order, log>>
  PROVE  SessionOK(c)'
<1>1. Position(c)' = Position(c) /\ Merged(c)' = Merged(c)
  BY DEF Position, Merged
<1>2. Current(c)' = Current(c)
  BY <1>1 DEF Current
<1>3. Quiet(c)' /\ ResultsAreLogged(c)' /\ BatchInOrder(c)'
  BY DEF SessionOK, Quiet, ResultsAreLogged, BatchInOrder, Decided
<1>4. StatementInOrder(c)' /\ LoadedIsRecent(c)'
  BY <1>2 DEF SessionOK, StatementInOrder, LoadedIsRecent, Arbitrate
<1>5. WorkMatchesRows(c)'
  BY <1>1, <1>2 DEF SessionOK, WorkMatchesRows, Pending, Effects, Applied
<1> QED
  BY <1>3, <1>4, <1>5 DEF SessionOK

LEMMA OthersKeep ==
  ASSUME SyncInv, NEW c \in Connections, OnlyRequest(c),
         SessionOK(c)', LocksOK(c)'
  PROVE  /\ LogIsPrefix' /\ Effects(order, log)'
         /\ \A d \in Connections : SessionOK(d)' /\ LocksOK(d)'
<1>1. LogIsPrefix' /\ Effects(order, log)'
  BY DEF SyncInv, OnlyRequest, LogIsPrefix, Effects, Applied
<1>2. ASSUME NEW d \in Connections, d # c
      PROVE  SessionOK(d)' /\ LocksOK(d)'
  <2>1. SessionOK(d)'
    BY <1>2, SameSession DEF SyncInv, OnlyRequest
  <2>2. KeysAreLocked(d)'
    BY <1>2 DEF SyncInv, OnlyRequest, LocksOK, KeysAreLocked
  <2>3. OrderIsLocked(d)'
    BY <1>2 DEF SyncInv, OnlyRequest, LocksOK, OrderIsLocked
  <2> QED
    BY <2>1, <2>2, <2>3 DEF LocksOK
<1> QED
  BY <1>1, <1>2

LEMMA OneRequestMoves ==
  ASSUME SyncInv, NEW c \in Connections, TypeOK', OnlyRequest(c),
         UNCHANGED answer, SessionOK(c)', LocksOK(c)'
  PROVE  SyncInv'
<1>1. AnswersAreLogged'
  BY DEF SyncInv, OnlyRequest, AnswersAreLogged
<1> QED
  BY <1>1, OthersKeep DEF SyncInv

(***************************************************************************)
(* A request that holds no lock and has no transaction.                    *)
(***************************************************************************)
AtRest(c) ==
  /\ request[c].state # "running"
  /\ request[c].wrote = None /\ request[c].loaded = None
  /\ request[c].at = "check"
  /\ \A m \in Mutations : request[c].inserted[m] = None

LEMMA AtRestIsOK ==
  ASSUME NEW c \in Connections, AtRest(c)',
         ResultsAreLogged(c)', BatchInOrder(c)',
         request'[c].state # "answered" =>
           \A m \in Mutations : request'[c].results[m] = None
  PROVE  SessionOK(c)' /\ LocksOK(c)'
<1>1. Quiet(c)' /\ LocksOK(c)'
  BY DEF AtRest, Quiet, LocksOK, KeysAreLocked, OrderIsLocked
<1>2. StatementInOrder(c)' /\ LoadedIsRecent(c)' /\ WorkMatchesRows(c)'
  BY SyncConstants DEF AtRest, StatementInOrder, LoadedIsRecent,
       WorkMatchesRows, Pending, OrderStatus, Outcomes
<1> QED
  BY <1>1, <1>2 DEF SessionOK

LEMMA IdleIsOK ==
  ASSUME NEW c \in Connections, request'[c] = Idle
  PROVE  SessionOK(c)' /\ LocksOK(c)'
<1>1. AtRest(c)' /\ \A m \in Mutations : request'[c].results[m] = None
  BY DEF AtRest, Idle
<1>2. ResultsAreLogged(c)' /\ BatchInOrder(c)'
  BY <1>1, QueueFacts DEF ResultsAreLogged, BatchInOrder, AtRest, Idle
<1> QED
  BY <1>1, <1>2, AtRestIsOK

------------------------------------------------------------------------------
(***************************************************************************)
(* What a step does to the row of the request that moves.                  *)
(***************************************************************************)
LEMMA RowMoves ==
  ASSUME TypeOK, NEW c \in Connections, NEW row \in RequestRow,
         request' = [request EXCEPT ![c] = row],
         UNCHANGED <<queued, answer, order, log>>, faults' \in 0..MaxFaults
  PROVE  TypeOK' /\ OnlyRequest(c) /\ answer' = answer /\ request'[c] = row
<1>1. request' \in [Connections -> RequestRow]
  BY DEF TypeOK, RequestRow
<1>2. TypeOK'
  BY <1>1 DEF TypeOK, RequestRow
<1>3. OnlyRequest(c) /\ answer' = answer /\ request'[c] = row
  BY DEF TypeOK, OnlyRequest
<1> QED
  BY <1>2, <1>3

LEMMA IdleRow == Idle \in RequestRow
  BY DEF Idle, RequestRow

LEMMA SameLocks ==
  ASSUME NEW c \in Connections, LocksOK(c), OnlyRequest(c),
         request'[c].inserted = request[c].inserted,
         request'[c].wrote = request[c].wrote
  PROVE  LocksOK(c)'
  BY DEF LocksOK, KeysAreLocked, OrderIsLocked, OnlyRequest

(* Nothing is written and nothing waits to be inserted, before or after. *)
LEMMA SameWork ==
  ASSUME NEW c \in Connections, WorkMatchesRows(c), UNCHANGED log,
         ~ Pending(c), ~ Pending(c)',
         request'[c].inserted = request[c].inserted,
         request'[c].wrote = request[c].wrote
  PROVE  WorkMatchesRows(c)'
<1>1. Merged(c)' = Merged(c)
  BY DEF Merged
<1> QED
  BY <1>1 DEF WorkMatchesRows, Effects, Applied

LEMMA BackToIdle ==
  ASSUME SyncInv, NEW c \in Connections,
         request' = [request EXCEPT ![c] = Idle],
         UNCHANGED <<queued, answer, order, log>>, faults' \in 0..MaxFaults
  PROVE  SyncInv'
<1>1. TypeOK' /\ OnlyRequest(c) /\ answer' = answer /\ request'[c] = Idle
  BY IdleRow, RowMoves DEF SyncInv
<1>2. SessionOK(c)' /\ LocksOK(c)'
  BY <1>1, IdleIsOK
<1> QED
  BY <1>1, <1>2, OneRequestMoves

LEMMA SendKeepsInv ==
  ASSUME SyncInv, NEW c \in Connections, Send(c)
  PROVE  SyncInv'
<1> DEFINE row == [Idle EXCEPT !.state = "sent", !.todo = Unanswered]
<1>1. Unanswered \subseteq 1..Len(Queue)
  BY QueueFacts DEF Unanswered, SyncInv, TypeOK
<1>2. row \in RequestRow
  BY <1>1 DEF Idle, RequestRow
<1>3. TypeOK' /\ OnlyRequest(c) /\ answer' = answer /\ request'[c] = row
  BY <1>2, RowMoves DEF Send, SyncInv, TypeOK
<1>4. AtRest(c)' /\ \A m \in Mutations : request'[c].results[m] = None
  BY <1>3 DEF AtRest, Idle
<1>5. BatchInOrder(c)'
  <2> SUFFICES ASSUME NEW j \in 1..Len(Queue), NEW k \in 1..Len(Queue), j <= k
               PROVE  /\ k \in Unanswered =>
                           j \in Unanswered \/ log[Queue[j]] # None
                      /\ request'[c].inserted[Queue[k]] = None
    BY <1>3, Zenon DEF BatchInOrder, Decided, OnlyRequest, Idle
  <2>1. request'[c].inserted[Queue[k]] = None
    BY <1>4, QueueFacts DEF AtRest
  <2>2. ASSUME k \in Unanswered, j \notin Unanswered
        PROVE  log[Queue[j]] # None
    <3>1. j \in 1..queued
      BY <2>2, QueueFacts DEF Unanswered, SyncInv, TypeOK
    <3>2. answer[Queue[j]] # None
      BY <2>2, <3>1 DEF Unanswered
    <3> QED
      BY <3>2, QueueFacts DEF SyncInv, AnswersAreLogged
  <2> QED
    BY <2>1, <2>2
<1>6. ResultsAreLogged(c)'
  BY <1>4 DEF ResultsAreLogged
<1>7. SessionOK(c)' /\ LocksOK(c)'
  BY <1>4, <1>5, <1>6, AtRestIsOK
<1> QED
  BY <1>3, <1>7, OneRequestMoves

LEMMA BeginKeepsInv ==
  ASSUME SyncInv, NEW c \in Connections, BeginSync(c)
  PROVE  SyncInv'
<1> DEFINE row == [request[c] EXCEPT !.state = "running"]
<1>1. row \in RequestRow
  BY RequestFields DEF SyncInv, RequestRow
<1>2. request' = [request EXCEPT ![c] = row]
  BY DEF BeginSync, SyncInv, TypeOK
<1>3. TypeOK' /\ OnlyRequest(c) /\ answer' = answer /\ request'[c] = row
  BY <1>1, <1>2, RowMoves DEF BeginSync, SyncInv, TypeOK
<1>4. /\ request'[c].state = "running"
      /\ request'[c].wrote = None /\ request'[c].loaded = None
      /\ request'[c].at = "check"
      /\ request'[c].todo = request[c].todo
      /\ request'[c].inserted = request[c].inserted
      /\ request'[c].results = request[c].results
      /\ \A m \in Mutations : request'[c].inserted[m] = None
  BY <1>1, <1>3 DEF BeginSync, SyncInv, SessionOK, Quiet, RequestRow
<1>5. Quiet(c)' /\ ResultsAreLogged(c)' /\ BatchInOrder(c)'
  BY <1>3, <1>4 DEF SyncInv, SessionOK, Quiet, ResultsAreLogged, BatchInOrder,
       Decided, OnlyRequest
<1>6. StatementInOrder(c)' /\ LoadedIsRecent(c)' /\ WorkMatchesRows(c)'
  BY <1>4, SyncConstants DEF StatementInOrder, LoadedIsRecent,
       WorkMatchesRows, Pending, OrderStatus, Outcomes
<1>7. LocksOK(c)'
  BY <1>4 DEF LocksOK, KeysAreLocked, OrderIsLocked
<1> QED
  BY <1>3, <1>5, <1>6, <1>7, OneRequestMoves DEF SessionOK

------------------------------------------------------------------------------
(***************************************************************************)
(* The statements of a transaction.                                        *)
(***************************************************************************)

(* A row inserted, or found, for the first mutation of the batch. *)
LEMMA BatchAdvances ==
  ASSUME TypeOK, NEW c \in Connections, BatchInOrder(c), UNCHANGED log,
         request[c].todo # {}, request'[c].todo = request[c].todo \ {Position(c)},
         NEW m, m = Current(c),
         \A n \in Mutations \ {m} :
           request'[c].inserted[n] = request[c].inserted[n],
         Decided(c, m)'
  PROVE  BatchInOrder(c)'
<1>1. PICK p \in request[c].todo :
        /\ p = Position(c) /\ p \in 1..Len(Queue)
        /\ \A j \in request[c].todo : p <= j
        /\ m = Queue[p]
  BY CurrentFacts
<1>2. request[c].todo \subseteq 1..Len(Queue)
  BY RequestFields
<1>3. \A k \in 1..Len(Queue) : k # p => Queue[k] \in Mutations \ {m}
  <2>1. \A j, k \in 1..Len(Queue) : Queue[j] = Queue[k] => j = k
    BY SyncConstants
  <2>2. \A k \in 1..Len(Queue) : Queue[k] \in Mutations
    BY QueueFacts
  <2> QED
    BY <1>1, <2>1, <2>2
<1>4. \A k \in 1..Len(Queue) : Decided(c, Queue[k]) => Decided(c, Queue[k])'
  BY <1>1, <1>3 DEF Decided
<1>5. Decided(c, Queue[p])'
  BY <1>1
<1> SUFFICES ASSUME NEW j \in 1..Len(Queue), NEW k \in 1..Len(Queue), j <= k
             PROVE  /\ k \in request'[c].todo =>
                         j \in request'[c].todo \/ Decided(c, Queue[j])'
                    /\ request'[c].inserted[Queue[k]] # None =>
                         j \notin request'[c].todo /\ Decided(c, Queue[j])'
  BY DEF BatchInOrder
<1>6. ASSUME k \in request'[c].todo, j \notin request'[c].todo
      PROVE  Decided(c, Queue[j])'
  BY <1>1, <1>4, <1>5, <1>6 DEF BatchInOrder
<1>7. ASSUME request'[c].inserted[Queue[k]] # None
      PROVE  j \notin request'[c].todo /\ Decided(c, Queue[j])'
  <2>1. CASE k = p
    <3>1. j = p \/ j \notin request[c].todo
      BY <1>1, <1>2, <2>1
    <3>2. j = p \/ Decided(c, Queue[j])
      BY <1>1, <2>1, <3>1 DEF BatchInOrder
    <3> QED
      BY <1>1, <1>4, <1>5, <3>1, <3>2
  <2>2. CASE k # p
    <3>1. request[c].inserted[Queue[k]] # None
      BY <1>3, <1>7, <2>2
    <3>2. j \notin request[c].todo /\ Decided(c, Queue[j])
      BY <3>1 DEF BatchInOrder
    <3> QED
      BY <1>4, <3>2
  <2> QED
    BY <2>1, <2>2
<1> QED
  BY <1>6, <1>7

LEMMA CheckKeepsInv ==
  ASSUME SyncInv, NEW c \in Connections, CheckLog(c)
  PROVE  SyncInv'
<1> DEFINE m == Current(c)
           found == [request[c] EXCEPT !.results = [@ EXCEPT ![m] = log[m]],
                                       !.todo = @ \ {Position(c)}]
           absent == [request[c] EXCEPT !.at = "load"]
<1>1. /\ TypeOK /\ SessionOK(c) /\ LocksOK(c)
      /\ request[c].state = "running" /\ request[c].todo # {}
      /\ request[c].at = "check"
  BY DEF SyncInv, CheckLog, Running
<1>2. /\ Position(c) \in request[c].todo /\ m \in Mutations
      /\ request[c] \in RequestRow
      /\ request[c].todo \in SUBSET (1..Len(Queue))
      /\ log[m] \in Outcomes \cup {None}
  BY <1>1, CurrentFacts, RequestFields DEF TypeOK
<1>3. CASE log[m] # None
  <2>1. found \in RequestRow
    BY <1>2 DEF RequestRow
  <2>2. request' = [request EXCEPT ![c] = found]
    BY <1>3 DEF CheckLog, SyncInv, TypeOK
  <2>3. TypeOK' /\ OnlyRequest(c) /\ answer' = answer /\ request'[c] = found
    BY <1>1, <2>1, <2>2, RowMoves DEF CheckLog, TypeOK
  <2>4. /\ request'[c].state = "running" /\ request'[c].at = "check"
        /\ request'[c].todo = request[c].todo \ {Position(c)}
        /\ request'[c].inserted = request[c].inserted
        /\ request'[c].wrote = request[c].wrote
        /\ request'[c].loaded = request[c].loaded
        /\ request'[c].results = [request[c].results EXCEPT ![m] = log[m]]
    BY <1>1, <1>2, <2>3 DEF RequestRow
  <2>5. log' = log /\ order' = order
    BY DEF CheckLog
  <2>6. BatchInOrder(c)'
    <3>1. PICK n : n = m
      OBVIOUS
    <3>2. Decided(c, n)'
      BY <1>3, <2>5, <3>1 DEF Decided
    <3> QED
      BY <1>1, <2>4, <2>5, <3>1, <3>2, BatchAdvances DEF SessionOK
  <2>7. ResultsAreLogged(c)'
    BY <1>1, <1>2, <2>4, <2>5 DEF SessionOK, ResultsAreLogged, RequestRow
  <2>8. Quiet(c)' /\ StatementInOrder(c)' /\ LoadedIsRecent(c)'
    BY <1>1, <2>4, <2>5 DEF SessionOK, Quiet, StatementInOrder, LoadedIsRecent
  <2>9. WorkMatchesRows(c)' /\ LocksOK(c)'
    BY <1>1, <2>3, <2>4, <2>5, SameWork, SameLocks DEF SessionOK, Pending
  <2> QED
    BY <2>3, <2>6, <2>7, <2>8, <2>9, OneRequestMoves DEF SessionOK
<1>4. CASE log[m] = None
  <2>1. absent \in RequestRow
    BY <1>2 DEF RequestRow
  <2>2. request' = [request EXCEPT ![c] = absent]
    BY <1>4 DEF CheckLog, SyncInv, TypeOK
  <2>3. TypeOK' /\ OnlyRequest(c) /\ answer' = answer /\ request'[c] = absent
    BY <1>1, <2>1, <2>2, RowMoves DEF CheckLog, TypeOK
  <2>4. /\ request'[c].state = "running" /\ request'[c].at = "load"
        /\ request'[c].todo = request[c].todo
        /\ request'[c].inserted = request[c].inserted
        /\ request'[c].wrote = request[c].wrote
        /\ request'[c].loaded = request[c].loaded
        /\ request'[c].results = request[c].results
    BY <1>1, <1>2, <2>3 DEF RequestRow
  <2>5. log' = log /\ order' = order
    BY DEF CheckLog
  <2>6. BatchInOrder(c)' /\ ResultsAreLogged(c)'
    BY <1>1, <2>4, <2>5 DEF SessionOK, BatchInOrder, Decided, ResultsAreLogged
  <2>7. Quiet(c)' /\ StatementInOrder(c)' /\ LoadedIsRecent(c)'
    BY <1>1, <2>4, <2>5 DEF SessionOK, Quiet, StatementInOrder, LoadedIsRecent
  <2>8. WorkMatchesRows(c)' /\ LocksOK(c)'
    BY <1>1, <2>3, <2>4, <2>5, SameWork, SameLocks DEF SessionOK, Pending
  <2> QED
    BY <2>3, <2>6, <2>7, <2>8, OneRequestMoves DEF SessionOK
<1> QED
  BY <1>3, <1>4

LEMMA LoadKeepsInv ==
  ASSUME SyncInv, NEW c \in Connections, LoadOrder(c)
  PROVE  SyncInv'
<1> DEFINE verdict == Arbitrate(Current(c), Loaded(c))
           row == [request[c] EXCEPT
                     !.loaded = Loaded(c), !.outcome = verdict,
                     !.at = IF verdict = "applied" THEN "write" ELSE "insert"]
<1>1. /\ TypeOK /\ SessionOK(c) /\ LocksOK(c)
      /\ request[c].state = "running" /\ request[c].todo # {}
      /\ request[c].at = "load"
  BY DEF SyncInv, LoadOrder, Running
<1>2. /\ request[c] \in RequestRow
      /\ Loaded(c) \in OrderStatus
      /\ verdict \in Outcomes
  BY <1>1, RequestFields DEF TypeOK, Loaded, Arbitrate, Outcomes
<1>3. row \in RequestRow
  BY <1>2 DEF RequestRow
<1>4. request' = [request EXCEPT ![c] = row]
  BY DEF LoadOrder, SyncInv, TypeOK
<1>5. TypeOK' /\ OnlyRequest(c) /\ answer' = answer /\ request'[c] = row
  BY <1>1, <1>3, <1>4, RowMoves DEF LoadOrder, TypeOK
<1>6. /\ request'[c].state = "running"
      /\ request'[c].at = IF verdict = "applied" THEN "write" ELSE "insert"
      /\ request'[c].todo = request[c].todo
      /\ request'[c].inserted = request[c].inserted
      /\ request'[c].wrote = request[c].wrote
      /\ request'[c].loaded = Loaded(c)
      /\ request'[c].outcome = verdict
      /\ request'[c].results = request[c].results
  BY <1>1, <1>2, <1>5 DEF RequestRow
<1>7. log' = log /\ order' = order
  BY DEF LoadOrder
<1>8. Quiet(c)' /\ BatchInOrder(c)' /\ ResultsAreLogged(c)'
  BY <1>1, <1>6, <1>7
     DEF SessionOK, Quiet, BatchInOrder, Decided, ResultsAreLogged
<1>9. StatementInOrder(c)'
  <2>1. Current(c)' = Current(c)
    BY <1>6 DEF Current, Position
  <2>2. verdict # None /\ Loaded(c) # None
    BY <1>2, SyncConstants
  <2> QED
    BY <1>1, <1>6, <2>1, <2>2 DEF StatementInOrder, Arbitrate
<1>10. LoadedIsRecent(c)'
  BY <1>1, <1>6, <1>7 DEF SessionOK, LoadedIsRecent, Loaded
<1>11. WorkMatchesRows(c)' /\ LocksOK(c)'
  BY <1>1, <1>5, <1>6, <1>7, SameWork, SameLocks DEF SessionOK, Pending
<1> QED
  BY <1>5, <1>8, <1>9, <1>10, <1>11, OneRequestMoves DEF SessionOK

(***************************************************************************)
(* A start whose row is not in the log yet comes before every resolution:  *)
(* none can be in the log, nor among the rows of the same batch.           *)
(***************************************************************************)
LEMMA StartComesFirst ==
  ASSUME TypeOK, LogIsPrefix, NEW c \in Connections, BatchInOrder(c),
         request[c].todo # {}, Action[Current(c)] = "start",
         log[Current(c)] = None
  PROVE  ~ Applied(Merged(c), "resolve")
<1> SUFFICES ASSUME NEW n \in Mutations, Merged(c)[n] = "applied",
                    Action[n] = "resolve"
             PROVE  FALSE
  BY DEF Applied
<1>1. PICK p \in request[c].todo :
        p \in 1..Len(Queue) /\ Current(c) = Queue[p]
  BY CurrentFacts
<1>2. PICK k \in 1..Len(Queue) : n = Queue[k]
  BY QueueFacts
<1>3. p < k
  <2>1. p # k
    BY <1>1, <1>2
  <2>2. \A i, j \in 1..Len(Queue) :
          i < j => Action[Queue[i]] = "start" \/ Action[Queue[j]] = "resolve"
    BY SyncConstants
  <2>3. ~ (k < p)
    BY <1>1, <1>2, <2>2
  <2> QED
    BY <1>1, <2>1, <2>3, QueueFacts
<1>4. CASE request[c].inserted[n] # None
  BY <1>1, <1>2, <1>3, <1>4 DEF BatchInOrder
<1>5. CASE request[c].inserted[n] = None
  <2>1. log[n] # None
    BY <1>5, SyncConstants DEF Merged, Outcomes
  <2> QED
    BY <1>1, <1>2, <1>3, <2>1 DEF LogIsPrefix
<1> QED
  BY <1>4, <1>5

(***************************************************************************)
(* What the log row of the current mutation will add.                      *)
(***************************************************************************)
LEMMA AppliedGrows ==
  ASSUME NEW rows, rows \in [Mutations -> Outcomes \cup {None}],
         NEW m \in Mutations, NEW action
  PROVE  Applied([rows EXCEPT ![m] = "applied"], action)
           <=> Applied(rows, action) \/ Action[m] = action
  BY DEF Applied

LEMMA AppliedSame ==
  ASSUME NEW rows, rows \in [Mutations -> Outcomes \cup {None}],
         NEW m \in Mutations, rows[m] # "applied",
         NEW outcome, outcome # "applied", NEW action
  PROVE  Applied([rows EXCEPT ![m] = outcome], action) <=> Applied(rows, action)
  BY DEF Applied

(* Without a write of its own, a transaction adds nothing to what is applied. *)
LEMMA NothingMerged ==
  ASSUME TypeOK, NEW c \in Connections, KeysAreLocked(c),
         \A m \in Mutations : request[c].inserted[m] # "applied", NEW action
  PROVE  Applied(Merged(c), action) <=> Applied(log, action)
  BY SyncConstants DEF Applied, Merged, KeysAreLocked, Outcomes

LEMMA MergedType ==
  ASSUME TypeOK, NEW c \in Connections
  PROVE  Merged(c) \in [Mutations -> Outcomes \cup {None}]
<1>1. /\ request[c].inserted \in [Mutations -> Outcomes \cup {None}]
      /\ log \in [Mutations -> Outcomes \cup {None}]
  BY RequestFields DEF TypeOK
<1> QED
  BY <1>1 DEF Merged

(***************************************************************************)
(* The order as WriteOrder leaves it is what the log will say, if the row  *)
(* of the mutation can be inserted.                                        *)
(***************************************************************************)
Written(c) ==
  LET to == IF Action[Current(c)] = "start" THEN "in_progress" ELSE "completed"
      visible == IF request[c].wrote = None THEN order ELSE request[c].wrote
  IN  IF to # request[c].loaded THEN to ELSE visible

LEMMA WriteIsRight ==
  ASSUME SyncInv, NEW c \in Connections, Running(c, "write")
  PROVE  /\ Written(c) \in OrderStatus
         /\ Written(c) # "dispatched"
         /\ log[Current(c)] = None =>
              Effects(Written(c), [Merged(c) EXCEPT ![Current(c)] = "applied"])
<1> DEFINE m == Current(c)
           after == [Merged(c) EXCEPT ![m] = "applied"]
<1>1. /\ TypeOK /\ SessionOK(c) /\ LocksOK(c) /\ LogIsPrefix
      /\ Effects(order, log)
      /\ request[c].todo # {} /\ request[c].at = "write"
      /\ ~ Pending(c)
  BY DEF SyncInv, Running, Pending
<1>2. m \in Mutations /\ Action[m] \in {"start", "resolve"}
  BY <1>1, CurrentFacts, SyncConstants
<1>3. /\ request[c].loaded # None
      /\ Arbitrate(m, request[c].loaded) = "applied"
      /\ request[c].wrote # "dispatched"
      /\ request[c].wrote = None /\ order = "dispatched"
           => request[c].loaded = "dispatched"
  BY <1>1 DEF SessionOK, StatementInOrder, LoadedIsRecent
<1>4. \A action : Applied(after, action)
                    <=> Applied(Merged(c), action) \/ Action[m] = action
  BY <1>1, <1>2, MergedType, AppliedGrows
<1>5. order \in OrderStatus /\ request[c].wrote \in OrderStatus \cup {None}
  BY <1>1, RequestFields DEF TypeOK
<1> HIDE DEF after, m
<1>6. CASE Action[m] = "resolve"
  <2>1. Written(c) = "completed"
    BY <1>3, <1>6 DEF Written, Arbitrate, m
  <2>2. Effects("completed", after)
    BY <1>4, <1>6 DEF Effects
  <2> QED
    BY <2>1, <2>2 DEF after, m, OrderStatus
<1>7. CASE Action[m] = "start" /\ request[c].loaded # "in_progress"
  <2>1. Written(c) = "in_progress"
    BY <1>7 DEF Written, m
  <2>2. ASSUME log[m] = None
        PROVE  Effects("in_progress", after)
    <3>1. ~ Applied(Merged(c), "resolve")
      BY <1>1, <1>7, <2>2, StartComesFirst DEF SessionOK, m
    <3> QED
      BY <1>4, <1>7, <3>1 DEF Effects
  <2> QED
    BY <2>1, <2>2 DEF after, m, OrderStatus
<1>8. CASE /\ Action[m] = "start" /\ request[c].loaded = "in_progress"
           /\ request[c].wrote # None
  <2>1. Written(c) = request[c].wrote
    BY <1>8 DEF Written, m
  <2>2. Effects(request[c].wrote, Merged(c))
    BY <1>1, <1>8 DEF SessionOK, WorkMatchesRows
  <2>3. Effects(request[c].wrote, after)
    BY <1>3, <1>4, <1>8, <2>2 DEF Effects
  <2> QED
    BY <1>3, <1>5, <1>8, <2>1, <2>3 DEF after, m
<1>9. CASE /\ Action[m] = "start" /\ request[c].loaded = "in_progress"
           /\ request[c].wrote = None
  <2>1. Written(c) = order /\ order # "dispatched"
    BY <1>3, <1>9 DEF Written, m
  <2>2. \A action : Applied(Merged(c), action) <=> Applied(log, action)
    BY <1>1, <1>9, NothingMerged DEF SessionOK, LocksOK, WorkMatchesRows
  <2>3. Effects(order, after)
    BY <1>1, <1>4, <1>9, <2>1, <2>2 DEF Effects
  <2> QED
    BY <1>5, <2>1, <2>3 DEF after, m
<1> QED
  BY <1>2, <1>6, <1>7, <1>8, <1>9

LEMMA WriteKeepsInv ==
  ASSUME SyncInv, NEW c \in Connections, WriteOrder(c)
  PROVE  SyncInv'
<1> DEFINE to == IF Action[Current(c)] = "start" THEN "in_progress"
                                                 ELSE "completed"
           row == [request[c] EXCEPT !.wrote = Written(c), !.loaded = to,
                                     !.at = "insert"]
<1>1. /\ TypeOK /\ SessionOK(c) /\ LocksOK(c)
      /\ request[c].state = "running" /\ request[c].todo # {}
      /\ request[c].at = "write"
      /\ request[c].outcome = "applied"
      /\ Running(c, "write")
  BY DEF SyncInv, WriteOrder, Running, SessionOK, StatementInOrder
<1>2. /\ request[c] \in RequestRow
      /\ Written(c) \in OrderStatus /\ Written(c) # "dispatched"
      /\ to \in OrderStatus
  BY <1>1, RequestFields, WriteIsRight DEF OrderStatus
<1>3. row \in RequestRow
  BY <1>2 DEF RequestRow
<1>4. request' = [request EXCEPT ![c] = row]
  BY DEF WriteOrder, Written, SyncInv, TypeOK
<1>5. TypeOK' /\ OnlyRequest(c) /\ answer' = answer /\ request'[c] = row
  BY <1>1, <1>3, <1>4, RowMoves DEF WriteOrder, TypeOK
<1>6. /\ request'[c].state = "running"
      /\ request'[c].at = "insert"
      /\ request'[c].todo = request[c].todo
      /\ request'[c].inserted = request[c].inserted
      /\ request'[c].wrote = Written(c)
      /\ request'[c].outcome = "applied"
      /\ request'[c].results = request[c].results
  BY <1>1, <1>2, <1>5 DEF RequestRow
<1>7. log' = log /\ order' = order
  BY DEF WriteOrder
<1>8. Quiet(c)' /\ BatchInOrder(c)' /\ ResultsAreLogged(c)'
  BY <1>1, <1>6, <1>7
     DEF SessionOK, Quiet, BatchInOrder, Decided, ResultsAreLogged
<1>9. StatementInOrder(c)' /\ LoadedIsRecent(c)'
  BY <1>1, <1>2, <1>6, SyncConstants
     DEF StatementInOrder, LoadedIsRecent, Outcomes
<1>10. WorkMatchesRows(c)'
  <2>1. Current(c)' = Current(c) /\ Merged(c)' = Merged(c)
    BY <1>6, <1>7 DEF Current, Position, Merged
  <2>2. log[Current(c)] = None =>
          Effects(Written(c), [Merged(c) EXCEPT ![Current(c)] = "applied"])
    BY <1>1, WriteIsRight
  <2> QED
    BY <1>2, <1>6, <1>7, <2>1, <2>2, SyncConstants
       DEF WorkMatchesRows, Pending, Effects, Applied
<1>11. LocksOK(c)'
  <2>1. KeysAreLocked(c)'
    BY <1>1, <1>5, <1>6, <1>7 DEF LocksOK, KeysAreLocked, OnlyRequest
  <2>2. OrderIsLocked(c)'
    BY <1>5 DEF WriteOrder, OrderIsLocked, OnlyRequest
  <2> QED
    BY <2>1, <2>2 DEF LocksOK
<1> QED
  BY <1>5, <1>8, <1>9, <1>10, <1>11, OneRequestMoves DEF SessionOK

LEMMA InsertKeepsInv ==
  ASSUME SyncInv, NEW c \in Connections, InsertLog(c)
  PROVE  SyncInv'
<1>1. PICK m \in Mutations : m = Current(c)
  BY CurrentFacts DEF SyncInv, InsertLog, Running
<1> DEFINE outcome == request[c].outcome
           row == [request[c] EXCEPT !.inserted = [@ EXCEPT ![m] = outcome],
                                     !.results = [@ EXCEPT ![m] = outcome],
                                     !.todo = @ \ {Position(c)},
                                     !.at = "check"]
<1>2. /\ TypeOK /\ SessionOK(c) /\ LocksOK(c)
      /\ request[c].state = "running" /\ request[c].todo # {}
      /\ request[c].at = "insert" /\ outcome # None
      /\ KeyFree(c, m) /\ log[m] = None
  BY <1>1 DEF SyncInv, InsertLog, Running, SessionOK, StatementInOrder
<1>3. request[c] \in RequestRow /\ outcome \in Outcomes
  BY <1>2, RequestFields
<1>4. row \in RequestRow
  BY <1>3 DEF RequestRow
<1>5. request' = [request EXCEPT ![c] = row]
  <2>1. request' = [request EXCEPT ![c].inserted[m] = outcome,
                                   ![c].results[m] = outcome,
                                   ![c].todo = @ \ {Position(c)},
                                   ![c].at = "check"]
    BY <1>1 DEF InsertLog
  <2>2. c \in DOMAIN request
    BY <1>2 DEF TypeOK
  <2> QED
    BY <1>3, <2>1, <2>2 DEF RequestRow
<1>6. TypeOK' /\ OnlyRequest(c) /\ answer' = answer /\ request'[c] = row
  BY <1>2, <1>4, <1>5, RowMoves DEF InsertLog, TypeOK
<1>7. /\ request'[c].state = "running"
      /\ request'[c].at = "check"
      /\ request'[c].todo = request[c].todo \ {Position(c)}
      /\ request'[c].inserted = [request[c].inserted EXCEPT ![m] = outcome]
      /\ request'[c].wrote = request[c].wrote
      /\ request'[c].loaded = request[c].loaded
      /\ request'[c].results = [request[c].results EXCEPT ![m] = outcome]
      /\ request[c].inserted \in [Mutations -> Outcomes \cup {None}]
      /\ request[c].results \in [Mutations -> Outcomes \cup {None}]
  BY <1>2, <1>3, <1>6 DEF RequestRow
<1>8. log' = log /\ order' = order
  BY DEF InsertLog
<1>9. Quiet(c)' /\ StatementInOrder(c)' /\ LoadedIsRecent(c)'
  BY <1>2, <1>7, <1>8 DEF SessionOK, Quiet, StatementInOrder, LoadedIsRecent
<1>10. ResultsAreLogged(c)'
  BY <1>2, <1>7, <1>8 DEF SessionOK, ResultsAreLogged
<1>11. BatchInOrder(c)'
  BY <1>1, <1>2, <1>7, <1>8, BatchAdvances DEF SessionOK, Decided
<1>12. request[c].inserted[m] = None
  <2>1. PICK p \in request[c].todo : p \in 1..Len(Queue) /\ m = Queue[p]
    BY <1>1, <1>2, CurrentFacts
  <2> QED
    BY <1>2, <2>1, QueueFacts DEF SessionOK, BatchInOrder
<1>13. WorkMatchesRows(c)'
  <2>1. Merged(c)' = [Merged(c) EXCEPT ![m] = outcome]
    BY <1>2, <1>7, <1>8 DEF Merged
  <2>2. Merged(c)[m] # "applied"
    BY <1>2, <1>12, SyncConstants DEF Merged, Outcomes
  <2>3. CASE request[c].wrote = None
    <3>1. outcome # "applied"
      BY <1>2, <2>3 DEF SessionOK, WorkMatchesRows, Pending
    <3>2. \A n \in Mutations : request'[c].inserted[n] # "applied"
      BY <1>2, <1>7, <2>3, <3>1 DEF SessionOK, WorkMatchesRows
    <3> QED
      BY <1>7, <2>3, <3>2 DEF WorkMatchesRows, Pending
  <2>4. CASE request[c].wrote # None /\ outcome = "applied"
    <3>1. Effects(request[c].wrote, [Merged(c) EXCEPT ![m] = "applied"])
      BY <1>1, <1>2, <2>4 DEF SessionOK, WorkMatchesRows, Pending
    <3>2. Effects(request[c].wrote, Merged(c)')
      BY <2>1, <2>4, <3>1
    <3> QED
      BY <1>7, <2>4, <3>2 DEF WorkMatchesRows, Pending, Effects, Applied
  <2>5. CASE request[c].wrote # None /\ outcome # "applied"
    <3>1. Effects(request[c].wrote, Merged(c))
      BY <1>2, <2>5 DEF SessionOK, WorkMatchesRows, Pending
    <3>2. \A action :
            Applied([Merged(c) EXCEPT ![m] = outcome], action)
              <=> Applied(Merged(c), action)
      BY <1>2, <2>2, <2>5, MergedType, AppliedSame
    <3>3. Effects(request[c].wrote, [Merged(c) EXCEPT ![m] = outcome])
      BY <3>1, <3>2 DEF Effects
    <3>4. Effects(request[c].wrote, Merged(c)')
      BY <2>1, <3>3
    <3> QED
      BY <1>7, <2>5, <3>4 DEF WorkMatchesRows, Pending, Effects, Applied
  <2> QED
    BY <2>3, <2>4, <2>5
<1>14. LocksOK(c)'
  <2>1. KeysAreLocked(c)'
    BY <1>2, <1>6, <1>7, <1>8 DEF LocksOK, KeysAreLocked, KeyFree, OnlyRequest
  <2>2. OrderIsLocked(c)'
    BY <1>2, <1>6, <1>7 DEF LocksOK, OrderIsLocked, OnlyRequest
  <2> QED
    BY <2>1, <2>2 DEF LocksOK
<1> QED
  BY <1>6, <1>9, <1>10, <1>11, <1>13, <1>14, OneRequestMoves DEF SessionOK

------------------------------------------------------------------------------
(***************************************************************************)
(* COMMIT: the uncommitted rows join the log, and the locks end.           *)
(***************************************************************************)
LEMMA CommitKeepsInv ==
  ASSUME SyncInv, NEW c \in Connections, CommitSync(c)
  PROVE  /\ SyncInv'
         /\ \A m \in Mutations : log[m] # None => log'[m] = log[m]
<1> DEFINE row == [Idle EXCEPT !.state = "answered",
                               !.results = request[c].results]
<1>1. /\ TypeOK /\ SessionOK(c) /\ LocksOK(c)
      /\ request[c].state = "running" /\ request[c].todo = {}
      /\ request[c].at = "check" /\ ~ Pending(c)
  BY DEF SyncInv, CommitSync, SessionOK, StatementInOrder, Pending
<1>2. log' = Merged(c) /\ answer' = answer
  BY DEF CommitSync, Merged
<1>3. order' = IF request[c].wrote = None THEN order ELSE request[c].wrote
  BY DEF CommitSync
<1>4. row \in RequestRow
  BY <1>1, RequestFields DEF Idle, RequestRow
<1>5. /\ request'[c] = row
      /\ \A d \in Connections \ {c} : request'[d] = request[d]
      /\ request' \in [Connections -> RequestRow]
  BY <1>1, <1>4 DEF CommitSync, TypeOK, RequestRow
<1>6. Merged(c) \in [Mutations -> Outcomes \cup {None}]
  BY <1>1, MergedType
<1>7. order' \in OrderStatus
  BY <1>1, <1>3, RequestFields DEF TypeOK
<1>8. TypeOK'
  BY <1>1, <1>2, <1>5, <1>6, <1>7 DEF CommitSync, TypeOK, RequestRow
<1>9. \A m \in Mutations :
        /\ log[m] # None => request[c].inserted[m] = None /\ log'[m] = log[m]
        /\ request[c].inserted[m] # None => log'[m] = request[c].inserted[m]
        /\ request[c].inserted[m] = None => log'[m] = log[m]
        /\ log'[m] # None <=> Decided(c, m)
  BY <1>1, <1>2 DEF LocksOK, KeysAreLocked, Merged, Decided
<1>10. AnswersAreLogged'
  BY <1>2, <1>9 DEF SyncInv, AnswersAreLogged
<1>11. LogIsPrefix'
  <2> SUFFICES ASSUME NEW j \in 1..Len(Queue), NEW k \in 1..Len(Queue), j < k,
                      log'[Queue[k]] # None
               PROVE  Decided(c, Queue[j])
    BY <1>9, QueueFacts DEF LogIsPrefix
  <2>1. Decided(c, Queue[k])
    BY <1>9, QueueFacts
  <2>2. CASE log[Queue[k]] # None
    BY <2>2, QueueFacts DEF SyncInv, LogIsPrefix, Decided
  <2>3. CASE request[c].inserted[Queue[k]] # None
    BY <1>1, <2>3, QueueFacts DEF SessionOK, BatchInOrder
  <2> QED
    BY <2>1, <2>2, <2>3 DEF Decided
<1>12. Effects(order, log)'
  <2>1. CASE request[c].wrote # None
    <3>1. Effects(request[c].wrote, Merged(c))
      BY <1>1, <2>1 DEF SessionOK, WorkMatchesRows
    <3> QED
      BY <1>2, <1>3, <2>1, <3>1 DEF Effects, Applied
  <2>2. CASE request[c].wrote = None
    <3>1. \A action : Applied(Merged(c), action) <=> Applied(log, action)
      BY <1>1, <2>2, NothingMerged DEF SessionOK, LocksOK, WorkMatchesRows
    <3>2. Effects(order, Merged(c))
      BY <3>1 DEF SyncInv, Effects
    <3> QED
      BY <1>2, <1>3, <2>2, <3>2 DEF Effects, Applied
  <2> QED
    BY <2>1, <2>2
<1>13. SessionOK(c)' /\ LocksOK(c)'
  <2>1. AtRest(c)' /\ request'[c].todo = {}
    BY <1>5 DEF AtRest, Idle
  <2>2. request'[c].results = request[c].results
    BY <1>5 DEF Idle
  <2>3. ResultsAreLogged(c)'
    BY <1>1, <1>9, <2>2 DEF SessionOK, ResultsAreLogged
  <2>4. BatchInOrder(c)'
    BY <2>1, QueueFacts DEF BatchInOrder, AtRest
  <2>5. request'[c].state = "answered"
    BY <1>5 DEF Idle
  <2> QED
    BY <2>1, <2>3, <2>4, <2>5, AtRestIsOK
<1>14. ASSUME NEW d \in Connections, d # c
       PROVE  SessionOK(d)' /\ LocksOK(d)'
  <2>1. SessionOK(d) /\ LocksOK(d) /\ request'[d] = request[d]
    BY <1>5, <1>14 DEF SyncInv
  <2>2. /\ Position(d)' = Position(d)
        /\ Current(d)' = Current(d)
        /\ Pending(d)' = Pending(d)
    BY <2>1 DEF Current, Position, Pending
  <2>3. \A m \in Mutations :
          request[d].inserted[m] # None => request[c].inserted[m] = None
    BY <1>1, <1>14 DEF LocksOK, KeysAreLocked
  <2>4. Quiet(d)' /\ StatementInOrder(d)'
    BY <2>1, <2>2 DEF SessionOK, Quiet, StatementInOrder, Arbitrate
  <2>5. ResultsAreLogged(d)'
    BY <1>9, <2>1 DEF SessionOK, ResultsAreLogged
  <2>6. BatchInOrder(d)'
    <3>1. \A m \in Mutations : Decided(d, m) => Decided(d, m)'
      BY <1>9, <2>1 DEF Decided
    <3> QED
      BY <2>1, <3>1, QueueFacts DEF SessionOK, BatchInOrder
  <2>7. LoadedIsRecent(d)'
    BY <1>1, <1>3, <2>1 DEF SessionOK, LoadedIsRecent
  <2>8. LocksOK(d)'
    <3>1. KeysAreLocked(d)'
      <4> SUFFICES ASSUME NEW m \in Mutations, request[d].inserted[m] # None
                   PROVE  /\ log'[m] = None
                          /\ \A e \in Connections \ {d} :
                               request'[e].inserted[m] = None
        BY <2>1 DEF KeysAreLocked
      <4>1. log[m] = None /\ request[c].inserted[m] = None
        BY <2>1, <2>3 DEF LocksOK, KeysAreLocked
      <4>2. log'[m] = None
        BY <1>9, <4>1
      <4>3. \A e \in Connections \ {d} : request[e].inserted[m] = None
        BY <2>1 DEF LocksOK, KeysAreLocked
      <4>4. request'[c].inserted[m] = None
        BY <1>5 DEF Idle
      <4>5. \A e \in Connections \ {d} : request'[e].inserted[m] = None
        BY <1>5, <4>3, <4>4
      <4> QED
        BY <4>2, <4>5
    <3>2. OrderIsLocked(d)'
      BY <1>5, <2>1 DEF LocksOK, OrderIsLocked, Idle
    <3> QED
      BY <3>1, <3>2 DEF LocksOK
  <2>9. WorkMatchesRows(d)'
    <3>1. CASE request[d].wrote = None
      BY <2>1, <2>2, <3>1 DEF SessionOK, WorkMatchesRows
    <3>2. CASE request[d].wrote # None
      <4>1. request[c].wrote = None
        BY <1>14, <2>1, <3>2 DEF LocksOK, OrderIsLocked
      <4>2. \A m \in Mutations : request[c].inserted[m] # "applied"
        BY <1>1, <4>1 DEF SessionOK, WorkMatchesRows
      <4>3. \A m \in Mutations :
              Merged(d)[m]' = "applied" <=> Merged(d)[m] = "applied"
        BY <1>9, <2>1, <4>2, SyncConstants DEF Merged, Outcomes
      <4>4. /\ Merged(d) \in [Mutations -> Outcomes \cup {None}]
            /\ Merged(d)' \in [Mutations -> Outcomes \cup {None}]
        BY <1>1, <1>8, MergedType DEF Merged, TypeOK
      <4>5. CASE ~ Pending(d)
        <5>1. Effects(request[d].wrote, Merged(d))
          BY <2>1, <3>2, <4>5 DEF SessionOK, WorkMatchesRows
        <5>2. \A action :
                Applied(Merged(d)', action) <=> Applied(Merged(d), action)
          BY <4>3 DEF Applied
        <5>3. Effects(request[d].wrote, Merged(d)')
          BY <5>1, <5>2 DEF Effects
        <5> QED
          BY <2>1, <2>2, <3>2, <4>5, <5>3 DEF WorkMatchesRows, Effects, Applied
      <4>6. CASE Pending(d) /\ log'[Current(d)] = None
        <5>1. PICK m \in Mutations : m = Current(d)
          BY <1>1, <2>1, <4>6, CurrentFacts
             DEF Pending, SessionOK, StatementInOrder
        <5>2. Effects(request[d].wrote, [Merged(d) EXCEPT ![m] = "applied"])
          BY <1>9, <2>1, <3>2, <4>6, <5>1 DEF SessionOK, WorkMatchesRows
        <5>3. \A action :
                Applied([Merged(d)' EXCEPT ![m] = "applied"], action)
                  <=> Applied([Merged(d) EXCEPT ![m] = "applied"], action)
          BY <4>3, <4>4 DEF Applied
        <5>4. Effects(request[d].wrote, [Merged(d)' EXCEPT ![m] = "applied"])
          BY <5>2, <5>3 DEF Effects
        <5> QED
          BY <2>1, <2>2, <3>2, <4>6, <5>1, <5>4
             DEF WorkMatchesRows, Effects, Applied
      <4>7. CASE Pending(d) /\ log'[Current(d)] # None
        BY <2>1, <2>2, <3>2, <4>7 DEF WorkMatchesRows
      <4> QED
        BY <4>5, <4>6, <4>7
    <3> QED
      BY <3>1, <3>2
  <2> QED
    BY <2>4, <2>5, <2>6, <2>7, <2>8, <2>9 DEF SessionOK
<1> QED
  BY <1>8, <1>9, <1>10, <1>11, <1>12, <1>13, <1>14 DEF SyncInv

LEMMA ReceiveKeepsInv ==
  ASSUME SyncInv, NEW c \in Connections, ReceiveResults(c)
  PROVE  /\ SyncInv'
         /\ \A m \in Mutations :
              request[c].results[m] # None => request[c].results[m] = log[m]
<1>1. TypeOK /\ SessionOK(c) /\ request[c].state = "answered"
  BY DEF SyncInv, ReceiveResults
<1>2. \A m \in Mutations :
        request[c].results[m] # None => request[c].results[m] = log[m]
  BY <1>1 DEF SessionOK, Quiet, ResultsAreLogged
<1>3. /\ request' = [request EXCEPT ![c] = Idle]
      /\ UNCHANGED <<order, log, queued, faults>>
  BY DEF ReceiveResults
<1>4. OnlyRequest(c) /\ request'[c] = Idle
  BY <1>1, <1>3 DEF TypeOK, OnlyRequest
<1>5. request' \in [Connections -> RequestRow]
  BY <1>1, <1>3, IdleRow DEF TypeOK, RequestRow
<1>6. answer' \in [Mutations -> Outcomes \cup {None}]
  BY <1>1, RequestFields DEF ReceiveResults, TypeOK
<1>7. TypeOK'
  BY <1>1, <1>3, <1>5, <1>6 DEF TypeOK, RequestRow
<1>8. AnswersAreLogged'
  BY <1>2, <1>3 DEF ReceiveResults, AnswersAreLogged, SyncInv
<1>9. SessionOK(c)' /\ LocksOK(c)'
  BY <1>4, IdleIsOK
<1> QED
  BY <1>2, <1>4, <1>7, <1>8, <1>9, OthersKeep DEF SyncInv

LEMMA CancelKeepsInv ==
  ASSUME SyncInv, DispatcherCancel
  PROVE  SyncInv'
<1>1. /\ request' = request /\ log' = log /\ answer' = answer
      /\ order' = "cancelled" /\ order # "completed"
      /\ \A c \in Connections : request[c].wrote = None
  BY DEF DispatcherCancel
<1>2. TypeOK'
  BY DEF SyncInv, TypeOK, DispatcherCancel, OrderStatus
<1>3. Effects(order, log)'
  BY <1>1 DEF SyncInv, Effects, Applied
<1>4. AnswersAreLogged' /\ LogIsPrefix'
  BY <1>1 DEF SyncInv, AnswersAreLogged, LogIsPrefix
<1>5. ASSUME NEW c \in Connections
      PROVE  SessionOK(c)' /\ LocksOK(c)'
  <2>1. /\ Position(c)' = Position(c)
        /\ Current(c)' = Current(c)
        /\ Pending(c)' = Pending(c)
    BY <1>1 DEF Current, Position, Pending
  <2>2. SessionOK(c) /\ LocksOK(c)
    BY DEF SyncInv
  <2>3. Quiet(c)' /\ ResultsAreLogged(c)' /\ BatchInOrder(c)' /\ LocksOK(c)'
    BY <1>1, <2>2 DEF SessionOK, Quiet, ResultsAreLogged, BatchInOrder, Decided,
         LocksOK, KeysAreLocked, OrderIsLocked
  <2>4. StatementInOrder(c)'
    BY <1>1, <2>1, <2>2 DEF SessionOK, StatementInOrder, Arbitrate
  <2>5. LoadedIsRecent(c)' /\ WorkMatchesRows(c)'
    BY <1>1, <2>1, <2>2 DEF SessionOK, LoadedIsRecent, WorkMatchesRows
  <2> QED
    BY <2>3, <2>4, <2>5 DEF SessionOK
<1> QED
  BY <1>2, <1>3, <1>4, <1>5 DEF SyncInv

(* Nothing moves but the device's queue, if that. *)
LEMMA QueueKeepsInv ==
  ASSUME SyncInv, QueueMutation \/ UNCHANGED vars
  PROVE  SyncInv'
<1>1. UNCHANGED <<answer, order, log, request, faults>>
  BY DEF QueueMutation, vars
<1>2. TypeOK'
  BY <1>1, QueueFacts DEF SyncInv, TypeOK, QueueMutation, vars
<1>3. AnswersAreLogged' /\ LogIsPrefix' /\ Effects(order, log)'
  BY <1>1 DEF SyncInv, AnswersAreLogged, LogIsPrefix, Effects, Applied
<1>4. ASSUME NEW c \in Connections
      PROVE  SessionOK(c)' /\ LocksOK(c)'
  BY <1>1, SameSession DEF SyncInv, LocksOK, KeysAreLocked, OrderIsLocked
<1> QED
  BY <1>2, <1>3, <1>4 DEF SyncInv

LEMMA NextSync == SyncInv /\ [Next]_vars => SyncInv'
<1> SUFFICES ASSUME SyncInv, [Next]_vars
             PROVE  SyncInv'
  OBVIOUS
<1>1. CASE QueueMutation \/ UNCHANGED vars
  BY <1>1, QueueKeepsInv
<1>2. CASE DispatcherCancel
  BY <1>2, CancelKeepsInv
<1>3. ASSUME NEW c \in Connections, Send(c) \/ ReceiveResults(c) \/ BeginSync(c)
      PROVE  SyncInv'
  BY <1>3, SendKeepsInv, ReceiveKeepsInv, BeginKeepsInv
<1>4. ASSUME NEW c \in Connections,
             CheckLog(c) \/ LoadOrder(c) \/ WriteOrder(c) \/ InsertLog(c)
      PROVE  SyncInv'
  BY <1>4, CheckKeepsInv, LoadKeepsInv, WriteKeepsInv, InsertKeepsInv
<1>5. ASSUME NEW c \in Connections, InsertRefused(c) \/ Fault(c)
      PROVE  SyncInv'
  <2>1. TypeOK
    BY DEF SyncInv
  <2>2. faults' \in 0..MaxFaults
    BY <1>5, <2>1, SyncConstants DEF InsertRefused, Fault, TypeOK
  <2> QED
    BY <1>5, <2>2, BackToIdle DEF InsertRefused, Fault
<1>6. ASSUME NEW c \in Connections, CommitSync(c)
      PROVE  SyncInv'
  BY <1>6, CommitKeepsInv
<1> QED
  BY <1>1, <1>2, <1>3, <1>4, <1>5, <1>6 DEF Next, ServerStep

------------------------------------------------------------------------------
(***************************************************************************)
(* The invariant holds of every behaviour.                                 *)
(***************************************************************************)
THEOREM SyncInvariance == Spec => []SyncInv
  BY InitSync, NextSync, PTL DEF Spec

(***************************************************************************)
(* Requests, rows and answers stay within their types; in particular the   *)
(* status of a conflict is never a reason, and a batch has a next mutation *)
(* until it is done.                                                       *)
(***************************************************************************)
THEOREM SyncTypes == Spec => []TypeOK
<1>1. SyncInv => TypeOK
  BY DEF SyncInv
<1> QED
  BY <1>1, SyncInvariance, PTL

(***************************************************************************)
(* The work order is what the logged mutations made of it, however many    *)
(* retries run at once and wherever they are cut off.                      *)
(***************************************************************************)
THEOREM EffectsMatchLog == Spec => []EffectsAreLogged
<1>1. SyncInv => EffectsAreLogged
  <2> SUFFICES ASSUME SyncInv
               PROVE  EffectsAreLogged
    OBVIOUS
  <2> DEFINE applied == {Action[m] : m \in {n \in Mutations :
                                              log[n] = "applied"}}
  <2>1. /\ "resolve" \in applied <=> Applied(log, "resolve")
        /\ "start" \in applied <=> Applied(log, "start")
    BY DEF Applied
  <2>2. \A action \in applied : action \in {"start", "resolve"}
    BY SyncConstants
  <2>3. Effects(order, log)
    BY DEF SyncInv
  <2> HIDE DEF applied
  <2>4. /\ order = "completed" <=> "resolve" \in applied
        /\ order = "in_progress" => "start" \in applied
        /\ order = "dispatched" => applied = {}
    BY <2>1, <2>2, <2>3 DEF Effects
  <2> QED
    BY <2>4 DEF EffectsAreLogged, applied
<1> QED
  BY <1>1, SyncInvariance, PTL

(***************************************************************************)
(* Field sync implements ExactlyOnce: a commit decides mutations that were *)
(* undecided, a response teaches the device what was decided, and every    *)
(* other step, fault or race is a stuttering step.                         *)
(***************************************************************************)
THEOREM SyncIsExactlyOnce == Spec => ExactlyOnceSpec
<1>1. Init => Promise!Init
  BY DEF Init, Promise!Init
<1>2. SyncInv /\ SyncInv' /\ [Next]_vars => [Promise!Next]_<<log, answer>>
  <2> SUFFICES ASSUME SyncInv, SyncInv', [Next]_vars
               PROVE  [Promise!Next]_<<log, answer>>
    OBVIOUS
  <2>1. ASSUME NEW c \in Connections, CommitSync(c)
        PROVE  Promise!Decide
    <3>1. \A m \in Mutations : log[m] # None => log'[m] = log[m]
      BY <2>1, CommitKeepsInv
    <3>2. log' \in [Mutations -> Outcomes \cup {None}]
      BY DEF SyncInv, TypeOK
    <3>3. answer' = answer
      BY <2>1 DEF CommitSync
    <3> QED
      BY <3>1, <3>2, <3>3 DEF Promise!Decide
  <2>2. ASSUME NEW c \in Connections, ReceiveResults(c)
        PROVE  Promise!Learn
    <3> DEFINE known == {m \in Mutations : request[c].results[m] # None}
    <3>1. \A m \in known : request[c].results[m] = log[m] /\ log[m] # None
      BY <2>2, ReceiveKeepsInv
    <3>2. answer' = [m \in Mutations |->
                       IF m \in known THEN log[m] ELSE answer[m]]
      BY <2>2, <3>1 DEF ReceiveResults
    <3>3. known \in SUBSET {m \in Mutations : log[m] # None}
      BY <3>1
    <3>4. log' = log
      BY <2>2 DEF ReceiveResults
    <3> HIDE DEF known
    <3> QED
      BY <3>2, <3>3, <3>4 DEF Promise!Learn
  <2>3. ASSUME NEW c \in Connections,
               \/ Send(c) \/ Fault(c) \/ BeginSync(c) \/ CheckLog(c)
               \/ LoadOrder(c) \/ WriteOrder(c) \/ InsertLog(c)
               \/ InsertRefused(c)
        PROVE  UNCHANGED <<log, answer>>
    BY <2>3 DEF Send, Fault, BeginSync, CheckLog, LoadOrder, WriteOrder,
         InsertLog, InsertRefused
  <2>4. QueueMutation \/ DispatcherCancel \/ UNCHANGED vars
          => UNCHANGED <<log, answer>>
    BY DEF QueueMutation, DispatcherCancel, vars
  <2> QED
    BY <2>1, <2>2, <2>3, <2>4 DEF Next, ServerStep, Promise!Next
<1> QED
  BY <1>1, <1>2, SyncInvariance, PTL DEF Spec, ExactlyOnceSpec, Promise!Spec

==============================================================================
