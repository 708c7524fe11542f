-------------------------- MODULE OrderRacesProofs --------------------------
(***************************************************************************)
(* Theorems of module OrderRaces, for every number of orders, workers,     *)
(* mutations and requests, and of its composition with HandlerRaces.       *)
(***************************************************************************)
EXTENDS MCRaces, HandlerRacesProofs, TLAPS

------------------------------------------------------------------------------
(***************************************************************************)
(* What a request carries, whichever handler it calls.                     *)
(***************************************************************************)
LEMMA CallFields ==
  ASSUME NEW c \in OrderCalls
  PROVE  /\ c.order \in WorkOrders /\ c.worker \in Workers
         /\ c.photo \in Photos \cup {Null}
         /\ c.photo # Null => TakenBy[c.photo] = c.worker
         /\ c.handler \in {"start", "resolve", "sync", "accept", "uphold"}
         /\ ~ IsRest(c) => /\ c.mutation \in Mutations
                           /\ c = CallOn(c.handler, c.mutation)
                           /\ c.photo = Evidence[c.mutation]
<1>1. CASE c \in RestCalls
  BY <1>1, RacesConstants, NoneApart DEF RestCalls, IsRest
<1>2. ASSUME NEW h \in {"sync", "accept", "uphold"}, NEW m \in Mutations,
             c = CallOn(h, m)
      PROVE  /\ c.order \in WorkOrders /\ c.worker \in Workers
             /\ c.photo \in Photos \cup {Null}
             /\ c.photo # Null => TakenBy[c.photo] = c.worker
             /\ c.handler = h /\ c.mutation = m
             /\ c.photo = Evidence[m]
  BY <1>2, RacesConstants DEF CallOn
<1>3. QED BY <1>1, <1>2 DEF OrderCalls

LEMMA CallOnIsACall ==
  ASSUME NEW h \in {"sync", "accept", "uphold"}, NEW m \in Mutations
  PROVE  /\ CallOn(h, m) \in OrderCalls
         /\ CallOn(h, m).handler = h /\ CallOn(h, m).mutation = m
         /\ CallOn(h, m).order = Target[m] /\ CallOn(h, m).photo = Evidence[m]
BY DEF OrderCalls, CallOn

LEMMA RowFields ==
  ASSUME NEW row \in OrderRow
  PROVE  /\ row.status \in WorkOrderStatus /\ row.worker \in Workers \cup {Null}
         /\ row.version \in Nat /\ row.proof \in Photos \cup {Null}
BY DEF OrderRow

LEMMA MeantType ==
  ASSUME NEW c \in OrderCalls, NEW row \in OrderRow
  PROVE  Meant(c, row) \in OrderRow
BY CallFields, RowFields DEF Meant, OrderRow, WorkOrderStatus

LEMMA UpdatedType ==
  ASSUME NEW now \in OrderRow, NEW read \in OrderRow, NEW meant \in OrderRow
  PROVE  Updated(now, read, meant) \in OrderRow
BY RowFields DEF Updated, Column, OrderRow

(***************************************************************************)
(* Over the row it was computed from, an UPDATE leaves what was meant.     *)
(***************************************************************************)
LEMMA UndisturbedUpdate ==
  ASSUME NEW row \in OrderRow, NEW c \in OrderCalls
  PROVE  Updated(row, row, Meant(c, row)) = Meant(c, row)
BY DEF Updated, Column, Meant

------------------------------------------------------------------------------
(***************************************************************************)
(* How far a transaction is tells what it has read and checked.            *)
(***************************************************************************)
Underway == {"begun", "decided", "loaded", "written", "logged"}

Shape(at, c, read) ==
  IF at \in Underway
    THEN /\ c \in OrderCalls
         /\ read # Null <=> at \in {"loaded", "written", "logged"}
         /\ at = "begun" => ~ IsRest(c)
         /\ at = "decided" => IsAdjudication(c)
         /\ at \in {"loaded", "written"} => c.handler # "uphold"
         /\ at = "logged" => c.handler = "sync"
         /\ at = "written" => WritesOrder(c, read)
         /\ (read # Null /\ IsRest(c)) => RestAllows(c, read)
    ELSE c = Null /\ read = Null

ShapesOK == \A t \in Handlers : Shape(req[t].at, req[t].call, req[t].read)

(***************************************************************************)
(* A review somebody decides is in the table.                              *)
(***************************************************************************)
InQueue ==
  \A t \in Handlers :
    (Open(t) /\ IsAdjudication(req[t].call))
      => review[req[t].call.mutation] # Null

(***************************************************************************)
(* What a request that is not stale has read is still so.                  *)
(***************************************************************************)
FreshReads ==
  \A t \in Handlers \ stale : Open(t) =>
    /\ req[t].read # Null => order[req[t].call.order] = req[t].read
    /\ IsAdjudication(req[t].call) =>
         review[req[t].call.mutation] = "pending"

(***************************************************************************)
(* A key inserted and not committed is nobody else's.                      *)
(***************************************************************************)
KeysAreOwn ==
  \A t \in Handlers : req[t].at = "logged" =>
    /\ syncLog[req[t].call.mutation] = Null
    /\ \A u \in Handlers :
         (req[u].at = "logged" /\ req[u].call.mutation = req[t].call.mutation)
           => u = t

(***************************************************************************)
(* The inductive invariant.  ForeignProofNeedsOverlap needs the checks     *)
(* remembered (ShapesOK) and the rows they were made on (FreshReads);      *)
(* QueueFollowsLog needs the key (KeysAreOwn) and that nobody decides a    *)
(* review that is not there (InQueue).                                     *)
(***************************************************************************)
IInv ==
  /\ OrdersTypeOK
  /\ ShapesOK
  /\ InQueue
  /\ FreshReads
  /\ KeysAreOwn
  /\ ForeignProofNeedsOverlap
  /\ QueueFollowsLog

------------------------------------------------------------------------------
(***************************************************************************)
(* The kinds of steps.  One: a transaction goes on, and no table changes.  *)
(***************************************************************************)
GoesOn(t, at, c, read) ==
  /\ req' = [req EXCEPT ![t] = RequestAt(at, c, read)]
  /\ UNCHANGED <<order, syncLog, review, stale, excused>>
  /\ at \in Underway /\ Shape(at, c, read) /\ read \in OrderRow \cup {Null}
  /\ read # Null => \/ read = order[c.order]
                    \/ Open(t) /\ c = req[t].call /\ read = req[t].read
  /\ IsAdjudication(c) => \/ review[c.mutation] = "pending"
                          \/ Open(t) /\ c = req[t].call
  /\ at = "logged" => syncLog[c.mutation] = Null /\ ~ KeyAwaited(c.mutation)

(***************************************************************************)
(* Two: a transaction ends.  It stores its order or leaves it.             *)
(***************************************************************************)
EndsRequest(t) ==
  \/ CommitRest(t)
  \/ CommitSync(t)
  \/ CommitAccepted(t)
  \/ CommitDismissed(t)
  \/ Abandon(t)

(***************************************************************************)
(* Three: the dispatcher changes an open order.                            *)
(***************************************************************************)
DispatcherStep ==
  \E o \in WorkOrders, row \in OrderRow :
    row.status # "completed" /\ DispatcherSets(o, row)

StepKind ==
  \/ UNCHANGED orderVars
  \/ \E t \in Handlers, c \in OrderCalls,
        at \in Underway, read \in OrderRow \cup {Null} : GoesOn(t, at, c, read)
  \/ \E t \in Handlers : EndsRequest(t)
  \/ DispatcherStep

LEMMA TxnFields ==
  ASSUME OrdersTypeOK, NEW t \in Handlers
  PROVE  /\ req[t].call \in OrderCalls \cup {Null}
         /\ req[t].read \in OrderRow \cup {Null}
         /\ req[t] = RequestAt(req[t].at, req[t].call, req[t].read)
BY DEF OrdersTypeOK, RequestAt

LEMMA StepKinds ==
  ASSUME OrdersTypeOK, ShapesOK, QueueFollowsLog, [OrdersNext]_orderVars
  PROVE  StepKind
<1>1. ASSUME NEW t \in Handlers, NEW c \in RestCalls, BeginRest(t, c)
      PROVE  GoesOn(t, "loaded", c, order[c.order])
  <2>1. c \in OrderCalls
    BY DEF OrderCalls
  <2>2. order[c.order] \in OrderRow /\ order[c.order] # Null
    BY <2>1, CallFields, NoneApart DEF OrdersTypeOK
  <2>3. IsRest(c)
    BY DEF RestCalls, IsRest
  <2>4. QED BY <1>1, <2>1, <2>2, <2>3
            DEF BeginRest, GoesOn, Shape, Underway, IsRest, IsAdjudication
<1>2. ASSUME NEW t \in Handlers, NEW m \in Mutations, BeginSync(t, m)
      PROVE  GoesOn(t, "begun", CallOn("sync", m), Null)
  BY <1>2, CallOnIsACall
  DEF BeginSync, GoesOn, Shape, Underway, IsRest, IsAdjudication
<1>3. ASSUME NEW t \in Handlers, NEW m \in Mutations,
             NEW d \in {"accept", "uphold"}, BeginAdjudication(t, m, d)
      PROVE  GoesOn(t, "begun", CallOn(d, m), Null)
  BY <1>3, CallOnIsACall
  DEF BeginAdjudication, IsPending, GoesOn, Shape, Underway, IsRest,
      IsAdjudication
<1>4. ASSUME NEW t \in Handlers, FlushDecision(t)
      PROVE  GoesOn(t, "decided", req[t].call, req[t].read)
  BY <1>4, TxnFields
  DEF FlushDecision, Go, GoesOn, ShapesOK, Shape, Underway, IsAdjudication,
      IsRest, Open
<1>5. ASSUME NEW t \in Handlers, LoadOrder(t)
      PROVE  GoesOn(t, "loaded", req[t].call, order[req[t].call.order])
  <2>1. req[t].call \in OrderCalls
    BY <1>5 DEF LoadOrder, ShapesOK, Shape, Underway
  <2>2. /\ order[req[t].call.order] \in OrderRow
        /\ order[req[t].call.order] # Null
    BY <2>1, CallFields, NoneApart DEF OrdersTypeOK
  <2>3. QED BY <1>5, <2>1, <2>2
            DEF LoadOrder, GoesOn, Shape, Underway, IsAdjudication, IsRest,
                Open
<1>6. ASSUME NEW t \in Handlers, FlushOrder(t)
      PROVE  GoesOn(t, "written", req[t].call, req[t].read)
  BY <1>6, TxnFields
  DEF FlushOrder, Go, GoesOn, ShapesOK, Shape, Underway, IsAdjudication,
      IsRest, Open
<1>7. ASSUME NEW t \in Handlers, InsertLog(t)
      PROVE  GoesOn(t, "logged", req[t].call, req[t].read)
  BY <1>7, TxnFields
  DEF InsertLog, Go, KeyRefused, GoesOn, ShapesOK, Shape, Underway,
      IsAdjudication, IsRest, Open
<1>8. ASSUME NEW o \in WorkOrders,
             \/ DispatcherCancel(o)
             \/ \E w \in Workers : DispatcherReassign(o, w)
      PROVE  DispatcherStep
  <2>1. order[o] \in OrderRow
    BY DEF OrdersTypeOK
  <2>2. CASE DispatcherCancel(o)
    <3>1. [status |-> "cancelled", worker |-> order[o].worker,
           version |-> order[o].version, proof |-> order[o].proof]
             \in OrderRow
      BY <2>1, RowFields DEF OrderRow, WorkOrderStatus
    <3>2. QED BY <2>2, <3>1 DEF DispatcherCancel, DispatcherStep
  <2>3. ASSUME NEW w \in Workers, DispatcherReassign(o, w)
        PROVE  DispatcherStep
    <3>1. [status |-> order[o].status, worker |-> w,
           version |-> order[o].version, proof |-> order[o].proof]
             \in OrderRow
      BY <2>1, RowFields DEF OrderRow
    <3>2. order[o].status # "completed"
      BY <2>3 DEF DispatcherReassign, DispatcherSets
    <3>3. QED BY <2>3, <3>1, <3>2 DEF DispatcherReassign, DispatcherStep
  <2>4. QED BY <1>8, <2>2, <2>3
<1>9. ASSUME NEW t \in Handlers, NEW at, NEW c, NEW read, GoesOn(t, at, c, read)
      PROVE  StepKind
  <2>1. c \in OrderCalls
    BY <1>9 DEF GoesOn, Shape
  <2>2. QED BY <1>9, <2>1 DEF GoesOn, StepKind
<1>10. CASE UNCHANGED orderVars
  BY <1>10 DEF StepKind
<1>11. ASSUME NEW t \in Handlers, EndsRequest(t)
       PROVE  StepKind
  BY <1>11 DEF StepKind
<1>12. CASE OrdersNext
  <2>1. ASSUME NEW t \in Handlers,
               \/ \E c \in RestCalls : BeginRest(t, c)
               \/ \E m \in Mutations :
                    \/ BeginSync(t, m)
                    \/ \E d \in {"accept", "uphold"} : BeginAdjudication(t, m, d)
               \/ FlushDecision(t) \/ LoadOrder(t) \/ FlushOrder(t)
               \/ InsertLog(t)
        PROVE  StepKind
    BY <2>1, <1>1, <1>2, <1>3, <1>4, <1>5, <1>6, <1>7, <1>9
  <2>2. ASSUME DispatcherStep
        PROVE  StepKind
    BY <2>2 DEF StepKind
  <2>3. QED BY <1>12, <2>1, <2>2, <1>8, <1>11 DEF OrdersNext, EndsRequest
<1>13. QED BY <1>10, <1>12

(***************************************************************************)
(* What the end of a transaction may do to each table.                     *)
(***************************************************************************)
OrderStored(t, rows) ==
  /\ req[t].call \in OrderCalls /\ req[t].read \in OrderRow
  /\ WritesOrder(req[t].call, req[t].read)
  /\ IsRest(req[t].call) => RestAllows(req[t].call, req[t].read)
  /\ StoreOrder(t)
  /\ req[t].call.order \in rows

MutationLogged(t) ==
  /\ req[t].at = "logged"
  /\ syncLog' = [syncLog EXCEPT ![req[t].call.mutation]
                                  = Arbitrate(req[t].call, req[t].read)]
  /\ review' = IF /\ Arbitrate(req[t].call, req[t].read) = "conflict"
                  /\ req[t].call.photo # Null
                 THEN [review EXCEPT ![req[t].call.mutation] = "pending"]
                 ELSE review

ReviewDecided(t, rows) ==
  /\ IsAdjudication(req[t].call)
  /\ \E decision \in {"accepted", "dismissed"} :
       review' = [review EXCEPT ![req[t].call.mutation] = decision]
  /\ req[t].call.mutation \in rows
  /\ UNCHANGED syncLog

EndsAs(t, outcome, rows) ==
  /\ Open(t) /\ outcome \in {"committed", "rolled_back"}
  /\ End(t, outcome, rows)
  /\ UNCHANGED <<order, excused>> \/ OrderStored(t, rows)
  /\ \/ UNCHANGED <<syncLog, review>>
     \/ MutationLogged(t)
     \/ ReviewDecided(t, rows)

LEMMA EndKinds ==
  ASSUME OrdersTypeOK, ShapesOK, NEW t \in Handlers, EndsRequest(t)
  PROVE  \E outcome, rows :
           EndsAs(t, outcome, rows)
<1>0. /\ req[t].read \in OrderRow \cup {Null}
      /\ Shape(req[t].at, req[t].call, req[t].read)
  BY DEF OrdersTypeOK, ShapesOK
<1>1. CASE CommitRest(t)
  <2>1. OrderStored(t, {req[t].call.order})
    BY <1>0, <1>1 DEF CommitRest, OrderStored, Shape, Underway
  <2>2. EndsAs(t, "committed", {req[t].call.order})
    BY <1>1, <2>1 DEF CommitRest, EndsAs, Open
  <2>3. QED BY <2>2
<1>2. CASE CommitSync(t)
  <2> DEFINE c == req[t].call
  <2>0. req[t].at = "logged" /\ c.handler = "sync" /\ c \in OrderCalls
        /\ req[t].read \in OrderRow
    BY <1>0, <1>2 DEF CommitSync, Shape, Underway
  <2>1. CASE Arbitrate(c, req[t].read) = "applied"
    <3>1. StoreOrder(t) /\ End(t, "committed", {c.order})
      BY <1>2, <2>1 DEF CommitSync
    <3>2. OrderStored(t, {c.order})
      BY <2>0, <2>1, <3>1 DEF OrderStored, WritesOrder, IsRest
    <3>3. MutationLogged(t)
      BY <1>2, <2>1 DEF CommitSync, MutationLogged
    <3>4. EndsAs(t, "committed", {c.order})
      BY <2>0, <3>1, <3>2, <3>3 DEF EndsAs, Open
    <3>5. QED BY <3>4
  <2>2. CASE Arbitrate(c, req[t].read) # "applied"
    <3>1. End(t, "committed", {}) /\ UNCHANGED <<order, excused>>
      BY <1>2, <2>2 DEF CommitSync
    <3>2. MutationLogged(t)
      BY <1>2, <2>2 DEF CommitSync, MutationLogged
    <3>3. EndsAs(t, "committed", {})
      BY <2>0, <3>1, <3>2 DEF EndsAs, Open
    <3>4. QED BY <3>3
  <2>3. QED BY <2>1, <2>2
<1>3. CASE CommitAccepted(t)
  <2> DEFINE rows == {req[t].call.order, req[t].call.mutation}
  <2>1. OrderStored(t, rows)
    BY <1>0, <1>3 DEF CommitAccepted, OrderStored, Shape, Underway, IsRest
  <2>2. ReviewDecided(t, rows)
    BY <1>3 DEF CommitAccepted, ReviewDecided, IsAdjudication
  <2>3. EndsAs(t, "committed", rows)
    BY <1>3, <2>1, <2>2 DEF CommitAccepted, EndsAs, Open
  <2>4. QED BY <2>3
<1>4. CASE CommitDismissed(t)
  <2>1. ReviewDecided(t, {req[t].call.mutation})
    BY <1>4 DEF CommitDismissed, ReviewDecided, IsAdjudication
  <2>2. EndsAs(t, "committed", {req[t].call.mutation})
    BY <1>4, <2>1 DEF CommitDismissed, EndsAs, Open
  <2>3. QED BY <2>2
<1>5. CASE Abandon(t)
  <2>1. EndsAs(t, "rolled_back", {})
    BY <1>5 DEF Abandon, EndsAs
  <2>2. QED BY <2>1
<1>6. QED BY <1>1, <1>2, <1>3, <1>4, <1>5 DEF EndsRequest

LEMMA EndedTxn ==
  ASSUME OrdersTypeOK, NEW t \in Handlers, NEW outcome, NEW rows,
         EndsAs(t, outcome, rows)
  PROVE  /\ req'[t].at = outcome
         /\ req'[t].call = Null /\ req'[t].read = Null
         /\ \A u \in Handlers \ {t} : req'[u] = req[u]
         /\ t \notin stale'
         /\ \A u \in Handlers \ {t} :
              u \notin stale' => u \notin stale /\ ~ HasRead(u, rows)
BY DEF EndsAs, End, OrdersTypeOK, RequestAt

LEMMA MovedTxn ==
  ASSUME OrdersTypeOK, NEW t \in Handlers, NEW at, NEW c, NEW read,
         GoesOn(t, at, c, read)
  PROVE  /\ req'[t].at = at /\ req'[t].call = c /\ req'[t].read = read
         /\ \A u \in Handlers \ {t} : req'[u] = req[u]
BY DEF GoesOn, OrdersTypeOK, RequestAt

(***************************************************************************)
(* Types.                                                                  *)
(***************************************************************************)
LEMMA NextTypes ==
  ASSUME OrdersTypeOK, ShapesOK, StepKind
  PROVE  OrdersTypeOK'
<1>1. CASE UNCHANGED orderVars
  BY <1>1 DEF orderVars, OrdersTypeOK
<1>2. ASSUME NEW t \in Handlers, NEW c \in OrderCalls, NEW at \in Underway,
             NEW read \in OrderRow \cup {Null}, GoesOn(t, at, c, read)
      PROVE  OrdersTypeOK'
  BY <1>2 DEF GoesOn, RequestAt, OrdersTypeOK, Underway
<1>3. ASSUME NEW t \in Handlers, EndsRequest(t)
      PROVE  OrdersTypeOK'
  <2>1. PICK outcome, rows :
          EndsAs(t, outcome, rows)
    BY <1>3, EndKinds
  <2>2. /\ req' \in [Handlers ->
              [at : {"new", "begun", "decided", "loaded", "written",
                     "logged", "committed", "rolled_back"},
               call : OrderCalls \cup {Null}, read : OrderRow \cup {Null}]]
        /\ stale' \subseteq Handlers
    BY <2>1 DEF EndsAs, End, RequestAt, OrdersTypeOK
  <2>3. order' \in [WorkOrders -> OrderRow] /\ excused' \subseteq WorkOrders
    <3>1. CASE UNCHANGED <<order, excused>>
      BY <3>1 DEF OrdersTypeOK
    <3>2. CASE OrderStored(t, rows)
      <4>1. /\ req[t].call.order \in WorkOrders
            /\ order[req[t].call.order] \in OrderRow
            /\ Meant(req[t].call, req[t].read) \in OrderRow
        BY <3>2, CallFields, MeantType DEF OrderStored, OrdersTypeOK
      <4>2. Updated(order[req[t].call.order], req[t].read,
                    Meant(req[t].call, req[t].read)) \in OrderRow
        BY <3>2, <4>1, UpdatedType DEF OrderStored
      <4>3. QED BY <3>2, <4>1, <4>2 DEF OrderStored, StoreOrder, OrdersTypeOK
    <3>3. QED BY <2>1, <3>1, <3>2 DEF EndsAs
  <2>4. /\ syncLog' \in [Mutations ->
                          {"applied", "conflict", "too_late", Null}]
        /\ review' \in [Mutations ->
                         {"pending", "accepted", "dismissed", Null}]
    <3>1. CASE UNCHANGED <<syncLog, review>>
      BY <3>1 DEF OrdersTypeOK
    <3>2. CASE MutationLogged(t)
      <4>1. Arbitrate(req[t].call, req[t].read)
              \in {"applied", "conflict", "too_late"}
        BY DEF Arbitrate
      <4>2. QED BY <3>2, <4>1 DEF MutationLogged, OrdersTypeOK
    <3>3. CASE ReviewDecided(t, rows)
      BY <3>3 DEF ReviewDecided, OrdersTypeOK
    <3>4. QED BY <2>1, <3>1, <3>2, <3>3 DEF EndsAs
  <2>5. QED BY <2>2, <2>3, <2>4 DEF OrdersTypeOK
<1>4. CASE DispatcherStep
  BY <1>4 DEF DispatcherStep, DispatcherSets, OrdersTypeOK
<1>5. QED BY <1>1, <1>2, <1>3, <1>4 DEF StepKind

LEMMA NextShapes ==
  ASSUME OrdersTypeOK, ShapesOK, StepKind
  PROVE  ShapesOK'
<1>1. CASE req' = req
  BY <1>1 DEF ShapesOK
<1>2. ASSUME NEW t \in Handlers, NEW c \in OrderCalls, NEW at \in Underway,
             NEW read \in OrderRow \cup {Null}, GoesOn(t, at, c, read)
      PROVE  ShapesOK'
  <2>1. Shape(at, c, read)
    BY <1>2 DEF GoesOn
  <2>2. QED BY <1>2, <2>1, MovedTxn DEF ShapesOK
<1>3. ASSUME NEW t \in Handlers, EndsRequest(t)
      PROVE  ShapesOK'
  <2>1. PICK outcome, rows :
          EndsAs(t, outcome, rows)
    BY <1>3, EndKinds
  <2>2. Shape(outcome, Null, Null)
    BY <2>1 DEF EndsAs, Shape, Underway
  <2>3. QED BY <2>1, <2>2, EndedTxn DEF ShapesOK
<1>4. QED BY <1>1, <1>2, <1>3
          DEF StepKind, orderVars, DispatcherStep, DispatcherSets

------------------------------------------------------------------------------
(***************************************************************************)
(* A sync that is about to be logged is new, and has no review.            *)
(***************************************************************************)
LEMMA LoggedIsNew ==
  ASSUME OrdersTypeOK, ShapesOK, KeysAreOwn, QueueFollowsLog,
         NEW t \in Handlers, MutationLogged(t)
  PROVE  /\ req[t].call.mutation \in Mutations
         /\ req[t].call.photo = Evidence[req[t].call.mutation]
         /\ syncLog[req[t].call.mutation] = Null
         /\ review[req[t].call.mutation] = Null
<1>1. req[t].at = "logged"
  BY DEF MutationLogged
<1>2. Shape(req[t].at, req[t].call, req[t].read)
  BY DEF ShapesOK
<1>3. req[t].call \in OrderCalls /\ req[t].call.handler = "sync"
  BY <1>1, <1>2 DEF Shape, Underway
<1>4. /\ req[t].call.mutation \in Mutations
      /\ req[t].call.photo = Evidence[req[t].call.mutation]
  BY <1>3, CallFields DEF IsRest
<1>5. syncLog[req[t].call.mutation] = Null
  BY <1>1 DEF KeysAreOwn
<1>6. QED BY <1>4, <1>5, NoneApart DEF QueueFollowsLog

(***************************************************************************)
(* Reviews are inserted and decided, never deleted; and only decided where *)
(* there is one.                                                           *)
(***************************************************************************)
LEMMA ReviewsStay ==
  ASSUME OrdersTypeOK, ShapesOK, KeysAreOwn, QueueFollowsLog, StepKind,
         NEW m \in Mutations, review[m] # Null
  PROVE  review'[m] # Null
<1>1. CASE review' = review
  BY <1>1
<1>2. ASSUME NEW t \in Handlers, EndsRequest(t)
      PROVE  review'[m] # Null
  <2>1. PICK outcome, rows : EndsAs(t, outcome, rows)
    BY <1>2, EndKinds
  <2>2. CASE MutationLogged(t)
    <3>1. req[t].call.mutation # m
      BY <2>2, LoggedIsNew
    <3>2. QED BY <2>2, <3>1 DEF MutationLogged, OrdersTypeOK
  <2>3. CASE ReviewDecided(t, rows)
    BY <2>3, NoneApart DEF ReviewDecided, OrdersTypeOK
  <2>4. QED BY <2>1, <2>2, <2>3 DEF EndsAs
<1>3. QED BY <1>1, <1>2
          DEF StepKind, orderVars, GoesOn, DispatcherStep, DispatcherSets

LEMMA NextInQueue ==
  ASSUME IInv, StepKind
  PROVE  InQueue'
<1> USE DEF IInv
<1>0. \A u \in Handlers :
        (Open(u) /\ IsAdjudication(req[u].call))
          => /\ req[u].call.mutation \in Mutations
             /\ review'[req[u].call.mutation] # Null
  <2> SUFFICES ASSUME NEW u \in Handlers, Open(u), IsAdjudication(req[u].call)
               PROVE  /\ req[u].call.mutation \in Mutations
                      /\ review'[req[u].call.mutation] # Null
    OBVIOUS
  <2>1. req[u].call \in OrderCalls
    BY DEF ShapesOK, Shape, Open, Underway
  <2>2. req[u].call.mutation \in Mutations
    BY <2>1, CallFields DEF IsAdjudication, IsRest
  <2>3. review[req[u].call.mutation] # Null
    BY DEF InQueue
  <2>4. QED BY <2>2, <2>3, ReviewsStay
<1>1. CASE req' = req
  BY <1>0, <1>1 DEF InQueue, Open
<1>2. ASSUME NEW t \in Handlers, NEW c \in OrderCalls, NEW at \in Underway,
             NEW read \in OrderRow \cup {Null}, GoesOn(t, at, c, read)
      PROVE  InQueue'
  <2>1. review' = review
    BY <1>2 DEF GoesOn
  <2>2. IsAdjudication(c) => review'[c.mutation] # Null
    BY <1>0, <1>2, <2>1, NoneApart DEF GoesOn
  <2>3. SUFFICES ASSUME NEW u \in Handlers, Open(u)',
                        IsAdjudication(req'[u].call)
                 PROVE  review'[req'[u].call.mutation] # Null
    BY DEF InQueue
  <2>4. CASE u = t
    BY <1>2, <2>2, <2>3, <2>4, MovedTxn
  <2>5. CASE u # t
    <3>1. req'[u] = req[u]
      BY <1>2, <2>5, MovedTxn
    <3>2. QED BY <1>0, <2>3, <3>1 DEF Open
  <2>6. QED BY <2>4, <2>5
<1>3. ASSUME NEW t \in Handlers, EndsRequest(t)
      PROVE  InQueue'
  <2>1. PICK outcome, rows : EndsAs(t, outcome, rows)
    BY <1>3, EndKinds
  <2>2. ~ Open(t)'
    BY <2>1, EndedTxn DEF EndsAs, Open
  <2>3. \A u \in Handlers \ {t} : req'[u] = req[u]
    BY <2>1, EndedTxn
  <2>4. QED BY <1>0, <2>2, <2>3 DEF InQueue, Open
<1>4. QED BY <1>1, <1>2, <1>3
          DEF StepKind, orderVars, DispatcherStep, DispatcherSets

(***************************************************************************)
(* What is read and then changed makes the reader stale.                   *)
(***************************************************************************)
LEMMA NextFreshReads ==
  ASSUME IInv, StepKind
  PROVE  FreshReads'
<1> USE DEF IInv
<1>1. CASE UNCHANGED orderVars
  BY <1>1 DEF orderVars, FreshReads, Open
<1>2. ASSUME NEW t \in Handlers, NEW c \in OrderCalls, NEW at \in Underway,
             NEW read \in OrderRow \cup {Null}, GoesOn(t, at, c, read)
      PROVE  FreshReads'
  <2>1. SUFFICES ASSUME NEW u \in Handlers \ stale, Open(u)'
                 PROVE  /\ req'[u].read # Null =>
                             order[req'[u].call.order] = req'[u].read
                        /\ IsAdjudication(req'[u].call) =>
                             review[req'[u].call.mutation] = "pending"
    BY <1>2 DEF GoesOn, FreshReads
  <2>2. CASE u = t
    <3>1. req'[u].call = c /\ req'[u].read = read
      BY <1>2, <2>2, MovedTxn
    <3>2. read # Null => order[c.order] = read
      BY <1>2, <2>1, <2>2 DEF GoesOn, FreshReads
    <3>3. IsAdjudication(c) => review[c.mutation] = "pending"
      BY <1>2, <2>1, <2>2 DEF GoesOn, FreshReads
    <3>4. QED BY <3>1, <3>2, <3>3
  <2>3. CASE u # t
    <3>1. req'[u] = req[u]
      BY <1>2, <2>3, MovedTxn
    <3>2. QED BY <2>1, <3>1 DEF FreshReads, Open
  <2>4. QED BY <2>2, <2>3
<1>3. ASSUME NEW t \in Handlers, EndsRequest(t)
      PROVE  FreshReads'
  <2>1. PICK outcome, rows : EndsAs(t, outcome, rows)
    BY <1>3, EndKinds
  <2>2. SUFFICES ASSUME NEW u \in Handlers, u \notin stale', Open(u)'
                 PROVE  /\ req'[u].read # Null =>
                             order'[req'[u].call.order] = req'[u].read
                        /\ IsAdjudication(req'[u].call) =>
                             review'[req'[u].call.mutation] = "pending"
    BY DEF FreshReads
  <2>3. u # t
    BY <2>1, <2>2, EndedTxn DEF EndsAs, Open
  <2>4. req'[u] = req[u] /\ u \notin stale /\ ~ HasRead(u, rows)
    BY <2>1, <2>2, <2>3, EndedTxn
  <2>5. Open(u)
    BY <2>2, <2>4 DEF Open
  <2>6. req[u].call \in OrderCalls
    BY <2>5 DEF ShapesOK, Shape, Open, Underway
  <2>7. ASSUME req[u].read # Null
        PROVE  order'[req[u].call.order] = req[u].read
    <3>1. order[req[u].call.order] = req[u].read
      BY <2>4, <2>5, <2>7 DEF FreshReads
    <3>2. req[u].call.order \in WorkOrders /\ req[u].call.order \notin rows
      BY <2>4, <2>5, <2>6, <2>7, CallFields DEF HasRead
    <3>3. CASE OrderStored(t, rows)
      BY <3>1, <3>2, <3>3 DEF OrderStored, StoreOrder, OrdersTypeOK
    <3>4. QED BY <2>1, <3>1, <3>3 DEF EndsAs
  <2>8. ASSUME IsAdjudication(req[u].call)
        PROVE  review'[req[u].call.mutation] = "pending"
    <3>1. review[req[u].call.mutation] = "pending"
      BY <2>4, <2>5, <2>8 DEF FreshReads
    <3>2. /\ req[u].call.mutation \in Mutations
          /\ req[u].call.mutation \notin rows
      BY <2>4, <2>5, <2>6, <2>8, CallFields DEF HasRead, IsAdjudication, IsRest
    <3>3. CASE MutationLogged(t)
      <4>1. req[t].call.mutation # req[u].call.mutation
        BY <3>1, <3>3, LoggedIsNew, NoneApart
      <4>2. QED BY <3>1, <3>2, <3>3, <4>1 DEF MutationLogged, OrdersTypeOK
    <3>4. CASE ReviewDecided(t, rows)
      BY <3>1, <3>2, <3>4 DEF ReviewDecided, OrdersTypeOK
    <3>5. QED BY <2>1, <3>1, <3>3, <3>4 DEF EndsAs
  <2>9. QED BY <2>4, <2>7, <2>8
<1>4. CASE DispatcherStep
  <2>1. PICK o \in WorkOrders, row \in OrderRow : DispatcherSets(o, row)
    BY <1>4 DEF DispatcherStep
  <2>2. req' = req /\ review' = review /\ order' = [order EXCEPT ![o] = row]
        /\ stale' = stale \cup {u \in Handlers : HasRead(u, {o})}
    BY <2>1 DEF DispatcherSets
  <2>3. SUFFICES ASSUME NEW u \in Handlers \ stale', Open(u)
                 PROVE  /\ req[u].read # Null =>
                             order'[req[u].call.order] = req[u].read
                        /\ IsAdjudication(req[u].call) =>
                             review[req[u].call.mutation] = "pending"
    BY <2>2 DEF FreshReads, Open
  <2>4. u \notin stale /\ ~ HasRead(u, {o})
    BY <2>2, <2>3
  <2>5. req[u].call \in OrderCalls
    BY <2>3 DEF ShapesOK, Shape, Open, Underway
  <2>6. req[u].call.order \in WorkOrders
    BY <2>5, CallFields
  <2>7. req[u].read # Null => req[u].call.order # o
    BY <2>3, <2>4 DEF HasRead
  <2>8. QED BY <2>2, <2>3, <2>4, <2>6, <2>7 DEF FreshReads, OrdersTypeOK
<1>5. QED BY <1>1, <1>2, <1>3, <1>4 DEF StepKind

LEMMA NextKeysAreOwn ==
  ASSUME IInv, StepKind
  PROVE  KeysAreOwn'
<1> USE DEF IInv
<1>1. CASE req' = req /\ syncLog' = syncLog
  BY <1>1 DEF KeysAreOwn
<1>2. ASSUME NEW t \in Handlers, NEW c \in OrderCalls, NEW at \in Underway,
             NEW read \in OrderRow \cup {Null}, GoesOn(t, at, c, read)
      PROVE  KeysAreOwn'
  <2>1. syncLog' = syncLog
    BY <1>2 DEF GoesOn
  <2>2. /\ req'[t].at = at /\ req'[t].call = c
        /\ \A u \in Handlers \ {t} : req'[u] = req[u]
    BY <1>2, MovedTxn
  <2>3. at = "logged" =>
          /\ syncLog[c.mutation] = Null
          /\ \A u \in Handlers :
               req[u].at = "logged" => req[u].call.mutation # c.mutation
    BY <1>2 DEF GoesOn, KeyAwaited
  <2>4. QED BY <2>1, <2>2, <2>3 DEF KeysAreOwn
<1>3. ASSUME NEW t \in Handlers, EndsRequest(t)
      PROVE  KeysAreOwn'
  <2>1. PICK outcome, rows : EndsAs(t, outcome, rows)
    BY <1>3, EndKinds
  <2>2. /\ req'[t].at # "logged"
        /\ \A u \in Handlers \ {t} : req'[u] = req[u]
    BY <2>1, EndedTxn DEF EndsAs
  <2>3. ASSUME NEW u \in Handlers \ {t}, req[u].at = "logged"
        PROVE  syncLog'[req[u].call.mutation] = Null
    <3>1. syncLog[req[u].call.mutation] = Null
      BY <2>3 DEF KeysAreOwn
    <3>2. req[u].call \in OrderCalls /\ req[u].call.handler = "sync"
      BY <2>3 DEF ShapesOK, Shape, Underway
    <3>3. req[u].call.mutation \in Mutations
      BY <3>2, CallFields DEF IsRest
    <3>4. CASE MutationLogged(t)
      <4>1. req[t].call.mutation # req[u].call.mutation
        BY <2>3, <3>4 DEF KeysAreOwn, MutationLogged
      <4>2. QED BY <3>1, <3>3, <3>4, <4>1 DEF MutationLogged, OrdersTypeOK
    <3>5. QED BY <2>1, <3>1, <3>4 DEF EndsAs, ReviewDecided
  <2>4. QED BY <2>2, <2>3 DEF KeysAreOwn
<1>4. QED BY <1>1, <1>2, <1>3
          DEF StepKind, orderVars, DispatcherStep, DispatcherSets

LEMMA NextQueueFollowsLog ==
  ASSUME IInv, StepKind
  PROVE  QueueFollowsLog'
<1> USE DEF IInv
<1>1. CASE syncLog' = syncLog /\ review' = review
  BY <1>1 DEF QueueFollowsLog
<1>2. ASSUME NEW t \in Handlers, EndsRequest(t)
      PROVE  QueueFollowsLog'
  <2> DEFINE m == req[t].call.mutation
  <2>1. PICK outcome, rows : EndsAs(t, outcome, rows)
    BY <1>2, EndKinds
  <2>2. CASE MutationLogged(t)
    <3>1. /\ m \in Mutations /\ req[t].call.photo = Evidence[m]
          /\ review[m] = Null
      BY <2>2, LoggedIsNew
    <3>2. /\ syncLog'[m] = Arbitrate(req[t].call, req[t].read)
          /\ \A n \in Mutations \ {m} : /\ syncLog'[n] = syncLog[n]
                                        /\ review'[n] = review[n]
      BY <2>2, <3>1 DEF MutationLogged, OrdersTypeOK
    <3>3. review'[m] # Null <=>
            /\ Arbitrate(req[t].call, req[t].read) = "conflict"
            /\ Evidence[m] # Null
      BY <2>2, <3>1, NoneApart DEF MutationLogged, OrdersTypeOK
    <3>4. QED BY <3>1, <3>2, <3>3 DEF QueueFollowsLog
  <2>3. CASE ReviewDecided(t, rows)
    <3>1. PICK decision \in {"accepted", "dismissed"} :
            review' = [review EXCEPT ![m] = decision]
      BY <2>3 DEF ReviewDecided
    <3>2. review[m] # Null
      BY <2>1, <2>3 DEF EndsAs, ReviewDecided, InQueue
    <3>3. \A n \in Mutations : review'[n] # Null <=> review[n] # Null
      BY <3>1, <3>2, NoneApart DEF OrdersTypeOK
    <3>4. QED BY <2>3, <3>3 DEF ReviewDecided, QueueFollowsLog
  <2>4. QED BY <1>1, <2>1, <2>2, <2>3 DEF EndsAs
<1>3. QED BY <1>1, <1>2
          DEF StepKind, orderVars, GoesOn, DispatcherStep, DispatcherSets

(***************************************************************************)
(* A handler that completes an order had the right to, on the row it read. *)
(***************************************************************************)
LEMMA WriterMayAct ==
  ASSUME NEW c \in OrderCalls, NEW row \in OrderRow, WritesOrder(c, row),
         IsRest(c) => RestAllows(c, row), c.photo # Null
  PROVE  /\ Meant(c, row).proof # Null
         /\ Meant(c, row).worker \in {Null, TakenBy[Meant(c, row).proof]}
<1>1. TakenBy[c.photo] = c.worker
  BY CallFields
<1>2. Meant(c, row).proof = c.photo
  BY DEF Meant
<1>3. c.handler # "accept" => MayActOn(row, c.worker)
  BY DEF WritesOrder, Arbitrate, RestAllows
<1>4. QED BY <1>1, <1>2, <1>3 DEF Meant, MayActOn

LEMMA NextForeignProof ==
  ASSUME IInv, StepKind
  PROVE  ForeignProofNeedsOverlap'
<1> USE DEF IInv
<1>1. CASE UNCHANGED <<order, excused>>
  BY <1>1 DEF ForeignProofNeedsOverlap
<1>2. ASSUME NEW t \in Handlers, EndsRequest(t)
      PROVE  ForeignProofNeedsOverlap'
  <2> DEFINE c == req[t].call
             read == req[t].read
             o == c.order
  <2>1. PICK outcome, rows : EndsAs(t, outcome, rows)
    BY <1>2, EndKinds
  <2>2. CASE OrderStored(t, rows)
    <3>1. c \in OrderCalls /\ read \in OrderRow /\ o \in WorkOrders
      BY <2>2, CallFields DEF OrderStored
    <3>2. /\ order' = [order EXCEPT ![o] = Updated(order[o], read, Meant(c, read))]
          /\ excused' = IF Meant(c, read).status # "completed" THEN excused
                        ELSE IF t \in stale THEN excused \cup {o}
                        ELSE excused \ {o}
      BY <2>2 DEF OrderStored, StoreOrder
    <3>3. /\ order'[o] = Updated(order[o], read, Meant(c, read))
          /\ \A p \in WorkOrders \ {o} : order'[p] = order[p]
      BY <3>1, <3>2 DEF OrdersTypeOK
    <3>4. CASE c.photo = Null
      <4>1. c.handler # "accept"
        <5>1. SUFFICES ASSUME c.handler = "accept"
                       PROVE  FALSE
          OBVIOUS
        <5>2. c.mutation \in Mutations /\ Evidence[c.mutation] = Null
          BY <3>1, <3>4, <5>1, CallFields DEF IsRest
        <5>3. review[c.mutation] # Null
          BY <2>1, <5>1 DEF EndsAs, InQueue, IsAdjudication
        <5>4. QED BY <5>2, <5>3 DEF QueueFollowsLog
      <4>2. /\ Meant(c, read).status = "in_progress"
            /\ Meant(c, read).worker = read.worker
            /\ Meant(c, read).proof = read.proof
        BY <3>4, <4>1 DEF Meant
      <4>3. /\ order'[o].status = "completed" => order[o].status = "completed"
            /\ order'[o].worker = order[o].worker
            /\ order'[o].proof = order[o].proof
        BY <3>3, <4>2 DEF Updated, Column
      <4>4. excused' = excused
        BY <3>2, <4>2
      <4>5. QED BY <3>3, <4>3, <4>4 DEF ForeignProofNeedsOverlap
    <3>5. CASE c.photo # Null
      <4>1. Meant(c, read).status = "completed"
        BY <3>5 DEF Meant
      <4>2. CASE t \in stale
        BY <3>1, <3>2, <3>3, <4>1, <4>2 DEF ForeignProofNeedsOverlap
      <4>3. CASE t \notin stale
        <5>1. order[o] = read
          BY <2>1, <3>1, <4>3, NoneApart DEF EndsAs, FreshReads
        <5>2. order'[o] = Meant(c, read)
          BY <3>1, <3>3, <5>1, UndisturbedUpdate
        <5>3. /\ order'[o].proof # Null
              /\ order'[o].worker \in {Null, TakenBy[order'[o].proof]}
          BY <2>2, <3>1, <3>5, <5>2, WriterMayAct DEF OrderStored
        <5>4. QED BY <3>2, <3>3, <4>1, <4>3, <5>3 DEF ForeignProofNeedsOverlap
      <4>4. QED BY <4>2, <4>3
    <3>6. QED BY <3>4, <3>5
  <2>3. QED BY <1>1, <2>1, <2>2 DEF EndsAs
<1>3. CASE DispatcherStep
  <2>1. PICK o \in WorkOrders, row \in OrderRow :
          row.status # "completed" /\ DispatcherSets(o, row)
    BY <1>3 DEF DispatcherStep
  <2>2. /\ excused' = excused /\ order'[o] = row
        /\ \A p \in WorkOrders \ {o} : order'[p] = order[p]
    BY <2>1 DEF DispatcherSets, OrdersTypeOK
  <2>3. QED BY <2>1, <2>2 DEF ForeignProofNeedsOverlap
<1>4. QED BY <1>1, <1>2, <1>3 DEF StepKind, orderVars, GoesOn

------------------------------------------------------------------------------
LEMMA InitInvariant == OrdersInit => IInv
<1> SUFFICES ASSUME OrdersInit
             PROVE  IInv
  OBVIOUS
<1>1. order \in [WorkOrders -> OrderRow]
  BY DEF OrdersInit, OrderRow, WorkOrderStatus
<1>2. \A o \in WorkOrders : order[o].status # "completed"
  BY DEF OrdersInit
<1>3. \A t \in Handlers : req[t] = RequestAt("new", Null, Null)
  BY DEF OrdersInit
<1>4. OrdersTypeOK
  BY <1>1 DEF OrdersInit, OrdersTypeOK, RequestAt
<1>5. ShapesOK
  BY <1>3 DEF ShapesOK, Shape, Underway, RequestAt
<1>6. InQueue /\ FreshReads /\ KeysAreOwn
  BY <1>3 DEF InQueue, FreshReads, KeysAreOwn, Open, RequestAt
<1>7. ForeignProofNeedsOverlap
  BY <1>2 DEF ForeignProofNeedsOverlap
<1>8. QueueFollowsLog
  BY NoneApart DEF OrdersInit, QueueFollowsLog
<1>9. QED BY <1>4, <1>5, <1>6, <1>7, <1>8 DEF IInv

LEMMA NextInvariant == IInv /\ [OrdersNext]_orderVars => IInv'
<1> SUFFICES ASSUME IInv, [OrdersNext]_orderVars
             PROVE  IInv'
  OBVIOUS
<1>1. StepKind
  BY StepKinds DEF IInv
<1>2. OrdersTypeOK' /\ ShapesOK'
  BY <1>1, NextTypes, NextShapes DEF IInv
<1>3. /\ InQueue' /\ FreshReads' /\ KeysAreOwn'
      /\ ForeignProofNeedsOverlap' /\ QueueFollowsLog'
  BY <1>1, NextInQueue, NextFreshReads, NextKeysAreOwn, NextForeignProof,
     NextQueueFollowsLog
<1>4. QED BY <1>2, <1>3 DEF IInv

(***************************************************************************)
(* The invariant holds of every behaviour.                                 *)
(***************************************************************************)
THEOREM OrderRacesInvariance == OrdersSpec => []IInv
BY InitInvariant, NextInvariant, PTL DEF OrdersSpec

(***************************************************************************)
(* Rows, log, reviews and transactions stay within their types.            *)
(***************************************************************************)
THEOREM OrderRacesTypes == OrdersSpec => []OrdersTypeOK
<1>1. IInv => OrdersTypeOK
  BY DEF IInv
<1>2. QED BY <1>1, OrderRacesInvariance, PTL

(***************************************************************************)
(* One worker's proof stands on another's completed order only where a     *)
(* handler committed on a row that changed after it was read.              *)
(***************************************************************************)
THEOREM ForeignProofsOverlap == OrdersSpec => []ForeignProofNeedsOverlap
<1>1. IInv => ForeignProofNeedsOverlap
  BY DEF IInv
<1>2. QED BY <1>1, OrderRacesInvariance, PTL

(***************************************************************************)
(* The log and the queue agree through every interleaving.                 *)
(***************************************************************************)
THEOREM QueueAndLogAgree == OrdersSpec => []QueueFollowsLog
<1>1. IInv => QueueFollowsLog
  BY DEF IInv
<1>2. QED BY <1>1, OrderRacesInvariance, PTL

------------------------------------------------------------------------------
(***************************************************************************)
(* Only the four commits commit.                                           *)
(***************************************************************************)
LEMMA CommitKinds ==
  ASSUME IInv, StepKind, NEW t \in Handlers, Commits(t)
  PROVE  CommitRest(t) \/ CommitSync(t) \/ CommitAccepted(t) \/ CommitDismissed(t)
<1> USE DEF IInv
<1>1. ASSUME req' = req
      PROVE  FALSE
  BY <1>1 DEF Commits
<1>2. ASSUME NEW u \in Handlers, NEW c \in OrderCalls, NEW at \in Underway,
             NEW read \in OrderRow \cup {Null}, GoesOn(u, at, c, read)
      PROVE  FALSE
  <2>1. req'[u].at # "committed"
    BY <1>2, MovedTxn DEF Underway
  <2>2. \A v \in Handlers \ {u} : req'[v] = req[v]
    BY <1>2, MovedTxn
  <2>3. QED BY <2>1, <2>2 DEF Commits
<1>3. ASSUME NEW u \in Handlers, EndsRequest(u)
      PROVE  EndsRequest(t) /\ ~ Abandon(t)
  <2>1. PICK outcome, rows : EndsAs(u, outcome, rows)
    BY <1>3, EndKinds
  <2>2. u = t
    BY <2>1, EndedTxn DEF Commits
  <2>3. ~ Abandon(t)
    BY DEF Abandon, End, RequestAt, Commits, OrdersTypeOK
  <2>4. QED BY <1>3, <2>2, <2>3
<1>4. QED BY <1>1, <1>2, <1>3
          DEF StepKind, orderVars, DispatcherStep, DispatcherSets, EndsRequest

(***************************************************************************)
(* A fresh handler that stores its order stores what it computed.          *)
(***************************************************************************)
LEMMA FreshStore ==
  ASSUME IInv, NEW t \in Handlers \ stale, Open(t), req[t].read # Null
  PROVE  LET c == req[t].call
         IN  /\ c \in OrderCalls /\ c.order \in WorkOrders
             /\ req[t].read = order[c.order]
             /\ StoreOrder(t) => order'[c.order] = Meant(c, order[c.order])
<1> USE DEF IInv
<1> DEFINE c == req[t].call
<1>1. c \in OrderCalls /\ c.order \in WorkOrders
  BY CallFields DEF ShapesOK, Shape, Open, Underway
<1>2. order[c.order] = req[t].read /\ order[c.order] \in OrderRow
  BY <1>1 DEF FreshReads, OrdersTypeOK
<1>3. ASSUME StoreOrder(t)
      PROVE  order'[c.order] = Meant(c, order[c.order])
  <2>1. order'[c.order] = Updated(order[c.order], req[t].read,
                                  Meant(c, req[t].read))
    BY <1>1, <1>3 DEF StoreOrder, OrdersTypeOK
  <2>2. QED BY <1>1, <1>2, <2>1, UndisturbedUpdate
<1>4. QED BY <1>1, <1>2, <1>3

LEMMA UndisturbedCommit ==
  ASSUME IInv, StepKind, NEW t \in Handlers, t \notin stale, Commits(t)
  PROVE  AsIfAlone(req[t].call)
<1> USE DEF IInv
<1> DEFINE c == req[t].call
           row == order[c.order]
<1>0. Shape(req[t].at, c, req[t].read)
  BY DEF ShapesOK
<1>1. CASE CommitRest(t)
  <2>1. req[t].at = "written" /\ IsRest(c) /\ StoreOrder(t)
    BY <1>1 DEF CommitRest
  <2>2. req[t].read # Null /\ Open(t) /\ RestAllows(c, req[t].read)
    BY <1>0, <2>1 DEF Shape, Underway, Open
  <2>3. req[t].read = row /\ order'[c.order] = Meant(c, row)
    BY <2>1, <2>2, FreshStore
  <2>4. c.handler # "sync" /\ ~ IsAdjudication(c) /\ WritesOrder(c, row)
    BY <2>1 DEF IsRest, IsAdjudication, WritesOrder
  <2>5. QED BY <2>2, <2>3, <2>4 DEF AsIfAlone
<1>2. CASE CommitSync(t)
  <2>1. req[t].at = "logged" /\ c.handler = "sync"
    BY <1>0, <1>2 DEF CommitSync, Shape, Underway
  <2>2. req[t].read # Null /\ Open(t) /\ c \in OrderCalls
    BY <1>0, <2>1 DEF Shape, Underway, Open
  <2>3. req[t].read = row
    BY <2>2, FreshStore
  <2>4. c.mutation \in Mutations
    BY <2>1, <2>2, CallFields DEF IsRest
  <2>5. syncLog[c.mutation] = Null
    BY <2>1 DEF KeysAreOwn
  <2>6. syncLog'[c.mutation] = Arbitrate(c, row)
    BY <1>2, <2>3, <2>4 DEF CommitSync, OrdersTypeOK
  <2>7. order'[c.order] = IF WritesOrder(c, row) THEN Meant(c, row) ELSE row
    <3>1. CASE Arbitrate(c, row) = "applied"
      <4>1. StoreOrder(t)
        BY <1>2, <2>3, <3>1 DEF CommitSync
      <4>2. order'[c.order] = Meant(c, row)
        BY <2>2, <4>1, FreshStore
      <4>3. QED BY <2>1, <3>1, <4>2 DEF WritesOrder
    <3>2. CASE Arbitrate(c, row) # "applied"
      <4>1. order' = order
        BY <1>2, <2>3, <3>2 DEF CommitSync
      <4>2. ~ WritesOrder(c, row)
        BY <2>1, <3>2 DEF WritesOrder, IsRest
      <4>3. QED BY <4>1, <4>2
    <3>3. QED BY <3>1, <3>2
  <2>8. ~ IsRest(c) /\ ~ IsAdjudication(c)
    BY <2>1 DEF IsRest, IsAdjudication
  <2>9. QED BY <2>5, <2>6, <2>7, <2>8 DEF AsIfAlone
<1>3. CASE CommitAccepted(t)
  <2>1. req[t].at = "written" /\ c.handler = "accept" /\ StoreOrder(t)
    BY <1>3 DEF CommitAccepted
  <2>2. req[t].read # Null /\ Open(t)
    BY <1>0, <2>1 DEF Shape, Underway, Open
  <2>3. order'[c.order] = Meant(c, row)
    BY <2>1, <2>2, FreshStore
  <2>4. ~ IsRest(c) /\ IsAdjudication(c) /\ WritesOrder(c, row)
    BY <2>1 DEF IsRest, IsAdjudication, WritesOrder
  <2>5. review[c.mutation] = "pending"
    BY <2>2, <2>4 DEF FreshReads
  <2>6. QED BY <2>1, <2>3, <2>4, <2>5 DEF AsIfAlone
<1>4. CASE CommitDismissed(t)
  <2>1. req[t].at = "decided" /\ c.handler = "uphold" /\ order' = order
    BY <1>4 DEF CommitDismissed
  <2>2. Open(t) /\ IsAdjudication(c) /\ ~ IsRest(c) /\ ~ WritesOrder(c, row)
    BY <2>1 DEF Open, IsAdjudication, IsRest, WritesOrder
  <2>3. review[c.mutation] = "pending"
    BY <2>2 DEF FreshReads
  <2>4. QED BY <2>1, <2>2, <2>3 DEF AsIfAlone
<1>5. QED BY <1>1, <1>2, <1>3, <1>4, CommitKinds

(***************************************************************************)
(* A handler whose reads still hold when it commits has done what it does  *)
(* alone.                                                                  *)
(***************************************************************************)
THEOREM UndisturbedAreSerial == OrdersSpec => UndisturbedHandlersAreSerial
<1> DEFINE Serial == \A t \in Handlers : (Commits(t) /\ t \notin stale)
                                           => AsIfAlone(req[t].call)
<1>1. IInv /\ [OrdersNext]_orderVars => Serial
  <2> SUFFICES ASSUME IInv, [OrdersNext]_orderVars,
                      NEW t \in Handlers, Commits(t), t \notin stale
               PROVE  AsIfAlone(req[t].call)
    OBVIOUS
  <2>1. StepKind
    BY StepKinds DEF IInv
  <2>2. QED BY <2>1, UndisturbedCommit
<1>2. QED BY <1>1, OrderRacesInvariance, PTL
          DEF OrdersSpec, UndisturbedHandlersAreSerial

------------------------------------------------------------------------------
(* Side by side, each of the two behaves as it does alone. *)
LEMMA EachKeepsRaces == RacesSpec => Spec /\ OrdersSpec
<1>1. RacesInit => Init /\ OrdersInit
  BY DEF RacesInit
<1>2. [RacesNext]_allRaces => [Next]_vars /\ [OrdersNext]_orderVars
  BY DEF RacesNext, MoveStatuses, MoveOrders, allRaces
<1> QED
  BY <1>1, <1>2, PTL DEF RacesSpec, Spec, OrdersSpec

(***************************************************************************)
(* The tables and transactions of both views of racing handlers hold what  *)
(* they can hold, as the run has it.                                       *)
(***************************************************************************)
THEOREM RacesTypes == RacesSpec => []RacesTypeOK
<1>1. TypeOK /\ OrdersTypeOK => RacesTypeOK
  BY DEF RacesTypeOK
<1> QED
  BY <1>1, EachKeepsRaces, RaceTypes, OrderRacesTypes, PTL

==============================================================================
