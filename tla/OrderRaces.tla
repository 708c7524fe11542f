----------------------------- MODULE OrderRaces -----------------------------
(***************************************************************************)
(* Concurrent handlers over the row of a work order, the sync log and the  *)
(* review queue: start_work_order, resolve_work_order, process_field_sync, *)
(* adjudicate_dispatch_conflict, and a dispatcher at the table.  Module    *)
(* Dispatch takes each of them as one step; here each is cut where another *)
(* transaction can come between: after a SELECT, and at every write that   *)
(* has to wait for a row or for a key.                                     *)
(*                                                                         *)
(* The database runs READ COMMITTED and no handler locks what it reads.    *)
(* The checks are made on the row as it was read; the UPDATE goes by       *)
(* primary key, waits for whoever holds the row, and names only the        *)
(* columns whose new value differs from the one read.  An increment is a   *)
(* value computed from the one read.                                       *)
(*                                                                         *)
(* Evidence that is refused, incidents and reports are left out: they are  *)
(* in Dispatch and HandlerRaces.  A batch has one mutation; FieldSync has  *)
(* the longer ones.                                                        *)
(***************************************************************************)
EXTENDS Naturals, FiniteSets

CONSTANTS
  WorkOrders,  \* existing work orders
  Workers,     \* field workers
  Photos,      \* sets of proof photos, each with its notes and location
  TakenBy,     \* TakenBy[p]: the worker who submits p
  Mutations,   \* (worker_id, client_mutation_id) pairs, the unique key
               \* of the sync log
  Author,      \* Author[m]: the worker_id of m
  Target,      \* Target[m]: the order m is for
  Evidence,    \* Evidence[m]: the photos of a resolution, Null for a start
  Handlers,    \* bound: the requests of a behaviour, each handled once
  Null         \* SQL NULL

ASSUME RacesConstants ==
  /\ TakenBy \in [Photos -> Workers]
  /\ Author \in [Mutations -> Workers]
  /\ Target \in [Mutations -> WorkOrders]
  /\ Evidence \in [Mutations -> Photos \cup {Null}]
  /\ \A m \in Mutations : Evidence[m] # Null => TakenBy[Evidence[m]] = Author[m]
  /\ WorkOrders \cap Mutations = {}

VARIABLES
  order,     \* table work_order
  syncLog,   \* table sync_mutation_log: the outcome, Null before the insert
  review,    \* table dispatch_conflict_review: its status, Null before
  req,       \* the transaction of every request
  stale,     \* requests that have read a row another one then changed
  excused    \* orders last completed by a stale request

orderVars == <<order, syncLog, review, req, stale, excused>>

WorkOrderStatus ==
  {"created", "dispatched", "accepted", "in_progress", "completed", "cancelled"}

OrderRow ==
  [status : WorkOrderStatus, worker : Workers \cup {Null}, version : Nat,
   proof : Photos \cup {Null}]

(***************************************************************************)
(* What a request asks for.  The two adjudications are of the review a     *)
(* mutation left, so they carry what it carried.                           *)
(***************************************************************************)
RestCalls ==
  [handler : {"start"}, order : WorkOrders, worker : Workers, photo : {Null},
   mutation : {Null}]
    \cup {[handler |-> "resolve", order |-> o, worker |-> TakenBy[p],
           photo |-> p, mutation |-> Null] : o \in WorkOrders, p \in Photos}

CallOn(handler, m) ==
  [handler |-> handler, order |-> Target[m], worker |-> Author[m],
   photo |-> Evidence[m], mutation |-> m]

OrderCalls ==
  RestCalls \cup {CallOn(h, m) : h \in {"sync", "accept", "uphold"},
                                 m \in Mutations}

ASSUME NoneApart ==
  /\ Null \notin Workers /\ Null \notin Photos /\ Null \notin OrderRow
  /\ Null \notin OrderCalls /\ Null \notin Mutations
  /\ Null \notin {"applied", "conflict", "too_late",
                  "pending", "accepted", "dismissed"}

(***************************************************************************)
(* at: the last statement of the transaction that has returned.  loaded:   *)
(* the order was read; written: it was flushed; begun: the log, or the     *)
(* review, was read; decided: the review was flushed; logged: the log row  *)
(* was inserted.                                                           *)
(***************************************************************************)
RequestAt(at, call, read) == [at |-> at, call |-> call, read |-> read]

Open(t) ==
  req[t].at \in {"begun", "decided", "loaded", "written", "logged"}

OrdersTypeOK ==
  /\ order \in [WorkOrders -> OrderRow]
  /\ syncLog \in [Mutations -> {"applied", "conflict", "too_late", Null}]
  /\ review \in [Mutations -> {"pending", "accepted", "dismissed", Null}]
  /\ req \in [Handlers ->
                [at : {"new", "begun", "decided", "loaded", "written",
                       "logged", "committed", "rolled_back"},
                 call : OrderCalls \cup {Null}, read : OrderRow \cup {Null}]]
  /\ stale \subseteq Handlers /\ excused \subseteq WorkOrders

(***************************************************************************)
(* Orders as create_work_order leaves them.                                *)
(***************************************************************************)
OrdersInit ==
  /\ order \in [WorkOrders ->
       [status : {"created"}, worker : {Null}, version : {1}, proof : {Null}]
         \cup [status : {"dispatched"}, worker : Workers, version : {1},
               proof : {Null}]]
  /\ syncLog = [m \in Mutations |-> Null]
  /\ review = [m \in Mutations |-> Null]
  /\ req = [t \in Handlers |-> RequestAt("new", Null, Null)]
  /\ stale = {} /\ excused = {}

------------------------------------------------------------------------------
(***************************************************************************)
(* What the handlers decide and assign, from the row they have read.       *)
(***************************************************************************)

(* Mutant of MayActOn: nobody asks whose order it is. *)
AnyoneMayActOn(row, w) == TRUE

MayActOn(row, w) == row.worker \in {Null, w}

(* Mutant of Arbitrate: the reason where the outcome belongs. *)
ReasonForOutcome(c, row) ==
  IF MayActOn(row, c.worker) /\ row.status # "cancelled" THEN "applied"
  ELSE "reassigned_by_dispatcher"

(***************************************************************************)
(* The branches of process_field_sync.  Only a resolution asks whether the *)
(* order is completed.                                                     *)
(***************************************************************************)
Arbitrate(c, row) ==
  IF c.photo # Null /\ row.status = "completed" THEN "too_late"
  ELSE IF MayActOn(row, c.worker) /\ row.status # "cancelled" THEN "applied"
  ELSE "conflict"

RestAllows(c, row) == MayActOn(row, c.worker) /\ row.status # "completed"

(***************************************************************************)
(* The assignments: a call with photos completes the order, one without    *)
(* starts it; only an accepted review assigns the worker.                  *)
(***************************************************************************)
Meant(c, row) ==
  [status |-> IF c.photo = Null THEN "in_progress" ELSE "completed",
   worker |-> IF c.handler = "accept" THEN c.worker ELSE row.worker,
   version |-> row.version + 1,
   proof |-> IF c.photo = Null THEN row.proof ELSE c.photo]

(***************************************************************************)
(* The session's UPDATE over the row as it is by now.                      *)
(***************************************************************************)
Column(now, read, meant) == IF meant = read THEN now ELSE meant

Updated(now, read, meant) ==
  [status |-> Column(now.status, read.status, meant.status),
   worker |-> Column(now.worker, read.worker, meant.worker),
   version |-> Column(now.version, read.version, meant.version),
   proof |-> Column(now.proof, read.proof, meant.proof)]

IsRest(c) == c.handler \in {"start", "resolve"}

IsAdjudication(c) == c.handler \in {"accept", "uphold"}

(***************************************************************************)
(* The call writes the order, having read row.                             *)
(***************************************************************************)
WritesOrder(c, row) ==
  \/ IsRest(c)
  \/ c.handler = "accept"
  \/ c.handler = "sync" /\ Arbitrate(c, row) = "applied"

------------------------------------------------------------------------------
(***************************************************************************)
(* Row locks and the unique key of the log, held to the end of the         *)
(* transaction.                                                            *)
(***************************************************************************)
OrderLocked(o) ==
  \E u \in Handlers : /\ req[u].at \in {"written", "logged"}
                      /\ req[u].call.order = o
                      /\ WritesOrder(req[u].call, req[u].read)

ReviewLocked(m) ==
  \E u \in Handlers : /\ req[u].at \in {"decided", "loaded", "written"}
                      /\ IsAdjudication(req[u].call)
                      /\ req[u].call.mutation = m

(***************************************************************************)
(* A session inserting a key waits for one that has inserted it and not    *)
(* ended.                                                                  *)
(***************************************************************************)
KeyAwaited(m) ==
  \E u \in Handlers : req[u].at = "logged" /\ req[u].call.mutation = m

(* Mutant of KeyRefused: the log without its unique key. *)
KeyTaken(m) == FALSE

KeyRefused(m) == syncLog[m] # Null

Go(t, at) == req' = [req EXCEPT ![t] = RequestAt(at, @.call, @.read)]

------------------------------------------------------------------------------
(***************************************************************************)
(* start_work_order, resolve_work_order: the SELECT and the checks.  A     *)
(* request that is refused changes nothing and is no step.                 *)
(***************************************************************************)
BeginRest(t, c) ==
  /\ req[t].at = "new"
  /\ RestAllows(c, order[c.order])
  /\ req' = [req EXCEPT ![t] = RequestAt("loaded", c, order[c.order])]
  /\ UNCHANGED <<order, syncLog, review, stale, excused>>

(***************************************************************************)
(* process_field_sync: the idempotency check, then the SELECT of the order *)
(* (a logged mutation is answered from the log).                           *)
(***************************************************************************)
BeginSync(t, m) ==
  /\ req[t].at = "new"
  /\ syncLog[m] = Null
  /\ req' = [req EXCEPT ![t] = RequestAt("begun", CallOn("sync", m), Null)]
  /\ UNCHANGED <<order, syncLog, review, stale, excused>>

(* Mutant of IsPending: any review in the table can be decided. *)
IsQueued(m) == review[m] # Null

IsPending(m) == review[m] = "pending"

(***************************************************************************)
(* adjudicate_dispatch_conflict: the SELECT of the review and the check;   *)
(* the flush of the decision, by autoflush or at the end.                  *)
(***************************************************************************)
BeginAdjudication(t, m, decision) ==
  /\ req[t].at = "new"
  /\ IsPending(m)
  /\ req' = [req EXCEPT ![t] = RequestAt("begun", CallOn(decision, m), Null)]
  /\ UNCHANGED <<order, syncLog, review, stale, excused>>

FlushDecision(t) ==
  /\ req[t].at = "begun" /\ IsAdjudication(req[t].call)
  /\ ~ ReviewLocked(req[t].call.mutation)
  /\ Go(t, "decided")
  /\ UNCHANGED <<order, syncLog, review, stale, excused>>

(***************************************************************************)
(* The SELECT of the order: in a sync before, in an accepted review after  *)
(* the other table was dealt with.                                         *)
(***************************************************************************)
LoadOrder(t) ==
  /\ \/ req[t].at = "begun" /\ req[t].call.handler = "sync"
     \/ req[t].at = "decided" /\ req[t].call.handler = "accept"
  /\ req' = [req EXCEPT
               ![t] = RequestAt("loaded", @.call, order[@.call.order])]
  /\ UNCHANGED <<order, syncLog, review, stale, excused>>

(***************************************************************************)
(* The UPDATE of the order is sent before the SELECT of the incident.      *)
(***************************************************************************)
FlushOrder(t) ==
  /\ req[t].at = "loaded"
  /\ WritesOrder(req[t].call, req[t].read)
  /\ ~ OrderLocked(req[t].call.order)
  /\ Go(t, "written")
  /\ UNCHANGED <<order, syncLog, review, stale, excused>>

(***************************************************************************)
(* The INSERT of the log row, after that of the review where there is one. *)
(***************************************************************************)
InsertLog(t) ==
  /\ req[t].call # Null /\ req[t].call.handler = "sync"
  /\ \/ req[t].at = "written"
     \/ /\ req[t].at = "loaded"
        /\ ~ WritesOrder(req[t].call, req[t].read)
  /\ ~ KeyAwaited(req[t].call.mutation)
  /\ ~ KeyRefused(req[t].call.mutation)
  /\ Go(t, "logged")
  /\ UNCHANGED <<order, syncLog, review, stale, excused>>

------------------------------------------------------------------------------
(***************************************************************************)
(* The end of a transaction.  Requests that have read what it changed are  *)
(* stale from then on.                                                     *)
(***************************************************************************)
HasRead(u, rows) ==
  /\ Open(u)
  /\ \/ req[u].read # Null /\ req[u].call.order \in rows
     \/ IsAdjudication(req[u].call) /\ req[u].call.mutation \in rows

End(t, outcome, rows) ==
  /\ req' = [req EXCEPT ![t] = RequestAt(outcome, Null, Null)]
  /\ stale' = (stale \cup {u \in Handlers : HasRead(u, rows)}) \ {t}

(***************************************************************************)
(* The UPDATE of the order takes effect.                                   *)
(***************************************************************************)
StoreOrder(t) ==
  LET o == req[t].call.order
      meant == Meant(req[t].call, req[t].read)
  IN  /\ order' = [order EXCEPT ![o] = Updated(@, req[t].read, meant)]
      /\ excused' = IF meant.status # "completed" THEN excused
                    ELSE IF t \in stale THEN excused \cup {o}
                    ELSE excused \ {o}

CommitRest(t) ==
  /\ req[t].at = "written" /\ IsRest(req[t].call)
  /\ StoreOrder(t)
  /\ End(t, "committed", {req[t].call.order})
  /\ UNCHANGED <<syncLog, review>>

CommitSync(t) ==
  LET c == req[t].call
      outcome == Arbitrate(c, req[t].read)
  IN  /\ req[t].at = "logged"
      /\ syncLog' = [syncLog EXCEPT ![c.mutation] = outcome]
      /\ \/ /\ outcome = "applied"
            /\ StoreOrder(t)
            /\ End(t, "committed", {c.order})
            /\ UNCHANGED review
         \/ /\ outcome # "applied"
            /\ review' = IF outcome = "conflict" /\ c.photo # Null
                           THEN [review EXCEPT ![c.mutation] = "pending"]
                           ELSE review
            /\ End(t, "committed", {})
            /\ UNCHANGED <<order, excused>>

CommitAccepted(t) ==
  LET c == req[t].call
  IN  /\ req[t].at = "written" /\ c.handler = "accept"
      /\ review' = [review EXCEPT ![c.mutation] = "accepted"]
      /\ StoreOrder(t)
      /\ End(t, "committed", {c.order, c.mutation})
      /\ UNCHANGED syncLog

CommitDismissed(t) ==
  LET c == req[t].call
  IN  /\ req[t].at = "decided" /\ c.handler = "uphold"
      /\ review' = [review EXCEPT ![c.mutation] = "dismissed"]
      /\ End(t, "committed", {c.mutation})
      /\ UNCHANGED <<order, syncLog, excused>>

(***************************************************************************)
(* An error or a lost connection, and the duplicate key in particular.     *)
(***************************************************************************)
Abandon(t) ==
  /\ Open(t)
  /\ End(t, "rolled_back", {})
  /\ UNCHANGED <<order, syncLog, review, excused>>

------------------------------------------------------------------------------
(***************************************************************************)
(* The dispatcher, straight on the table through PostgREST: one UPDATE of  *)
(* one column, its own transaction, no new version.  As documented, only   *)
(* before completion.                                                      *)
(***************************************************************************)
DispatcherSets(o, row) ==
  /\ order[o].status \notin {"completed", "cancelled"}
  /\ ~ OrderLocked(o)
  /\ order' = [order EXCEPT ![o] = row]
  /\ stale' = stale \cup {u \in Handlers : HasRead(u, {o})}
  /\ UNCHANGED <<syncLog, review, req, excused>>

DispatcherCancel(o) ==
  DispatcherSets(o, [status |-> "cancelled", worker |-> order[o].worker,
                     version |-> order[o].version, proof |-> order[o].proof])

DispatcherReassign(o, w) ==
  /\ order[o].worker # w
  /\ DispatcherSets(o, [status |-> order[o].status, worker |-> w,
                        version |-> order[o].version, proof |-> order[o].proof])

------------------------------------------------------------------------------
OrdersNext ==
  \/ \E t \in Handlers :
       \/ \E c \in RestCalls : BeginRest(t, c)
       \/ \E m \in Mutations :
            \/ BeginSync(t, m)
            \/ \E decision \in {"accept", "uphold"} :
                 BeginAdjudication(t, m, decision)
       \/ FlushDecision(t)
       \/ LoadOrder(t)
       \/ FlushOrder(t)
       \/ InsertLog(t)
       \/ CommitRest(t)
       \/ CommitSync(t)
       \/ CommitAccepted(t)
       \/ CommitDismissed(t)
       \/ Abandon(t)
  \/ \E o \in WorkOrders :
       \/ DispatcherCancel(o)
       \/ \E w \in Workers : DispatcherReassign(o, w)

OrdersSpec == OrdersInit /\ [][OrdersNext]_orderVars

------------------------------------------------------------------------------
(***************************************************************************)
(* Safety                                                                  *)
(***************************************************************************)

(***************************************************************************)
(* A completed order carries a proof, and carries it under the name of the *)
(* worker who submitted it or under none, unless the handler that last     *)
(* completed it had read a row that another transaction changed before it  *)
(* committed: with whole handlers, no order of starts, resolutions, syncs, *)
(* reassignments and adjudications gets one worker's proof onto another's  *)
(* completed order.                                                        *)
(***************************************************************************)
ForeignProofNeedsOverlap ==
  \A o \in WorkOrders \ excused :
    order[o].status = "completed" =>
      /\ order[o].proof # Null
      /\ order[o].worker \in {Null, TakenBy[order[o].proof]}

(***************************************************************************)
(* The sync log and the queue agree, whichever of two transmissions of a   *)
(* mutation is answered: there is a review exactly when the log says       *)
(* conflict over a resolution.  Two sessions may have found the mutation   *)
(* new, one of them meeting the dispatcher's action and one not; the key   *)
(* of the log lets one in, and the other's review goes with its rollback.  *)
(***************************************************************************)
QueueFollowsLog ==
  \A m \in Mutations :
    review[m] # Null <=> syncLog[m] = "conflict" /\ Evidence[m] # Null

(***************************************************************************)
(* A handler that reads no row another transaction changes before it       *)
(* commits does what it does alone, as Dispatch has it: at the moment of   *)
(* its commit its checks hold of the rows as they are, a sync logs what    *)
(* the order calls for, every column it means to write is written and the  *)
(* version counts it.  All that is wrong with concurrent handlers is that  *)
(* they do not notice the change.                                          *)
(***************************************************************************)
Commits(t) == req[t].at # "committed" /\ req'[t].at = "committed"

AsIfAlone(c) ==
  LET row == order[c.order]
  IN  /\ IsRest(c) => RestAllows(c, row)
      /\ c.handler = "sync" =>
           /\ syncLog[c.mutation] = Null
           /\ syncLog'[c.mutation] = Arbitrate(c, row)
      /\ IsAdjudication(c) => review[c.mutation] = "pending"
      /\ order'[c.order] =
           IF WritesOrder(c, row) THEN Meant(c, row) ELSE row

UndisturbedHandlersAreSerial ==
  [][ \A t \in Handlers : (Commits(t) /\ t \notin stale)
                            => AsIfAlone(req[t].call) ]_orderVars

==============================================================================
