------------------------------ MODULE FieldSync ------------------------------
(***************************************************************************)
(* Offline field sync end to end: a device that queues mutations and sends *)
(* what is unanswered, a network that loses and delays, and the server's   *)
(* process_field_sync as the SQL statements of each request's transaction. *)
(* A device that times out sends again while its earlier request may still *)
(* be running, so the transactions of its own retries race each other.     *)
(*                                                                         *)
(* The device is not part of the repository: it is taken to do what        *)
(* docs/specs/phase-9.md says (flush the queue in order, in one batch,     *)
(* until everything is answered).  READ COMMITTED and the session's habits *)
(* are those of module HandlerRaces.  Here is one device and its mutations *)
(* on one work order; evidence, reassignment and reviews are in Dispatch.  *)
(***************************************************************************)
EXTENDS Integers, Sequences

CONSTANTS
  Queue,       \* the mutations of the device, in the order it queues them
  Action,      \* Action[m]: "start" or "resolve"
  Unknown,     \* mutations for a work order the server does not have
  Connections, \* bound: requests in flight at a time
  MaxFaults,   \* bound: messages lost and transactions killed
  None

Mutations == {Queue[k] : k \in 1..Len(Queue)}

Outcomes == {"applied", "conflict", "rejected"}

OrderStatus == {"dispatched", "in_progress", "completed", "cancelled"}

ASSUME SyncConstants ==
  /\ Queue \in Seq(Mutations)
  /\ \A j, k \in 1..Len(Queue) : Queue[j] = Queue[k] => j = k
  /\ Action \in [Mutations -> {"start", "resolve"}]
  /\ \A j, k \in 1..Len(Queue) :   \* else: module Dispatch, the run restart
       j < k => Action[Queue[j]] = "start" \/ Action[Queue[k]] = "resolve"
  /\ Unknown \subseteq Mutations
  /\ MaxFaults \in Nat
  /\ None \notin Outcomes \cup OrderStatus \cup Mutations

VARIABLES
  queued,   \* how much of Queue the worker has done so far
  answer,   \* what the device knows: [Mutations -> Outcomes \cup {None}]
  order,    \* the committed status of the work order
  log,      \* the committed sync_mutation_log
  request,  \* the request on each connection, and its transaction
  faults    \* faults so far

vars == <<queued, answer, order, log, request, faults>>

(***************************************************************************)
(* todo: the mutations of the batch not yet processed, by their positions  *)
(* in Queue; the least is the current one.  at: the statement it has come  *)
(* to.  loaded: the work order in the session.  wrote: its uncommitted     *)
(* status (and the lock on the row), or None.  inserted: the uncommitted   *)
(* log rows (and the locks on their keys).  results: the outcomes reported *)
(* back.                                                                   *)
(***************************************************************************)
Idle ==
  [state |-> "idle", todo |-> {}, at |-> "check",
   loaded |-> None, wrote |-> None, outcome |-> None,
   inserted |-> [m \in Mutations |-> None],
   results |-> [m \in Mutations |-> None]]

TypeOK ==
  /\ queued \in 0..Len(Queue)
  /\ answer \in [Mutations -> Outcomes \cup {None}]
  /\ order \in OrderStatus
  /\ log \in [Mutations -> Outcomes \cup {None}]
  /\ request \in [Connections ->
       [state : {"idle", "sent", "running", "answered"},
        todo : SUBSET (1..Len(Queue)),
        at : {"check", "load", "write", "insert"},
        loaded : OrderStatus \cup {None},
        wrote : OrderStatus \cup {None},
        outcome : Outcomes \cup {None},
        inserted : [Mutations -> Outcomes \cup {None}],
        results : [Mutations -> Outcomes \cup {None}]]]
  /\ faults \in 0..MaxFaults

Init ==
  /\ queued = 0
  /\ answer = [m \in Mutations |-> None]
  /\ order = "dispatched"
  /\ log = [m \in Mutations |-> None]
  /\ request = [c \in Connections |-> Idle]
  /\ faults = 0

------------------------------------------------------------------------------
(***************************************************************************)
(* The device and the network.                                             *)
(***************************************************************************)
Unanswered == {k \in 1..queued : answer[Queue[k]] = None}

QueueMutation ==
  /\ queued < Len(Queue)
  /\ queued' = queued + 1
  /\ UNCHANGED <<answer, order, log, request, faults>>

Send(c) ==
  /\ request[c].state = "idle"
  /\ Unanswered # {}
  /\ request' = [request EXCEPT ![c] =
                   [Idle EXCEPT !.state = "sent", !.todo = Unanswered]]
  /\ UNCHANGED <<queued, answer, order, log, faults>>

ReceiveResults(c) ==
  /\ request[c].state = "answered"
  /\ answer' = [m \in Mutations |->
                  IF request[c].results[m] # None THEN request[c].results[m]
                                                  ELSE answer[m]]
  /\ request' = [request EXCEPT ![c] = Idle]
  /\ UNCHANGED <<queued, order, log, faults>>

(***************************************************************************)
(* A request or a response is lost, or the transaction is killed: whatever *)
(* was uncommitted is undone, and the device hears nothing.                *)
(***************************************************************************)
Fault(c) ==
  /\ request[c].state # "idle"
  /\ faults < MaxFaults
  /\ faults' = faults + 1
  /\ request' = [request EXCEPT ![c] = Idle]
  /\ UNCHANGED <<queued, answer, order, log>>

(***************************************************************************)
(* The worker's dispatcher, straight on the table; see module Dispatch.    *)
(***************************************************************************)
DispatcherCancel ==
  /\ order \notin {"completed", "cancelled"}
  /\ \A c \in Connections : request[c].wrote = None
  /\ order' = "cancelled"
  /\ UNCHANGED <<queued, answer, log, request, faults>>

------------------------------------------------------------------------------
(***************************************************************************)
(* process_field_sync.                                                     *)
(***************************************************************************)
Running(c, at) ==
  /\ request[c].state = "running"
  /\ request[c].todo # {}
  /\ request[c].at = at

Position(c) ==
  CHOOSE k \in request[c].todo : \A j \in request[c].todo : k <= j

Current(c) == Queue[Position(c)]

BeginSync(c) ==
  /\ request[c].state = "sent"
  /\ request' = [request EXCEPT ![c].state = "running"]
  /\ UNCHANGED <<queued, answer, order, log, faults>>

(* Mutant of CheckLog: a retried mutation is skipped without a result. *)
CheckLogSilently(c) ==
  /\ Running(c, "check")
  /\ request' = IF log[Current(c)] # None
                  THEN [request EXCEPT ![c].todo = @ \ {Position(c)}]
                  ELSE [request EXCEPT ![c].at = "load"]
  /\ UNCHANGED <<queued, answer, order, log, faults>>

(***************************************************************************)
(* The idempotency check: a mutation in the log is answered from the log.  *)
(***************************************************************************)
CheckLog(c) ==
  /\ Running(c, "check")
  /\ LET m == Current(c)
     IN  request' =
           IF log[m] # None
             THEN [request EXCEPT ![c].results[m] = log[m],
                                    ![c].todo = @ \ {Position(c)}]
             ELSE [request EXCEPT ![c].at = "load"]
  /\ UNCHANGED <<queued, answer, order, log, faults>>

(***************************************************************************)
(* SELECT of the work order.  The variable of the loop keeps it, so the    *)
(* session does not read it again for the rest of the batch.               *)
(***************************************************************************)
Loaded(c) == IF request[c].loaded = None THEN order ELSE request[c].loaded

(* Mutant of Arbitrate: the reason of a conflict where its status belongs. *)
ReasonForStatus(m, status) ==
  IF status = "cancelled" \/ (status = "completed" /\ Action[m] = "resolve")
    THEN "cancelled_by_dispatcher"
    ELSE "applied"

(***************************************************************************)
(* Evidence is taken to be valid.  A start is refused on a cancelled order *)
(* only, a resolution on a completed one too.                              *)
(***************************************************************************)
Arbitrate(m, status) ==
  IF status = "cancelled" \/ (status = "completed" /\ Action[m] = "resolve")
    THEN "conflict"
    ELSE "applied"

LoadOrder(c) ==
  /\ Running(c, "load")
  /\ Current(c) \notin Unknown
  /\ LET verdict == Arbitrate(Current(c), Loaded(c))
     IN  request' = [request EXCEPT
                       ![c].loaded = Loaded(c), ![c].outcome = verdict,
                       ![c].at = IF verdict = "applied" THEN "write"
                                                        ELSE "insert"]
  /\ UNCHANGED <<queued, answer, order, log, faults>>

(***************************************************************************)
(* The UPDATE of the work order waits for the lock; the status column is   *)
(* in it when the assigned status is not the loaded one.                   *)
(***************************************************************************)
WriteOrder(c) ==
  /\ Running(c, "write")
  /\ \A d \in Connections \ {c} : request[d].wrote = None
  /\ LET to == IF Action[Current(c)] = "start" THEN "in_progress" ELSE "completed"
         visible == IF request[c].wrote = None THEN order ELSE request[c].wrote
     IN  request' = [request EXCEPT
                       ![c].wrote = IF to # request[c].loaded THEN to ELSE visible,
                       ![c].loaded = to, ![c].at = "insert"]
  /\ UNCHANGED <<queued, answer, order, log, faults>>

(***************************************************************************)
(* INSERT of the log row, under the unique key (worker, mutation): it      *)
(* waits for a transaction that has inserted the same key.                 *)
(***************************************************************************)
KeyFree(c, m) == \A d \in Connections \ {c} : request[d].inserted[m] = None

(* Mutant of InsertLog: ON CONFLICT DO NOTHING. *)
InsertLogOrIgnore(c) ==
  /\ Running(c, "insert")
  /\ LET m == Current(c)
     IN  /\ KeyFree(c, m)
         /\ request' = [request EXCEPT
                          ![c].inserted[m] = IF log[m] = None
                                               THEN request[c].outcome
                                               ELSE log[m],
                          ![c].results[m] = request[c].outcome,
                          ![c].todo = @ \ {Position(c)}, ![c].at = "check"]
  /\ UNCHANGED <<queued, answer, order, log, faults>>

InsertLog(c) ==
  /\ Running(c, "insert")
  /\ LET m == Current(c)
     IN  /\ KeyFree(c, m)
         /\ log[m] = None
         /\ request' = [request EXCEPT
                          ![c].inserted[m] = request[c].outcome,
                          ![c].results[m] = request[c].outcome,
                          ![c].todo = @ \ {Position(c)}, ![c].at = "check"]
  /\ UNCHANGED <<queued, answer, order, log, faults>>

(***************************************************************************)
(* The INSERT is refused, and the whole batch rolls back with an error     *)
(* that tells the device nothing about its mutations: the key is in the    *)
(* log by now; or the work order is unknown, when the row is inserted with *)
(* a random organisation, which the foreign key does not let through.      *)
(***************************************************************************)
InsertRefused(c) ==
  /\ \/ Running(c, "insert") /\ log[Current(c)] # None
     \/ Running(c, "load") /\ Current(c) \in Unknown
  /\ request' = [request EXCEPT ![c] = Idle]
  /\ UNCHANGED <<queued, answer, order, log, faults>>

(* Mutant of CommitSync: the response is on its way before the commit. *)
AnswerBeforeCommit(c) ==
  /\ request[c].state = "running"
  /\ request[c].todo = {}
  /\ request' = [request EXCEPT ![c] =
                   [Idle EXCEPT !.state = "answered",
                                !.results = request[c].results]]
  /\ UNCHANGED <<queued, answer, order, log, faults>>

CommitSync(c) ==
  /\ request[c].state = "running"
  /\ request[c].todo = {}
  /\ order' = IF request[c].wrote = None THEN order ELSE request[c].wrote
  /\ log' = [m \in Mutations |->
               IF request[c].inserted[m] # None THEN request[c].inserted[m]
                                                ELSE log[m]]
  /\ request' = [request EXCEPT ![c] =
                   [Idle EXCEPT !.state = "answered",
                                !.results = request[c].results]]
  /\ UNCHANGED <<queued, answer, faults>>

ServerStep(c) ==
  \/ BeginSync(c)
  \/ CheckLog(c) \/ LoadOrder(c) \/ WriteOrder(c)
  \/ InsertLog(c) \/ InsertRefused(c)
  \/ CommitSync(c)

Next ==
  \/ QueueMutation
  \/ DispatcherCancel
  \/ \E c \in Connections :
       Send(c) \/ ReceiveResults(c) \/ ServerStep(c) \/ Fault(c)

(***************************************************************************)
(* Faults end (MaxFaults); then the device sends what is unanswered, the   *)
(* database runs what it is sent, and answers arrive.  Neither the worker  *)
(* nor the dispatcher has to do anything.                                  *)
(***************************************************************************)
Fairness ==
  \A c \in Connections :
    /\ WF_vars(Send(c))
    /\ WF_vars(ServerStep(c))
    /\ WF_vars(ReceiveResults(c))

Spec == Init /\ [][Next]_vars /\ Fairness

------------------------------------------------------------------------------
(***************************************************************************)
(* Strict idempotency, end to end: whatever is lost, repeated or run twice *)
(* at once, a mutation gets one outcome, and what the device is told is    *)
(* what the log says.                                                      *)
(***************************************************************************)
Promise == INSTANCE ExactlyOnce WITH outcome <- log

ExactlyOnceSpec == Promise!Spec

(***************************************************************************)
(* The order is what the applied mutations made of it, in the order they   *)
(* were queued: nothing that was not logged had an effect, nothing logged  *)
(* as applied had none, and once a resolution is applied no retry that is  *)
(* still running puts the order back in progress.                          *)
(***************************************************************************)
EffectsAreLogged ==
  LET applied == {Action[m] : m \in {n \in Mutations : log[n] = "applied"}}
  IN  /\ order = "completed" <=> "resolve" \in applied
      /\ order = "in_progress" => "start" \in applied
      /\ order = "dispatched" => applied = {}

(***************************************************************************)
(* Everything a worker does offline is answered in the end.                *)
(***************************************************************************)
EveryMutationIsAnswered ==
  \A k \in 1..Len(Queue) : queued >= k ~> answer[Queue[k]] # None

==============================================================================
