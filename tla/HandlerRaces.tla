---------------------------- MODULE HandlerRaces ----------------------------
(***************************************************************************)
(* What concurrent handlers do to each other.  Module Dispatch takes each  *)
(* handler as one step; here a handler is the sequence of SQL statements   *)
(* its session sends, and those of several requests interleave.            *)
(*                                                                         *)
(* The database runs READ COMMITTED (nothing asks for more, nothing locks  *)
(* with FOR UPDATE): a SELECT sees the committed rows and the writes of    *)
(* its own transaction; an UPDATE waits for whoever has written the row    *)
(* and not ended, then writes over what that one committed.                *)
(*                                                                         *)
(* The session matters as much.  It reads a row once and keeps it (the     *)
(* identity map), it flushes what a handler assigned before the handler's  *)
(* next SELECT, and its UPDATE names only the columns whose new value      *)
(* differs from the one it read.  Timestamps always differ, so incidents   *)
(* and work orders are always written, and locked, if not their status; a  *)
(* report given the status it was read with is not written at all.         *)
(*                                                                         *)
(* Only the status columns are kept here: who may call, evidence, proofs   *)
(* and deadlines are the subject of Dispatch.                              *)
(***************************************************************************)
EXTENDS Lifecycle, Sequences

CONSTANTS
  Incidents, Reports,
  Links,           \* <<r, i>>: report r has an observation routed to i
  Orders,          \* existing work orders
  OrderOf,         \* OrderOf[i]: the work orders of incident i
  Requests,        \* bound: the requests of a behaviour, each handled once
  Calls,           \* bound: the calls a request can make
  StartStatuses,   \* bound: the statuses of incidents at the start
  None

Rows == Incidents \cup Reports \cup Orders

OrderStatus ==
  {"created", "dispatched", "accepted", "in_progress", "completed", "cancelled"}

StatusOf(x) ==
  CASE x \in Incidents -> IncidentStatus
    [] x \in Reports -> IntakeStatus
    [] x \in Orders -> OrderStatus

(***************************************************************************)
(* The handlers.  to is the status a PATCH writes; one to resolved is left *)
(* out, for it depends on the table constraint over the evidence.          *)
(***************************************************************************)
Call ==
  [handler : {"patch"}, row : Incidents, to : IncidentStatus \ {"resolved"}]
    \cup [handler : {"start", "resolve"}, row : Orders, to : {None}]
    \cup [handler : {"confirm", "dispute"}, row : Reports, to : {None}]
    \cup [handler : {"cron"}, row : {None}, to : {None}]

ASSUME HandlerConstants ==
  /\ Links \subseteq Reports \X Incidents
  /\ OrderOf \in [Incidents -> SUBSET Orders]
  /\ \A o \in Orders : \E i \in Incidents : o \in OrderOf[i]
  /\ \A i, j \in Incidents : i # j => OrderOf[i] \cap OrderOf[j] = {}
  /\ Calls \subseteq Call
  /\ StartStatuses \subseteq IncidentStatus
  /\ Incidents \cap Reports = {} /\ Incidents \cap Orders = {}
  /\ Reports \cap Orders = {}

VARIABLES
  table,   \* the committed status of every row
  txn      \* the transaction of every request

vars == <<table, txn>>

ChildrenOf(r) == {i \in Incidents : <<r, i>> \in Links}

ParentsOf(i) == {r \in Reports : <<r, i>> \in Links}

IncidentOf(o) == CHOOSE i \in Incidents : o \in OrderOf[i]

Aggregate(statuses, r) == CalculateIntakeStatus({statuses[i] : i \in ChildrenOf(r)})

(***************************************************************************)
(* What a session still has to do: statements, each over a set of rows it  *)
(* goes through in any order.                                              *)
(*   load       SELECT a row and assign its status                         *)
(*   update     flush the status assigned to a row                         *)
(*   move       flush an incident, then recompute its parents              *)
(*   recompute  SELECT the statuses of the children of a report            *)
(*   answer     SELECT the children of the citizen's report                *)
(***************************************************************************)
Statuses == IncidentStatus \cup IntakeStatus \cup OrderStatus

Statement ==
  [op : {"load", "update", "move", "recompute", "answer"},
   rows : SUBSET Rows, to : Statuses \cup {None}]

(***************************************************************************)
(* A table, or part of one, with the rows of another over it.              *)
(***************************************************************************)
Over(f, g) ==
  [x \in DOMAIN f \cup DOMAIN g |-> IF x \in DOMAIN f THEN f[x] ELSE g[x]]

Put(f, x, status) ==
  [y \in DOMAIN f \cup {x} |-> IF y = x THEN status ELSE f[y]]

Do(op, rows, to) ==
  IF rows = {} THEN <<>> ELSE << [op |-> op, rows |-> rows, to |-> to] >>

(***************************************************************************)
(* loaded: the identity map.  wrote: the rows flushed, which are the rows  *)
(* locked.  alone: no other transaction has run at the same time.          *)
(***************************************************************************)
Transaction(state, call, loaded, todo, alone) ==
  [state |-> state, call |-> call, loaded |-> loaded, todo |-> todo,
   wrote |-> <<>>, alone |-> alone]

Active(t) == txn[t].state = "active"

PartlyTyped(f) ==
  DOMAIN f \subseteq Rows /\ \A x \in DOMAIN f : f[x] \in StatusOf(x)

TypeOK ==
  /\ DOMAIN table = Rows /\ PartlyTyped(table)
  /\ DOMAIN txn = Requests
  /\ \A t \in Requests :
       /\ txn[t].state \in {"new", "active", "committed", "rolled_back"}
       /\ txn[t].call \in Calls \cup {None}
       /\ \A k \in DOMAIN txn[t].todo : txn[t].todo[k] \in Statement
       /\ PartlyTyped(txn[t].loaded) /\ PartlyTyped(txn[t].wrote)
       /\ txn[t].alone \in BOOLEAN

Init ==
  /\ \E incident \in [Incidents -> StartStatuses],
        order \in [Orders -> {"dispatched", "in_progress", "completed"}] :
       table = Over(Over(incident, order),
                    [r \in Reports |-> Aggregate(incident, r)])
  /\ txn = [t \in Requests |-> Transaction("new", None, <<>>, <<>>, FALSE)]

------------------------------------------------------------------------------
(***************************************************************************)
(* The first SELECT of each handler, and the checks made on it.            *)
(***************************************************************************)
Begin(t, c, read, todo) ==
  /\ txn[t].state = "new"
  /\ txn' = [u \in Requests |->
               IF u = t
                 THEN Transaction("active", c, [x \in read |-> table[x]], todo,
                                  \A v \in Requests : ~ Active(v))
                 ELSE [txn[u] EXCEPT !.alone = @ /\ ~ Active(u)]]
  /\ UNCHANGED table

(* update_incident_status *)
BeginPatch(t, c) ==
  /\ c.handler = "patch"
  /\ Begin(t, c, {c.row}, Do("move", {c.row}, c.to))

(* start_work_order *)
BeginStart(t, c) ==
  /\ c.handler = "start"
  /\ table[c.row] # "completed"
  /\ Begin(t, c, {c.row}, Do("update", {c.row}, "in_progress")
                            \o Do("load", {IncidentOf(c.row)}, "in_progress"))

(* Mutant of BeginResolve: a completed order may be resolved again. *)
BeginResolveAgain(t, c) ==
  /\ c.handler = "resolve"
  /\ Begin(t, c, {c.row}, Do("update", {c.row}, "completed")
                            \o Do("load", {IncidentOf(c.row)}, "resolved"))

(* resolve_work_order *)
BeginResolve(t, c) ==
  /\ c.handler = "resolve"
  /\ table[c.row] # "completed"
  /\ Begin(t, c, {c.row}, Do("update", {c.row}, "completed")
                            \o Do("load", {IncidentOf(c.row)}, "resolved"))

(* citizen_confirm_report, citizen_dispute_report *)
BeginConfirm(t, c) ==
  /\ c.handler = "confirm"
  /\ Begin(t, c, {c.row}, Do("answer", ChildrenOf(c.row), "confirmed"))

BeginDispute(t, c) ==
  /\ c.handler = "dispute"
  /\ Begin(t, c, {c.row}, Do("answer", ChildrenOf(c.row), "appealed"))

(***************************************************************************)
(* evaluate_auto_confirm_cron, whichever resolved incidents have expired.  *)
(***************************************************************************)
BeginCron(t, c) ==
  /\ c.handler = "cron"
  /\ \E expired \in SUBSET {i \in Incidents : table[i] = "resolved"} :
       Begin(t, c, expired, Do("move", expired, "confirmed"))

------------------------------------------------------------------------------
(***************************************************************************)
(* The statements of a running transaction.                                *)
(***************************************************************************)
Visible(t, x) ==
  IF x \in DOMAIN txn[t].wrote THEN txn[t].wrote[x] ELSE table[x]

Locked(t, x) ==
  \E u \in Requests \ {t} : Active(u) /\ x \in DOMAIN txn[u].wrote

Upcoming(t, op) == Active(t) /\ txn[t].todo # <<>> /\ Head(txn[t].todo).op = op

Proceed(t, loaded, wrote, todo) ==
  /\ txn' = [txn EXCEPT ![t].loaded = loaded, ![t].wrote = wrote,
                        ![t].todo = todo \o Tail(@)]
  /\ UNCHANGED table

(***************************************************************************)
(* UPDATE of the assigned columns, if there are any for a report.          *)
(***************************************************************************)
Flush(r, to, loaded) ==
  IF loaded[r] = to THEN <<>> ELSE Do("update", {r}, to)

(***************************************************************************)
(* The incident of an order, or a report that was recomputed.  The report  *)
(* is read afresh: no variable holds an earlier copy, and the identity map *)
(* is weak.                                                                *)
(***************************************************************************)
Load(t) ==
  /\ Upcoming(t, "load")
  /\ LET s == Head(txn[t].todo)
     IN  \E x \in s.rows :
           LET loaded == Put(txn[t].loaded, x, Visible(t, x))
           IN  Proceed(t, loaded, txn[t].wrote,
                       IF x \in Incidents THEN Do("move", {x}, s.to)
                                          ELSE Flush(x, s.to, loaded))

(***************************************************************************)
(* An UPDATE by primary key: it waits for the lock, and leaves the status  *)
(* column alone when the session assigned what it had read.                *)
(***************************************************************************)
Write(t) ==
  /\ Upcoming(t, "update") \/ Upcoming(t, "move")
  /\ LET s == Head(txn[t].todo)
     IN  \E x \in s.rows :
           /\ ~ Locked(t, x)
           /\ Proceed(t, Put(txn[t].loaded, x, s.to),
                      Put(txn[t].wrote, x,
                          IF s.to # txn[t].loaded[x] THEN s.to
                                                     ELSE Visible(t, x)),
                      (IF s.op = "move"
                         THEN Do("recompute", ParentsOf(x), None)
                         ELSE <<>>)
                        \o Do(s.op, s.rows \ {x}, s.to))

(* Mutant of Recompute: in a session of its own. *)
RecomputeElsewhere(t) ==
  /\ Upcoming(t, "recompute")
  /\ LET s == Head(txn[t].todo)
     IN  \E r \in s.rows :
           Proceed(t, txn[t].loaded, txn[t].wrote,
                   Do("load", {r}, Aggregate(table, r))
                     \o Do("recompute", s.rows \ {r}, None))

(***************************************************************************)
(* recompute_intake_report_status, up to its SELECT of the report.         *)
(***************************************************************************)
Recompute(t) ==
  /\ Upcoming(t, "recompute")
  /\ LET s == Head(txn[t].todo)
     IN  \E r \in s.rows :
           Proceed(t, txn[t].loaded, txn[t].wrote,
                   Do("load", {r},
                      Aggregate([i \in Incidents |-> Visible(t, i)], r))
                     \o Do("recompute", s.rows \ {r}, None))

(***************************************************************************)
(* The citizen's handlers read the children of the report, refuse when     *)
(* none is resolved (they roll back), and flush report and incidents in    *)
(* whichever order the unit of work sorts the two tables.                  *)
(***************************************************************************)
Answer(t) ==
  /\ Upcoming(t, "answer")
  /\ LET s == Head(txn[t].todo)
         resolved == {i \in s.rows : table[i] = "resolved"}
         loaded == Over([i \in s.rows |-> table[i]], txn[t].loaded)
         report == Flush(txn[t].call.row,
                         IF s.to = "confirmed" THEN "closed" ELSE "in_progress",
                         loaded)
         children == Do("update", resolved, s.to)
     IN  /\ resolved # {}
         /\ \E todo \in {report \o children, children \o report} :
              Proceed(t, loaded, txn[t].wrote, todo)

Commit(t) ==
  /\ Active(t) /\ txn[t].todo = <<>>
  /\ table' = Over(txn[t].wrote, table)
  /\ txn' = [txn EXCEPT ![t] = Transaction("committed", @.call, <<>>, <<>>, FALSE)]

(***************************************************************************)
(* A refusal, a lost connection, a crash, or the victim of a deadlock.     *)
(***************************************************************************)
Rollback(t) ==
  /\ Active(t)
  /\ txn' = [txn EXCEPT ![t] = Transaction("rolled_back", @.call, <<>>, <<>>, FALSE)]
  /\ UNCHANGED table

Handle(t) ==
  \/ \E c \in Calls :
       \/ BeginPatch(t, c)
       \/ BeginStart(t, c)
       \/ BeginResolve(t, c)
       \/ BeginConfirm(t, c)
       \/ BeginDispute(t, c)
       \/ BeginCron(t, c)
  \/ Load(t) \/ Write(t) \/ Recompute(t) \/ Answer(t)
  \/ Commit(t) \/ Rollback(t)

Next == \E t \in Requests : Handle(t)

Spec == Init /\ [][Next]_vars

------------------------------------------------------------------------------
Committing(t, handlers) ==
  /\ Active(t) /\ txn'[t].state = "committed"
  /\ txn[t].call.handler \in handlers

Staff == {"patch", "start", "resolve", "cron"}

Touched(t) == Incidents \cap DOMAIN txn[t].wrote

(***************************************************************************)
(* The lock on an incident protects a report that has no other: however    *)
(* staff handlers interleave, such a report is the aggregate of its child  *)
(* in every committed state, until a citizen answers for that incident.    *)
(***************************************************************************)
SingleChildAggregated ==
  \A r \in Reports, i \in Incidents :
    (/\ ChildrenOf(r) = {i}
     /\ \A t \in Requests :
          txn[t].state = "committed" /\ txn[t].call.handler \notin Staff
            => i \notin ChildrenOf(txn[t].call.row))
      => table[r] = Aggregate(table, r)

(***************************************************************************)
(* Races heal: whatever earlier interleavings and answers have done to the *)
(* reports, a staff handler that runs alone commits them aggregated, those *)
(* of every incident it touched.                                           *)
(***************************************************************************)
LoneHandlerRepairs ==
  [][ \A t \in Requests :
        (Committing(t, Staff) /\ txn[t].alone) =>
          \A i \in Touched(t) : \A r \in ParentsOf(i) :
            table'[r] = Aggregate(table', r)
    ]_vars

(***************************************************************************)
(* A resolution that is answered with success has completed its order,     *)
(* whoever else was at work on it: the status check at the start makes     *)
(* sure that the status column is written.                                 *)
(***************************************************************************)
ResolveCompletesItsOrder ==
  [][ \A t \in Requests :
        Committing(t, {"resolve"}) => table'[txn[t].call.row] = "completed"
    ]_vars

(***************************************************************************)
(* What the documents say and the code does not do.                        *)
(***************************************************************************)

(***************************************************************************)
(* A dispute routes the incident to the supervisor: the cron does not      *)
(* confirm what a citizen has appealed.                                    *)
(***************************************************************************)
DisputeStopsCron ==
  [][ \A t \in Requests : Committing(t, {"cron"}) =>
        \A i \in Incidents :
          table[i] = "appealed" => table'[i] = "appealed"
    ]_vars

==============================================================================
