------------------------------- MODULE MCRaces -------------------------------
(***************************************************************************)
(* Values for the constants of HandlerRaces and OrderRaces, and the two    *)
(* side by side.                                                           *)
(*                                                                         *)
(* They are two views of concurrent handlers and share no variable: one    *)
(* follows the statuses of incidents, reports and orders, the other an     *)
(* order's row, the sync log and the review queue.  focus names the one    *)
(* that moves in a behaviour.                                              *)
(***************************************************************************)
EXTENDS HandlerRaces, OrderRaces, TLC

CONSTANTS
  Focuses,
  t1, t2, t3,               \* requests, of either
  r1, r2, i1, i2, o1,       \* HandlerRaces
  w1, w2, p1, p2, m1, m2    \* OrderRaces, with o1

VARIABLE focus

(* Two reports: one has both incidents, the other the second only. *)
SharedSecond == {<<r1, i1>>, <<r1, i2>>, <<r2, i2>>}

(* The work order is for the second incident. *)
OrderOnSecond == (i1 :> {}) @@ (i2 :> {o1})

SomeCalls ==
  { [handler |-> "patch", row |-> i1, to |-> "confirmed"],
    [handler |-> "patch", row |-> i2, to |-> "reopened"],
    [handler |-> "start", row |-> o1, to |-> None],
    [handler |-> "resolve", row |-> o1, to |-> None],
    [handler |-> "confirm", row |-> r1, to |-> None],
    [handler |-> "dispute", row |-> r2, to |-> None],
    [handler |-> "cron", row |-> None, to |-> None] }

Owners == p1 :> w1 @@ p2 :> w2

(* w1 resolves the order offline, w2 starts it offline. *)
Authors == m1 :> w1 @@ m2 :> w2
Targets == m1 :> o1 @@ m2 :> o1
ResolutionAndStart == m1 :> p1 @@ m2 :> Null

SymmetricRequests == Permutations(Requests)

------------------------------------------------------------------------------
allRaces == <<focus, vars, orderVars>>

RacesInit ==
  /\ focus \in Focuses
  /\ Init
  /\ focus # "statuses" => /\ \A i \in Incidents : table[i] = "in_progress"
                           /\ \A o \in Orders : table[o] = "dispatched"
  /\ OrdersInit
  /\ focus # "orders" => \A o \in WorkOrders : order[o].status = "created"

MoveStatuses == focus = "statuses" /\ Next /\ UNCHANGED <<focus, orderVars>>

MoveOrders == focus = "orders" /\ OrdersNext /\ UNCHANGED <<focus, vars>>

RacesNext == MoveStatuses \/ MoveOrders

RacesSpec == RacesInit /\ [][RacesNext]_allRaces

(***************************************************************************)
(* Tables and transactions of both hold what they can hold: among others,  *)
(* no session flushes to a row a status of another table, and the log      *)
(* holds outcomes only.                                                    *)
(***************************************************************************)
RacesTypeOK == TypeOK /\ OrdersTypeOK
==============================================================================
