----------------------------- MODULE RateLimiter -----------------------------
(***************************************************************************)
(* The fixed-window limit of one client address on one endpoint: INCR and, *)
(* for the first request of a window, EXPIRE, as two calls to Redis that   *)
(* interleave with other requests and of which either may fail.            *)
(***************************************************************************)
EXTENDS Integers

CONSTANTS
  Callers,       \* requests of the client that may run at once
  MaxRequests,   \* max_requests of the limiter
  MaxFaults,     \* bound: EXPIREs that are lost
  MaxCount       \* bound: requests counted in one window

ASSUME RateConstants ==
  /\ MaxRequests \in Nat \ {0} /\ MaxFaults \in Nat
  /\ MaxCount \in Nat /\ MaxCount > MaxRequests

VARIABLES
  counter,   \* the key's value; 0 when Redis has no such key
  ttl,       \* the key has a time to live
  owing,     \* requests that have started a window and not yet sent EXPIRE
  admitted,  \* of the requests that this window counted, those let through
  faults     \* EXPIREs lost so far

rateVars == <<counter, ttl, owing, admitted, faults>>

RateTypeOK ==
  /\ counter \in 0..MaxCount /\ ttl \in BOOLEAN
  /\ owing \subseteq Callers
  /\ admitted \in 0..counter /\ faults \in 0..MaxFaults
  /\ ttl => counter > 0

RateInit ==
  /\ counter = 0 /\ ttl = FALSE
  /\ owing = {} /\ admitted = 0 /\ faults = 0

(* Mutant of OverLimit: one request too many. *)
OverLimitByOne(n) == n > MaxRequests + 1

OverLimit(n) == n > MaxRequests

(* Mutant of StartsWindow: EXPIRE when the limit is reached. *)
ReachesLimit(n) == n = MaxRequests

StartsWindow(n) == n = 1

(***************************************************************************)
(* INCR, and for a request that starts no window the answer that follows   *)
(* from it.  A request whose INCR fails is let through and not counted: it *)
(* changes nothing here.                                                   *)
(***************************************************************************)
Incr(c) ==
  LET n == counter + 1
  IN  /\ c \notin owing /\ counter < MaxCount
      /\ counter' = n
      /\ admitted' = IF OverLimit(n) THEN admitted ELSE admitted + 1
      /\ owing' = IF StartsWindow(n) THEN owing \cup {c} ELSE owing
      /\ UNCHANGED <<ttl, faults>>

(* EXPIRE; or it fails, or its process ends: the request is let through. *)
Expire(c) ==
  /\ c \in owing
  /\ owing' = owing \ {c}
  /\ \/ /\ ttl' = (counter > 0)
        /\ UNCHANGED faults
     \/ /\ faults < MaxFaults
        /\ faults' = faults + 1
        /\ UNCHANGED ttl
  /\ UNCHANGED <<counter, admitted>>

WindowOver ==
  /\ ttl
  /\ counter' = 0 /\ ttl' = FALSE /\ admitted' = 0
  /\ UNCHANGED <<owing, faults>>

RateNext == (\E c \in Callers : Incr(c) \/ Expire(c)) \/ WindowOver

(***************************************************************************)
(* A request that got its number goes on to EXPIRE, and Redis ends a       *)
(* window.                                                                 *)
(***************************************************************************)
RateFairness ==
  /\ \A c \in Callers : WF_rateVars(Expire(c))
  /\ WF_rateVars(WindowOver)

RateSpec == RateInit /\ [][RateNext]_rateVars /\ RateFairness

------------------------------------------------------------------------------
(***************************************************************************)
(* However its requests interleave, a window lets through at most the      *)
(* limit of the requests it counted, and all of them below the limit.      *)
(***************************************************************************)
WindowAdmitsTheLimit ==
  admitted = IF counter < MaxRequests THEN counter ELSE MaxRequests

(***************************************************************************)
(* A client that hit the limit is served again: every window ends.  The    *)
(* one exception is an EXPIRE that was lost; that window never ends, since *)
(* only the first request of a window sets a time to live.                 *)
(***************************************************************************)
WindowsEnd == (counter > 0 /\ faults = 0) ~> (counter = 0 \/ faults > 0)
==============================================================================
