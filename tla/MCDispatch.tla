----------------------------- MODULE MCDispatch -----------------------------
(***************************************************************************)
(* Values for the constants of Dispatch.                                   *)
(***************************************************************************)
EXTENDS Dispatch, TLC

CONSTANTS r1, r2, i1, i2, w1, w2, m1, m2

(* One incident, one report. *)
OneReport == {<<r1, i1>>}

(* Two incidents: one report has both, the other shares the first. *)
OverlappingReports == {<<r1, i1>>, <<r1, i2>>, <<r2, i1>>}

(* Each worker has one offline mutation; only w1 has; nobody has. *)
OneEach == m1 :> w1 @@ m2 :> w2

OnlyW1 == m1 :> w1

NoMutation == <<>>
==============================================================================
