----------------------------- MODULE MCFieldSync -----------------------------
(***************************************************************************)
(* Values for the constants of FieldSync.                                  *)
(***************************************************************************)
EXTENDS FieldSync, TLC

CONSTANTS m1, m2, m3, c1, c2

(* An order started and resolved offline, the resolution twice. *)
StartThenResolve == <<m1, m2, m3>>

Actions == m1 :> "start" @@ m2 :> "resolve" @@ m3 :> "resolve"

(* The order of the first mutation is gone; the second is a resolution. *)
DeletedThenResolve == <<m1, m2>>

ActionsAfterDelete == m1 :> "start" @@ m2 :> "resolve"
==============================================================================
