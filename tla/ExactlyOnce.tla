----------------------------- MODULE ExactlyOnce -----------------------------
(***************************************************************************)
(* What offline sync promises a field device: each of its mutations gets   *)
(* one outcome, once and for all, however often and over whatever network  *)
(* it is sent, and the device is told no other.                            *)
(***************************************************************************)
CONSTANTS Mutations, Outcomes, None

VARIABLES
  outcome,   \* what the server has decided about a mutation, or None
  answer     \* what the device knows of it

Init ==
  /\ outcome = [m \in Mutations |-> None]
  /\ answer = [m \in Mutations |-> None]

(***************************************************************************)
(* A batch is decided as a whole: some undecided mutations at once.        *)
(***************************************************************************)
Decide ==
  /\ outcome' \in [Mutations -> Outcomes \cup {None}]
  /\ \A m \in Mutations : outcome[m] # None => outcome'[m] = outcome[m]
  /\ UNCHANGED answer

Learn ==
  /\ \E known \in SUBSET {m \in Mutations : outcome[m] # None} :
       answer' = [m \in Mutations |->
                    IF m \in known THEN outcome[m] ELSE answer[m]]
  /\ UNCHANGED outcome

Next == Decide \/ Learn

Spec == Init /\ [][Next]_<<outcome, answer>>

==============================================================================
