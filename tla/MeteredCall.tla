---------------------------- MODULE MeteredCall ----------------------------
(***************************************************************************)
(* What a metered call is to the Agent that makes it, whatever goes on     *)
(* between the gateway and the chain: it is charged at most once, an       *)
(* answer with a charge is an answer to a charge that was made, and a call *)
(* that was refused is never charged.                                      *)
(***************************************************************************)
EXTENDS Naturals

CONSTANT Calls

VARIABLES
  charges,  \* how often each call was charged
  told      \* what its client was told: nothing yet, a charge, a refusal, or neither

promise == <<charges, told>>

Init ==
  /\ charges = [c \in Calls |-> 0]
  /\ told = [c \in Calls |-> "nothing"]

Charge(c) ==
  /\ charges[c] = 0 /\ told[c] # "refused"
  /\ charges' = [charges EXCEPT ![c] = 1]
  /\ UNCHANGED told

\* A charge that was made, or a refusal of what was not charged.
Tell(c) ==
  /\ told[c] = "nothing"
  /\ told' = [told EXCEPT ![c] = IF charges[c] = 1 THEN "charged" ELSE "refused"]
  /\ UNCHANGED charges

\* An answer that says neither, the work without a charge block or a broken
\* connection, leaves open whether the call was charged or will be.  A
\* restart breaks several at once.
LeaveOpen(some) ==
  /\ \A c \in some : told[c] = "nothing"
  /\ told' = [c \in Calls |-> IF c \in some THEN "neither" ELSE told[c]]
  /\ UNCHANGED charges

Next ==
  \/ \E c \in Calls : Charge(c) \/ Tell(c)
  \/ \E some \in SUBSET Calls : LeaveOpen(some)

Spec == Init /\ [][Next]_promise
=============================================================================
