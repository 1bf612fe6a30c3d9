----------------------------- MODULE CreditLine -----------------------------
(***************************************************************************)
(* What TabBook promises, without how it keeps the books: every tab has one*)
(* signed balance, deliveries raise it, payments lower it, and an account  *)
(* with a frozen tab takes no delivery until that tab is paid in full.     *)
(***************************************************************************)
EXTENDS Integers

CONSTANTS Agents, Services, Assets, MaxAmount

VARIABLES
  balance,   \* owed if positive, paid in advance if negative
  allowance, \* what the Agent still allows the Service to charge
  frozen     \* the tabs in default

vars == <<balance, allowance, frozen>>

Tabs == Agents \X Services \X Assets
SameAccount(t, u) == t[1] = u[1] /\ t[3] = u[3]

Init ==
  /\ balance = [t \in Tabs |-> 0]
  /\ allowance = [t \in Tabs |-> 0]
  /\ frozen = {}

Allow(t, n) ==
  /\ allowance' = [allowance EXCEPT ![t] = n]
  /\ UNCHANGED <<balance, frozen>>

Deliver(t, n) ==
  /\ \A u \in frozen : ~SameAccount(t, u)
  /\ n <= allowance[t]
  /\ balance' = [balance EXCEPT ![t] = @ + n]
  /\ allowance' = [allowance EXCEPT ![t] = @ - n]
  /\ UNCHANGED frozen

Pay(t, n) ==
  /\ balance' = [balance EXCEPT ![t] = @ - n]
  /\ frozen' = IF balance[t] <= n THEN frozen \ {t} ELSE frozen
  /\ UNCHANGED allowance

Freeze(t) ==
  /\ balance[t] > 0
  /\ t \notin frozen
  /\ frozen' = frozen \cup {t}
  /\ UNCHANGED <<balance, allowance>>

Next ==
  \E t \in Tabs :
    \/ Freeze(t)
    \/ \E n \in 0 .. MaxAmount : Allow(t, n)
    \/ \E n \in 1 .. MaxAmount : Deliver(t, n) \/ Pay(t, n)

Spec == Init /\ [][Next]_vars
=============================================================================
