------------------------------- MODULE MCRail -------------------------------
(***************************************************************************)
(* The contracts together on a small instance: one Agent and one Service,  *)
(* which nobody has registered or bonded at the start.                     *)
(***************************************************************************)
EXTENDS Rail

CONSTANTS Kinds, a1, s1, op1, op2, usdc

\* Who registers, early, is paid at its own address.
RegisterOwn ==
  /\ now <= 2
  /\ \E caller \in Accounts, s \in Services, raw \in RawWindows, price \in Prices :
       Registry!RegisterService(caller, s, [a \in Assets |-> caller], TRUE,
                                [a \in Assets |-> price], raw)

ChangeOwn ==
  \/ \E caller \in Accounts, s \in Services, change \in Registry!Change :
       change.kind \in Kinds /\ Registry!QueueChange(caller, s, change)
  \/ \E caller \in Accounts, p \in pending : Registry!ApplyChange(caller, p)

\* The Agent allows a Service its ceiling once, at the first moment, and pays on
\* chain itself.
BookOwn ==
  /\ \/ \E t \in Tabs, m \in Ceilings, d \in Terms : now = 1 /\ ~auths[t].exists /\ Authorise(t, m, now + d)
     \/ \E caller \in Accounts, t \in Tabs, units \in Units, price \in Prices :
          RecordDelivery(caller, t, units, price, history[Account(t)], {<<t[2], t[3]>>})
     \/ \E t \in Tabs : MarkDelinquent(t)
     \/ Tick
  /\ UNCHANGED <<balances, collections, permitVars, batch>>

\* The one Bond is of op1, staked early and in one amount.
BondOwn ==
  \E asset \in Assets :
    \/ now <= 2 /\ Staking!Deposit(op1, op1, asset, MaxAmount)
    \/ Staking!Withdraw(op1, asset, MaxAmount)

\* The contracts are wired when they are deployed.  Bond stands alone and may
\* be used before: behaviours in which it is, by anybody, for anybody and in
\* every portion, are followed no further than that.
Deploy ==
  /\ \A k \in Staking!Parties : staked[k] = 0
  /\ SetSettlementSurface(WiringAuthority, Surface)
  /\ UNCHANGED <<balances, collections, permitVars, batch>>

MCNext ==
  \/ OnBook(Deploy)
  \/ settlementSurface = NoAccount /\ OnBond(Staking!BondNext)
  \/ /\ settlementSurface # NoAccount
     /\ \/ OnBook(BookOwn)
        \/ OnBook(\E t \in Tabs, amount \in Payments : Settle(t, amount))
        \/ OnRegistry(RegisterOwn)
        \/ OnRegistry(ChangeOwn)
        \/ OnBond(BondOwn)

MCSpec == RailInit /\ [][MCNext]_allVars
=============================================================================
