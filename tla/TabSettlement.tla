--------------------------- MODULE TabSettlement ---------------------------
(***************************************************************************)
(* packages/contracts/src/TabSettlement.sol: a tab is paid down by a       *)
(* transfer to the Service and an entry in TabBook, in one transaction.    *)
(* The contract keeps no state.  The Agent calls it, or signs a Permit2    *)
(* payload that anybody may submit, as often as it likes to try.           *)
(*                                                                         *)
(* settleBatch is a loop inside one transaction: each round is a step here,*)
(* and between its rounds nothing else happens.  A round that reverts, or  *)
(* that runs out of gas, undoes the rounds before it.                      *)
(***************************************************************************)
EXTENDS TabBook, Erc20

CONSTANTS
  Surface,  \* the TabSettlement contract, as a caller of TabBook
  Nonces,   \* Permit2 nonces
  Payments, \* the amounts that are paid
  MaxBatch, \* bound on the instructions of a batch
  MaxSigned, \* bound on the payloads that are signed
  Tokens,   \* what every Agent has of every Asset at the start
  NoBatch   \* no batch is being run

ASSUME TabSettlementAssumption ==
  /\ Surface \in Accounts /\ Payments \subseteq Amount
  /\ MaxBatch \in Nat /\ MaxSigned \in Nat /\ Tokens \in Nat
  /\ Agents \cap Accounts = {}

VARIABLES
  collections, \* ServiceRegistry.collectionOf; NoAccount where it reverts
  signed,      \* the Permit2 payloads the Agents have signed
  usedNonces,  \* the nonces Permit2 has spent
  gasless,     \* the settlements that a SettledGasless event names
  batch        \* the batch that is being run

permitVars == <<signed, usedNonces, gasless>>
railVars == <<vars, balances, collections, permitVars, batch>>

Permit == [agent : Agents, serviceId : Services, asset : Assets, amount : Payments,
           nonce : Nonces, deadline : Time]

\* _apply, and the transfer after it: the Asset goes from the Agent straight to
\* the Collection address the registry has now.
Pay(t, amount) ==
  /\ services[t[2]].exists
  /\ collections[<<t[2], t[3]>>] # NoAccount
  /\ ApplySettlement(Surface, t, amount)
  /\ Transfer(t[1], collections[<<t[2], t[3]>>], t[3], amount)

Settle(t, amount) ==
  /\ batch = NoBatch
  /\ Pay(t, amount)
  /\ UNCHANGED <<collections, permitVars, batch>>

Sign(p) ==
  /\ batch = NoBatch
  /\ Cardinality(signed) < MaxSigned
  /\ signed' = signed \cup {p}
  /\ UNCHANGED <<vars, balances, collections, usedNonces, gasless, batch>>

\* Mutant: the witness does not name the Service.
WitnessHashOfAsset(serviceId, asset, amount) == <<asset, amount>>

\* What Permit2 does not bind itself.  The contract and the chain are the one
\* deployment there is.
WitnessHash(serviceId, asset, amount) == <<serviceId, asset, amount>>

\* What a signature is over: what _pullWithPermit2 hands to Permit2, and what the
\* client signs.
Payload(p) ==
  [owner |-> p.agent, token |-> p.asset, amount |-> p.amount, nonce |-> p.nonce,
   deadline |-> p.deadline, witness |-> WitnessHash(p.serviceId, p.asset, p.amount)]

\* Permit2 takes the signature: it is the Agent's over this payload, in time, of
\* an unspent nonce.
PermitHolds(p) ==
  /\ \E q \in signed : Payload(q) = Payload(p)
  /\ now <= p.deadline
  /\ <<p.agent, p.nonce>> \notin usedNonces

\* Whoever submits it states the payload.
SettleWithPermit2(p) ==
  /\ batch = NoBatch
  /\ PermitHolds(p)
  /\ Pay(<<p.agent, p.serviceId, p.asset>>, p.amount)
  /\ usedNonces' = usedNonces \cup {<<p.agent, p.nonce>>}
  /\ gasless' = gasless \cup {Len(settlements')}
  /\ UNCHANGED <<collections, signed, batch>>

-----------------------------------------------------------------------------

Instructions == [serviceId : Services, asset : Assets, amount : Payments]

\* What a revert restores.
Ledger == [tabs |-> tabs, tabRefs |-> tabRefs, assetOpen |-> assetOpen,
           delinquentTabs |-> delinquentTabs, settlements |-> settlements,
           history |-> history, balances |-> balances]

BatchBegins(agent, instructions) ==
  /\ batch = NoBatch
  /\ instructions # <<>>
  /\ batch' = [agent |-> agent, rest |-> instructions, before |-> Ledger]
  /\ UNCHANGED <<vars, balances, collections, permitVars>>

BatchPays ==
  /\ batch # NoBatch
  /\ batch.rest # <<>>
  /\ LET i == Head(batch.rest) IN Pay(<<batch.agent, i.serviceId, i.asset>>, i.amount)
  /\ batch' = [batch EXCEPT !.rest = Tail(@)]
  /\ UNCHANGED <<collections, permitVars>>

BatchEnds ==
  /\ batch # NoBatch
  /\ batch.rest = <<>>
  /\ batch' = NoBatch
  /\ UNCHANGED <<vars, balances, collections, permitVars>>

\* Mutant: a round that fails leaves the entries of the rounds before it, but
\* not their transfers.
RestoredTokensOnly(b) == [Ledger EXCEPT !.balances = b.before.balances]

Restored(b) == b.before

BatchReverts ==
  /\ batch # NoBatch
  /\ LET old == Restored(batch)
     IN  /\ tabs' = old.tabs /\ tabRefs' = old.tabRefs /\ assetOpen' = old.assetOpen
         /\ delinquentTabs' = old.delinquentTabs
         /\ settlements' = old.settlements /\ history' = old.history
         /\ balances' = old.balances
  /\ batch' = NoBatch
  /\ UNCHANGED <<settlementSurface, auths, firstDeliveryAt, metered, envVars, collections,
                 permitVars>>

-----------------------------------------------------------------------------

SettlementInit ==
  /\ Init
  /\ balances = [h \in (Agents \cup Accounts) \X Assets |->
                   IF h[1] \in Agents THEN Tokens ELSE 0]
  /\ collections \in [Services \X Assets -> Accounts \cup {NoAccount}]
  /\ signed = {} /\ usedNonces = {} /\ gasless = {}
  /\ batch = NoBatch

SettlementNext ==
  \/ \E t \in Tabs, amount \in Payments : Settle(t, amount)
  \/ \E p \in Permit : Sign(p) \/ SettleWithPermit2(p)
  \/ \E agent \in Agents, n \in 1 .. MaxBatch :
       \E instructions \in [1 .. n -> Instructions] : BatchBegins(agent, instructions)
  \/ BatchPays
  \/ BatchEnds
  \/ BatchReverts
  \/ /\ BookCall \/ Tick
     /\ batch = NoBatch
     /\ UNCHANGED <<balances, collections, permitVars, batch>>

SettlementSpec == SettlementInit /\ [][SettlementNext]_railVars

-----------------------------------------------------------------------------

\* What the settlements in the book sum to that satisfy a condition.
PaidOf(Is(_)) ==
  SumOf({i \in DOMAIN settlements : Is(settlements[i])},
        [i \in DOMAIN settlements |-> settlements[i].amount])

\* An entry of the book is what a payload says: its tab, its amount, in time.
SettledAs(i, p) ==
  /\ i \in DOMAIN settlements
  /\ LET s == settlements[i]
     IN  /\ <<s.agent, s.serviceId, s.asset, s.amount>> =
              <<p.agent, p.serviceId, p.asset, p.amount>>
         /\ s.settledAt <= p.deadline

\* "A submitter can neither resize, redirect, nor replay a Settlement"
\* (TabSettlement.sol:140): what stands in the book as settled by signature
\* answers to a payload its Agent signed, for that Service, Asset and amount and
\* no later than its deadline, and no two entries answer to one nonce.
SignatureSettlesOnce ==
  \E permitOf \in [gasless -> signed] :
    /\ \A i \in gasless : SettledAs(i, permitOf[i])
    /\ \A i, k \in gasless :
         permitOf[i].agent = permitOf[k].agent /\ permitOf[i].nonce = permitOf[k].nonce
           => i = k
=============================================================================
