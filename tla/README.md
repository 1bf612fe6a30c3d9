# Tab: a TLA+ verification project

Tab lets an Agent buy calls from Services on credit. A Service meters each call
into a tab on chain, the Agent settles its tabs later, and what it has settled
in the past decides how much it may owe. This directory holds TLA+ models of the
contracts and of the off-chain code around them, the TLC configurations that
check the models on small instances, and theorems about them that TLAPS checks
for every instance. Paths below are relative to the root of the repository
(`packages/contracts/src/...`, `apps/gateway/src/...`).

`PROJECT.json` lists, for every definition that models code, the lines it
models; for every checked property, a plausible bug that the property catches;
and every hazard of the code with the properties aimed at it.

## 1. The system

### 1.1 Contracts (`packages/contracts/src`)

| component | state | operations | correctness |
|---|---|---|---|
| `LimitLib.sol` | none: a pure function of a history, Bonds and parameters | `creditLimit`, `ageBps`, `Candidate` arithmetic | the limit is below the cited Bonds; it never falls because of a payment or of time; fewer than three independent Services never raise it above the baseline; rounding and order give nothing away |
| `TabBook.sol` | tabs, open totals and delinquency counters by (agent, asset), authorisations, settlement records, history commitment | `setSettlementSurface`, `authorise`, `recordDelivery`, `applySettlement`, `markDelinquent`, views | totals agree with tabs; every debt can be marked and a paid tab is clean; delinquency freezes the account and ends in payment; what is metered is paid or open; credit is granted within the limit at that moment |
| `ServiceRegistry.sol` | Services, Collections, prices, queued changes | `registerService`, `queueChange`, `applyChange`, `cancelChange` | a price has somewhere to be paid; windows keep their bounds; no term moves without 48 hours of notice |
| `Bond.sol` | staked, withdrawn, escrow | `deposit`, `depositFor`, `withdraw` | the escrow holds what is free; nobody withdraws more than was staked |
| `TabSettlement.sol` | none of its own (Permit2's nonces) | `settle`, `settleBatch`, `settleWithPermit2` | what the book counts as paid is what the Agent parted with and the Service received; a signature settles once |
| `CurationMultisig.sol` | confirmations, counters, executed calls | `propose`, `confirm`, `revoke`, `execute` | a call is made once, with a quorum that stands behind it |
| `MeteringDelegates.sol` | an Agent's delegates with an expiry | `setDelegate`, `revokeDelegate`, `isDelegate`, `expiryOf` | a key signs for an Agent only while, or shortly after, it is its delegate |

`TabBook` reads `ServiceRegistry` (is the caller the operator, what is the
price, the window, the tier) and `Bond` (what is staked behind a Service) inside
its own transactions. `TabSettlement` is the only caller of
`applySettlement`. `CurationMultisig` is the registry's curation authority. All
of them run in transactions, so one call is one atomic step; what interleaves is
calls of different parties.

### 1.2 Off-chain

| component | state | operations | correctness |
|---|---|---|---|
| gateway, history (`apps/gateway/src/history.ts`, `witness.ts` `buildWitness`) | records held for each (agent, asset) with the block they are complete to; in memory | catch up from the chain's logs or from the registry | a witness built from it is the history the chain commits to |
| gateway, metering (`apps/gateway/src/tab-book.ts`, `packages/sdk/src/server/post-paid.ts`, `packages/sdk/src/http/client-402.ts`) | none beyond the call | build a witness, simulate, send, await the receipt of a delivery; hold the response until then | a call is charged at most once; a charge that is told was made; a refused call is never charged |
| gateway, delegates (`apps/gateway/src/delegates.ts`) | positive answers with the time they are held to | read or recall whether a key signs for an Agent | a revoked key stops within the time an answer is held |
| gateway, sender (`apps/gateway/src/sender.ts`) | a queue and a nonce | one transaction at a time, one retry when the refusal names the nonce | every request is one transaction at most; nobody in the queue waits for ever |
| gateway, relay (`apps/gateway/src/relay.ts`) | none | simulate, submit and await a signed settlement | the answer tells what happened |
| gateway, reputation (`apps/gateway/src/reputation.ts`) | known settlements and writes in flight, in memory; progress read from the chain | write one feedback entry for each settlement | each settlement is rated once, in order |
| registry, indexer (`apps/registry/src/indexer.ts`, `service.ts`, `hypersync.ts`, `postgres-sink.ts`) | rows, block hashes and a cursor, committed together | ticks over the chain with an overlap, checks of older blocks | rows below the cursor are the canonical logs, in the end and, for what no reorganisation touched, always |
| registry, read API (`apps/registry/src/routes`) | none | reads over the rows | the witness route is complete to the horizon it names |
| keeper (`apps/keeper/src`) | none | judge the overdue tabs at one block, mark them one by one | every overdue tab is marked or settled; no mark is sent for a stale verdict |
| CRE keeper (`apps/cre-keeper/delinquency`) | none; the HTTP capability caches answers | every ten minutes: read, choose, post | a tab does not starve behind others |
| SDK (`packages/sdk/src`) | none beyond the call; the wallet's pending transactions | post-paid metering, x402 client and server, automatic settlement, funding | a call is delivered and metered, or neither is claimed; a settlement's answer is so and its money is accounted for |
| command line, MCP server, wallet plugin, dashboard, shared library | none that a protocol depends on | adapters, encodings, presentation | - |

### 1.3 What is hard

- A tab's fields are kept consistent by separate statements spread over three
  functions; a long sequence of part payments, prepayments, deliveries and marks
  has to keep totals, counters and clocks in step.
- The limit is computed from a history in the past and Bonds in the present,
  with four truncating divisions one after the other.
- The registry's terms move under tabs that are open; a change is checked when
  it is queued and applied two days later.
- The gateway builds a witness from several reads that are answered at different
  blocks, beside other calls that do the same, and loses it at a restart.
- Sending a transaction and learning its fate are two steps; between them come
  timeouts, retries, restarts and other writers on the same key.
- The chain reorganises under an indexer that reads it range by range, with two
  sources of different reach.
- An Agent's wallet settles a figure it learnt some steps ago, beside other calls
  that settle the same tab, through a swap, a relay and receipts that may fail late.
- The keeper acts on verdicts that grow old while it acts on them, and the
  workflow that drives it is answered from a cache.

`PROJECT.json` ("hazards") lists these at their lines, with the properties that
answer to each.

## 2. Modules and how they correspond to the code

```
        LimitLib     UnitSums            Erc20 (external)
             \         /                 /      \
  CreditLine  TabBook ------ TabSettlement      Bond
       ^  refines |          /     \    |      /
       |          |  Payments       \   |     /
       +----------+                 \   |     /
                                     Rail ---- ServiceRegistry
                                                |         \
                                          RegistryNotice   Curation --- CurationMultisig

                     SerialSender
                    /     |      \
  MeteredCall  Metering  Relay  Feedback        HistorySource   Indexer   Keeper
       ^  refines |  \     |      /
       +----------+  Delegates  /
                        \  |   /
                        Gateway

  LimitProofs <-- TabBookProofs <-- RailProofs        GatewayProofs
       ^                ^                             RegistryProofs
  GrowthProofs    PaymentProofs                       ServerProofs
```

The last block is the modules with theorems; an arrow points at the proofs a module builds on. `LimitProofs` is about
LimitLib and `GrowthProofs` about `MCLimitLib`, `TabBookProofs` about TabBook, TabBookClock and TabSettlement, `RailProofs`, `PaymentProofs` and
`GatewayProofs` about the module they are named for, `RegistryProofs` about CurationMultisig, RegistryNotice, Curation and
Indexer, `ServerProofs` about HistorySource and Keeper.

Modules whose names begin with `MC` give a specification its small instance:
initial values, a choice of inputs and the symmetry sets. They add no behaviour, but for the two that make
the functions of LimitLib run: `MCConcentration` picks contributions, `MCLimitLib` lets a history grow and age.
A definition whose comment begins with "Mutant:" is the plausible bug of a
property (PROJECT.json, "mutants"); no specification uses it.

**LimitLib** is `creditLimit` as operators: age weights by whole days, the
filters on a record, a bucket for each counterparty, the Bond cap, the contributions
and the concentration cap, with every integer division where the source has it. It
has neither state nor recursion: its sums are folds, and the insertion sort is where it leaves each contribution
(`Rank`), after the larger ones and the equal ones before it. `MCConcentration` sets the closed form of the cap
beside its defining equation, over every descending sequence up to its bounds;
`MCLimitLib` lets histories grow and age, and runs both.

**TabBook** has one action for each state-changing function: `SetSettlementSurface`,
`Authorise`, `RecordDelivery` (with its checks as `MayMeter`, `IsQuoted`, `IsAuthorised`
and `HasHeadroom`), `ApplySettlement`, `MarkDelinquent`. A call that
reverts changes nothing and is no step, so every `require` is a conjunct of the
action's guard. A tab's id is the hash of (agent, Service, asset), and the model
keys tabs with the triple. The history commitment is a chain of hashes over every
field of every record; the model keeps the sequence that was hashed, and a
witness is accepted when it is that sequence. Two variables are not fields of the
contract: `metered` is the sum of the amounts of its `DeliveryRecorded` events, and
`settlements` is the mapping `_settlements` in the order of its nonces. The last
four variables (`services`, `prices`, `free`, `now`) are what the contract reads of its
environment. In TabBook they move by `RegistryStep`, `BondStep` and `Tick`, which
know only what TabBook relies on: a Service that is registered has an operator and a bond
account and keeps them, and time does not run backwards. An Agent may authorise a Service that is not registered; its Bond cannot be
cited (`CitableServices`).

**TabBookClock** is TabBook with the age of every unit that is open, oldest first (`openSince`, which is not in the code), for
what can be said of a tab's one clock.

**CreditLine** is the abstract specification: every tab has one signed balance,
deliveries raise it within an allowance, payments lower it, and an account with a frozen
tab takes no delivery until that tab is paid in full. `TabBook!Line` is the refinement mapping, `ImplementsCreditLine` the property.

**ServiceRegistry** has `RegisterService`, `QueueChange`, `ApplyChange`,
`CancelChange` for each of the five kinds of change (price, Collection,
accepted Asset, window, tier) and who may queue them. **RegistryNotice** adds an Agent
that looks at the terms once, and states what the timelock promises it.

**Bond**, **TabSettlement** and **CurationMultisig** are one action for each
function. `settleBatch` is modelled round by round (`BatchBegins`, `BatchPays`,
`BatchEnds`, `BatchReverts`) with the state to restore kept in `batch`; while a
batch runs no other step is possible, because the batch is one transaction. `Erc20`
is an external module: balances, a transfer that fails when the balance is too
small, which is all the contracts rely on. Permit2 is external too: an unordered nonce
per owner, a signature over exactly one payload, a deadline (`PermitHolds`). What the payload is, is the contract's:
`Payload` is what `_pullWithPermit2` hands over, with the `WitnessHash` that binds the Service. Whoever calls
`SettleWithPermit2` states every argument; nothing but the payload ties them to what an Agent signed. `gasless` are the settlements
that a `SettledGasless` event names.

**Payments** (over TabSettlement) is the paying side of the SDK: calls of `tab_call` with automatic settlement
(`mcp/toolset.ts`, `payments/auto-settle.ts`) that run beside each other for one Agent. `job` holds where each call is.
`Simulates` and `Records` are the two steps of a metered call, whose answer has the Open Tab of the simulation (it runs
the whole of `recordDelivery`, checked arithmetic included);
`Declines` and `ReadsOpen` are the two of a refusal. Then `Plan`, `Deposit`, `AwaitDelivery` bring in what the Agent is short
of (`payments/intents.ts`), and the settlement goes one of two ways: `EnsureAllowance`, `Approved`, `Sends`, `ReadsReceipt`
(`payments/monad.ts`), or `Posts`, `ReadsReply` (`payments/permit2.ts`). Each of them may fail after it took effect: a
receipt that is not read, a deposit sent whose sender does not learn so, a relay that does not answer. `Answer` tells the call what
became of it and makes a declined call once more. The wallet numbers its transactions, so `wire` is mined in its order. A
strategy that is not funded is one whose `Plan` finds the balance there or fails. A call may settle twice, so nonces, deposits and
answers belong to an *attempt*. 1Click and the relay are external: they deliver or refund, submit or do not. A
deposit is delivered one for one; what a swap costs is not in the model. `touched` and `paidFor` are
not in the code: they say which calls something came between, and for which attempt each settlement was made. A deposit is for one
Asset, so `MoneyIsAccountedFor` counts what was delivered Asset by Asset; summed over an Agent's Assets it is false as soon as there are
two, which the attempt to prove it showed and the run with its one Asset could not.

**Rail** composes TabBook, TabSettlement, ServiceRegistry and Bond over shared
state. Its `BookAssumptionsHold` shows that the steps of the other
contracts, seen from TabBook, are TabBook's `RegistryStep`, `BondStep` and `Tick`. The one step
that is not TabBook's is a batch that reverts, which takes the book back to where the batch began.
`dueAt` is not in the code: it is the first moment at which a tab may be marked by what was announced when its clock
started; what a revert restores has not started anew.

**Curation** composes CurationMultisig with ServiceRegistry, whose curation role it holds: `Execute` makes the
call it was confirmed for, on the registry, and `made` remembers the calls made and when.

**HistorySource** models `createHistorySource` and the part of `buildWitness` that
uses it, for one (agent, asset). Each `await` ends a step: `ReadCount`, `ReadHead`,
`RegistryReads` and `RegistryAnswers` (the registry reads its rows and its horizon
apart), `AnswerFromBase` or `AnswerFromScan`, `Verify`. `pc` holds where each concurrent
call is. Blocks come with records, one or several, or without (`Mine`), the registry catches up (`Index`),
a read fails (`HistoryReadFails`), and the gateway restarts (`Restart`).

**Indexer** models `createIndexer` and the loop of `service.ts` over the Postgres
sink. A block keeps the branch it was mined on, which stands for its hash, and
whether it has a log that is indexed; the tables keep the blocks that have rows.
A tick is `TickBegins` (head, cursor, window and the recent indexed blocks), one
`AnchorStands` or `AnchorDiverges` for each block hash it reads back,
`ReadLogs` over a range whose end depends on whether the archive answers
(`ChunkSizes`), and `ApplyBatch`, which is one database transaction. `TickFails`
drops what was read at any point; the chain grows (`Mine`) and reorganises
(`Reorganise`) between any two steps, to any depth. `deep`, `tooDeep` and `overtaken` are not in the code: they remember what a
reorganisation was to the tick it met, for the properties alone.

**SerialSender** is `createSerialSender` with the node and the chain under it. The
request at the head of the queue is served by `ReadNonce`, then `Accepted`,
`Refused` (the one retry) or a failure: `SendFails` (the node took nothing), `AnswerLost` (the
node took it) or `SendDelayed` (it may still reach the node: `Arrives`). `Outside` is a
script with the same key. `MineNext` mines by nonce.

**Metering** (over SerialSender) is one Agent's concurrent calls through
`client-402.ts`, `post-paid.ts` and `tab-book.ts`: `BuildWitness`, `SimulationPasses` or
`SimulationRefuses`, `BuildWitness` again for the transaction, `Send`, then `Receipt`, `NotSent` or
`Unconfirmed`; `Refuse` is the 402 that the client repeats once. A witness is kept as the length of
the history it was built from, which is what the commitment check compares.
`DeliveryMined` is what the contract does with it by then. **MeteredCall** is its abstract
specification: a call is charged at most once, told a charge only if there was
one, and never charged after a refusal; `ImplementsMeteredCall` is the refinement.

**Delegates** (over Metering) is `MeteringDelegates.sol` with `delegates.ts`: the two reads
of a call are two steps, the positive answer is held (`HeldUntil`), and the Agent sets
and revokes in between. **Relay** is one signature, posted again while its answer is
retryable, beside others who submit or cancel it. A settlement needs an unspent nonce, a deadline ahead and the rest (`payable`): the
Agent's balance and its approval of Permit2, what the Service accepts and collects to, and the gas stated. The rest goes and comes back when it
likes (`RestChanges`), also between a simulation that passed and its transaction. `lapsed`, which is not in the code, says whether it ended since the last
simulation that passed. **Feedback** is the loop of the
feedback writer: what is known and in flight is in memory, how far it is is the
count of entries on chain. `cuts` is not in the code: it counts the writes the
writer lost sight of, which `RatedInOrder` speaks about.

**Gateway** composes the three writers on the one sender. `Loads` says which of
them are in use in a behaviour; `Restart` is one step of all of them.

**Keeper** models `apps/keeper` and `apps/cre-keeper/delinquency` together, because what
matters is between them. A request (`GET /overdue` or a tick) walks the feed
(`WalkFeed`), judges every candidate at one block (`Judge`), and a tick then goes through
`Simulate`, `Send`, `MarkMined` for one tab after the other. The workflow is `Trigger`, `Decide`,
`PostTick` or `AnsweredFromCache`, with `PostTimesOut`. Time is kept as what it does:
open tabs stand in the order in which their windows close, and `due` of them are past it; a tab that is settled or marked leaves its place.

## 3. Runs

The systems modelled end at their bounds (a clock, the length of a history, a
number of changes), so most runs do not check deadlock: a state without a step is
a bound. `keeper` checks it: its Agents may always go on, so a state
without a step would be a workflow that hangs.

### 3.1 What holds

| run | specification | properties | question |
|---|---|---|---|
| `limit` | `MCLimitLib`, `MCLimitLib.cfg` | `ConcentrationIsGreatestAllowed`, `SplittingNeverRaises`, `LimitNeverFalls` | creditLimit over histories of up to three records of three Services, ageing over the whole ramp, with and without Bonds; and its concentration cap against the equation it solves, over every descending sequence of at most five contributions up to nine. |
| `book` | `MCTabBookClock`, `MCTabBookClock.cfg` | `TypeOK`, `AssetOpenIsSum`, `DelinquentCounted`, `TabIsSound`, `MeteredIsPaidOrOpen`, `ClockNeverLate`, `DelinquentAccountIsFrozen`, `DelinquencyEndsInSettlement`, `ImplementsCreditLine` | The books of one Agent with two Services while the rest of the chain stands still: balances, delinquency, the refinement of CreditLine, and the clock of a tab against the age of every unit it has open. |
| `book_earned` | `MCTabBook`, `MCTabBookEarned.cfg` | `BorrowingIsEarned` | An Agent that pays three curated, bonded Services and borrows beyond the baseline: who must have been paid first. |
| `rail` | `MCRail`, `MCRail.cfg` | `DebtIsPayable`, `StakesAreHeld`, `BookAssumptionsHold`, `NeverMarkedEarly`, `CreditWithinStakes` | The contracts together, from an empty registry: registration, a queued change, a Bond deposited and withdrawn while its Agent borrows, deliveries, settlements and marking. |
| `payments` | `MCPayments`, `MCPayments.cfg` | `MoneyIsAccountedFor`, `SignatureSettlesOnce`, `AnswersAreTrue`, `AloneItIsExact`, `EveryCallEnds` | Two calls of tab_call that settle one tab beside each other and beside deliveries neither asked for, with lost receipts, late deposits and a relay that may not answer; or direct, batched and signed settlements of two tabs, with failing rounds, and signatures submitted again or for what was not signed. |
| `curation` | `MCCuration`, `MCCuration.cfg` | `ExecutedHasQuorum`, `TermsAreNoticed`, `TierTakesQuorumAndNotice` | A registry whose curation role is two of three owners', beside the Service's own operator: what must have happened, and when, before a Service changes its tier or a term an Agent looked at. |
| `history` | `MCHistorySource`, `MCHistorySource.cfg` | `ChainIsComplete`, `QuietIsAccepted`, `NoRecordTwice` | Two concurrent calls that build a history, of a gateway with a registry that lags or of one without, with failing reads and restarts. |
| `indexer` | `MCIndexer`, `MCIndexer.cfg` | `UntouchedRowsStand`, `StaleRowsGo`, `RowsConverge` | Ticks over a chain of five blocks that reorganises twice, at any moment and to any depth, with an archive that may answer and a tick that fails: what the tables hold meanwhile and in the end. |
| `gateway` | `MCGateway`, `MCGateway.cfg` | `OneTransactionEach`, `RelayTellsTheTruth`, `RatedInOrder`, `ImplementsMeteredCall`, `DelegateStoodLately`, `EveryoneIsServed` | The three writers of the gateway on one key: concurrent calls, posts of a signature that may stop being payable and feedback entries, under lost answers, late sends, a script with the same key and a restart. |
| `keeper` | `MCKeeper`, `MCKeeper.cfg` | `OverdueIsMarked`, `RevertsOnlyWhenOvertaken` | Two tabs, a workflow that may ask for one mark at a time, an operator and others who mark and settle beside it, with failures, a restart and posts that time out. |

The properties, in words:

- **limit.** `LimitNeverFalls`: neither another record nor time lowers
  it (R13.8, R13.4). `SplittingNeverRaises`: paying in parts never raises
  it. `ConcentrationIsGreatestAllowed`: the four candidates and their feasibility
  test find the greatest limit at which nobody counts for more than a quarter.
- **book.** `AssetOpenIsSum`, `DelinquentCounted`, `MeteredIsPaidOrOpen`: the totals,
  counters and events agree with the tabs. `TabIsSound`: a debt always has a
  running clock, a paid tab has none and no mark, and no tab has debt beside credit.
  `DelinquentAccountIsFrozen` and `DelinquencyEndsInSettlement` are
  what a mark means. `ImplementsCreditLine` is the refinement. `ClockNeverLate`: the clock of a
  tab is never later than its oldest unsettled unit, so no order of part
  payments gives a debt more than its window.
- **book_earned.** `BorrowingIsEarned`: a debt above the baseline is one of an Agent
  that paid three Services after they had delivered.
- **rail.** `BookAssumptionsHold`: the other contracts are the environment TabBook assumes.
  `DebtIsPayable`: every debt can be settled. `StakesAreHeld`: the escrow holds what
  Bond says is free, to the token. `NeverMarkedEarly`: although
  `markDelinquent` takes the window of the moment, no tab is marked before the
  window its Agent knew of when the debt began has passed; it rests on the timelock
  being longer than the longest window. `CreditWithinStakes`: whichever Bonds are cited, what is borrowed
  stays below the stakes of the moment, while they are withdrawn.
- **payments.** `MoneyIsAccountedFor`: what an Agent parted with on either chain is what the book has as paid or is under way to
  it, and Services received what was paid to them, whatever round of a batch or step of a call fails; a deposit that comes after its call
  gave up is still the Agent's. `SignatureSettlesOnce`: what the book has as settled by signature is what its Agent signed (Service, Asset, amount, deadline), and no
signature stands there twice, whatever a submitter states. `AnswersAreTrue`: what a settlement was answered with is so
  and stays so, whatever was left under way; and no attempt pays twice. `AloneItIsExact`: the amount is
  decided long before it is paid, so a settlement can be short, revert or pay into prepaid credit, and does only when something else moved
  the tab or the allowance meanwhile, or the tab could take no settlement at all (`Payable`). `EveryCallEnds` (liveness): no deposit, receipt or relay holds a call for good, and a declined call
  does not go round.
- **curation.** `ExecutedHasQuorum`; `TermsAreNoticed`: a term an Agent saw is in force, or the
  change was announced for at least the timelock; `TierTakesQuorumAndNotice`:
  a tier changes only when a quorum applies what a quorum queued a timelock before.
- **history.** `ChainIsComplete`: a gateway that reads the chain alone holds every
  record up to the block it has seen; `QuietIsAccepted`: a call during which
  no settlement lands has its witness. `NoRecordTwice` holds whatever the registry
  answers.
- **indexer.** `UntouchedRowsStand`: what was indexed of a block no reorganisation replaced is in
  the tables at every moment, while ranges around it are deleted and written again.
  `StaleRowsGo` and `RowsConverge` (liveness): once the chain
  is quiet no row of an abandoned branch is left, unless a reorganisation replaced more indexed blocks below the window than a tick
  compares (`tooDeep`) or came after a tick had compared and before it read (`overtaken`); the cursor is at the head,
  and if no reorganisation went below the window the tables are the chain's logs. Section 3.2 shows that neither exception can be dropped.
- **gateway.** `OneTransactionEach`: no request becomes two transactions and a nonce that was
  answered is the request's own. `ImplementsMeteredCall`. `RelayTellsTheTruth`: what the client of a
  signature is told for good is so: settled when it settled, and once; used when its nonce is spent; reverted only when something
  the simulation found has ended since. `RatedInOrder`: the entries are the settlements in their order while no
  write is lost sight of, and every entry too many goes back to one that was.
  `DelegateStoodLately`: a key is let in no longer after it stopped being a delegate than an
  answer is held and a read takes. `EveryoneIsServed` (liveness): calls, posts and the feedback
  writer all come to their end behind the one queue.
- **keeper.** `OverdueIsMarked` (liveness): every overdue tab is marked or settled, with one mark
  in a run, new tabs becoming overdue beside it, and posts answered from a
  cache; while the feed is short enough to be walked. `RevertsOnlyWhenOvertaken`: a mark
  reverts only if somebody settled or marked the tab after it was simulated.

### 3.2 What does not hold

| run | specification | property | what TLC shows |
|---|---|---|---|
| `history_gap` | `MCHistorySource`, `MCHistoryGap.cfg` | `HeldIsComplete` | A record appended between the read of the count and the read of the head is passed over for good. |
| `payments_output` | `MCPayments`, `MCPaymentsOutput.cfg` | `AutoSettlementsCarried` | A declined call that is settled for, made again and settled for again carries one of the two settlements. |

- `history_gap`. `historyRecords` reads the count, then the head, then may take the
  registry's copy. When the copy has as many records as the count it is held as
  complete to the head. A record that landed between the two reads is then in a
  block nobody scans again, and every witness is refused until the gateway restarts or asks
  the registry again. The run needs one call, and an index that stands still
  while it answers (`CalmSpec`), so the lag of the registry has no part in it.
- `payments_output`. `call` repeats itself with `retried` set, and the repeat settles too: when it is declined again (the
  README of the SDK says a second refusal is returned as it is) or leaves the tab at the threshold. The spread
  `{ ...(await call(raw, true)), autoSettle }` (`toolset.ts:498`) puts the first block over the second, although
  `packages/sdk/README.md:94` has the output carry each automatic Settlement. One call is enough to show it.

Disagreements between a text and the code that were met while modelling and have
no run of their own:

- `LimitLib.sol:19-21`, `WHITEPAPER.md:453` and `threat-model.mdx:66` bound the credit a ring
  can unlock by the capital it escrows. A Bond is resolved for each cited Service from the
  bond account of its operator, so one stake counts once for each Service of the
  operator. `tlc -config MCTabBookStake.cfg MCTabBookClock` shows it: `CreditBelowCapitalAtRisk` is
  violated by two Services of one operator. What holds, `CreditWithinStakes`, counts a stake
  once for each Service.
- `TabBook.sol:17` (and the glossary) call `oldestUnsettledAt` the time of the oldest
  delivery still unsettled. A part payment leaves it alone, so it can stand at a
  delivery that is paid for. `ClockNeverLate` is the direction that holds.
- `WHITEPAPER.md:227` says prepaid credit borrows nothing; `_requireHeadroom` compares
  what is open with the limit even when nothing is to be opened, so a delivery
  that is prepaid in full is refused while other debt is above a fallen limit.
- `ServiceRegistry.sol:221-222` says a change that cannot apply is refused when it is
  queued. A price in an Asset that is not accepted is queued and reverts when it is applied.
- `CurationMultisig.sol:7-9` says the curation role can queue every kind of change;
  `_authoriseChange` lets it change the tier only.
- `LimitLib.sol:182-183` argues that the candidate with `k = 0` is the smallest of the
  four. It need not be; what the argument is for, `LimitNeverFalls`, holds.
- `apps/registry/src/routes/agents.ts:492-493` says a witness is complete to
  `index.lastBlock`. Rows and horizon are read by two queries, and the horizon can
  be the newer one.
- `indexer.ts:104-106` says a reorganisation deeper than the blocks a tick compares is "still corrected, one
  anchor deeper per tick, rather than missed". `tlc -config MCIndexerDeep.cfg MCIndexer` violates `DeepIsCorrected`: two indexed blocks below the window
  are replaced and one is compared. The tick widens its range to the nearer and writes the new branch there; the next tick compares that
  one first, finds it canonical and stops, and the row of the farther block stays for good. It goes only if the new branch has no logs in
  between, which nothing ensures.
- `indexer.ts:31` and `:195-196` say that anything deeper than the window is caught. A tick compares the blocks below the window
  (`indexer.ts:198`) and reads its range some awaits later (`:223`). A reorganisation in between is in what it reads and not in what it
  compared: canonical blocks are written above a stale one, and every later tick compares them first. `tlc -config MCIndexerRace.cfg MCIndexer`
  violates `DeepIsCaught`. Neither trace needs a tick that fails, an archive or a second reorganisation. These are the two exceptions of `StaleRowsGo`.
- `indexer.ts:44-47` says everything from the divergence on is indexed again. The divergence found is the
  oldest *indexed* block that changed; a log that is new on the new branch, between
  the fork and that block, is never read. `RowsConverge` therefore promises all
  rows only for chains without a reorganisation below the window.
- `tab-book.ts:510-512` says a revert after a simulation that passed is the contract's own answer
  against the same state. Other calls and settlements are mined in between, so it need not be the
  same state. What is told of it ("neither") is right all the same.
- `reputation.ts:45-60` says the worst outcome of a lost write is one duplicate entry. A duplicate
  shifts the count, so the last settlement is never rated, and a send whose answer is lost opens the same door. `RatedInOrder`
  is what does hold.
- `relay.ts`: `RELAY_REVERTED` and `PERMIT_EXPIRED` are final answers although an earlier post of the same
  signature that was left unconfirmed may have settled. `RELAY_REVERTED` is final (`retryable: false`) also where the revert was for a balance, an approval or the gas,
  and the signature would settle if it were posted again; it is still true that it reverted.
- `keeper-client.ts:139-141` says the cache is "longer than a tick takes"; with a trigger every ten minutes and
  answers kept for 600 seconds, the mark of a tab that failed is asked for again only in every
  second run. `OverdueIsMarked` holds, later.
- Past `KEEPER_MAX_FEED_PAGES` (200 pages of 100 rows by default) every request of the keeper fails, and no tab is
  marked until it is configured anew; the feed of deliveries never shrinks.

### 3.3 Bounds, and why they are enough

- **limit.** Three Services are the fewest that grow a limit, and three records can be
  with three Services, or two with one. `GrowthFactorBps = 5000`, amounts 3 and 13 and
  a `Day` of one unit make every division truncate and every cap bind; the clock goes
  through the whole ramp (0, 15, 30 and 45 days). The cap has four candidates, `k = 0 .. 3`, and is looked at with
  up to five contributions, which is one more than any candidate leaves out.
- **book.** Two Services of one account let a total differ from a tab; amounts up to
  2 allow part payment, payment in full, and payment above what is open; three moments
  and a window of one allow a mark on time and one too early. More Agents or
  Assets add independent copies: no function reads two accounts, and the theorems hold for any number.
- **book_earned.** Three Services with a stake of 9 and a baseline of 12; two moments, the fewest at
  which a delivery comes strictly before its settlement.
- **payments.** Two calls on one tab are the fewest that settle the same debt twice. A limit of
  2 and a price of 1 make the third delivery the one that is declined; the Agent holds 3 and has 5 on the funding chain, at most 2 of it for one
  deposit, so settlements run short and are funded, refused or delivered late. Three deliveries that no call
  asked for, four settlements. Behaviours without calls have two Services instead: two instructions are a batch that can fail
  in its second round; two signed payloads on one nonce conflict.
- **rail.** A timelock of 3, a longest window of 2, five moments: the shape of the code (48
  hours, 24 hours) in the smallest numbers. Inputs are narrowed by `MCRail` (who
  registers pays itself, one change, the kinds that matter to a debt, and one Bond once the book is wired; before that, Bond is used by anybody in every portion), not the contracts' own guards.
- **curation.** The curation role is the multisig's in every behaviour. One follows the operator, who changes terms in every
  way it can (a timelock of 2 in 5 moments, two changes that follow, overlap or replace each other, two Assets), with an
  Agent that looks at the registry once; one follows a promotion by two of three owners without detours, with such an Agent; and one
  follows the owners in every call it takes to promote a Service, with their withdrawals (and a changeId guessed early), beside a change of the operator.
- **history.** Two calls, because held histories are shared by calls and by nothing else; three blocks and two
  records, a catch-up limit of one block, so that the registry is and is not asked.
- **indexer.** Five blocks, a window of 2, chunks of 3 and 4, one block of live window, one block compared in a tick: a chain longer than a chunk, two
  reorganisations within and below the window in any step of a tick, an archive range of its own, one tick that fails; 2.4 million states. With one comparison,
  two indexed blocks below the window are already more than a tick compares. The two configurations of section 3.2 have one reorganisation, no archive and no failure.
- **gateway.** Two of each that compete: calls, posts, settlements; two posts of a signature that may stop being payable; metering beside the
  relay; and a delegated call beside another Service. One outside transaction, one lost answer, one restart. The proofs cover
  any number, and all three writers together.
- **keeper.** One mark in a run and two tabs: one always waits for the other. One tick of the modelled kind; other ticks are
  `MarkedBeside`, which marks when it likes. Two failures.

The counters of the code are 128 and 32 bits wide; the models take their widths as
constants (`MaxAmount`, `MaxCount`) and the guards of the code (checked arithmetic,
`SafeCast`) as conjuncts.

### 3.4 Fairness, and why the code justifies it

- **indexer** (`FairIndexerSpec`): weak fairness of a tick's next step. `service.ts` starts a tick after
  every tick, whatever became of it. Ticks fail a bounded number of times; a tick that always fails indexes nothing.
  The chain owes nothing; "once the chain is quiet" is in the properties.
- **gateway** (`FairGatewaySpec`): weak fairness of each call's next step, of the relay's, the feedback writer's
  and the sender's (the event loop resumes what is awaited, and every wait has a timeout in the provider or in the
  code), of the chain that mines what the node took, and of the registry. Nothing is asked of callers, of a script with
  the key or of a send that was given up.
- **payments** (`PaymentsFairness`): weak fairness of the steps of a call that has started, as far as they go on by themselves: a fetch to a
  Service and a poll have a deadline, the relay answers. Losing a receipt is not among them. `wait()` has no deadline in the code, so it
  rests on the chain taking the wallet's transactions, which is fair too. Nothing is asked of 1Click.
- **keeper** (`FairKeeperSpec`): weak fairness of each request, of the workflow's steps (the trigger is periodic), of the registry's
  feed and of the expiry of the cache. Failures are bounded; Agents and operators owe nothing.

## 4. Proofs

TLAPS checks these for every value of the constants that satisfies the named
assumptions of the modules:

- `LimitProofs!CappedSolves`. For any descending contributions and baseline: the closed form is the greatest limit at which no counterparty counts for more than a quarter of it.
- `LimitProofs!HistoryGrows`. For any two histories of which one extends the other, and any Bonds: the longer one, evaluated no earlier, gives no lower limit.
- `LimitProofs!SplitsShrink`. For any history, place in it and Bonds: one record split into two gives no higher limit.
- `GrowthProofs!GreatestAllowed` (`ConcentrationIsGreatestAllowed`). For every descending sequence of contributions and every baseline, one of the candidates is feasible, and the value returned is the greatest limit at which no counterparty counts for more than a quarter of it.
- `GrowthProofs!SplittingPaysNothing` (`SplittingNeverRaises`). Whatever the history, the Bonds and the age of the records, paying one amount as two settlements instead of one never gives a higher Credit Limit.
- `GrowthProofs!NeverFalls` (`LimitNeverFalls`). While the Bonds stand, a Credit Limit falls neither as the records age nor with one settlement more, through the ramp, the filters, the sort of the contributions and the cap.
- `TabBookProofs!TypeCorrect` (`TypeOK`). Every reachable state of the book is well typed: no stored amount or counter leaves its width.
- `TabBookProofs!BooksBalance`. The inductive invariant of the books, for any Agents, Services and Assets: totals, counters, clocks and events agree with the tabs.
- `TabBookProofs!OpenIsSum` (`AssetOpenIsSum`). What an account owes is the sum of its tabs.
- `TabBookProofs!DelinquentsAreCounted` (`DelinquentCounted`). The delinquent tabs of an account are counted.
- `TabBookProofs!TabsAreSound` (`TabIsSound`). Every debt can be marked, a paid tab is clean, and no tab has debt beside credit.
- `TabBookProofs!MeteringBalances` (`MeteredIsPaidOrOpen`). Every unit metered is paid or open.
- `TabBookProofs!DelinquencyFreezes` (`DelinquentAccountIsFrozen`). No delivery is metered to an account with a delinquent tab.
- `TabBookProofs!DelinquencyIsSettled` (`DelinquencyEndsInSettlement`). A delinquency ends only in the settlement that pays its tab in full.
- `TabBookProofs!Implementation` (`ImplementsCreditLine`). TabBook implements CreditLine under the refinement mapping of Line.
- `TabBookProofs!BooksBalanceThroughBatches`. The books balance through settlements of every kind, also in the middle of a batch and after one that was taken back.
- `TabBookProofs!SignaturesSettleOnce` (`SignatureSettlesOnce`). Whatever payload a submitter states: what is settled by signature is of the Service, Asset and amount its Agent signed, in time, and no two settlements are of one signature and nonce, also when batches between them are taken back.
- `TabBookProofs!CreditStaysWithinStakes` (`CreditWithinStakes`). A delivery never takes what an account has open in an Asset to the sum of its registered counterparties' Bonds or above it, whichever Bonds are cited and whatever the witness.
- `TabBookProofs!CreditIsEarned` (`BorrowingIsEarned`). An account goes beyond the baseline only if three Services delivered to it first and were paid later: every record of a history is backed by a settlement of its own.
- `TabBookProofs!ClockIsNotLate` (`ClockNeverLate`). The clock of a tab is never later than the delivery that opened its oldest unpaid unit, in every order of deliveries, prepayments and part payments.
- `RailProofs!AssumptionsHold` (`BookAssumptionsHold`). The contracts together implement TabBook: whatever the registry, the Bonds and settlements do, the book sees only steps it was specified for, or a batch that takes the book back.
- `RailProofs!EscrowHoldsStakes` (`StakesAreHeld`). The escrow holds exactly what Bond says is free, whoever deposits and withdraws in whatever portions, beside settlements and batches that revert.
- `RailProofs!DebtCanBePaid` (`DebtIsPayable`). Whatever a Service has changed since, every open debt is one TabSettlement would take: its Service is known, it has an address to be paid at, and its account owes at least as much.
- `RailProofs!MarksAreNotEarly` (`NeverMarkedEarly`). For any timelock longer than the longest window: no tab is marked before the window its Agent knew of when the debt began has passed.
- `RegistryProofs!QuorumStands` (`ExecutedHasQuorum`). For any owners and threshold: confirmations are counted exactly, and a call that was executed keeps its quorum on record.
- `RegistryProofs!NoticeIsGiven` (`TermsAreNoticed`). For any Services, Assets and timelock: a term that an Agent saw is in force, or its change was announced for at least the timelock.
- `RegistryProofs!TierIsNotRushed` (`TierTakesQuorumAndNotice`). A tier changes only when a quorum applies what a quorum queued at least a timelock before.
- `RegistryProofs!RowsStand` (`UntouchedRowsStand`). For any window, chunks, archive and reorganisations: what was indexed of a block nothing replaced is in the tables at every moment.
- `PaymentProofs!AnswersStand` (`AnswersAreTrue`). For any number of calls beside each other: what a call answers about its settlement is so and stays so, and no attempt pays twice.
- `PaymentProofs!MoneyBalances` (`MoneyIsAccountedFor`). For any Agents, Assets and calls: what an Agent parted with on either chain is what the book has as paid or is under way, and Services received what was paid to them.
- `PaymentProofs!ExactWhenAlone` (`AloneItIsExact`). For any number of calls beside deliveries, settlements and funding of others: a call that nothing stepped in between since it learnt its figure closes its tab, leaves nothing over and does not revert where any settlement could be made.
- `PaymentProofs!RelayedSettlesOnce` (`SignatureSettlesOnce`). The same where calls, a relay and resubmissions compete for the signatures: each settlement by signature answers to one that was signed for it, and none to two.
- `PaymentProofs!BooksBalanceBesideCalls`. The books balance for every interleaving of the calls of the SDK with settlements and deliveries beside them.
- `GatewayProofs!GatewayInv`. The inductive invariant of the gateway: a request is at one place of the sender at a time, and every call, post and entry agrees with where its request is.
- `GatewayProofs!OneTransaction` (`OneTransactionEach`). For any calls, posts, settlements, failures and restarts: no request becomes two transactions, and the nonce it was answered with is its own.
- `GatewayProofs!RelayIsTrue` (`RelayTellsTheTruth`). For any posts of a signature, whoever else submits or cancels it and whatever ends between a simulation and its transaction: what a post was told for good is so.
- `GatewayProofs!MeteringKeepsPromise` (`ImplementsMeteredCall`). The gateway implements MeteredCall for any number of concurrent calls: charged at most once, told a charge only when it was made, never charged after a refusal.
- `GatewayProofs!DelegatesAreCurrent` (`DelegateStoodLately`). For any cache time and any length of a read: a delegate's call is let in only if its key stood no longer ago than the two together.
- `GatewayProofs!EntriesAreInOrder` (`RatedInOrder`). For any settlements, failures and restarts: the entries follow the settlements in their order while no write is lost sight of, and exceed them by no more than were.
- `ServerProofs!WastedOnlyWhenOvertaken` (`RevertsOnlyWhenOvertaken`). For any tabs, ticks and failures: a mark reverts only if its tab was settled or marked after the simulation.
- `ServerProofs!RecordsOnce` (`NoRecordTwice`). For any number of concurrent calls, blocks and records, and whatever the registry answers: no history that is returned carries a record twice or out of order.
- `ServerProofs!ChainComplete` (`ChainIsComplete`). A gateway that reads the chain alone never holds a history with a gap below the block it holds it to, however its calls overwrite each other's.
- `ServerProofs!QuietAccepted` (`QuietIsAccepted`). A call during which no record is appended has its witness accepted, whatever the calls beside it hold, unless the history is too long to fold.

**LimitLib.** Nothing here can be proved by induction over a sequence, so each sum is first turned into one that has a
definition without recursion (`UnitSums!SumOf`, see below): `FoldIsSum` takes any fold that satisfies its two equations, and a smallest set on
which it differs refutes itself (`SmallestBad`). `BondSumIs`, `SumSeqIs`, `BucketIs` and `TailIs` apply it. The divisions are
`Quotient` and its consequences. For the cap, a candidate that is feasible solves the equation the cap is derived from (`FeasibleSolves`), and
one of the four always is (`ScanFinds`: a candidate that is refused leaves the next contribution above it, and the fourth cannot be above
a cap that it is a share of). The greatest allowed limit is unique and grows with
every contribution, so `CappedGrows` need not look at candidates at all. Through the sort, which is a bijection in descending order (`DescendingOK`), a
limit grows with the buckets of its counterparties and with new ones (`LimitGrows`), and buckets with records and with their age (`BucketsGrow`,
`WeightGrows`). A split record moves nothing but a rounding, always down (`WeightedSplits`). `GrowthProofs` carries this to the behaviours of
`MCLimitLib`, whose invariant is only that histories are well formed and the contributions descend.

**TabBook.** No safety property of the ledger is inductive alone: that a settled
delinquent tab can be taken off the counter needs `DelinquentCounted`, that needs the
tabs to be typed, and `MeteredIsPaidOrOpen` needs to know that credit and debt exclude each
other. The inductive invariant `IInv` is the conjunction of `TypeOK` and the six balance
invariants. `TypeInit` and `TypeStep` prove typing first, then there is one lemma for each
action that moves the books (`DeliveryInv`, `SettlementInv`, `MarkInv`), with
`FrameInv` for the others, and `OwedMoves` and `PaidMoves` for what they do to the sums.
`DelinquencyFreezes` and `DelinquencyIsSettled` follow from `IInv` by cases on the step;
`Implementation` maps the initial states, then each action, to a step of
`CreditLine` or a stutter.

`CreditStaysWithinStakes` puts `CapBelowBonds` (a limit is at most 95% of the Bonds that were cited) under a delivery: it opens no more than the limit (`OpensWithinLimit`), and
Bonds resolve only for registered counterparties, once each (`CitedWithinStakes`). `CreditIsEarned` needs an invariant of its own,
`HistoryIsSettled`: every record of a history has a settlement of its tab at the same time, and the first delivery it states is the tab's, or
none; a limit above the baseline then has three buckets, each of a record whose delivery came before its settlement. `ClockIsNotLate` needs to know of the units open that
they are as many as the debt, oldest first, none from the future, and none older than the tab's clock (`AgesOK`).

Sums are the difficulty, because a fold cannot be unfolded by induction here.
`UnitSums!SumOf(S, f)` is therefore defined without recursion, as the cardinality of the
set of units `{<<s, u>> : s in S, u in 1 .. f[s]}`, which is the sum for
natural numbers. `TabBookProofs` begins with what is needed of it, from the library's
facts on finite sets: a sum moves with the one term that moves, a sum over a larger set is the smaller
one and a term, a sum of zeros is zero.

**TabSettlement.** Every payment is a step of TabBook (`PayIsBookStep`), but a batch that reverts is not: it puts back a
ledger from before. `SettlementInv1` therefore says of `batch.before` everything that `IInv` says of the ledger
(`Before` is TabBook over it), and that the environment, which does not move during a batch, is the one it was sound in. For `SignaturesSettleOnce`,
`SignedOK` says which payload each settlement by signature answers to. A step adds such an entry only for a payload that equals one an Agent signed, and
`PayloadIsSigned` shows that the two are then the same: the token, amount, nonce and deadline are fields of it and the Service is bound by the witness (with a witness that leaves the Service out this step fails,
and the mutant of the property is that witness). The entry it adds is the payload's (`PaidBySignature`), of a nonce that was unspent, and no later step changes or drops it: entries are only appended, and
a batch, which may take entries back, begins with those of every signature in what it restores (`BatchSigned`) and meets none while it runs.

**The contracts together.** `RailInv` has three parts beyond that. `RegistryOK` (a registered Service has its addresses and windows
within bounds) and `RegistryMoves` give TabBook's environment. `StakeOK` says what is free of every stake and that the escrow holds
their sum; a batch would restore what the escrow holds as it is. `TabInOrder` carries `DebtIsPayable` and `NeverMarkedEarly`: while a clock
runs, either it is past `dueAt`, or the window in force ends no sooner, and the same for every window that is queued unless its
time comes after `dueAt`. A new queued window cannot break it, because its time is a timelock away, and `dueAt` no more than the longest window after the clock
started. This is where `MaxWindow < Timelock` is used, and the only place.

**CurationMultisig, RegistryNotice and Curation.** `MultisigInv` is typing and both invariants: a call that was
executed keeps its quorum because neither `confirm` nor `revoke` touches it, and the
counter is the number of confirmers, so `execute`'s comparison is with the owners. `NoticeInv` says that until a timelock has passed since the Agent looked, every
pending change was pending then or has its time still to come after that; nothing else could have moved a term. `TierIsNotRushed` joins them: a pending
change of a tier names the `queueChange` in `made` that queued it, with its quorum and its time.

**Payments.** `AnswersInv` follows an attempt (a call's first or second go) through the wallet. While it is early, nothing of it is on `wire`,
signed or paid for; each is sent once (`SentOnce`); no attempt stands twice among the settlements, and none among those that a running batch would take back (`LogOK`). What was told is then final,
because nothing of an answered attempt can still arrive except where the answer left it open. `MoneyInv` says where the tokens are: an attempt that is not
yet at its deposit has none, what left the funding chain is the deposits under way or delivered, and for every account the balance, the settlements
and the deliveries match, in the ledger and in the one a batch would restore.

`ExactNow` adds `ExactInv` to both for `AloneItIsExact`: what a call has on `wire` or posted is of its current attempt and at the figure it learnt, and for
a call that nothing touched that figure is what its tab owes (or will, while the delivery that states it is in hand), with a balance and an allowance that
cover it from the stages on that provided them. Whatever moves a tab, a balance or an allowance touches the calls it concerns, so `ExactStep` needs of every other call only
that its own were left alone. `PaysWhatIsOpen` and `MinedIsPaid` then read the two halves of the property off a payment and off a transaction that is mined.

**Gateway.** What OneTransactionEach says of transactions and replies is not inductive: a request is
in one place at a time, and that has to be said of every place. `SenderSound` follows a request
through them: not submitted, in the queue, late, or taken by the node, never in two of them at once,
and answered only when it left the queue. Over it stand three conjuncts about the writers:
`CallsSound` (a call has asked the sender for something only when it was sent, its charges are the successful receipts
of its transaction, and a call that was refused has none), `PostsSound` and `EntriesSound` (a later post or write has
not been submitted yet, so each submission is of a request that is nowhere). `IInv` is their conjunction. `SenderSteps` and
`ArrivalSound`, `RestartSound` prove the sender's part once for all writers, `DeliverySound`, `SettlementSound`, `RelaysSound`
and `SubmitEntrySound` each writer's part, and `InvNext` goes through the steps of `GatewayNext`. From `IInv`,
`MovesKeepPromise` and `BreakKeepsPromise` show that a step of a call is a step of
`MeteredCall` or a stutter, which gives the refinement.
`RelayIsTrue` is about transactions that are mined while nobody looks, so `PostsSound` says of every post's transaction that it settled the signature if it
succeeded, and, if it is the last post's and failed, that something its simulation found had ended (`Ended`): a settlement that fails now has its nonce spent, its deadline passed
or the rest missing, the first two stay so, and `payable \/ lapsed` says that the rest is missing only when it ended after that simulation. An answer that is final is the last one, so
`lapsed` is not reset under it.
`DelegatesSound` is the invariant of the delegates' part: a key either stands now, or `stood` is the last moment it did, and a
positive answer was read while it stood, so it is held no longer than `stood + CacheTime + ReadTime`.
`RatedInOrder` needs a count. `Out` are the entries that may still be mined (queued, late or in the pool), `Followed` the one
the writer waits for. `RatedInv` says that at most `cuts` entries of `Out` are not followed, that the entries on chain and those of `Out`
together have room among the settlements the writer has dealt with and the `cuts`, and that while `cuts` is 0 the followed one is the next.
An entry that is mined moves from `Out` to the chain, a restart or a failed send moves what was followed to the `cuts`, and
`CountEntries` begins to write only once nothing followed is out.

**HistorySource.** `HistoryInv` says that the history on chain is in the order of its blocks and that whatever is held, read, started from or
returned is increasing positions of it; `RecordsOnce` is in it. `CompleteInv` adds, for a gateway without a registry, that what is held, read or
started from has every record up to its own `completeTo`, and that a call that began no record ago returns
all of them: the count, the head and the records it read are then of one history. `ChainComplete` and `QuietAccepted` follow. The sort and the set of new
records have no recursion in the model (`Ordered`, `SortedByCount` choose the one increasing order), and the lemmas on them (that the order exists, and that an increasing
sequence of n positions out of 1 .. n is 1, 2, ..., n) are induction in first-order form: a least
counterexample, which the well-foundedness of `<` on the naturals gives, and the step that refutes it.

**Indexer.** `UntouchedRowsStand` is inductive once the batch that is read but not written is as good as the tables: of every block in
its range that was not replaced, it has what there is to read. A range begins no later than where the last one ended, so what is deleted is what is written again.

**Keeper.** The tab of a tick that simulated its mark is overdue, or was taken out of the line since (`overtaken`). It needs
every tab to stand once in the line, so that taking one out moves no other past the due ones.

`CreditWithinStakes` and `BorrowingIsEarned` are theorems of TabBook's own specification. A batch that reverts is a step on which they are not claimed: it puts the debt of before
back, after stakes were free to move, and borrows nothing. The run `rail` has no batches (`MaxBatch = 0`).

Every safety and action property of the passing runs is a theorem. Only model-checked, and out of reach of the prover: liveness under fairness
(`EveryoneIsServed`, `EveryCallEnds`, `OverdueIsMarked`, `StaleRowsGo`, `RowsConverge`), `ENABLED`, and
what a recursive definition computes on every input (no module here has one).

## 5. Assumptions of the models

- A transaction is atomic and the block clock does not run backwards. Reverts
  are no steps. Gas is left out except where the code depends on its end (a round of a batch may fail).
- Hashes do not collide: ids are their preimages, a commitment is the sequence it commits to.
- Tokens are ERC-20 without fees on transfer and without callbacks.
- HistorySource: a read of the chain is answered with the state of the moment, and blocks
  are not undone. Reorganisations are in Indexer only.
- Indexer: the overlap window is shorter than a chunk. The two settings are read apart and nothing in the code compares them;
  with a window as long as a chunk the indexer stands still.
- SerialSender: the node says a nonce is taken, or that it knows a transaction, only of what it took before. All sends state
  equal fees, so none replaces another, and the node drops none. An error of a timeout names no nonce.
- Delegates: the provider gives a read up after `ReadTime`, and the clocks of the gateway and of the blocks are one.
- Feedback: a write that passes its simulation does not revert when it is mined.
- Payments: one wallet sends for the Agent, nothing replaces its transactions, and the figures a call is answered with reach it unchanged.
  "Unpaid" is there what a relay answers that has sent nothing for the signature and will not; `RELAY_REVERTED`, `PERMIT_NONCE_USED` and
  `RELAY_UNCONFIRMED` leave the signature open, and are the "unknown" of the model. A settlement waits for its receipt, which is the default
  of the strategies: with the receipt mode `skip`, or a signer whose response has no `wait`, `monad.ts:202` answers ok for a transaction that is not mined yet and may
  revert, and `AnswersAreTrue` and `AloneItIsExact` are not claimed of it.
- Permit2 keeps what the contract is written for: it takes a payload that its owner signed, before its deadline, once for a nonce, and spends the nonce in the transaction that uses it. That the payload says what the
  settlement does is not assumed (`SignatureSettlesOnce`).
- Keeper: the Settlement Window is constant while a tab is open (`NeverMarkedEarly` is about a window that moves). The HTTP
  capability answers an equal request with what it stored, and stores no failure. `GET /overdue` has the timeout of the post (eight seconds); in the model
  it fails a bounded number of times, like every read, and only the post's timeout comes as often as a tick takes too long.
- A registry Service has one tool. Tools are priced apart, and nothing relates two of them.

## 6. Not modelled, and why

- **Gateway history** (partly). The history source and the checks of buildWitness, for one Agent and Asset and concurrent calls. Not modelled: the resolution of Bonds and counterparties of buildWitness, log decoding, reorganisations of the chain.
- **Gateway metering** (partly). recordDelivery as its steps (witness, simulation, send, receipt) for concurrent calls of one Agent, and the authorisation by a delegate with the cache of delegates.ts. Not modelled: authorise, the replay of a metering claim, the read routes of the server.
- **Gateway reputation** (partly). The loop of the feedback writer for one Agent with one address. Not modelled: the resolution of identities over several addresses, the score, a write that simulates and reverts.
- **Registry indexer** (partly). Ticks, overlap window, anchors, chunks and the atomic batch over a chain that reorganises. A block has rows or has none; which row a log becomes, and the balances derived from rows, are not modelled.
- **Registry read API** (not modelled). Reads over the indexed rows; the one of them that another component relies on, the witness route, is in HistorySource. credit.ts repeats LimitLib in TypeScript.
- **SDK metering and payments** (partly). The plugin that holds a response until the call is metered, the client that repeats a 402 once, and the strategies a settlement takes: direct with its allowance, signed and relayed, funded from another chain. Not modelled: the allowance of Permit2, the batches of a strategy, x402, which waits on a facilitator outside the repository.
- **SDK command line and MCP server** (partly). tab_call with automatic settlement and the settlement of tab_settle, for calls beside each other. Not modelled: the read-only tools, argument parsing, schemas and transport, which keep no protocol state.
- **Agent wallet plugin** (not modelled). Builds transactions for a host wallet: one-shot reads and encodings without state of its own.
- **Dashboard** (not modelled). A user interface over the read API and the chain; presentation.
- **Shared library** (not modelled). Encodings and constants; the models work on what is encoded.

Three hazards have no property. The 513th settlement of an account
makes its limit unreadable (`TabBook.sol`, `MAX_HISTORY`): the code documents it and has no way on. A call of `CurationMultisig` executes
once for its hash, so a Service cannot be promoted, demoted and promoted again with
the same calldata: nothing in the repository says whether that is meant. A feed of deliveries past `KEEPER_MAX_FEED_PAGES` fails every request of the keeper (section 3.2),
as the comment there intends; `OverdueIsMarked` is claimed of shorter ones.

## 7. Plan

Done: the contracts, one by one and composed; the curation role; the gateway's history and its three writers with
their sender; delegates; the indexer; both keepers; automatic settlement and the strategies it settles through; the proofs of section 4.

What is left, in the order of what it would add:

1. **SDK payments**: x402, once the facilitator it waits on has a specification to model.
2. **Liveness** of the history source: a quiet chain is caught up with.
3. **A reorganisation under the gateway**: HistorySource and SerialSender over the chain of Indexer.
