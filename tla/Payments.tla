------------------------------ MODULE Payments ------------------------------
(***************************************************************************)
(* The paying side of packages/sdk: tab_call with automatic settlement     *)
(* (mcp/toolset.ts, payments/auto-settle.ts), which meters a call, decides *)
(* whether to settle the tab, and settles it through a strategy: one that  *)
(* sends the transactions itself (payments/monad.ts) or one that signs and *)
(* has a relay send (payments/permit2.ts), either of them funded from      *)
(* another chain when the Agent is short (payments/intents.ts).            *)
(*                                                                         *)
(* Several calls run beside each other for one Agent.  A call may settle   *)
(* twice, so what it pays belongs to an attempt, <<call, 1>> or <<call, 2>>.*)
(* The wallet numbers its transactions, so the chain takes them in the     *)
(* order of wire.  1Click, which moves a deposit, is external: it delivers *)
(* or refunds, some time or never.                                         *)
(***************************************************************************)
EXTENDS TabSettlement

CONSTANTS
  Jobs,          \* the calls of tab_call
  TabOf,         \* the tab of each: the toolset's Agent, the Service and the Asset
  AtBaseUnits,   \* AutoSettlePolicy.atBaseUnits
  FundingTokens, \* what each Agent has on the funding chain at the start
  MaxFunding,    \* maxFundingAmount
  MinDelivery,   \* the smallest delivery 1Click quotes
  Outside        \* whose payments are not those of a call

Attempts == Jobs \X {1, 2}

ASSUME PaymentsAssumption ==
  /\ IsFiniteSet(Jobs) /\ TabOf \in [Jobs -> Tabs]
  /\ AtBaseUnits \in Nat \ {0} /\ FundingTokens \in Nat
  /\ MaxFunding \in Nat /\ MinDelivery \in Nat
  /\ Attempts \subseteq Nonces /\ Outside \notin Attempts

VARIABLES
  job,       \* where each call is, and what it goes by
  wire,      \* the transactions the wallet has sent that are not mined
  allowance, \* what TabSettlement may take of every Agent in every Asset
  funds,     \* what every Agent has on the funding chain
  deposits,  \* the funding of each attempt
  told,      \* what the settlement of each attempt was answered with
  paidFor,   \* the attempt each settlement of the book was made for
  touched    \* the calls whose figure something else has moved since: the tab
             \* or the allowance of the Agent is not what the call saw

walletVars == <<wire, allowance, funds, deposits>>
jobVars == <<job, told>>
payVars == <<railVars, walletVars, jobVars, paidFor, touched>>

AttemptOf(j) == <<j, job[j].attempt>>
AmountOf(j) == job[j].amount
AgentOf(j) == TabOf[j][1]

\* The call goes on at a stage of its own, and nothing else moves.
Goes(j, stage) == job' = [job EXCEPT ![j].stage = stage]

\* What others do to the tab, or to the allowance, of a call goes unseen by it.
Touches(j) == touched' = touched \cup {k \in Jobs \ {j} : AgentOf(k) = AgentOf(j)}
Looks(j) == touched' = touched \ {j}

-----------------------------------------------------------------------------
(* tab_call: meter, decide, settle, and once more after a refusal.         *)

\* decideAutoSettle, with what a call knows: the Open Tab, and whether the
\* Credit Limit declined it.
Settles(openTab, declined) == openTab > 0 /\ (declined \/ openTab >= AtBaseUnits)

AmountToSettle(openTab) == openTab

CallStarts(j) ==
  /\ job[j].stage = "idle"
  /\ Goes(j, "calling")
  /\ UNCHANGED <<railVars, walletVars, told, paidFor, touched>>

Cited(t) == {<<t[2], t[3]>>}
Operator(t) == services[t[2]].operator
Charge(t) == prices[<<t[2], t[3]>>]

MayCharge(t) ==
  MayMeter(Operator(t), t) /\ IsQuoted(t, 1, Charge(t)) /\ IsAuthorised(t, Charge(t))

\* The call is simulated; the Open Tab it is answered with is the simulation's.
Simulates(j) ==
  LET t == TabOf[j]
      toOpen == ToOpen(tabs[t], Charge(t))
  IN  /\ job[j].stage = "calling"
      /\ MayCharge(t) /\ HasHeadroom(Account(t), toOpen, history[Account(t)], Cited(t))
      /\ tabs[t].open + toOpen <= MaxAmount /\ tabs[t].deliveryCount < MaxCount
      /\ job' = [job EXCEPT ![j].stage = "metering", ![j].amount = tabs[t].open + toOpen]
      /\ Looks(j)
      /\ UNCHANGED <<railVars, walletVars, told, paidFor>>

\* The delivery is mined; the answer reaches the Agent or is lost.
Records(j) ==
  LET t == TabOf[j] IN
  /\ job[j].stage = "metering" /\ batch = NoBatch
  /\ RecordDelivery(Operator(t), t, 1, Charge(t), history[Account(t)], Cited(t))
  /\ \/ Goes(j, "over")
     \/ IF Settles(job[j].amount, FALSE)
        THEN job' = [job EXCEPT ![j].stage = "settling",
                                ![j].amount = AmountToSettle(job[j].amount)]
        ELSE Goes(j, "over")
  /\ Touches(j)
  /\ UNCHANGED <<balances, collections, permitVars, batch, walletVars, told, paidFor>>

\* The limit declines the call: _requireHeadroom reverts with the headroom.
Declines(j) ==
  LET t == TabOf[j]
      x == Account(t)
  IN  /\ job[j].stage = "calling"
      /\ MayCharge(t) /\ HasLimit(x, history[x], Cited(t))
      /\ ~HasHeadroom(x, ToOpen(tabs[t], Charge(t)), history[x], Cited(t))
      /\ Goes(j, "declined")
      /\ UNCHANGED <<railVars, walletVars, told, paidFor, touched>>

\* The Open Tab of a refusal is read after it, for the headers of the answer.
ReadsOpen(j) ==
  LET open == tabs[TabOf[j]].open IN
  /\ job[j].stage = "declined" /\ batch = NoBatch
  /\ job' = [job EXCEPT
       ![j].stage = IF Settles(open, TRUE) THEN "settling" ELSE "over",
       ![j].declined = TRUE,
       ![j].amount = AmountToSettle(open)]
  /\ Looks(j)
  /\ UNCHANGED <<railVars, walletVars, told, paidFor>>

\* Any other refusal, a failed handler, a timeout: nothing is settled.
CallFails(j) ==
  /\ job[j].stage \in {"calling", "metering", "declined"}
  /\ Goes(j, "over")
  /\ UNCHANGED <<railVars, walletVars, told, paidFor, touched>>

\* A declined call is made again once, when its settlement was made.
GoesAgain(j, answer) == job[j].declined /\ answer = "paid" /\ job[j].attempt = 1

\* settle answers, and a declined call that was paid for is made once more.
Answer(j, answer) ==
  /\ told' = [told EXCEPT ![AttemptOf(j)] = answer]
  /\ job' = [job EXCEPT ![j] =
       IF GoesAgain(j, answer)
       THEN [@ EXCEPT !.stage = "calling", !.attempt = 2, !.declined = FALSE]
       ELSE [@ EXCEPT !.stage = "over"]]

-----------------------------------------------------------------------------
(* fund: what the Agent is short of is brought in first.                   *)

Held(j) == balances[<<AgentOf(j), TabOf[j][3]>>]

\* The smallest delivery is quoted when the shortfall is less.
AmountOut(shortfall) == IF shortfall < MinDelivery THEN MinDelivery ELSE shortfall

\* plan
Plan(j) ==
  /\ job[j].stage = "settling"
  /\ \/ /\ Held(j) >= AmountOf(j)
        /\ Goes(j, "funded")
        /\ UNCHANGED <<deposits, told>>
     \/ LET out == AmountOut(AmountOf(j) - Held(j))
        IN  /\ Held(j) < AmountOf(j) /\ out <= MaxFunding
            /\ deposits' = [deposits EXCEPT ![AttemptOf(j)] = [amount |-> out, state |-> "quoted"]]
            /\ Goes(j, "depositing")
            /\ UNCHANGED told
     \/ Held(j) < AmountOf(j) /\ Answer(j, "unpaid") /\ UNCHANGED deposits
  /\ UNCHANGED <<railVars, wire, allowance, funds, paidFor, touched>>

\* deposit: it is sent, and the sender learns so or does not; or it is not sent.
Deposit(j) ==
  LET a == AttemptOf(j) IN
  /\ job[j].stage = "depositing"
  /\ \/ /\ funds[AgentOf(j)] >= deposits[a].amount
        /\ funds' = [funds EXCEPT ![AgentOf(j)] = @ - deposits[a].amount]
        /\ deposits' = [deposits EXCEPT ![a].state = "sent"]
        /\ (Goes(j, "awaiting") /\ UNCHANGED told) \/ Answer(j, "unpaid")
     \/ Answer(j, "unpaid") /\ UNCHANGED <<funds, deposits>>
  /\ UNCHANGED <<railVars, wire, allowance, paidFor, touched>>

\* Mutant: there is no deadline to the wait for a delivery.
PastDeadlineNever == FALSE

\* until has passed.
PastDeadline == TRUE

\* awaitDelivery, and the wait for the balance after it.
AwaitDelivery(j) ==
  LET state == deposits[AttemptOf(j)].state IN
  /\ job[j].stage = "awaiting"
  /\ \/ state = "delivered" /\ Held(j) >= AmountOf(j) /\ Goes(j, "funded") /\ UNCHANGED told
     \/ (state = "refunded" \/ PastDeadline) /\ Answer(j, "unpaid")
  /\ UNCHANGED <<railVars, walletVars, paidFor, touched>>

\* 1Click delivers a deposit, or refunds it.
Delivers(a) ==
  LET x == Account(TabOf[a[1]]) IN
  /\ deposits[a].state = "sent" /\ batch = NoBatch
  /\ deposits' = [deposits EXCEPT ![a].state = "delivered"]
  /\ balances' = [balances EXCEPT ![x] = @ + deposits[a].amount]
  /\ UNCHANGED <<vars, collections, permitVars, batch, wire, allowance, funds, jobVars,
                 paidFor, touched>>

Refunds(a) ==
  /\ deposits[a].state = "sent"
  /\ deposits' = [deposits EXCEPT ![a].state = "refunded"]
  /\ funds' = [funds EXCEPT ![AgentOf(a[1])] = @ + deposits[a].amount]
  /\ UNCHANGED <<railVars, wire, allowance, jobVars, paidFor, touched>>

-----------------------------------------------------------------------------
(* The direct strategy: an allowance, then the settlement.                 *)

Sent(kind, j) == Append(wire, [kind |-> kind, of |-> AttemptOf(j), amount |-> AmountOf(j)])
InFlight(kind, j) == \E i \in DOMAIN wire : wire[i].kind = kind /\ wire[i].of = AttemptOf(j)

\* Mutant: the approval tops the allowance up by what is missing.
ApprovalOfMissing(x, amount) == IF amount > allowance[x] THEN amount - allowance[x] ELSE 0

\* approval "exact": approve sets the allowance, whatever it was.
Approval(x, amount) == amount

\* ensureAllowance up to its transaction.
EnsureAllowance(j) ==
  /\ job[j].stage = "funded"
  /\ \/ allowance[Account(TabOf[j])] >= AmountOf(j) /\ Goes(j, "allowed") /\ UNCHANGED <<wire, told>>
     \/ /\ allowance[Account(TabOf[j])] < AmountOf(j)
        /\ wire' = Sent("approve", j)
        /\ Goes(j, "approving")
        /\ UNCHANGED told
     \/ Answer(j, "unpaid") /\ UNCHANGED wire
  /\ UNCHANGED <<railVars, allowance, funds, deposits, paidFor, touched>>

\* The approval is confirmed.
Approved(j) ==
  /\ job[j].stage = "approving"
  /\ ~InFlight("approve", j)
  /\ Goes(j, "allowed")
  /\ UNCHANGED <<railVars, walletVars, told, paidFor, touched>>

\* settle is sent.  A send that fails may have reached the chain all the same.
Sends(j) ==
  /\ job[j].stage = "allowed"
  /\ \/ wire' = Sent("settle", j) /\ Goes(j, "sent") /\ UNCHANGED told
     \/ wire' = Sent("settle", j) /\ Answer(j, "unknown")
     \/ Answer(j, "unknown") /\ UNCHANGED wire
  /\ UNCHANGED <<railVars, allowance, funds, deposits, paidFor, touched>>

\* Mutant: a receipt that cannot be read is taken for a revert.
ReceiptUnavailableAsRevert == "unpaid"

ReceiptUnavailable == "unknown"

WasPaid(a) == \E i \in DOMAIN paidFor : paidFor[i] = a

\* settledLogs: the receipt says that the settlement was made, or reverted.
ReadsReceipt(j) ==
  /\ job[j].stage = "sent"
  /\ ~InFlight("settle", j)
  /\ Answer(j, IF WasPaid(AttemptOf(j)) THEN "paid" ELSE "unpaid")
  /\ UNCHANGED <<railVars, walletVars, paidFor, touched>>

\* A receipt cannot be read, of an approval or of a settlement.
LosesReceipt(j) ==
  /\ \/ job[j].stage = "approving" /\ Answer(j, "unpaid")
     \/ job[j].stage = "sent" /\ Answer(j, ReceiptUnavailable)
  /\ UNCHANGED <<railVars, walletVars, paidFor, touched>>

-----------------------------------------------------------------------------
(* The chain takes the next transaction of the wallet.                     *)

\* What a step pays is paid for an attempt; what it undoes was not paid.
PaysFor(owner) ==
  paidFor' = IF Len(settlements') > Len(settlements)
             THEN Append(paidFor, owner)
             ELSE SubSeq(paidFor, 1, Len(settlements'))

MineApprove ==
  LET tx == Head(wire)
      x == Account(TabOf[tx.of[1]])
  IN  /\ wire # <<>> /\ tx.kind = "approve"
      /\ allowance' = [allowance EXCEPT ![x] = Approval(x, tx.amount)]
      /\ wire' = Tail(wire)
      /\ Touches(tx.of[1])
      /\ UNCHANGED <<railVars, funds, deposits, jobVars, paidFor>>

\* What the contracts ask of a settlement whatever its amount is.
Payable(t) ==
  /\ services[t[2]].exists /\ collections[<<t[2], t[3]>>] # NoAccount
  /\ settlementSurface = Surface
  /\ Len(history[Account(t)]) < MaxCount

Succeeds(tx) ==
  LET t == TabOf[tx.of[1]]
      x == Account(t)
  IN  /\ Payable(t)
      /\ allowance[x] >= tx.amount /\ balances[x] >= tx.amount
      /\ tabs[t].prepaid + (tx.amount - Applied(tabs[t], tx.amount)) <= MaxAmount

MineSettle ==
  LET tx == Head(wire)
      t == TabOf[tx.of[1]]
  IN  /\ wire # <<>> /\ tx.kind = "settle" /\ batch = NoBatch
      /\ wire' = Tail(wire)
      /\ \/ /\ Succeeds(tx)
            /\ Pay(t, tx.amount)
            /\ allowance' = [allowance EXCEPT ![Account(t)] = @ - tx.amount]
            /\ PaysFor(tx.of)
            /\ Touches(tx.of[1])
            /\ UNCHANGED <<collections, permitVars, batch>>
         \/ /\ ~Succeeds(tx)  \* it reverts
            /\ UNCHANGED <<railVars, allowance, paidFor, touched>>
      /\ UNCHANGED <<funds, deposits, jobVars>>

-----------------------------------------------------------------------------
(* The relayed strategy: a signature of the attempt's own nonce, posted.   *)

Posts(j) ==
  LET t == TabOf[j] IN
  /\ job[j].stage = "funded" /\ batch = NoBatch
  /\ \/ /\ \E deadline \in {d \in Time : d > now} :
             Sign([agent |-> t[1], serviceId |-> t[2], asset |-> t[3], amount |-> AmountOf(j),
                   nonce |-> AttemptOf(j), deadline |-> deadline])
        /\ Goes(j, "posted") /\ UNCHANGED told
     \/ Answer(j, "unpaid") /\ UNCHANGED railVars
  /\ UNCHANGED <<walletVars, paidFor, touched>>

\* The relay submits what it was posted, unless it has refused it.
Relays(j, n) ==
  /\ told[<<j, n>>] # "unpaid"
  /\ \E p \in signed : p.nonce = <<j, n>> /\ SettleWithPermit2(p)
  /\ PaysFor(<<j, n>>)
  /\ Touches(j)
  /\ UNCHANGED <<walletVars, jobVars>>

\* The relay answers that it settled, or that it sent nothing and will not; what it
\* answers beside leaves the signature open, as does no answer.
ReadsReply(j) ==
  /\ job[j].stage = "posted"
  /\ \/ WasPaid(AttemptOf(j)) /\ Answer(j, "paid")
     \/ ~WasPaid(AttemptOf(j)) /\ Answer(j, "unpaid")
     \/ Answer(j, "unknown")
  /\ UNCHANGED <<railVars, walletVars, paidFor, touched>>

-----------------------------------------------------------------------------

PaymentsInit ==
  /\ SettlementInit
  /\ job = [j \in Jobs |-> [stage |-> "idle", attempt |-> 1, declined |-> FALSE, amount |-> 0]]
  /\ wire = <<>>
  /\ allowance = [x \in AgentAssets |-> 0]
  /\ funds = [agent \in Agents |-> FundingTokens]
  /\ deposits = [a \in Attempts |-> [amount |-> 0, state |-> "none"]]
  /\ told = [a \in Attempts |-> "nothing"]
  /\ paidFor = <<>>
  /\ touched = {}

\* The steps of a call once it has started.
JobStep(j) ==
  /\ batch = NoBatch
  /\ \/ Simulates(j) \/ Records(j) \/ Declines(j) \/ ReadsOpen(j) \/ CallFails(j)
     \/ Plan(j) \/ Deposit(j) \/ AwaitDelivery(j)
     \/ EnsureAllowance(j) \/ Approved(j) \/ Sends(j) \/ ReadsReceipt(j)
     \/ Posts(j) \/ ReadsReply(j)

Mine == MineApprove \/ MineSettle

\* What others do on the tabs, and what the Agent does past tab_call: it signs
\* nonces of its own and spends allowances it sets for the purpose.
Dealing(Step) ==
  /\ Step
  /\ \A p \in signed' \ signed : p.nonce \notin Attempts
  /\ \A n \in usedNonces' \ usedNonces : n[2] \notin Attempts
  /\ PaysFor(Outside)
  /\ touched' = IF tabs' = tabs /\ balances' = balances THEN touched ELSE Jobs
  /\ UNCHANGED <<walletVars, jobVars>>

External == \E a \in Attempts : Delivers(a) \/ Refunds(a) \/ Relays(a[1], a[2])

PaymentsNext ==
  \/ \E j \in Jobs : CallStarts(j) \/ JobStep(j) \/ LosesReceipt(j)
  \/ Mine
  \/ External
  \/ Dealing(SettlementNext)

\* A call that has started goes on: a fetch has a timeout, a poll a deadline, the
\* relay answers.  wait() has neither, so it rests on the chain, which takes the
\* transactions it was sent.  Nothing is asked of 1Click.
PaymentsFairness == (\A j \in Jobs : WF_payVars(JobStep(j))) /\ WF_payVars(Mine)

PaymentsSpec == PaymentsInit /\ [][PaymentsNext]_payVars /\ PaymentsFairness

-----------------------------------------------------------------------------

AttemptsOf(agent) == {a \in Attempts : AgentOf(a[1]) = agent}
AttemptsIn(x) == {a \in Attempts : Account(TabOf[a[1]]) = x}

Deposited(attempts, states) ==
  SumOf({a \in attempts : deposits[a].state \in states},
        [a \in Attempts |-> deposits[a].amount])

\* "A transfer and a ledger entry welded together so that neither can happen
\* without the other" (TabSettlement.sol:15-16), and a deposit that is late is not
\* a deposit that is lost: between two calls what an Agent has parted with on
\* either chain is what the book says it paid, or is under way to it, and what a
\* Collection address holds is what was paid to its Services, whichever way the
\* settlements came and whatever failed or was given up on the way.
MoneyIsAccountedFor ==
  /\ \A agent \in Agents :
       /\ funds[agent] + Deposited(AttemptsOf(agent), {"sent", "delivered"}) = FundingTokens
       /\ \A asset \in Assets :
            Tokens + Deposited(AttemptsIn(<<agent, asset>>), {"delivered"})
                - balances[<<agent, asset>>] =
              PaidOf(LAMBDA s : s.agent = agent /\ s.asset = asset)
  /\ \A c \in Accounts, asset \in Assets :
       balances[<<c, asset>>] =
         PaidOf(LAMBDA s : s.asset = asset /\ collections[<<s.serviceId, asset>>] = c)

\* What tab_settle answers is so, also later: an attempt that was told it settled
\* did, once and for the amount, and one that was told nothing was settled never
\* does.  Whatever it was told, an attempt pays once at most.
AnswersAreTrue ==
  \A a \in Attempts :
    LET made == {i \in DOMAIN paidFor : paidFor[i] = a}
    IN  /\ Cardinality(made) <= 1
        /\ told[a] = "paid" => made # {}
        /\ told[a] = "unpaid" =>
             made = {} /\ \A i \in DOMAIN wire : wire[i].kind = "settle" => wire[i].of # a

\* "Always the whole Open Tab" (auto-settle.ts:54): a call that nothing has come
\* between since it learnt the figure settles without a revert, unless the tab
\* could take no settlement at all, and what it pays closes the tab and leaves
\* nothing over.  So a settlement that is short, that reverts or that pays into
\* prepaid credit has had another one beside it.
AloneItIsExact ==
  [][/\ Len(settlements') > Len(settlements) /\ paidFor'[Len(paidFor')] # Outside =>
          LET j == paidFor'[Len(paidFor')][1]
          IN  j \notin touched => tabs'[TabOf[j]].open = 0 /\ tabs'[TabOf[j]].prepaid = 0
     /\ wire # <<>> /\ wire' = Tail(wire) /\ Head(wire).kind = "settle"
          /\ Payable(TabOf[Head(wire).of[1]]) =>
          Head(wire).of[1] \in touched \/ Len(settlements') > Len(settlements)]_payVars

\* A call that starts is answered, whatever becomes of its settlement: the loop
\* cannot spin (toolset.ts:480), and no deposit, receipt or relay holds it for good.
EveryCallEnds == \A j \in Jobs : (job[j].stage # "idle") ~> (job[j].stage = "over")

\* The spread of call puts the settlement before the retry over the one after it.
Carried(j) ==
  LET settled == {n \in {1, 2} : told[<<j, n>>] # "nothing"}
  IN  {n \in settled : \A m \in settled : n <= m}

\* "Each automatic Settlement is the same transaction tab_settle sends ... and the
\* call's output carries it as an autoSettle block" (packages/sdk/README.md:94).
AutoSettlementsCarried ==
  \A j \in Jobs : job[j].stage = "over" =>
    \A n \in {1, 2} : told[<<j, n>>] = "paid" => n \in Carried(j)
=============================================================================
