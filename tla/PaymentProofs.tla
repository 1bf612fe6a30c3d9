---------------------------- MODULE PaymentProofs ----------------------------
(***************************************************************************)
(* What TLAPS proves of the paying side of the SDK, for any number of      *)
(* calls beside each other: what a call answers about its settlement is    *)
(* so, no money is lost on the way, and a call that was alone pays exactly *)
(* what its tab owes.                                                      *)
(***************************************************************************)
EXTENDS Payments, TabBookProofs

Transaction == [kind : {"approve", "settle"}, of : Attempts, amount : Amount]

\* Where nothing of the current attempt is on its way to the chain yet.
EarlyStages == {"idle", "calling", "metering", "declined", "settling", "depositing",
                "awaiting", "funded", "approving", "allowed"}
JobState == [stage : EarlyStages \cup {"sent", "posted", "over"}, attempt : {1, 2},
             declined : BOOLEAN, amount : Amount]

PayTypes ==
  /\ signed \subseteq Signature
  /\ wire \in Seq(Transaction)
  /\ job \in [Jobs -> JobState]
  /\ told \in [Attempts -> {"nothing", "paid", "unpaid", "unknown"}]

-----------------------------------------------------------------------------
(* The transactions of the wallet, and what the settlements were made for. *)

Flying(a) == \E i \in DOMAIN wire : wire[i].kind = "settle" /\ wire[i].of = a
HasSigned(a) == \E p \in signed : p.nonce = a

\* An attempt sends its settlement once.
SentOnce ==
  \A i, k \in DOMAIN wire :
    wire[i].kind = "settle" /\ wire[k].kind = "settle" /\ wire[i].of = wire[k].of => i = k

LEMMA WireGrows ==
  ASSUME wire \in Seq(Transaction), SentOnce, NEW tx \in Transaction,
         tx.kind = "settle" => ~Flying(tx.of), wire' = Append(wire, tx)
  PROVE  /\ wire' \in Seq(Transaction) /\ SentOnce'
         /\ \A a : Flying(a)' <=> Flying(a) \/ (tx.kind = "settle" /\ tx.of = a)
<1>1. /\ wire' \in Seq(Transaction) /\ Len(wire) \in Nat
      /\ DOMAIN wire = 1 .. Len(wire) /\ DOMAIN wire' = DOMAIN wire \cup {Len(wire) + 1}
      /\ \A i \in DOMAIN wire : wire'[i] = wire[i]
      /\ wire'[Len(wire) + 1] = tx
  OBVIOUS
<1>2. ASSUME NEW a
      PROVE  Flying(a)' <=> Flying(a) \/ (tx.kind = "settle" /\ tx.of = a)
  BY <1>1 DEF Flying
<1>3. SentOnce'
  <2>1. tx.kind = "settle" =>
          \A i \in DOMAIN wire : ~(wire[i].kind = "settle" /\ wire[i].of = tx.of)
    BY DEF Flying
  <2> QED BY <1>1, <2>1 DEF SentOnce
<1> QED BY <1>1, <1>2, <1>3

LEMMA WireShrinks ==
  ASSUME wire \in Seq(Transaction), SentOnce, wire # <<>>, wire' = Tail(wire)
  PROVE  /\ wire' \in Seq(Transaction) /\ SentOnce' /\ Head(wire) \in Transaction
         /\ \A a : Flying(a)' <=> Flying(a) /\ ~(Head(wire).kind = "settle" /\ Head(wire).of = a)
         /\ Head(wire).kind = "settle" => Flying(Head(wire).of)
<1>1. /\ wire' \in Seq(Transaction) /\ Len(wire) \in Nat /\ Len(wire) >= 1
      /\ DOMAIN wire = 1 .. Len(wire) /\ DOMAIN wire' = 1 .. (Len(wire) - 1)
      /\ \A i \in DOMAIN wire' : wire'[i] = wire[i + 1]
      /\ Head(wire) = wire[1] /\ 1 \in DOMAIN wire
  OBVIOUS
<1>2. /\ \A i \in DOMAIN wire' : i + 1 \in DOMAIN wire /\ i + 1 # 1
      /\ \A i \in DOMAIN wire : i # 1 => i - 1 \in DOMAIN wire' /\ (i - 1) + 1 = i
  BY <1>1
<1>3. ASSUME NEW a
      PROVE  Flying(a)' <=> Flying(a) /\ ~(Head(wire).kind = "settle" /\ Head(wire).of = a)
  <2>1. ASSUME Flying(a)'
        PROVE  Flying(a) /\ ~(Head(wire).kind = "settle" /\ Head(wire).of = a)
    <3>1. PICK i \in DOMAIN wire' : wire'[i].kind = "settle" /\ wire'[i].of = a
      BY <2>1 DEF Flying
    <3>2. wire[i + 1].kind = "settle" /\ wire[i + 1].of = a /\ i + 1 \in DOMAIN wire /\ i + 1 # 1
      BY <1>1, <1>2, <3>1
    <3> QED BY <1>1, <3>2 DEF Flying, SentOnce
  <2>2. ASSUME Flying(a), ~(Head(wire).kind = "settle" /\ Head(wire).of = a)
        PROVE  Flying(a)'
    <3>1. PICK i \in DOMAIN wire : wire[i].kind = "settle" /\ wire[i].of = a
      BY <2>2 DEF Flying
    <3>2. i # 1
      BY <1>1, <2>2, <3>1
    <3>3. i - 1 \in DOMAIN wire' /\ wire'[i - 1] = wire[i]
      BY <1>1, <1>2, <3>2
    <3> QED BY <3>1, <3>3 DEF Flying
  <2> QED BY <2>1, <2>2
<1>4. SentOnce'
  <2> SUFFICES ASSUME NEW i \in DOMAIN wire', NEW k \in DOMAIN wire',
                      wire'[i].kind = "settle", wire'[k].kind = "settle", wire'[i].of = wire'[k].of
               PROVE  i = k
    BY DEF SentOnce
  <2>1. i + 1 = k + 1
    BY <1>1, <1>2 DEF SentOnce
  <2> QED BY <1>1, <2>1
<1>5. Head(wire).kind = "settle" => Flying(Head(wire).of)
  BY <1>1 DEF Flying
<1>6. Head(wire) \in Transaction
  BY <1>1
<1> QED BY <1>1, <1>3, <1>4, <1>5, <1>6

\* Each settlement of the book was made for one attempt or for none, and for
\* none where a batch would undo it.
LogOK ==
  /\ paidFor \in Seq(Attempts \cup {Outside}) /\ Len(paidFor) = Len(settlements)
  /\ \A i, k \in DOMAIN paidFor : paidFor[i] = paidFor[k] /\ paidFor[i] # Outside => i = k
  /\ batch # NoBatch =>
       /\ Len(batch.before.settlements) \in 0 .. Len(settlements)
       /\ \A i \in DOMAIN paidFor : i > Len(batch.before.settlements) => paidFor[i] = Outside

LEMMA LogGrows ==
  ASSUME LogOK, NEW owner \in Attempts \cup {Outside}, owner # Outside => ~WasPaid(owner),
         paidFor' = Append(paidFor, owner), Len(settlements') = Len(settlements) + 1,
         \/ batch' = NoBatch
         \/ owner = Outside /\ batch # NoBatch /\ batch'.before = batch.before
  PROVE  LogOK' /\ \A a \in Attempts : WasPaid(a)' <=> WasPaid(a) \/ a = owner
<1>1. /\ paidFor \in Seq(Attempts \cup {Outside}) /\ Len(paidFor) \in Nat
      /\ Len(paidFor) = Len(settlements)
      /\ DOMAIN paidFor = 1 .. Len(paidFor)
      /\ DOMAIN paidFor' = DOMAIN paidFor \cup {Len(paidFor) + 1}
      /\ paidFor' \in Seq(Attempts \cup {Outside}) /\ Len(paidFor') = Len(paidFor) + 1
      /\ \A i \in DOMAIN paidFor : paidFor'[i] = paidFor[i]
      /\ paidFor'[Len(paidFor) + 1] = owner
  BY DEF LogOK
<1>2. ASSUME NEW a \in Attempts
      PROVE  WasPaid(a)' <=> WasPaid(a) \/ a = owner
  BY <1>1 DEF WasPaid
<1>3. \A i, k \in DOMAIN paidFor' : paidFor'[i] = paidFor'[k] /\ paidFor'[i] # Outside => i = k
  <2>1. owner # Outside => \A i \in DOMAIN paidFor : paidFor[i] # owner
    BY DEF WasPaid
  <2> QED BY <1>1, <2>1 DEF LogOK
<1>4. ASSUME batch' # NoBatch
      PROVE  /\ Len(batch'.before.settlements) \in 0 .. Len(settlements')
             /\ \A i \in DOMAIN paidFor' :
                  i > Len(batch'.before.settlements) => paidFor'[i] = Outside
  <2>1. owner = Outside /\ batch # NoBatch /\ batch'.before = batch.before
    BY <1>4
  <2> QED BY <1>1, <2>1 DEF LogOK
<1> QED BY <1>1, <1>2, <1>3, <1>4 DEF LogOK

LEMMA LogShrinks ==
  ASSUME LogOK, batch # NoBatch, batch' = NoBatch, settlements' = batch.before.settlements,
         paidFor' = SubSeq(paidFor, 1, Len(settlements'))
  PROVE  LogOK' /\ \A a \in Attempts : WasPaid(a)' <=> WasPaid(a)
<1> DEFINE n == Len(settlements')
<1>1. /\ paidFor \in Seq(Attempts \cup {Outside}) /\ Len(paidFor) \in Nat
      /\ DOMAIN paidFor = 1 .. Len(paidFor) /\ n \in 0 .. Len(paidFor)
      /\ paidFor' = SubSeq(paidFor, 1, n)
  BY DEF LogOK
<1>2. \A i \in DOMAIN paidFor : i > n => paidFor[i] = Outside
  BY DEF LogOK
<1> HIDE DEF n
<1>3. /\ paidFor' \in Seq(Attempts \cup {Outside}) /\ Len(paidFor') = n /\ n \in Nat
      /\ DOMAIN paidFor' = 1 .. n /\ 1 .. n \subseteq DOMAIN paidFor
      /\ \A i \in 1 .. n : paidFor'[i] = paidFor[i]
  BY <1>1
<1>4. LogOK'
  <2>1. \A i, k \in DOMAIN paidFor' : paidFor'[i] = paidFor'[k] /\ paidFor'[i] # Outside => i = k
    BY <1>3 DEF LogOK
  <2> QED BY <1>3, <2>1 DEF LogOK, n
<1>5. ASSUME NEW a \in Attempts
      PROVE  WasPaid(a)' <=> WasPaid(a)
  <2>1. a # Outside
    BY PaymentsAssumption
  <2>2. ASSUME NEW i \in DOMAIN paidFor, paidFor[i] = a
        PROVE  i \in 1 .. n
    BY <1>1, <1>2, <2>1, <2>2
  <2> QED BY <1>3, <2>2 DEF WasPaid
<1> QED BY <1>4, <1>5

-----------------------------------------------------------------------------
(* What becomes of an attempt.                                             *)

Current(a) == a[2] = job[a[1]].attempt
Begun(a) == a[2] < job[a[1]].attempt \/ (Current(a) /\ job[a[1]].stage \notin EarlyStages)

\* Nothing of an attempt exists before it is sent or signed; it is either sent or
\* signed, and paid once; what it was answered is so.
AttemptOK(a) ==
  /\ ~Begun(a) => ~Flying(a) /\ ~HasSigned(a) /\ ~WasPaid(a) /\ told[a] = "nothing"
  /\ Current(a) /\ job[a[1]].stage = "posted" => ~Flying(a)
  /\ Flying(a) => ~WasPaid(a) /\ ~HasSigned(a)
  /\ \A p \in signed : p.nonce = a =>
       p.agent = AgentOf(a[1]) /\ (WasPaid(a) => <<p.agent, a>> \in usedNonces)
  /\ told[a] = "paid" => WasPaid(a)
  /\ told[a] = "unpaid" => ~WasPaid(a) /\ ~Flying(a)

AttemptsOK == \A a \in Attempts : AttemptOK(a)

\* The current attempt of a call is an attempt.
LEMMA AttemptIs ==
  ASSUME PayTypes, NEW j \in Jobs
  PROVE  /\ AttemptOf(j) \in Attempts /\ AttemptOf(j)[1] = j /\ AttemptOf(j)[2] = job[j].attempt
         /\ job[j] \in JobState
         /\ TabOf[j] \in Tabs /\ TabOf[j][1] \in Agents /\ Account(TabOf[j]) \in AgentAssets
  BY PaymentsAssumption DEF PayTypes, AttemptOf, Attempts, JobState, Tabs, Account, AgentAssets

\* A step of a call leaves the attempts of the other calls alone, and the other
\* attempt of its own.
LEMMA OthersStay ==
  ASSUME PayTypes, AttemptsOK, NEW j \in Jobs, NEW a0, a0 = AttemptOf(j),
         \A k \in Jobs \ {j} : job'[k] = job[k],
         job'[j].attempt = job[j].attempt \/ job'[j].attempt = 2,
         \A a \in Attempts \ {a0} : (Flying(a)' <=> Flying(a)) /\ told'[a] = told[a],
         \A p : p.nonce # a0 => (p \in signed' <=> p \in signed),
         UNCHANGED <<paidFor, usedNonces>>, AttemptOK(a0)'
  PROVE  AttemptsOK'
<1> SUFFICES ASSUME NEW a \in Attempts, a # a0 PROVE AttemptOK(a)'
  BY DEF AttemptsOK
<1>1. /\ a = <<a[1], a[2]>> /\ a[1] \in Jobs /\ a[2] \in {1, 2}
      /\ a0 = <<j, job[j].attempt>> /\ job[j].attempt \in {1, 2}
  BY AttemptIs DEF Attempts, AttemptOf, JobState
<1>2. /\ Flying(a)' <=> Flying(a)
      /\ HasSigned(a)' <=> HasSigned(a)
      /\ WasPaid(a)' <=> WasPaid(a)
      /\ told'[a] = told[a]
      /\ \A p : p.nonce = a => (p \in signed' <=> p \in signed)
  BY DEF HasSigned, WasPaid
<1>3. AttemptOK(a)
  BY DEF AttemptsOK
<1>4. CASE a[1] # j
  <2>1. (Begun(a)' <=> Begun(a)) /\ (Current(a)' <=> Current(a)) /\ job'[a[1]] = job[a[1]]
    BY <1>1, <1>4 DEF Begun, Current
  <2> QED BY <1>2, <1>3, <2>1 DEF AttemptOK
<1>5. CASE a[1] = j /\ a[2] > job[j].attempt
  <2>1. ~Begun(a)
    BY <1>1, <1>5 DEF Begun, Current
  <2> QED BY <1>2, <1>3, <2>1 DEF AttemptOK, HasSigned
<1>6. CASE a[1] = j /\ a[2] < job[j].attempt
  <2>1. Begun(a)' /\ ~Current(a)'
    BY <1>1, <1>6 DEF Begun, Current
  <2> QED BY <1>2, <1>3, <2>1 DEF AttemptOK
<1> QED BY <1>1, <1>4, <1>5, <1>6

LEMMA GoesMoves ==
  ASSUME PayTypes, NEW j \in Jobs, NEW stage \in EarlyStages \cup {"sent", "posted", "over"},
         Goes(j, stage)
  PROVE  /\ job' \in [Jobs -> JobState] /\ \A k \in Jobs \ {j} : job'[k] = job[k]
         /\ job'[j].attempt = job[j].attempt /\ job'[j].stage = stage
  BY DEF PayTypes, Goes, JobState

LEMMA AnswerMoves ==
  ASSUME PayTypes, NEW j \in Jobs, NEW answer \in {"paid", "unpaid", "unknown"},
         Answer(j, answer), NEW a0, a0 = AttemptOf(j)
  PROVE  /\ job' \in [Jobs -> JobState] /\ \A k \in Jobs \ {j} : job'[k] = job[k]
         /\ job'[j].attempt = job[j].attempt \/ job'[j].attempt = 2
         /\ told' \in [Attempts -> {"nothing", "paid", "unpaid", "unknown"}]
         /\ told'[a0] = answer /\ \A a \in Attempts \ {a0} : told'[a] = told[a]
         /\ Begun(a0)' /\ ~(Current(a0)' /\ job'[j].stage = "posted")
<1>1. /\ a0 \in Attempts /\ a0[1] = j /\ a0[2] = job[j].attempt /\ job[j] \in JobState
      /\ job \in [Jobs -> JobState]
      /\ told' = [told EXCEPT ![a0] = answer]
      /\ job' = [job EXCEPT ![j] =
                   IF GoesAgain(j, answer)
                   THEN [job[j] EXCEPT !.stage = "calling", !.attempt = 2, !.declined = FALSE]
                   ELSE [job[j] EXCEPT !.stage = "over"]]
  BY AttemptIs DEF Answer, PayTypes
<1>2. CASE GoesAgain(j, answer)
  <2>1. job[j].attempt = 1
    BY <1>2 DEF GoesAgain
  <2> DEFINE state == [job[j] EXCEPT !.stage = "calling", !.attempt = 2, !.declined = FALSE]
  <2>2. /\ job' = [job EXCEPT ![j] = state]
        /\ state \in JobState /\ state.attempt = 2
    BY <1>1, <1>2 DEF JobState, EarlyStages
  <2> HIDE DEF state
  <2>3. /\ job' \in [Jobs -> JobState] /\ \A k \in Jobs \ {j} : job'[k] = job[k]
        /\ job'[j].attempt = 2
    BY <1>1, <2>2
  <2> QED BY <1>1, <2>1, <2>3 DEF Begun, Current, PayTypes
<1>3. CASE ~GoesAgain(j, answer)
  <2> DEFINE state == [job[j] EXCEPT !.stage = "over"]
  <2>1. /\ job' = [job EXCEPT ![j] = state] /\ state \in JobState
        /\ state.attempt = job[j].attempt /\ state.stage = "over"
    BY <1>1, <1>3 DEF JobState
  <2> HIDE DEF state
  <2>2. /\ job' \in [Jobs -> JobState] /\ \A k \in Jobs \ {j} : job'[k] = job[k]
        /\ job'[j].attempt = job[j].attempt /\ job'[j].stage = "over"
    BY <1>1, <2>1
  <2> QED BY <1>1, <2>2 DEF Begun, Current, PayTypes, EarlyStages
<1> QED BY <1>2, <1>3

Kept == PayTypes /\ SentOnce /\ AttemptsOK

\* A call goes on, or ends, before anything of its attempt exists.
LEMMA EarlyGoes ==
  ASSUME Kept, NEW j \in Jobs, job[j].stage \in EarlyStages,
         job' \in [Jobs -> JobState], \A k \in Jobs \ {j} : job'[k] = job[k],
         job'[j].attempt = job[j].attempt, job'[j].stage \in EarlyStages \cup {"over"},
         wire' = wire \/ wire' = Sent("approve", j),
         UNCHANGED <<told, signed, usedNonces, paidFor>>
  PROVE  Kept'
<1> USE DEF Kept
<1>0. PICK a0 \in Attempts : a0 = AttemptOf(j)
  BY AttemptIs
<1>1. a0 \in Attempts /\ a0[1] = j /\ a0[2] = job[j].attempt /\ job[j] \in JobState /\ a0 = AttemptOf(j)
  BY <1>0, AttemptIs
<1>2. wire' \in Seq(Transaction) /\ SentOnce' /\ \A a : Flying(a)' <=> Flying(a)
  <2>1. CASE wire' = wire
    BY <2>1 DEF PayTypes, SentOnce, Flying
  <2>2. CASE wire' = Sent("approve", j)
    <3> DEFINE tx == [kind |-> "approve", of |-> AttemptOf(j), amount |-> AmountOf(j)]
    <3>1. tx \in Transaction /\ tx.kind = "approve" /\ wire' = Append(wire, tx)
      BY <1>1, <2>2 DEF Transaction, AmountOf, JobState, Sent
    <3> HIDE DEF tx
    <3>2. tx.kind # "settle"
      BY <3>1
    <3> QED BY <3>1, <3>2, WireGrows DEF PayTypes
  <2> QED BY <2>1, <2>2
<1>3. PayTypes'
  BY <1>2 DEF PayTypes
<1>4. AttemptOK(a0)'
  <2>1. ~Begun(a0) /\ AttemptOK(a0)
    BY <1>1 DEF Begun, Current, AttemptsOK, PayTypes, JobState
  <2>2. ~(Current(a0)' /\ job'[a0[1]].stage = "posted")
    BY <1>1 DEF EarlyStages
  <2> QED BY <1>2, <2>1, <2>2 DEF AttemptOK, HasSigned, WasPaid
<1>5. AttemptsOK'
  BY <1>1, <1>2, <1>4, OthersStay
<1> QED BY <1>2, <1>3, <1>5

\* A call answers what is so.
LEMMA AnswersSo ==
  ASSUME Kept, NEW j \in Jobs, NEW answer \in {"paid", "unpaid", "unknown"}, Answer(j, answer),
         answer = "paid" => WasPaid(AttemptOf(j)),
         answer = "unpaid" => ~WasPaid(AttemptOf(j)) /\ ~Flying(AttemptOf(j)),
         \/ wire' = wire
         \/ wire' = Sent("settle", j) /\ answer = "unknown" /\ job[j].stage \in EarlyStages,
         UNCHANGED <<signed, usedNonces, paidFor>>
  PROVE  Kept'
<1> USE DEF Kept
<1>0. PICK a0 \in Attempts : a0 = AttemptOf(j)
  BY AttemptIs
<1>1. a0 \in Attempts /\ a0[1] = j /\ a0[2] = job[j].attempt /\ job[j] \in JobState /\ a0 = AttemptOf(j)
      /\ AttemptOK(a0)
  BY <1>0, AttemptIs DEF AttemptsOK
<1>2. /\ wire' \in Seq(Transaction) /\ SentOnce'
      /\ \A a : a # a0 => (Flying(a)' <=> Flying(a))
      /\ Flying(a0)' => \/ Flying(a0)
                        \/ answer = "unknown" /\ ~Begun(a0)
      /\ Flying(a0) => Flying(a0)'
  <2>1. CASE wire' = wire
    BY <2>1 DEF PayTypes, SentOnce, Flying
  <2>2. CASE wire' = Sent("settle", j) /\ answer = "unknown" /\ job[j].stage \in EarlyStages
    <3> DEFINE tx == [kind |-> "settle", of |-> AttemptOf(j), amount |-> AmountOf(j)]
    <3>1. tx \in Transaction /\ tx.kind = "settle" /\ tx.of = a0 /\ wire' = Append(wire, tx)
      BY <1>1, <2>2 DEF Transaction, AmountOf, JobState, Sent
    <3> HIDE DEF tx
    <3>2. ~Begun(a0) /\ ~Flying(a0)
      BY <1>1, <2>2 DEF Begun, Current, PayTypes, JobState, AttemptOK
    <3> QED BY <2>2, <3>1, <3>2, WireGrows DEF PayTypes
  <2> QED BY <2>1, <2>2
<1>3. /\ job' \in [Jobs -> JobState] /\ \A k \in Jobs \ {j} : job'[k] = job[k]
      /\ job'[j].attempt = job[j].attempt \/ job'[j].attempt = 2
      /\ told' \in [Attempts -> {"nothing", "paid", "unpaid", "unknown"}]
      /\ told'[a0] = answer /\ \A a \in Attempts \ {a0} : told'[a] = told[a]
      /\ Begun(a0)' /\ ~(Current(a0)' /\ job'[j].stage = "posted")
  BY <1>1, AnswerMoves
<1>4. PayTypes'
  BY <1>2, <1>3 DEF PayTypes
<1>5. AttemptOK(a0)'
  <2>1. (WasPaid(a0)' <=> WasPaid(a0)) /\ (HasSigned(a0)' <=> HasSigned(a0))
    BY DEF WasPaid, HasSigned
  <2>2. Flying(a0)' => ~WasPaid(a0) /\ ~HasSigned(a0)
    BY <1>1, <1>2 DEF AttemptOK
  <2>3. told'[a0] = "unpaid" => ~Flying(a0)'
    BY <1>1, <1>2, <1>3
  <2>4. told'[a0] = "paid" => WasPaid(a0)'
    BY <1>1, <1>3, <2>1
  <2>5. told'[a0] = "unpaid" => ~WasPaid(a0)'
    BY <1>1, <1>3, <2>1
  <2>6. \A p \in signed' : p.nonce = a0 =>
          p.agent = AgentOf(a0[1]) /\ (WasPaid(a0)' => <<p.agent, a0>> \in usedNonces')
    BY <1>1, <2>1 DEF AttemptOK
  <2> QED BY <1>1, <1>3, <2>1, <2>2, <2>3, <2>4, <2>5, <2>6 DEF AttemptOK
<1>6. AttemptsOK'
  BY <1>1, <1>2, <1>3, <1>5, OthersStay
<1> QED BY <1>2, <1>4, <1>6

\* A settlement is sent.
LEMMA SendGoes ==
  ASSUME Kept, NEW j \in Jobs, job[j].stage \in EarlyStages, Goes(j, "sent"),
         wire' = Sent("settle", j), UNCHANGED <<told, signed, usedNonces, paidFor>>
  PROVE  Kept'
<1> USE DEF Kept
<1>0. PICK a0 \in Attempts : a0 = AttemptOf(j)
  BY AttemptIs
<1>1. a0 \in Attempts /\ a0[1] = j /\ a0[2] = job[j].attempt /\ job[j] \in JobState /\ a0 = AttemptOf(j)
      /\ AttemptOK(a0)
  BY <1>0, AttemptIs DEF AttemptsOK
<1>2. ~Begun(a0) /\ ~Flying(a0) /\ ~HasSigned(a0) /\ ~WasPaid(a0) /\ told[a0] = "nothing"
  BY <1>1 DEF Begun, Current, PayTypes, JobState, AttemptOK
<1>3. wire' \in Seq(Transaction) /\ SentOnce' /\ \A a : a # a0 => (Flying(a)' <=> Flying(a))
  <2> DEFINE tx == [kind |-> "settle", of |-> AttemptOf(j), amount |-> AmountOf(j)]
  <2>1. tx \in Transaction /\ tx.kind = "settle" /\ tx.of = a0 /\ wire' = Append(wire, tx)
    BY <1>1 DEF Transaction, AmountOf, JobState, Sent
  <2> HIDE DEF tx
  <2> QED BY <1>2, <2>1, WireGrows DEF PayTypes
<1>4. /\ job' \in [Jobs -> JobState] /\ \A k \in Jobs \ {j} : job'[k] = job[k]
      /\ job'[j].attempt = job[j].attempt /\ job'[j].stage = "sent"
  BY GoesMoves
<1>5. PayTypes'
  BY <1>3, <1>4 DEF PayTypes
<1>6. AttemptOK(a0)'
  <2>1. ~WasPaid(a0)' /\ ~HasSigned(a0)' /\ told'[a0] = "nothing"
    BY <1>2 DEF WasPaid, HasSigned
  <2>2. Begun(a0)' /\ job'[a0[1]].stage # "posted"
    BY <1>1, <1>4 DEF Begun, Current, EarlyStages
  <2> QED BY <2>1, <2>2 DEF AttemptOK, HasSigned
<1>7. AttemptsOK'
  BY <1>1, <1>3, <1>4, <1>6, OthersStay
<1> QED BY <1>3, <1>5, <1>7

\* A settlement is signed and posted.
LEMMA PostGoes ==
  ASSUME Kept, NEW j \in Jobs, job[j].stage \in EarlyStages, Goes(j, "posted"),
         NEW p, p = [agent |-> TabOf[j][1], serviceId |-> TabOf[j][2], asset |-> TabOf[j][3],
                     amount |-> AmountOf(j), nonce |-> AttemptOf(j), deadline |-> p.deadline],
         p.deadline \in Time, signed' = signed \cup {p},
         UNCHANGED <<told, wire, usedNonces, paidFor>>
  PROVE  Kept'
<1> USE DEF Kept
<1>0. PICK a0 \in Attempts : a0 = AttemptOf(j)
  BY AttemptIs
<1>1. a0 \in Attempts /\ a0[1] = j /\ a0[2] = job[j].attempt /\ job[j] \in JobState /\ a0 = AttemptOf(j)
      /\ AttemptOK(a0)
  BY <1>0, AttemptIs DEF AttemptsOK
<1>2. p \in Signature /\ p.nonce = a0 /\ p.agent = AgentOf(a0[1])
  <2>1. /\ TabOf[j][1] \in Agents /\ TabOf[j][2] \in Services /\ TabOf[j][3] \in Assets
        /\ AmountOf(j) \in Amount /\ AttemptOf(j) \in Nonces
    BY <1>1, PaymentsAssumption DEF Tabs, JobState, AmountOf
  <2> QED BY <1>1, <2>1 DEF Signature, AgentOf
<1>3. ~Begun(a0) /\ ~Flying(a0) /\ ~HasSigned(a0) /\ ~WasPaid(a0) /\ told[a0] = "nothing"
  BY <1>1 DEF Begun, Current, PayTypes, JobState, AttemptOK
<1>4. /\ job' \in [Jobs -> JobState] /\ \A k \in Jobs \ {j} : job'[k] = job[k]
      /\ job'[j].attempt = job[j].attempt /\ job'[j].stage = "posted"
  BY GoesMoves
<1>5. PayTypes' /\ SentOnce' /\ \A a : Flying(a)' <=> Flying(a)
  BY <1>2, <1>4 DEF PayTypes, SentOnce, Flying
<1>6. AttemptOK(a0)'
  <2>1. ~WasPaid(a0)' /\ ~Flying(a0)' /\ told'[a0] = "nothing"
    BY <1>3, <1>5 DEF WasPaid
  <2>2. Begun(a0)'
    BY <1>1, <1>4 DEF Begun, Current, EarlyStages
  <2>3. \A q \in signed' : q.nonce = a0 => q.agent = AgentOf(a0[1])
    BY <1>2, <1>3 DEF HasSigned
  <2> QED BY <2>1, <2>2, <2>3 DEF AttemptOK
<1>7. AttemptsOK'
  BY <1>1, <1>2, <1>4, <1>5, <1>6, OthersStay
<1> QED BY <1>5, <1>7

\* The figure a call goes by is an amount.
LEMMA AmountsAre ==
  ASSUME IInv, NEW t \in Tabs
  PROVE  /\ tabs[t].open \in Amount
         /\ tabs[t].open + ToOpen(tabs[t], Charge(t)) <= MaxAmount =>
              tabs[t].open + ToOpen(tabs[t], Charge(t)) \in Amount
<1>1. tabs[t] \in Tab /\ prices[<<t[2], t[3]>>] \in Nat
  BY DEF IInv, TypeOK, Tabs
<1>2. tabs[t].open \in Amount /\ tabs[t].prepaid \in Amount
  BY <1>1 DEF Tab
<1>3. Charge(t) \in Nat
  BY <1>1 DEF Charge
<1>4. ToOpen(tabs[t], Charge(t)) \in Nat
  BY <1>2, <1>3, TabBookAssumption DEF ToOpen, FromPrepaid, Amount
<1> QED BY <1>2, <1>4, TabBookAssumption DEF Amount

LEMMA MeterKeeps ==
  ASSUME IInv, Kept, NEW j \in Jobs, Simulates(j) \/ Records(j) \/ ReadsOpen(j)
  PROVE  Kept'
<1>1. /\ job[j] \in JobState /\ job \in [Jobs -> JobState] /\ TabOf[j] \in Tabs
  BY AttemptIs DEF Kept, PayTypes
<1>2. CASE Simulates(j)
  <2>1. PICK amount \in Amount :
          job' = [job EXCEPT ![j].stage = "metering", ![j].amount = amount]
    BY <1>1, <1>2, AmountsAre DEF Simulates
  <2>2. /\ job' \in [Jobs -> JobState] /\ \A k \in Jobs \ {j} : job'[k] = job[k]
        /\ job'[j].attempt = job[j].attempt /\ job'[j].stage \in EarlyStages
    BY <1>1, <2>1 DEF JobState, EarlyStages
  <2>3. job[j].stage \in EarlyStages /\ UNCHANGED <<wire, told, signed, usedNonces, paidFor>>
    BY <1>2 DEF Simulates, EarlyStages, railVars, permitVars, walletVars
  <2> QED BY <2>2, <2>3, EarlyGoes
<1>3. CASE Records(j)
  <2>1. job[j].stage \in EarlyStages /\ UNCHANGED <<wire, told, signed, usedNonces, paidFor>>
    BY <1>3 DEF Records, EarlyStages, permitVars, walletVars
  <2>2. \/ Goes(j, "over")
        \/ job' = [job EXCEPT ![j].stage = "settling", ![j].amount = job[j].amount]
    BY <1>3 DEF Records, AmountToSettle
  <2>3. CASE Goes(j, "over")
    BY <2>1, <2>3, GoesMoves, EarlyGoes DEF Kept
  <2>4. CASE job' = [job EXCEPT ![j].stage = "settling", ![j].amount = job[j].amount]
    <3>1. /\ job' \in [Jobs -> JobState] /\ \A k \in Jobs \ {j} : job'[k] = job[k]
          /\ job'[j].attempt = job[j].attempt /\ job'[j].stage \in EarlyStages
      BY <1>1, <2>4 DEF JobState, EarlyStages
    <3> QED BY <2>1, <3>1, EarlyGoes
  <2> QED BY <2>2, <2>3, <2>4
<1>4. CASE ReadsOpen(j)
  <2>1. PICK amount \in Amount, stage \in {"settling", "over"} :
          job' = [job EXCEPT ![j].stage = stage, ![j].declined = TRUE, ![j].amount = amount]
    BY <1>1, <1>4, AmountsAre DEF ReadsOpen, AmountToSettle
  <2>2. /\ job' \in [Jobs -> JobState] /\ \A k \in Jobs \ {j} : job'[k] = job[k]
        /\ job'[j].attempt = job[j].attempt /\ job'[j].stage \in EarlyStages \cup {"over"}
    BY <1>1, <2>1 DEF JobState, EarlyStages
  <2>3. job[j].stage \in EarlyStages /\ UNCHANGED <<wire, told, signed, usedNonces, paidFor>>
    BY <1>4 DEF ReadsOpen, EarlyStages, railVars, permitVars, walletVars
  <2> QED BY <2>2, <2>3, EarlyGoes
<1> QED BY <1>2, <1>3, <1>4

\* An answer that nothing was settled is so as long as nothing exists of it.
LEMMA EarlyAnswer ==
  ASSUME Kept, NEW j \in Jobs, job[j].stage \in EarlyStages, Answer(j, "unpaid"),
         UNCHANGED <<wire, signed, usedNonces, paidFor>>
  PROVE  Kept'
<1>1. PICK a0 \in Attempts : a0 = AttemptOf(j)
  BY AttemptIs DEF Kept
<1>2. a0[1] = j /\ a0[2] = job[j].attempt /\ AttemptOK(a0) /\ job[j].attempt \in {1, 2}
  BY <1>1, AttemptIs DEF Kept, AttemptsOK, JobState
<1>3. ~WasPaid(a0) /\ ~Flying(a0)
  BY <1>2 DEF AttemptOK, Begun, Current
<1> QED BY <1>1, <1>3, AnswersSo

LEMMA FundKeeps ==
  ASSUME Kept, NEW j \in Jobs,
         \/ CallStarts(j) \/ Declines(j) \/ CallFails(j)
         \/ Plan(j) \/ Deposit(j) \/ AwaitDelivery(j) \/ EnsureAllowance(j) \/ Approved(j)
  PROVE  Kept'
<1>1. /\ job[j].stage \in EarlyStages /\ UNCHANGED <<signed, usedNonces, paidFor>>
      /\ \/ /\ \E stage \in EarlyStages \cup {"over"} : Goes(j, stage)
            /\ told' = told /\ (wire' = wire \/ wire' = Sent("approve", j))
         \/ Answer(j, "unpaid") /\ wire' = wire
  BY DEF CallStarts, Declines, CallFails, Plan, Deposit, AwaitDelivery, EnsureAllowance,
         Approved, EarlyStages, railVars, permitVars, walletVars
<1>2. CASE /\ \E stage \in EarlyStages \cup {"over"} : Goes(j, stage)
           /\ told' = told /\ (wire' = wire \/ wire' = Sent("approve", j))
  <2>1. PICK stage \in EarlyStages \cup {"over"} : Goes(j, stage)
    BY <1>2
  <2>2. /\ job' \in [Jobs -> JobState] /\ \A k \in Jobs \ {j} : job'[k] = job[k]
        /\ job'[j].attempt = job[j].attempt /\ job'[j].stage = stage
    BY <2>1, GoesMoves DEF Kept
  <2> QED BY <1>1, <1>2, <2>2, EarlyGoes
<1>3. CASE Answer(j, "unpaid") /\ wire' = wire
  BY <1>1, <1>3, EarlyAnswer
<1> QED BY <1>1, <1>2, <1>3

LEMMA SettleKeeps ==
  ASSUME Kept, NEW j \in Jobs,
         Sends(j) \/ ReadsReceipt(j) \/ LosesReceipt(j) \/ Posts(j) \/ ReadsReply(j)
  PROVE  Kept'
<1>1. UNCHANGED <<usedNonces, paidFor>>
  BY DEF Sends, ReadsReceipt, LosesReceipt, Posts, ReadsReply, Sign, railVars, permitVars
<1>2. CASE Sends(j)
  <2>1. job[j].stage \in EarlyStages /\ UNCHANGED signed
    BY <1>2 DEF Sends, EarlyStages, railVars, permitVars
  <2>2. CASE wire' = Sent("settle", j) /\ Goes(j, "sent") /\ UNCHANGED told
    BY <1>1, <2>1, <2>2, SendGoes
  <2>3. CASE (wire' = Sent("settle", j) \/ wire' = wire) /\ Answer(j, "unknown")
    BY <1>1, <2>1, <2>3, AnswersSo
  <2> QED BY <1>2, <2>2, <2>3 DEF Sends
<1>3. CASE ReadsReceipt(j)
  <2>1. /\ ~Flying(AttemptOf(j)) /\ UNCHANGED <<wire, signed>>
        /\ Answer(j, IF WasPaid(AttemptOf(j)) THEN "paid" ELSE "unpaid")
    BY <1>3 DEF ReadsReceipt, InFlight, Flying, railVars, permitVars, walletVars
  <2>2. CASE WasPaid(AttemptOf(j))
    BY <1>1, <2>1, <2>2, AnswersSo
  <2>3. CASE ~WasPaid(AttemptOf(j))
    BY <1>1, <2>1, <2>3, AnswersSo
  <2> QED BY <2>2, <2>3
<1>4. CASE LosesReceipt(j)
  <2>1. UNCHANGED <<wire, signed>>
    BY <1>4 DEF LosesReceipt, railVars, permitVars, walletVars
  <2>2. CASE job[j].stage = "approving" /\ Answer(j, "unpaid")
    BY <1>1, <2>1, <2>2, EarlyAnswer DEF EarlyStages
  <2>3. CASE Answer(j, "unknown")
    BY <1>1, <2>1, <2>3, AnswersSo
  <2> QED BY <1>4, <2>2, <2>3 DEF LosesReceipt, ReceiptUnavailable
<1>5. CASE Posts(j)
  <2>1. job[j].stage \in EarlyStages /\ UNCHANGED wire
    BY <1>5 DEF Posts, EarlyStages, walletVars
  <2>2. CASE Answer(j, "unpaid") /\ UNCHANGED railVars
    BY <1>1, <2>1, <2>2, EarlyAnswer DEF railVars, permitVars
  <2>3. ASSUME NEW deadline \in Time,
               Sign([agent |-> TabOf[j][1], serviceId |-> TabOf[j][2], asset |-> TabOf[j][3],
                     amount |-> AmountOf(j), nonce |-> AttemptOf(j), deadline |-> deadline]),
               Goes(j, "posted"), UNCHANGED told
        PROVE  Kept'
    <3>1. PICK p : p = [agent |-> TabOf[j][1], serviceId |-> TabOf[j][2], asset |-> TabOf[j][3],
                        amount |-> AmountOf(j), nonce |-> AttemptOf(j), deadline |-> deadline]
      OBVIOUS
    <3>2. signed' = signed \cup {p} /\ p.deadline = deadline
      BY <2>3, <3>1 DEF Sign
    <3> QED BY <1>1, <2>1, <2>3, <3>1, <3>2, PostGoes
  <2> QED BY <1>5, <2>2, <2>3 DEF Posts
<1>6. CASE ReadsReply(j)
  <2>1. ~Flying(AttemptOf(j)) /\ UNCHANGED <<wire, signed>>
    <3>1. AttemptOK(AttemptOf(j)) /\ Current(AttemptOf(j)) /\ job[AttemptOf(j)[1]].stage = "posted"
      BY <1>6, AttemptIs DEF ReadsReply, Kept, AttemptsOK, Current
    <3> QED BY <1>6, <3>1 DEF AttemptOK, ReadsReply, railVars, permitVars, walletVars
  <2>2. CASE WasPaid(AttemptOf(j)) /\ Answer(j, "paid")
    BY <1>1, <2>1, <2>2, AnswersSo
  <2>3. CASE ~WasPaid(AttemptOf(j)) /\ Answer(j, "unpaid")
    BY <1>1, <2>1, <2>3, AnswersSo
  <2>4. CASE Answer(j, "unknown")
    BY <1>1, <2>1, <2>4, AnswersSo
  <2> QED BY <1>6, <2>2, <2>3, <2>4 DEF ReadsReply
<1> QED BY <1>2, <1>3, <1>4, <1>5, <1>6

LEMMA JobKeeps ==
  ASSUME IInv, Kept, NEW j \in Jobs, CallStarts(j) \/ JobStep(j) \/ LosesReceipt(j)
  PROVE  Kept'
BY MeterKeeps, FundKeeps, SettleKeeps DEF JobStep
-----------------------------------------------------------------------------
(* The book under the steps of the Payments.                               *)

LEMMA QuietKeepsBook ==
  ASSUME SettlementInv1, UNCHANGED vars, batch' = batch \/ batch' = NoBatch
  PROVE  SettlementInv1'
<1> USE DEF SettlementInv1
<1>1. IInv'
  BY InvStep
<1>2. CASE batch' = NoBatch
  BY <1>1, <1>2 DEF BatchOK, RestoreOK
<1>3. CASE batch' = batch /\ batch # NoBatch
  <2>1. RestoreOK'
    BY <1>3, RestoreKept DEF vars, bookVars, envVars
  <2> QED BY <1>1, <1>3, <2>1 DEF BatchOK
<1> QED BY <1>2, <1>3

LEMMA PayKeepsBook ==
  ASSUME SettlementInv1, NEW t \in Tabs, NEW amount \in Amount, Pay(t, amount), batch' = NoBatch
  PROVE  SettlementInv1'
BY PayIsBookStep DEF SettlementInv1, BatchOK, RestoreOK

\* What the Agents have signed is a settlement of one of their tabs.
LEMMA SignedPays ==
  ASSUME PayTypes, NEW p \in signed
  PROVE  <<p.agent, p.serviceId, p.asset>> \in Tabs /\ p.amount \in Amount /\ p.agent \in Agents
<1>1. p \in Signature
  BY DEF PayTypes
<1> QED BY <1>1 DEF Signature, Tabs

LEMMA PaymentsKeepBook ==
  ASSUME SettlementInv1, PayTypes, [PaymentsNext]_payVars
  PROVE  SettlementInv1'
<1>1. ASSUME NEW j \in Jobs, CallStarts(j) \/ JobStep(j) \/ LosesReceipt(j)
      PROVE  SettlementInv1'
  <2>1. CASE Records(j)
    <3>1. TabOf[j] \in Tabs /\ 1 \in Nat
      BY PaymentsAssumption
    <3>2. RecordDelivery(Operator(TabOf[j]), TabOf[j], 1, Charge(TabOf[j]),
                         history[Account(TabOf[j])], Cited(TabOf[j])) /\ batch' = NoBatch
      BY <2>1 DEF Records
    <3>3. IInv'
      BY <3>1, <3>2, DeliveryInv DEF SettlementInv1
    <3> QED BY <3>2, <3>3 DEF SettlementInv1, BatchOK, RestoreOK
  <2>2. CASE Posts(j)
    BY <2>2, QuietKeepsBook DEF Posts, Sign, railVars
  <2>3. CASE UNCHANGED railVars
    BY <2>3, QuietKeepsBook DEF railVars
  <2> QED BY <1>1, <2>1, <2>2, <2>3
          DEF CallStarts, LosesReceipt, JobStep, Simulates, Declines, ReadsOpen, CallFails, Plan,
              Deposit, AwaitDelivery, EnsureAllowance, Approved, Sends, ReadsReceipt, ReadsReply
<1>2. CASE MineApprove
  BY <1>2, QuietKeepsBook DEF MineApprove, railVars
<1>3. CASE MineSettle
  <2>1. PICK tx \in Transaction : tx = Head(wire)
    <3>1. wire # <<>> /\ wire \in Seq(Transaction)
      BY <1>3 DEF MineSettle, PayTypes
    <3> QED BY <3>1
  <2>2. TabOf[tx.of[1]] \in Tabs /\ tx.amount \in Amount
    BY <2>1, PaymentsAssumption DEF Transaction, Attempts
  <2>3. CASE Pay(TabOf[tx.of[1]], tx.amount) /\ batch' = NoBatch
    BY <2>2, <2>3, PayKeepsBook
  <2>4. CASE UNCHANGED railVars
    BY <2>4, QuietKeepsBook DEF railVars
  <2> QED BY <1>3, <2>1, <2>3, <2>4 DEF MineSettle
<1>4. ASSUME NEW a \in Attempts, Delivers(a) \/ Refunds(a)
      PROVE  SettlementInv1'
  BY <1>4, QuietKeepsBook DEF Delivers, Refunds, railVars
<1>5. ASSUME NEW a \in Attempts, Relays(a[1], a[2])
      PROVE  SettlementInv1'
  <2>1. PICK p \in signed : SettleWithPermit2(p)
    BY <1>5 DEF Relays
  <2>2. Pay(<<p.agent, p.serviceId, p.asset>>, p.amount) /\ batch' = NoBatch
    BY <2>1 DEF SettleWithPermit2
  <2>3. PICK t \in Tabs : t = <<p.agent, p.serviceId, p.asset>>
    BY SignedPays
  <2> QED BY <2>2, <2>3, SignedPays, PayKeepsBook
<1>6. CASE Dealing(SettlementNext)
  BY <1>6, SettlementStep1 DEF Dealing
<1>7. CASE UNCHANGED payVars
  BY <1>7, QuietKeepsBook DEF payVars, railVars
<1> QED BY <1>1, <1>2, <1>3, <1>4, <1>5, <1>6, <1>7 DEF PaymentsNext, Mine, External
-----------------------------------------------------------------------------
(* The attempts under the steps of the chain and of the others.            *)

\* An attempt that a step takes from the wire at most is as it was.
LEMMA AttemptStays ==
  ASSUME NEW a, AttemptOK(a), UNCHANGED <<job, told>>, Flying(a)' => Flying(a),
         WasPaid(a)' <=> WasPaid(a), \A p : p.nonce = a => (p \in signed' <=> p \in signed),
         usedNonces \subseteq usedNonces'
  PROVE  AttemptOK(a)'
<1>1. /\ HasSigned(a)' <=> HasSigned(a)
      /\ Begun(a)' <=> Begun(a)
      /\ Current(a)' <=> Current(a)
  BY DEF HasSigned, Begun, Current
<1>2. told'[a] = told[a] /\ job'[a[1]] = job[a[1]]
  OBVIOUS
<1> QED BY <1>1, <1>2 DEF AttemptOK

\* The log is as it was where neither it nor the batch moves.
LEMMA LogStays ==
  ASSUME LogOK, UNCHANGED <<paidFor, settlements, batch>>
  PROVE  LogOK' /\ \A a : WasPaid(a)' <=> WasPaid(a)
BY DEF LogOK, WasPaid

LEMMA PayLengthens ==
  ASSUME TypeOK, NEW t, NEW amount, Pay(t, amount)
  PROVE  Len(settlements) \in Nat /\ Len(settlements') = Len(settlements) + 1
<1>1. PICK s : settlements' = Append(settlements, s)
  BY DEF Pay, ApplySettlement
<1>2. settlements \in Seq(Settlement)
  BY DEF TypeOK
<1> QED BY <1>1, <1>2

LEMMA ApproveKeeps ==
  ASSUME Kept, LogOK, MineApprove
  PROVE  Kept' /\ LogOK'
<1>1. /\ wire # <<>> /\ Head(wire).kind = "approve" /\ wire' = Tail(wire)
      /\ UNCHANGED <<job, told, signed, usedNonces, settlements, batch, paidFor>>
  BY DEF MineApprove, railVars, vars, bookVars, permitVars, jobVars
<1>2. wire' \in Seq(Transaction) /\ SentOnce' /\ \A a : Flying(a)' => Flying(a)
  BY <1>1, WireShrinks DEF Kept, PayTypes
<1>3. LogOK' /\ \A a : WasPaid(a)' <=> WasPaid(a)
  BY <1>1, LogStays
<1>4. PayTypes'
  BY <1>1, <1>2 DEF Kept, PayTypes
<1>5. ASSUME NEW a \in Attempts
      PROVE  AttemptOK(a)'
  BY <1>1, <1>2, <1>3, AttemptStays DEF Kept, AttemptsOK
<1> QED BY <1>2, <1>3, <1>4, <1>5 DEF Kept, AttemptsOK

\* What is mined of an attempt pays for it, once.
LEMMA MineKeeps ==
  ASSUME TypeOK, Kept, LogOK, MineSettle
  PROVE  Kept' /\ LogOK'
<1>1. PICK tx \in Transaction : tx = Head(wire)
  <2>1. wire # <<>> /\ wire \in Seq(Transaction)
    BY DEF MineSettle, Kept, PayTypes
  <2> QED BY <2>1
<1>2. /\ wire # <<>> /\ tx.kind = "settle" /\ wire' = Tail(wire) /\ batch = NoBatch
      /\ UNCHANGED <<job, told, signed, usedNonces, batch>>
      /\ \/ Pay(TabOf[tx.of[1]], tx.amount) /\ PaysFor(tx.of)
         \/ UNCHANGED <<settlements, paidFor>>
  BY <1>1 DEF MineSettle, railVars, vars, bookVars, permitVars, jobVars
<1>3. PICK a0 \in Attempts : a0 = tx.of
  BY DEF Transaction
<1>4. /\ wire' \in Seq(Transaction) /\ SentOnce' /\ Flying(a0)
      /\ \A a : Flying(a)' <=> Flying(a) /\ a # a0
  BY <1>1, <1>2, <1>3, WireShrinks DEF Kept, PayTypes
<1>5. PayTypes'
  BY <1>2, <1>4 DEF Kept, PayTypes
<1>6. AttemptOK(a0) /\ a0 # Outside /\ ~WasPaid(a0)
  BY <1>4, PaymentsAssumption DEF Kept, AttemptsOK, AttemptOK
<1>7. CASE Pay(TabOf[tx.of[1]], tx.amount) /\ PaysFor(tx.of)
  <2>1. Len(settlements) \in Nat /\ Len(settlements') = Len(settlements) + 1
    BY <1>7, PayLengthens
  <2>2. paidFor' = Append(paidFor, a0)
    BY <1>3, <1>7, <2>1 DEF PaysFor
  <2>3. LogOK' /\ \A a \in Attempts : WasPaid(a)' <=> WasPaid(a) \/ a = a0
    BY <1>2, <1>6, <2>1, <2>2, LogGrows
  <2>4. AttemptOK(a0)'
    <3>1. /\ Begun(a0)' /\ ~Flying(a0)' /\ ~HasSigned(a0)' /\ WasPaid(a0)'
          /\ told'[a0] # "unpaid"
      BY <1>2, <1>4, <1>6, <2>3 DEF AttemptOK, Begun, Current, HasSigned
    <3> QED BY <3>1 DEF AttemptOK, HasSigned
  <2>5. ASSUME NEW a \in Attempts, a # a0
        PROVE  AttemptOK(a)'
    BY <1>2, <1>4, <2>3, <2>5, AttemptStays DEF Kept, AttemptsOK
  <2> QED BY <1>4, <1>5, <2>3, <2>4, <2>5 DEF Kept, AttemptsOK
<1>8. CASE UNCHANGED <<settlements, paidFor>>
  <2>1. LogOK' /\ \A a : WasPaid(a)' <=> WasPaid(a)
    BY <1>2, <1>8, LogStays
  <2>2. ASSUME NEW a \in Attempts
        PROVE  AttemptOK(a)'
    BY <1>2, <1>4, <2>1, AttemptStays DEF Kept, AttemptsOK
  <2> QED BY <1>4, <1>5, <2>1, <2>2 DEF Kept, AttemptsOK
<1> QED BY <1>2, <1>7, <1>8

\* What the relay submits of an attempt pays for it, once: its nonce is spent.
LEMMA RelayKeeps ==
  ASSUME TypeOK, Kept, LogOK, NEW a0 \in Attempts, Relays(a0[1], a0[2])
  PROVE  Kept' /\ LogOK'
<1>1. a0 = <<a0[1], a0[2]>> /\ a0 # Outside
  BY PaymentsAssumption DEF Attempts
<1>2. PICK p \in signed : p.nonce = a0 /\ SettleWithPermit2(p)
  BY <1>1 DEF Relays
<1>3. /\ told[a0] # "unpaid" /\ PaysFor(a0)
      /\ UNCHANGED <<wire, job, told, signed, batch>> /\ batch = NoBatch
      /\ <<p.agent, a0>> \notin usedNonces
      /\ usedNonces' = usedNonces \cup {<<p.agent, a0>>}
  BY <1>1, <1>2 DEF Relays, SettleWithPermit2, PermitHolds, walletVars, jobVars
<1>4. AttemptOK(a0) /\ HasSigned(a0)
  BY <1>2 DEF Kept, AttemptsOK, HasSigned
<1>5. ~WasPaid(a0) /\ ~Flying(a0) /\ Begun(a0) /\ p.agent = AgentOf(a0[1])
  BY <1>2, <1>3, <1>4 DEF AttemptOK
<1>6. Len(settlements) \in Nat /\ Len(settlements') = Len(settlements) + 1
  BY <1>2, PayLengthens DEF SettleWithPermit2
<1>7. paidFor' = Append(paidFor, a0)
  BY <1>3, <1>6 DEF PaysFor
<1>8. LogOK' /\ \A a \in Attempts : WasPaid(a)' <=> WasPaid(a) \/ a = a0
  BY <1>1, <1>3, <1>5, <1>6, <1>7, LogGrows
<1>9. PayTypes' /\ SentOnce' /\ \A a : Flying(a)' <=> Flying(a)
  BY <1>3 DEF Kept, PayTypes, SentOnce, Flying
<1>10. AttemptOK(a0)'
  <2>1. WasPaid(a0)' /\ Begun(a0)' /\ ~Flying(a0)' /\ told'[a0] # "unpaid"
    BY <1>3, <1>5, <1>8, <1>9 DEF Begun, Current
  <2>2. \A q \in signed' : q.nonce = a0 =>
          q.agent = AgentOf(a0[1]) /\ <<q.agent, a0>> \in usedNonces'
    BY <1>3, <1>4, <1>5 DEF AttemptOK
  <2> QED BY <2>1, <2>2 DEF AttemptOK
<1>11. ASSUME NEW a \in Attempts, a # a0
       PROVE  AttemptOK(a)'
  BY <1>3, <1>8, <1>9, <1>11, AttemptStays DEF Kept, AttemptsOK
<1> QED BY <1>8, <1>9, <1>10, <1>11 DEF Kept, AttemptsOK
\* What a step of the others may do with the book and with the batch.
LogStep ==
  \/ /\ Len(settlements') = Len(settlements) + 1
     /\ \/ batch' = NoBatch
        \/ batch # NoBatch /\ batch'.before = batch.before
  \/ /\ settlements' = settlements
     /\ \/ batch' = NoBatch
        \/ batch' = batch
        \/ batch'.before.settlements = settlements
  \/ batch # NoBatch /\ batch' = NoBatch /\ settlements' = batch.before.settlements

LEMMA DealingMovesLog ==
  ASSUME TypeOK, SettlementNext
  PROVE  LogStep
<1>1. ASSUME NEW t \in Tabs, NEW amount \in Payments, Settle(t, amount)
      PROVE  LogStep
  BY <1>1, PayLengthens DEF Settle, LogStep
<1>2. ASSUME NEW p \in Permit, Sign(p)
      PROVE  LogStep
  BY <1>2 DEF Sign, LogStep, vars, bookVars
<1>3. ASSUME NEW p \in Permit, SettleWithPermit2(p)
      PROVE  LogStep
  BY <1>3, PayLengthens DEF SettleWithPermit2, LogStep
<1>4. ASSUME NEW agent, NEW instructions, BatchBegins(agent, instructions)
      PROVE  LogStep
  BY <1>4 DEF BatchBegins, Ledger, LogStep, vars, bookVars
<1>5. CASE BatchPays
  <2>1. batch # NoBatch /\ batch' = [batch EXCEPT !.rest = Tail(@)]
    BY <1>5 DEF BatchPays
  <2>2. batch'.before = batch.before
    BY <2>1 DEF BatchOK
  <2> QED BY <1>5, <2>1, <2>2, PayLengthens DEF BatchPays, LogStep
<1>6. CASE BatchEnds
  BY <1>6 DEF BatchEnds, LogStep, vars, bookVars
<1>7. CASE BatchReverts
  BY <1>7 DEF BatchReverts, Restored, LogStep
<1>8. CASE /\ BookCall \/ Tick
           /\ batch = NoBatch
           /\ UNCHANGED <<balances, collections, permitVars, batch>>
  <2>1. settlements' = settlements
    BY <1>8, CallsPayNothing
  <2> QED BY <1>8, <2>1 DEF LogStep
<1> QED BY <1>1, <1>2, <1>3, <1>4, <1>5, <1>6, <1>7, <1>8 DEF SettlementNext

\* What the others pay is paid for no attempt.
LEMMA LogDeals ==
  ASSUME LogOK, LogStep, PaysFor(Outside)
  PROVE  LogOK' /\ \A a \in Attempts : WasPaid(a)' <=> WasPaid(a)
<1>1. /\ paidFor \in Seq(Attempts \cup {Outside}) /\ Len(paidFor) = Len(settlements)
      /\ Len(settlements) \in Nat
  BY DEF LogOK
<1>2. CASE /\ Len(settlements') = Len(settlements) + 1
           /\ \/ batch' = NoBatch
              \/ batch # NoBatch /\ batch'.before = batch.before
  <2>1. paidFor' = Append(paidFor, Outside)
    BY <1>1, <1>2 DEF PaysFor
  <2> QED BY <1>2, <2>1, LogGrows, PaymentsAssumption
<1>3. CASE /\ settlements' = settlements
           /\ \/ batch' = NoBatch
              \/ batch' = batch
              \/ batch'.before.settlements = settlements
  <2>1. paidFor' = paidFor
    <3>1. paidFor' = SubSeq(paidFor, 1, Len(paidFor))
      BY <1>1, <1>3 DEF PaysFor
    <3> QED BY <1>1, <3>1
  <2>2. DOMAIN paidFor = 1 .. Len(settlements)
    BY <1>1
  <2> QED BY <1>1, <1>3, <2>1, <2>2 DEF LogOK, WasPaid
<1>4. CASE batch # NoBatch /\ batch' = NoBatch /\ settlements' = batch.before.settlements
  <2>1. Len(settlements') \in 0 .. Len(settlements)
    BY <1>4 DEF LogOK
  <2>2. paidFor' = SubSeq(paidFor, 1, Len(settlements'))
    BY <1>1, <2>1 DEF PaysFor
  <2> QED BY <1>4, <2>2, LogShrinks
<1> QED BY <1>2, <1>3, <1>4 DEF LogStep

LEMMA SignedByOthers ==
  ASSUME signed \subseteq Signature, SettlementNext
  PROVE  signed \subseteq signed' /\ signed' \subseteq Signature /\ usedNonces \subseteq usedNonces'
<1>1. ASSUME NEW p \in Permit, Sign(p)
      PROVE  signed \subseteq signed' /\ signed' \subseteq Signature /\ usedNonces \subseteq usedNonces'
  <2>1. p \in Signature
    BY TabSettlementAssumption DEF Permit, Signature
  <2> QED BY <1>1, <2>1 DEF Sign
<1>2. ASSUME NEW p, SettleWithPermit2(p)
      PROVE  signed \subseteq signed' /\ signed' \subseteq Signature /\ usedNonces \subseteq usedNonces'
  BY <1>2 DEF SettleWithPermit2
<1> QED BY <1>1, <1>2
        DEF SettlementNext, Settle, BatchBegins, BatchPays, BatchEnds, BatchReverts, permitVars

LEMMA DealingKeeps ==
  ASSUME TypeOK, Kept, LogOK, Dealing(SettlementNext)
  PROVE  Kept' /\ LogOK'
<1>1. /\ SettlementNext /\ PaysFor(Outside) /\ UNCHANGED <<wire, job, told>>
      /\ \A p \in signed' \ signed : p.nonce \notin Attempts
  BY DEF Dealing, walletVars, jobVars
<1>2. LogOK' /\ \A a \in Attempts : WasPaid(a)' <=> WasPaid(a)
  BY <1>1, DealingMovesLog, LogDeals
<1>3. signed \subseteq signed' /\ signed' \subseteq Signature /\ usedNonces \subseteq usedNonces'
  BY <1>1, SignedByOthers DEF Kept, PayTypes
<1>4. PayTypes' /\ SentOnce' /\ \A a : Flying(a)' <=> Flying(a)
  BY <1>1, <1>3 DEF Kept, PayTypes, SentOnce, Flying
<1>5. ASSUME NEW a \in Attempts
      PROVE  AttemptOK(a)'
  BY <1>1, <1>2, <1>3, <1>4, AttemptStays DEF Kept, AttemptsOK
<1> QED BY <1>2, <1>4, <1>5 DEF Kept, AttemptsOK

\* The inductive invariant of the answers.
AnswersInv == SettlementInv1 /\ Kept /\ LogOK

LEMMA AnswersInit == PaymentsInit => AnswersInv
<1> SUFFICES ASSUME PaymentsInit PROVE AnswersInv
  OBVIOUS
<1> USE DEF PaymentsInit, SettlementInit
<1>1. SettlementInv1
  BY SettlementInit1
<1>2. PayTypes
  BY TabBookAssumption DEF PayTypes, JobState, EarlyStages, Amount
<1>3. SentOnce /\ LogOK
  BY DEF SentOnce, LogOK, Init
<1>4. ASSUME NEW a \in Attempts
      PROVE  AttemptOK(a)
  <2>1. ~Flying(a) /\ ~HasSigned(a) /\ ~WasPaid(a) /\ told[a] = "nothing"
    BY DEF Flying, HasSigned, WasPaid
  <2> QED BY <2>1 DEF AttemptOK, HasSigned
<1> QED BY <1>1, <1>2, <1>3, <1>4 DEF AnswersInv, Kept, AttemptsOK

LEMMA AnswersStep == AnswersInv /\ [PaymentsNext]_payVars => AnswersInv'
<1> SUFFICES ASSUME AnswersInv, [PaymentsNext]_payVars PROVE AnswersInv'
  OBVIOUS
<1>1. SettlementInv1'
  BY PaymentsKeepBook DEF AnswersInv, Kept
<1>2. TypeOK /\ IInv /\ Kept /\ LogOK
  BY DEF AnswersInv, SettlementInv1, IInv
<1> SUFFICES Kept' /\ LogOK'
  BY <1>1 DEF AnswersInv
<1>3. ASSUME NEW j \in Jobs, CallStarts(j) \/ JobStep(j) \/ LosesReceipt(j)
      PROVE  Kept' /\ LogOK'
  <2>1. UNCHANGED <<paidFor, settlements, batch>>
    BY <1>3
       DEF CallStarts, LosesReceipt, JobStep, Simulates, Declines, ReadsOpen, CallFails, Plan,
           Deposit, AwaitDelivery, EnsureAllowance, Approved, Sends, ReadsReceipt, ReadsReply,
           Records, RecordDelivery, Posts, Sign, railVars, vars, bookVars
  <2> QED BY <1>2, <1>3, <2>1, JobKeeps, LogStays
<1>4. CASE MineApprove \/ MineSettle
  <2>1. CASE MineApprove
    BY <1>2, <2>1, ApproveKeeps
  <2>2. CASE MineSettle
    BY <1>2, <2>2, MineKeeps
  <2> QED BY <1>4, <2>1, <2>2
<1>5. ASSUME NEW a \in Attempts, Delivers(a) \/ Refunds(a) \/ Relays(a[1], a[2])
      PROVE  Kept' /\ LogOK'
  <2>1. CASE Delivers(a) \/ Refunds(a)
    <3>1. UNCHANGED <<wire, job, told, signed, usedNonces, settlements, batch, paidFor>>
      BY <2>1 DEF Delivers, Refunds, railVars, vars, bookVars, permitVars, jobVars
    <3>2. LogOK' /\ \A b : WasPaid(b)' <=> WasPaid(b)
      BY <1>2, <3>1, LogStays
    <3>3. PayTypes' /\ SentOnce' /\ \A b : Flying(b)' <=> Flying(b)
      BY <1>2, <3>1 DEF Kept, PayTypes, SentOnce, Flying
    <3>4. ASSUME NEW b \in Attempts
          PROVE  AttemptOK(b)'
      BY <1>2, <3>1, <3>2, <3>3, AttemptStays DEF Kept, AttemptsOK
    <3> QED BY <3>2, <3>3, <3>4 DEF Kept, AttemptsOK
  <2> QED BY <1>2, <1>5, <2>1, RelayKeeps
<1>6. CASE Dealing(SettlementNext)
  BY <1>2, <1>6, DealingKeeps
<1>7. CASE UNCHANGED payVars
  <2>1. UNCHANGED <<wire, job, told, signed, usedNonces, settlements, batch, paidFor>>
    BY <1>7 DEF payVars, railVars, vars, bookVars, permitVars, walletVars, jobVars
  <2>2. LogOK' /\ \A b : WasPaid(b)' <=> WasPaid(b)
    BY <1>2, <2>1, LogStays
  <2>3. PayTypes' /\ SentOnce' /\ \A b : Flying(b)' <=> Flying(b)
    BY <1>2, <2>1 DEF Kept, PayTypes, SentOnce, Flying
  <2>4. ASSUME NEW b \in Attempts
        PROVE  AttemptOK(b)'
    BY <1>2, <2>1, <2>2, <2>3, AttemptStays DEF Kept, AttemptsOK
  <2> QED BY <2>2, <2>3, <2>4 DEF Kept, AttemptsOK
<1> QED BY <1>3, <1>4, <1>5, <1>6, <1>7 DEF PaymentsNext, Mine, External

\* For any number of calls, whatever fails and whoever else pays on their tabs:
\* an attempt pays once at most, and what it was answered is and stays so.
THEOREM AnswersStand == PaymentsSpec => []AnswersAreTrue
<1>1. AnswersInv => AnswersAreTrue
  <2> SUFFICES ASSUME AnswersInv, NEW a \in Attempts,
                      NEW made, made = {i \in DOMAIN paidFor : paidFor[i] = a}
               PROVE  /\ Cardinality(made) <= 1
                      /\ told[a] = "paid" => made # {}
                      /\ told[a] = "unpaid" =>
                           made = {} /\ \A i \in DOMAIN wire : wire[i].kind = "settle" => wire[i].of # a
    BY DEF AnswersAreTrue
  <2>1. AttemptOK(a) /\ a # Outside /\ LogOK
    BY PaymentsAssumption DEF AnswersInv, Kept, AttemptsOK
  <2>2. WasPaid(a) <=> made # {}
    BY DEF WasPaid
  <2>3. \A i, k \in made : i = k
    BY <2>1 DEF LogOK
  <2>4. Cardinality(made) <= 1
    <3>1. CASE made = {}
      BY <3>1, FS_EmptySet
    <3>2. ASSUME NEW i \in made
          PROVE  Cardinality(made) <= 1
      <4>1. made = {i}
        BY <2>3
      <4>2. Cardinality({i}) = 1
        BY FS_Singleton
      <4> QED BY <4>1, <4>2
    <3> QED BY <3>1, <3>2
  <2>5. told[a] = "unpaid" => \A i \in DOMAIN wire : wire[i].kind = "settle" => wire[i].of # a
    BY <2>1 DEF AttemptOK, Flying
  <2> QED BY <2>1, <2>2, <2>4, <2>5 DEF AttemptOK
<1> QED BY AnswersInit, AnswersStep, <1>1, PTL DEF PaymentsSpec
\* The books balance beside any number of calls, relays and deposits.
THEOREM BooksBalanceBesideCalls ==
  PaymentsSpec => [](AssetOpenIsSum /\ DelinquentCounted /\ TabIsSound /\ MeteredIsPaidOrOpen)
<1>1. AnswersInv => AssetOpenIsSum /\ DelinquentCounted /\ TabIsSound /\ MeteredIsPaidOrOpen
  BY DEF AnswersInv, SettlementInv1, IInv, TabIsSound
<1> QED BY AnswersInit, AnswersStep, <1>1, PTL DEF PaymentsSpec

LEMMA SignedPayments ==
  ASSUME AnswersInv, AnswersInv', SignedOK, [PaymentsNext]_payVars
  PROVE  SignedStep
<1>1. /\ TypeOK /\ SettlementInv1 /\ PayTypes
      /\ signed \subseteq Signature /\ signed' \subseteq Signature
  BY DEF AnswersInv, SettlementInv1, IInv, Kept, PayTypes
<1>2. ASSUME UNCHANGED <<settlements, usedNonces, gasless, batch>>, signed \subseteq signed'
      PROVE  SignedStep
  BY <1>1, <1>2, QuietlySigned
<1>3. ASSUME NEW j \in Jobs, CallStarts(j) \/ JobStep(j) \/ LosesReceipt(j)
      PROVE  SignedStep
  <2>1. UNCHANGED <<settlements, usedNonces, gasless, batch>> /\ signed \subseteq signed'
    BY <1>3
       DEF CallStarts, LosesReceipt, JobStep, Simulates, Declines, ReadsOpen, CallFails, Plan,
           Deposit, AwaitDelivery, EnsureAllowance, Approved, Sends, ReadsReceipt, ReadsReply,
           Records, RecordDelivery, Posts, Sign, railVars, vars, bookVars, permitVars
  <2> QED BY <1>2, <2>1
<1>4. CASE MineApprove
  BY <1>2, <1>4 DEF MineApprove, railVars, vars, bookVars, permitVars
<1>5. CASE MineSettle
  <2>1. CASE UNCHANGED railVars
    BY <1>2, <2>1 DEF railVars, vars, bookVars, permitVars
  <2>2. ASSUME NEW t, NEW amount, Pay(t, amount), UNCHANGED <<permitVars, batch>>, batch = NoBatch
        PROVE  SignedStep
    BY <1>1, <2>2, PaidUnsigned
  <2> QED BY <1>5, <2>1, <2>2 DEF MineSettle
<1>6. ASSUME NEW a, Delivers(a) \/ Refunds(a)
      PROVE  SignedStep
  BY <1>2, <1>6 DEF Delivers, Refunds, railVars, vars, bookVars, permitVars
<1>7. ASSUME NEW a, Relays(a[1], a[2])
      PROVE  SignedStep
  <2>1. PICK p \in signed : SettleWithPermit2(p)
    BY <1>7 DEF Relays
  <2> QED BY <1>1, <2>1, PaidBySignature
<1>8. CASE Dealing(SettlementNext)
  BY <1>1, <1>8, SignedNext DEF Dealing
<1>9. CASE UNCHANGED payVars
  BY <1>2, <1>9 DEF payVars, railVars, vars, bookVars, permitVars
<1> QED BY <1>3, <1>4, <1>5, <1>6, <1>7, <1>8, <1>9 DEF PaymentsNext, Mine, External

\* Beside any number of calls: whatever the calls sign and whoever submits it, an
\* entry that a signature made is of what was signed, and no signature makes two.
THEOREM RelayedSettlesOnce == PaymentsSpec => []SignatureSettlesOnce
<1>1. PaymentsInit => SignedOK
  <2> SUFFICES ASSUME PaymentsInit PROVE SignedOK
    OBVIOUS
  <2>1. gasless = {} /\ signed = {} /\ batch = NoBatch
    BY DEF PaymentsInit, SettlementInit
  <2>2. [i \in {} |-> i] \in [gasless -> signed] /\ AnswersTo([i \in {} |-> i])
    BY <2>1 DEF AnswersTo
  <2> QED BY <2>1, <2>2 DEF SignedOK, BatchSigned
<1>2. AnswersInv /\ AnswersInv' /\ SignedOK /\ [PaymentsNext]_payVars => SignedOK'
  BY SignedPayments, SignedKept
<1>3. SignedOK => SignatureSettlesOnce
  BY DEF SignedOK, AnswersTo, SignatureSettlesOnce
<1> QED BY AnswersInit, AnswersStep, <1>1, <1>2, <1>3, PTL DEF PaymentsSpec
-----------------------------------------------------------------------------
(* Sums over a log of settlements and over deposits.                       *)

DepositState == [amount : Nat, state : {"none", "quoted", "sent", "delivered", "refunded"}]
Balances == [(Agents \cup Accounts) \X Assets -> Nat]
Collections == [Services \X Assets -> Accounts \cup {NoAccount}]

PaidIn(log, R) == SumOf({i \in DOMAIN log : log[i] \in R}, [i \in DOMAIN log |-> log[i].amount])
DepositsIn(dep, A, states) ==
  SumOf({a \in A : dep[a].state \in states}, [a \in Attempts |-> dep[a].amount])

LEMMA LogFinite ==
  ASSUME NEW log \in Seq(Settlement), NEW R
  PROVE  /\ IsFiniteSet({i \in DOMAIN log : log[i] \in R})
         /\ \A i \in DOMAIN log : log[i].amount \in Nat
         /\ PaidIn(log, R) \in Nat
<1>1. DOMAIN log = 1 .. Len(log) /\ Len(log) \in Nat
  OBVIOUS
<1>2. IsFiniteSet(DOMAIN log)
  BY <1>1, FS_Interval
<1>3. IsFiniteSet({i \in DOMAIN log : log[i] \in R})
  BY <1>2, FS_Subset
<1>4. \A i \in DOMAIN log : log[i].amount \in Nat
  <2>1. \A i \in DOMAIN log : log[i] \in Settlement
    OBVIOUS
  <2>2. Amount \subseteq Nat
    BY TabBookAssumption DEF Amount
  <2> QED BY <2>1, <2>2 DEF Settlement
<1>5. PaidIn(log, R) \in Nat
  <2> DEFINE S == {i \in DOMAIN log : log[i] \in R}
             f == [i \in DOMAIN log |-> log[i].amount]
  <2>1. \A i \in S : f[i] \in Nat
    BY <1>4
  <2>2. PaidIn(log, R) = SumOf(S, f)
    BY DEF PaidIn
  <2>3. IsFiniteSet(S)
    BY <1>3
  <2> HIDE DEF S, f
  <2> QED BY <2>1, <2>2, <2>3, UnitsFinite
<1> QED BY <1>3, <1>4, <1>5

LEMMA PaidInGrows ==
  ASSUME NEW log \in Seq(Settlement), NEW r \in Settlement, NEW R
  PROVE  PaidIn(Append(log, r), R) = PaidIn(log, R) + (IF r \in R THEN r.amount ELSE 0)
<1> DEFINE n == Len(log) + 1
           more == Append(log, r)
           S == {i \in DOMAIN log : log[i] \in R}
           f == [i \in DOMAIN log |-> log[i].amount]
           T == {i \in DOMAIN more : more[i] \in R}
           g == [i \in DOMAIN more |-> more[i].amount]
<1>1. /\ DOMAIN more = DOMAIN log \cup {n} /\ n \notin DOMAIN log
      /\ \A i \in DOMAIN log : more[i] = log[i]
      /\ more[n] = r
  OBVIOUS
<1>2. IsFiniteSet(S) /\ \A i \in DOMAIN log : log[i].amount \in Nat
  BY LogFinite
<1>3. r.amount \in Nat
  BY TabBookAssumption DEF Settlement, Amount
<1>4. /\ \A i \in S : f[i] \in Nat /\ g[i] = f[i]
      /\ g[n] = r.amount /\ n \notin S
  BY <1>1, <1>2
<1>5. PaidIn(log, R) = SumOf(S, f) /\ PaidIn(more, R) = SumOf(T, g)
  BY DEF PaidIn
<1>6. PaidIn(log, R) \in Nat
  BY LogFinite
<1>7. T = IF r \in R THEN S \cup {n} ELSE S
  BY <1>1
<1>8. CASE r \in R
  <2>1. T = S \cup {n} /\ g[n] \in Nat
    BY <1>3, <1>4, <1>7, <1>8
  <2> HIDE DEF S, T, f, g, n
  <2>2. SumOf(S \cup {n}, g) = SumOf(S, f) + g[n]
    BY <1>2, <1>4, <2>1, SumOfOneMore
  <2> QED BY <1>4, <1>5, <1>8, <2>1, <2>2
<1>9. CASE r \notin R
  <2>1. T = S
    BY <1>7, <1>9
  <2> HIDE DEF S, T, f, g, n
  <2>2. SumOf(S, g) = SumOf(S, f)
    BY <1>4, SumSame
  <2> QED BY <1>5, <1>6, <1>9, <2>1, <2>2
<1> QED BY <1>8, <1>9

LEMMA AttemptsFinite == IsFiniteSet(Attempts)
<1>1. IsFiniteSet({1, 2})
  <2>1. {1, 2} = 1 .. 2 /\ 1 \in Int /\ 2 \in Int
    OBVIOUS
  <2>2. IsFiniteSet(1 .. 2)
    BY <2>1, FS_Interval
  <2> QED BY <2>1, <2>2
<1> QED BY <1>1, FS_Product, PaymentsAssumption DEF Attempts

LEMMA DepositsFinite ==
  ASSUME NEW dep \in [Attempts -> DepositState], NEW A, A \subseteq Attempts, NEW states
  PROVE  DepositsIn(dep, A, states) \in Nat
<1> DEFINE S == {a \in A : dep[a].state \in states}
           f == [a \in Attempts |-> dep[a].amount]
<1>1. IsFiniteSet(S) /\ \A a \in S : f[a] \in Nat
  <2>1. S \subseteq Attempts
    OBVIOUS
  <2> QED BY <2>1, AttemptsFinite, FS_Subset DEF DepositState
<1>2. DepositsIn(dep, A, states) = SumOf(S, f)
  BY DEF DepositsIn
<1> HIDE DEF S, f
<1> QED BY <1>1, <1>2, UnitsFinite

\* What a deposit adds to a sum over attempts it is or is not one of.
Part(d, among, states) == IF among /\ d.state \in states THEN d.amount ELSE 0

\* A sum over deposits is the sum over the others and this one.
LEMMA DepositsSplit ==
  ASSUME NEW dep \in [Attempts -> DepositState], NEW a0 \in Attempts, NEW A, A \subseteq Attempts,
         NEW states
  PROVE  /\ DepositsIn(dep, A \ {a0}, states) \in Nat /\ DepositsIn(dep, A, states) \in Nat
         /\ DepositsIn(dep, A, states) =
              DepositsIn(dep, A \ {a0}, states)
                + Part(dep[a0], a0 \in A, states)
<1> DEFINE S == {a \in A \ {a0} : dep[a].state \in states}
           T == {a \in A : dep[a].state \in states}
           f == [a \in Attempts |-> dep[a].amount]
<1>1. \A a \in Attempts : f[a] \in Nat
  BY DEF DepositState
<1>2. IsFiniteSet(S) /\ IsFiniteSet(T) /\ S \subseteq Attempts /\ T \subseteq Attempts
  <2>1. S \subseteq Attempts /\ T \subseteq Attempts
    OBVIOUS
  <2> QED BY <2>1, AttemptsFinite, FS_Subset
<1>3. DepositsIn(dep, A \ {a0}, states) = SumOf(S, f) /\ DepositsIn(dep, A, states) = SumOf(T, f)
  BY DEF DepositsIn
<1>4. /\ a0 \notin S /\ f[a0] = dep[a0].amount
      /\ T = IF a0 \in A /\ dep[a0].state \in states THEN S \cup {a0} ELSE S
  OBVIOUS
<1> HIDE DEF S, T, f
<1>5. SumOf(S, f) \in Nat /\ SumOf(T, f) \in Nat
  BY <1>1, <1>2, UnitsFinite
<1>6. CASE a0 \in A /\ dep[a0].state \in states
  <2>1. SumOf(S \cup {a0}, f) = SumOf(S, f) + f[a0]
    BY <1>1, <1>2, <1>4, SumOfOneMore
  <2> QED BY <1>3, <1>4, <1>5, <1>6, <2>1 DEF Part
<1>7. CASE ~(a0 \in A /\ dep[a0].state \in states)
  BY <1>3, <1>4, <1>5, <1>7 DEF Part
<1> QED BY <1>6, <1>7

\* One deposit changes.
LEMMA DepositMoves ==
  ASSUME NEW dep \in [Attempts -> DepositState], NEW new \in [Attempts -> DepositState],
         NEW a0 \in Attempts, NEW d, new[a0] = d,
         \A a \in Attempts \ {a0} : new[a] = dep[a],
         NEW A, A \subseteq Attempts, NEW states
  PROVE  /\ DepositsIn(dep, A, states) \in Nat /\ DepositsIn(new, A, states) \in Nat
         /\ DepositsIn(new, A, states) + Part(dep[a0], a0 \in A, states) =
              DepositsIn(dep, A, states) + Part(d, a0 \in A, states)
<1>1. d.amount \in Nat /\ dep[a0].amount \in Nat
  BY DEF DepositState
<1>2. DepositsIn(new, A \ {a0}, states) = DepositsIn(dep, A \ {a0}, states)
  <2> DEFINE S == {a \in A \ {a0} : dep[a].state \in states}
             f == [a \in Attempts |-> dep[a].amount]
             g == [a \in Attempts |-> new[a].amount]
  <2>1. /\ DepositsIn(dep, A \ {a0}, states) = SumOf(S, f)
        /\ DepositsIn(new, A \ {a0}, states) = SumOf({a \in A \ {a0} : new[a].state \in states}, g)
    BY DEF DepositsIn
  <2>2. /\ {a \in A \ {a0} : new[a].state \in states} = S
        /\ \A a \in S : g[a] = f[a]
    OBVIOUS
  <2> HIDE DEF S, f, g
  <2> QED BY <2>1, <2>2, SumSame
<1>3. /\ DepositsIn(dep, A \ {a0}, states) \in Nat /\ DepositsIn(dep, A, states) \in Nat
      /\ DepositsIn(dep, A, states) =
           DepositsIn(dep, A \ {a0}, states)
             + Part(dep[a0], a0 \in A, states)
  BY DepositsSplit
<1>4. /\ DepositsIn(new, A, states) \in Nat
      /\ DepositsIn(new, A, states) =
           DepositsIn(new, A \ {a0}, states)
             + Part(new[a0], a0 \in A, states)
  BY DepositsSplit
<1> QED BY <1>1, <1>2, <1>3, <1>4 DEF Part
-----------------------------------------------------------------------------
(* The balances against the book.                                          *)

PaidBy(agent, asset) == {s \in Settlement : s.agent = agent /\ s.asset = asset}
PaidTo(c, asset, coll) ==
  {s \in Settlement : s.asset = asset /\ coll[<<s.serviceId, asset>>] = c}

\* What the Agents and the Collection addresses hold, by a log of settlements
\* and the deposits that were delivered.
Matches(bal, log, dep, coll) ==
  /\ bal \in Balances /\ log \in Seq(Settlement)
  /\ \A agent \in Agents, asset \in Assets :
       Tokens + DepositsIn(dep, AttemptsIn(<<agent, asset>>), {"delivered"}) =
         bal[<<agent, asset>>] + PaidIn(log, PaidBy(agent, asset))
  /\ \A c \in Accounts, asset \in Assets :
       bal[<<c, asset>>] = PaidIn(log, PaidTo(c, asset, coll))

LEMMA MatchesPays ==
  ASSUME NEW bal, NEW log, NEW dep, NEW coll, Matches(bal, log, dep, coll),
         NEW from \in Agents, NEW to \in Accounts, NEW asset \in Assets, NEW r \in Settlement,
         r.agent = from, r.asset = asset, coll[<<r.serviceId, asset>>] = to,
         bal[<<from, asset>>] >= r.amount,
         NEW bal2, bal2 = [bal EXCEPT ![<<from, asset>>] = @ - r.amount,
                                      ![<<to, asset>>] = @ + r.amount]
  PROVE  Matches(bal2, Append(log, r), dep, coll)
<1>0. \A R : /\ PaidIn(Append(log, r), R) = PaidIn(log, R) + (IF r \in R THEN r.amount ELSE 0)
             /\ PaidIn(log, R) \in Nat
  <2>1. log \in Seq(Settlement)
    BY DEF Matches
  <2> QED BY <2>1, PaidInGrows, LogFinite
<1> USE DEF Matches
<1>1. from # to /\ from \notin Accounts /\ to \notin Agents /\ r.amount \in Nat
  BY TabSettlementAssumption, TabBookAssumption DEF Settlement, Amount
<1>2. /\ bal \in Balances /\ bal[<<from, asset>>] \in Nat /\ bal[<<to, asset>>] \in Nat
      /\ <<from, asset>> \in (Agents \cup Accounts) \X Assets
      /\ <<to, asset>> \in (Agents \cup Accounts) \X Assets
  BY DEF Balances
<1>3. bal[<<from, asset>>] - r.amount \in Nat /\ bal[<<to, asset>>] + r.amount \in Nat
  BY <1>1, <1>2
<1>4. bal2 \in Balances
  BY <1>2, <1>3 DEF Balances
<1>5. /\ bal2[<<from, asset>>] = bal[<<from, asset>>] - r.amount
      /\ bal2[<<to, asset>>] = bal[<<to, asset>>] + r.amount
      /\ \A k \in (Agents \cup Accounts) \X Assets :
           k # <<from, asset>> /\ k # <<to, asset>> => bal2[k] = bal[k]
  BY <1>1, <1>2 DEF Balances
<1>6. Append(log, r) \in Seq(Settlement)
  OBVIOUS
<1>7. ASSUME NEW agent \in Agents, NEW u \in Assets
      PROVE  Tokens + DepositsIn(dep, AttemptsIn(<<agent, u>>), {"delivered"}) =
               bal2[<<agent, u>>] + PaidIn(Append(log, r), PaidBy(agent, u))
  <2>1. /\ PaidIn(Append(log, r), PaidBy(agent, u)) =
             PaidIn(log, PaidBy(agent, u)) + (IF r \in PaidBy(agent, u) THEN r.amount ELSE 0)
        /\ PaidIn(log, PaidBy(agent, u)) \in Nat
    BY <1>0
  <2>2. r \in PaidBy(agent, u) <=> agent = from /\ u = asset
    BY DEF PaidBy
  <2>3. <<agent, u>> \in (Agents \cup Accounts) \X Assets /\ bal[<<agent, u>>] \in Nat
    BY DEF Balances
  <2>4. Tokens + DepositsIn(dep, AttemptsIn(<<agent, u>>), {"delivered"}) =
          bal[<<agent, u>>] + PaidIn(log, PaidBy(agent, u))
    OBVIOUS
  <2>5. CASE agent = from /\ u = asset
    BY <1>1, <1>2, <1>5, <2>1, <2>2, <2>4, <2>5
  <2>6. CASE ~(agent = from /\ u = asset)
    <3>1. <<agent, u>> # <<from, asset>> /\ <<agent, u>> # <<to, asset>>
      BY <1>1, <2>6
    <3>2. bal2[<<agent, u>>] = bal[<<agent, u>>]
      BY <1>5, <2>3, <3>1
    <3>3. PaidIn(Append(log, r), PaidBy(agent, u)) = PaidIn(log, PaidBy(agent, u))
      BY <2>1, <2>2, <2>6
    <3> QED BY <2>4, <3>2, <3>3
  <2> QED BY <2>5, <2>6
<1>8. ASSUME NEW c \in Accounts, NEW u \in Assets
      PROVE  bal2[<<c, u>>] = PaidIn(Append(log, r), PaidTo(c, u, coll))
  <2>1. /\ PaidIn(Append(log, r), PaidTo(c, u, coll)) =
             PaidIn(log, PaidTo(c, u, coll)) + (IF r \in PaidTo(c, u, coll) THEN r.amount ELSE 0)
        /\ PaidIn(log, PaidTo(c, u, coll)) \in Nat
    BY <1>0
  <2>2. r \in PaidTo(c, u, coll) <=> c = to /\ u = asset
    BY DEF PaidTo
  <2>3. /\ <<c, u>> \in (Agents \cup Accounts) \X Assets /\ bal[<<c, u>>] \in Nat
        /\ bal[<<c, u>>] = PaidIn(log, PaidTo(c, u, coll))
    BY DEF Balances
  <2>4. CASE c = to /\ u = asset
    BY <1>1, <1>2, <1>5, <2>1, <2>2, <2>3, <2>4
  <2>5. CASE ~(c = to /\ u = asset)
    <3>1. <<c, u>> # <<from, asset>> /\ <<c, u>> # <<to, asset>>
      BY <1>1, <2>5
    <3>2. bal2[<<c, u>>] = bal[<<c, u>>]
      BY <1>5, <2>3, <3>1
    <3>3. PaidIn(Append(log, r), PaidTo(c, u, coll)) = PaidIn(log, PaidTo(c, u, coll))
      BY <2>1, <2>2, <2>5
    <3> QED BY <2>3, <3>2, <3>3
  <2> QED BY <2>4, <2>5
<1> QED BY <1>4, <1>6, <1>7, <1>8

\* A deposit is delivered: the Agent holds so much more.
LEMMA MatchesDelivers ==
  ASSUME NEW bal, NEW log, NEW dep \in [Attempts -> DepositState], NEW coll,
         Matches(bal, log, dep, coll), NEW a0 \in Attempts, dep[a0].state # "delivered",
         NEW d \in DepositState, d.state = "delivered", NEW x, x = Account(TabOf[a0[1]]),
         NEW bal2, bal2 = [bal EXCEPT ![x] = @ + d.amount]
  PROVE  Matches(bal2, log, [dep EXCEPT ![a0] = d], coll)
<1> USE DEF Matches
<1>1. x \in Agents \X Assets /\ x = <<x[1], x[2]>> /\ d.amount \in Nat
  <2>1. TabOf[a0[1]] \in Tabs
    BY PaymentsAssumption DEF Attempts
  <2> QED BY <2>1 DEF Account, Tabs, DepositState
<1>2. bal \in Balances /\ x \in (Agents \cup Accounts) \X Assets /\ bal[x] \in Nat
  BY <1>1 DEF Balances
<1>3. /\ bal2 \in Balances /\ bal2[x] = bal[x] + d.amount
      /\ \A k \in (Agents \cup Accounts) \X Assets : k # x => bal2[k] = bal[k]
  BY <1>1, <1>2 DEF Balances
<1>4. ASSUME NEW agent \in Agents, NEW u \in Assets
      PROVE  Tokens + DepositsIn([dep EXCEPT ![a0] = d], AttemptsIn(<<agent, u>>), {"delivered"}) =
               bal2[<<agent, u>>] + PaidIn(log, PaidBy(agent, u))
  <2> DEFINE A == AttemptsIn(<<agent, u>>)
             new == [dep EXCEPT ![a0] = d]
  <2>1. /\ A \subseteq Attempts /\ (a0 \in A <=> <<agent, u>> = x)
    BY DEF AttemptsIn
  <2>2. /\ bal[<<agent, u>>] \in Nat /\ PaidIn(log, PaidBy(agent, u)) \in Nat
        /\ <<agent, u>> \in (Agents \cup Accounts) \X Assets
    BY LogFinite DEF Balances
  <2>3. /\ DepositsIn(dep, A, {"delivered"}) \in Nat /\ DepositsIn(new, A, {"delivered"}) \in Nat
        /\ DepositsIn(new, A, {"delivered"}) + Part(dep[a0], a0 \in A, {"delivered"}) =
             DepositsIn(dep, A, {"delivered"}) + Part(d, a0 \in A, {"delivered"})
    <3>1. /\ new \in [Attempts -> DepositState] /\ new[a0] = d
          /\ \A a \in Attempts \ {a0} : new[a] = dep[a]
      OBVIOUS
    <3> HIDE DEF A, new
    <3> QED BY <2>1, <3>1, DepositMoves
  <2>4. Tokens + DepositsIn(dep, A, {"delivered"}) =
          bal[<<agent, u>>] + PaidIn(log, PaidBy(agent, u))
    OBVIOUS
  <2>5. /\ Part(dep[a0], a0 \in A, {"delivered"}) = 0
        /\ Part(d, a0 \in A, {"delivered"}) = IF <<agent, u>> = x THEN d.amount ELSE 0
    BY <2>1 DEF Part
  <2>6. bal2[<<agent, u>>] = bal[<<agent, u>>] + (IF <<agent, u>> = x THEN d.amount ELSE 0)
    BY <1>3, <2>2
  <2>7. Tokens \in Nat
    BY TabSettlementAssumption
  <2>8. Tokens + DepositsIn(new, A, {"delivered"}) = bal2[<<agent, u>>] + PaidIn(log, PaidBy(agent, u))
    <3>1. d.amount \in Nat
      BY <1>1
    <3> HIDE DEF A, new
    <3>2. CASE <<agent, u>> = x
      <4>1. /\ Part(d, a0 \in A, {"delivered"}) = d.amount
            /\ bal2[<<agent, u>>] = bal[<<agent, u>>] + d.amount
        BY <2>5, <2>6, <3>2
      <4>2. DepositsIn(new, A, {"delivered"}) = DepositsIn(dep, A, {"delivered"}) + d.amount
        BY <2>3, <2>5, <4>1
      <4>3. PICK k \in Nat, m \in Nat, n \in Nat, b \in Nat, q \in Nat :
              /\ k = Tokens /\ m = DepositsIn(dep, A, {"delivered"}) /\ n = d.amount
              /\ b = bal[<<agent, u>>] /\ q = PaidIn(log, PaidBy(agent, u))
        BY <2>2, <2>3, <2>7, <3>1
      <4>4. k + m = b + q
        BY <2>4, <4>3
      <4>5. k + (m + n) = (b + n) + q
        BY <4>4
      <4> QED BY <4>1, <4>2, <4>3, <4>5
    <3>3. CASE <<agent, u>> # x
      BY <2>2, <2>3, <2>4, <2>5, <2>6, <2>7, <3>1, <3>3
    <3> QED BY <3>2, <3>3
  <2> QED BY <2>8
<1>5. ASSUME NEW c \in Accounts, NEW u \in Assets
      PROVE  bal2[<<c, u>>] = PaidIn(log, PaidTo(c, u, coll))
  <2>1. <<c, u>> # x /\ <<c, u>> \in (Agents \cup Accounts) \X Assets
    BY <1>1, TabSettlementAssumption
  <2> QED BY <1>3, <2>1
<1> QED BY <1>3, <1>4, <1>5

\* A deposit changes that was not delivered and is not.
LEMMA MatchesStays ==
  ASSUME NEW bal, NEW log, NEW dep \in [Attempts -> DepositState], NEW coll,
         Matches(bal, log, dep, coll), NEW a0 \in Attempts, dep[a0].state # "delivered",
         NEW d \in DepositState, d.state # "delivered"
  PROVE  Matches(bal, log, [dep EXCEPT ![a0] = d], coll)
<1> USE DEF Matches
<1>1. ASSUME NEW agent \in Agents, NEW u \in Assets
      PROVE  DepositsIn([dep EXCEPT ![a0] = d], AttemptsIn(<<agent, u>>), {"delivered"}) =
               DepositsIn(dep, AttemptsIn(<<agent, u>>), {"delivered"})
  <2> DEFINE A == AttemptsIn(<<agent, u>>)
             new == [dep EXCEPT ![a0] = d]
  <2>1. A \subseteq Attempts
    BY DEF AttemptsIn
  <2>2. /\ DepositsIn(dep, A, {"delivered"}) \in Nat /\ DepositsIn(new, A, {"delivered"}) \in Nat
        /\ DepositsIn(new, A, {"delivered"}) + Part(dep[a0], a0 \in A, {"delivered"}) =
             DepositsIn(dep, A, {"delivered"}) + Part(d, a0 \in A, {"delivered"})
    <3>1. /\ new \in [Attempts -> DepositState] /\ new[a0] = d
          /\ \A a \in Attempts \ {a0} : new[a] = dep[a]
      OBVIOUS
    <3> HIDE DEF A, new
    <3> QED BY <2>1, <3>1, DepositMoves
  <2>3. Part(dep[a0], a0 \in A, {"delivered"}) = 0 /\ Part(d, a0 \in A, {"delivered"}) = 0
    BY DEF Part
  <2> HIDE DEF A, new
  <2> QED BY <2>2, <2>3 DEF A, new
<1> QED BY <1>1
\* What the Agents have on the funding chain, by the deposits.
Purse(purse, dep) ==
  /\ purse \in [Agents -> Nat]
  /\ \A agent \in Agents :
       purse[agent] + DepositsIn(dep, AttemptsOf(agent), {"sent", "delivered"}) = FundingTokens

LEMMA PurseMoves ==
  ASSUME deposits \in [Attempts -> DepositState], deposits' \in [Attempts -> DepositState],
         Purse(funds, deposits), funds' \in [Agents -> Nat], NEW a0 \in Attempts,
         \A a \in Attempts \ {a0} : deposits'[a] = deposits[a],
         \A agent \in Agents : agent # AgentOf(a0[1]) => funds'[agent] = funds[agent],
         funds'[AgentOf(a0[1])] + Part(deposits'[a0], TRUE, {"sent", "delivered"}) =
           funds[AgentOf(a0[1])] + Part(deposits[a0], TRUE, {"sent", "delivered"})
  PROVE  Purse(funds', deposits')
<1> SUFFICES ASSUME NEW agent \in Agents
             PROVE  funds'[agent] + DepositsIn(deposits', AttemptsOf(agent), {"sent", "delivered"}) =
                      FundingTokens
  BY DEF Purse
<1> DEFINE own == AgentOf(a0[1])
           S == {"sent", "delivered"}
           A == AttemptsOf(agent)
<1>1. /\ A \subseteq Attempts /\ (a0 \in A <=> agent = own)
  BY DEF AttemptsOf
<1>2. funds[agent] \in Nat /\ funds'[agent] \in Nat /\ funds[agent] + DepositsIn(deposits, A, S) = FundingTokens
  BY DEF Purse
<1>3. Part(deposits'[a0], TRUE, S) \in Nat /\ Part(deposits[a0], TRUE, S) \in Nat
  BY DEF Part, DepositState
<1>4. /\ agent = own => /\ Part(deposits'[a0], a0 \in A, S) = Part(deposits'[a0], TRUE, S)
                        /\ Part(deposits[a0], a0 \in A, S) = Part(deposits[a0], TRUE, S)
      /\ agent # own => Part(deposits'[a0], a0 \in A, S) = 0 /\ Part(deposits[a0], a0 \in A, S) = 0
  BY <1>1 DEF Part
<1> HIDE DEF A, S, own
<1>5. /\ DepositsIn(deposits, A, S) \in Nat /\ DepositsIn(deposits', A, S) \in Nat
      /\ DepositsIn(deposits', A, S) + Part(deposits[a0], a0 \in A, S) =
           DepositsIn(deposits, A, S) + Part(deposits'[a0], a0 \in A, S)
  BY <1>1, DepositMoves
<1>6. funds'[agent] + DepositsIn(deposits', A, S) = FundingTokens
  <2>1. CASE agent = own
    <3>1. PICK p \in Nat, q \in Nat, m \in Nat, n \in Nat, k \in Nat, l \in Nat :
            /\ p = funds[own] /\ q = funds'[own]
            /\ m = Part(deposits[a0], TRUE, S) /\ n = Part(deposits'[a0], TRUE, S)
            /\ k = DepositsIn(deposits, A, S) /\ l = DepositsIn(deposits', A, S)
      BY <1>2, <1>3, <1>5, <2>1
    <3>2. q + n = p + m /\ l + m = k + n /\ p + k = FundingTokens
      BY <1>2, <1>4, <1>5, <2>1, <3>1 DEF S, own
    <3>3. q + l = FundingTokens
      BY <3>2
    <3> QED BY <2>1, <3>1, <3>3
  <2>2. CASE agent # own
    <3>1. DepositsIn(deposits', A, S) = DepositsIn(deposits, A, S)
      BY <1>4, <1>5, <2>2
    <3>2. funds'[agent] = funds[agent]
      BY <2>2 DEF own
    <3> QED BY <1>2, <3>1, <3>2
  <2> QED BY <2>1, <2>2
<1> QED BY <1>6 DEF A, S

-----------------------------------------------------------------------------
(* Deposits before and after they are sent.                                *)

\* Where the deposit of the current attempt is not sent yet.
Unfunded == {"idle", "calling", "metering", "declined", "settling", "depositing"}
Ahead(a) == a[2] > job[a[1]].attempt \/ (Current(a) /\ job[a[1]].stage \in Unfunded)

LEMMA AheadMoves ==
  ASSUME NEW j \in Jobs, \A k \in Jobs \ {j} : job'[k] = job[k],
         job[j].attempt \in {1, 2},
         \/ /\ job'[j].attempt = job[j].attempt
            /\ job'[j].stage \in Unfunded => job[j].stage \in Unfunded
         \/ job[j].attempt = 1 /\ job'[j].attempt = 2
  PROVE  \A a \in Attempts : Ahead(a)' => Ahead(a)
<1> SUFFICES ASSUME NEW a \in Attempts, Ahead(a)' PROVE Ahead(a)
  OBVIOUS
<1>1. a[1] \in Jobs /\ a[2] \in {1, 2}
  BY DEF Attempts
<1>2. CASE a[1] # j
  BY <1>1, <1>2 DEF Ahead, Current
<1>3. CASE a[1] = j
  BY <1>1, <1>3 DEF Ahead, Current
<1> QED BY <1>2, <1>3

LEMMA AnswerAhead ==
  ASSUME PayTypes, NEW j \in Jobs, NEW answer, Answer(j, answer)
  PROVE  \A a \in Attempts : Ahead(a)' => Ahead(a)
<1>1. /\ job \in [Jobs -> JobState] /\ job[j] \in JobState
      /\ job' = [job EXCEPT ![j] =
                   IF GoesAgain(j, answer)
                   THEN [job[j] EXCEPT !.stage = "calling", !.attempt = 2, !.declined = FALSE]
                   ELSE [job[j] EXCEPT !.stage = "over"]]
  BY DEF Answer, PayTypes
<1>2. CASE GoesAgain(j, answer)
  <2>1. job[j].attempt = 1 /\ \A k \in Jobs \ {j} : job'[k] = job[k]
    BY <1>1, <1>2 DEF GoesAgain
  <2>2. job'[j].attempt = 2
    BY <1>1, <1>2 DEF JobState
  <2> QED BY <2>1, <2>2, AheadMoves
<1>3. CASE ~GoesAgain(j, answer)
  <2>1. \A k \in Jobs \ {j} : job'[k] = job[k]
    BY <1>1, <1>3
  <2>2. job'[j].attempt = job[j].attempt /\ job'[j].stage = "over"
    BY <1>1, <1>3 DEF JobState
  <2>3. job'[j].stage \notin Unfunded /\ job[j].attempt \in {1, 2}
    BY <1>1, <2>2 DEF Unfunded, JobState
  <2> QED BY <2>1, <2>2, <2>3, AheadMoves
<1> QED BY <1>2, <1>3

LEMMA JobAhead ==
  ASSUME PayTypes, NEW j \in Jobs, CallStarts(j) \/ JobStep(j) \/ LosesReceipt(j)
  PROVE  \A a \in Attempts : Ahead(a)' => Ahead(a)
<1>1. job \in [Jobs -> JobState] /\ job[j] \in JobState /\ job[j].attempt \in {1, 2}
  BY DEF PayTypes, JobState
<1>2. CASE \E answer : Answer(j, answer)
  BY <1>2, AnswerAhead
<1>3. CASE \E stage : Goes(j, stage) /\ (stage \notin Unfunded \/ job[j].stage \in Unfunded)
  <2>1. PICK stage : Goes(j, stage) /\ (stage \notin Unfunded \/ job[j].stage \in Unfunded)
    BY <1>3
  <2>2. /\ \A k \in Jobs \ {j} : job'[k] = job[k]
        /\ job'[j].attempt = job[j].attempt /\ job'[j].stage = stage
    BY <1>1, <2>1 DEF Goes, JobState
  <2> QED BY <1>1, <2>1, <2>2, AheadMoves
<1>4. CASE Simulates(j) \/ Records(j) \/ ReadsOpen(j)
  <2>1. job[j].stage \in Unfunded
    BY <1>4 DEF Simulates, Records, ReadsOpen, Unfunded
  <2>2. ASSUME NEW stage, Goes(j, stage)
        PROVE  \A a \in Attempts : Ahead(a)' => Ahead(a)
    BY <1>3, <2>1, <2>2
  <2>3. ASSUME NEW stage, NEW amount,
               job' = [job EXCEPT ![j].stage = stage, ![j].amount = amount]
        PROVE  \A a \in Attempts : Ahead(a)' => Ahead(a)
    <3>1. /\ \A k \in Jobs \ {j} : job'[k] = job[k]
          /\ job'[j].attempt = job[j].attempt
      BY <1>1, <2>3 DEF JobState
    <3> QED BY <1>1, <2>1, <3>1, AheadMoves
  <2>4. ASSUME NEW stage, NEW declined, NEW amount,
               job' = [job EXCEPT ![j].stage = stage, ![j].declined = declined,
                                  ![j].amount = amount]
        PROVE  \A a \in Attempts : Ahead(a)' => Ahead(a)
    <3>1. /\ \A k \in Jobs \ {j} : job'[k] = job[k]
          /\ job'[j].attempt = job[j].attempt
      BY <1>1, <2>4 DEF JobState
    <3> QED BY <1>1, <2>1, <3>1, AheadMoves
  <2>5. CASE Simulates(j)
    BY <2>3, <2>5 DEF Simulates
  <2>6. CASE Records(j)
    <3>1. \/ Goes(j, "over")
          \/ job' = [job EXCEPT ![j].stage = "settling",
                                ![j].amount = AmountToSettle(job[j].amount)]
      BY <2>6, Zenon DEF Records
    <3> QED BY <2>2, <2>3, <3>1
  <2>7. CASE ReadsOpen(j)
    <3>1. PICK open, stage :
            job' = [job EXCEPT ![j].stage = stage, ![j].declined = TRUE,
                               ![j].amount = AmountToSettle(open)]
      BY <2>7, Zenon DEF ReadsOpen
    <3> QED BY <2>4, <3>1
  <2> QED BY <1>4, <2>5, <2>6, <2>7
<1> QED
  BY <1>2, <1>3, <1>4
     DEF CallStarts, LosesReceipt, JobStep, Declines, CallFails, Plan, Deposit, AwaitDelivery,
         EnsureAllowance, Approved, Sends, ReadsReceipt, ReadsReply, Posts, Unfunded
-----------------------------------------------------------------------------
(* The money is accounted for.                                             *)

\* What a batch would restore is accounted for as well.
MoneyInv ==
  /\ deposits \in [Attempts -> DepositState] /\ collections \in Collections
  /\ \A a \in Attempts : Ahead(a) => deposits[a].state \in {"none", "quoted"}
  /\ Purse(funds, deposits)
  /\ Matches(balances, settlements, deposits, collections)
  /\ batch # NoBatch =>
       Matches(batch.before.balances, batch.before.settlements, deposits, collections)

LEMMA MoneyStays ==
  ASSUME MoneyInv, UNCHANGED <<funds, deposits, balances, settlements, collections>>,
         batch' = batch \/ batch' = NoBatch,
         \A a \in Attempts : Ahead(a)' => Ahead(a)
  PROVE  MoneyInv'
<1>1. (batch' = batch /\ batch # NoBatch) \/ batch' = NoBatch
  OBVIOUS
<1> QED BY <1>1 DEF MoneyInv, Purse, Matches

\* A deposit that is not delivered, and is not now, changes.
LEMMA MoneyDeposits ==
  ASSUME MoneyInv, UNCHANGED <<balances, settlements, collections, batch>>,
         \A a \in Attempts : Ahead(a)' => Ahead(a),
         NEW a0 \in Attempts, NEW d \in DepositState, deposits' = [deposits EXCEPT ![a0] = d],
         deposits[a0].state # "delivered", d.state # "delivered",
         Ahead(a0)' => d.state \in {"none", "quoted"}, Purse(funds', deposits')
  PROVE  MoneyInv'
<1>1. /\ deposits \in [Attempts -> DepositState] /\ deposits' \in [Attempts -> DepositState]
      /\ \A a \in Attempts \ {a0} : deposits'[a] = deposits[a]
      /\ deposits'[a0] = d
  BY DEF MoneyInv
<1>2. \A a \in Attempts : Ahead(a)' => deposits'[a].state \in {"none", "quoted"}
  BY <1>1 DEF MoneyInv
<1>3. \A bal, log : Matches(bal, log, deposits, collections)
                      => Matches(bal, log, deposits', collections)
  BY <1>1, MatchesStays
<1>4. Matches(balances, settlements, deposits', collections)
  BY <1>3 DEF MoneyInv
<1>5. batch # NoBatch =>
        Matches(batch.before.balances, batch.before.settlements, deposits', collections)
  BY <1>3 DEF MoneyInv
<1> QED BY <1>1, <1>2, <1>4, <1>5 DEF MoneyInv, Purse, Matches

LEMMA PlanMoney ==
  ASSUME PayTypes, MoneyInv, NEW j \in Jobs, Plan(j), \A a \in Attempts : Ahead(a)' => Ahead(a)
  PROVE  MoneyInv'
<1>1. UNCHANGED <<funds, balances, settlements, collections, batch>>
  BY DEF Plan, railVars, vars, bookVars
<1>2. CASE UNCHANGED deposits
  BY <1>1, <1>2, MoneyStays
<1>3. CASE deposits' # deposits
  <2>1. PICK a0 \in Attempts : a0 = AttemptOf(j)
    BY AttemptIs
  <2> DEFINE short == AmountOf(j) - Held(j)
  <2>2. /\ job[j].stage = "settling" /\ Held(j) < AmountOf(j)
        /\ deposits' = [deposits EXCEPT ![a0] = [amount |-> AmountOut(short), state |-> "quoted"]]
    BY <1>3, <2>1 DEF Plan
  <2>3. AmountOut(short) \in Nat
    <3>1. AmountOf(j) \in Nat
      BY AttemptIs, TabBookAssumption DEF AmountOf, JobState, Amount
    <3>2. Held(j) \in Nat
      <4>1. <<AgentOf(j), TabOf[j][3]>> \in (Agents \cup Accounts) \X Assets
        BY PaymentsAssumption DEF AgentOf, Tabs
      <4> QED BY <4>1 DEF Held, MoneyInv, Matches, Balances
    <3>3. short \in Nat
      BY <2>2, <3>1, <3>2
    <3> HIDE DEF short
    <3> QED BY <3>3, PaymentsAssumption DEF AmountOut
  <2>4. PICK d \in DepositState :
          /\ deposits' = [deposits EXCEPT ![a0] = d]
          /\ d.state = "quoted"
    <3> DEFINE state == [amount |-> AmountOut(short), state |-> "quoted"]
    <3>1. state \in DepositState /\ state.state = "quoted" /\ deposits' = [deposits EXCEPT ![a0] = state]
      BY <2>2, <2>3 DEF DepositState
    <3> HIDE DEF state
    <3> QED BY <3>1
  <2>5. deposits[a0].state \in {"none", "quoted"}
    <3>1. Ahead(a0)
      BY <2>1, <2>2, AttemptIs DEF Ahead, Current, Unfunded
    <3> QED BY <3>1 DEF MoneyInv
  <2>6. Purse(funds', deposits')
    <3>1. /\ deposits \in [Attempts -> DepositState] /\ deposits' \in [Attempts -> DepositState]
          /\ \A a \in Attempts \ {a0} : deposits'[a] = deposits[a]
          /\ deposits'[a0].state = "quoted"
          /\ Purse(funds, deposits) /\ funds' = funds /\ funds' \in [Agents -> Nat]
      BY <1>1, <2>4 DEF MoneyInv, Purse
    <3>2. /\ Part(deposits'[a0], TRUE, {"sent", "delivered"}) = 0
          /\ Part(deposits[a0], TRUE, {"sent", "delivered"}) = 0
      BY <2>5, <3>1 DEF Part
    <3> QED BY <3>1, <3>2, PurseMoves
  <2> QED BY <1>1, <2>4, <2>5, <2>6, MoneyDeposits
<1> QED BY <1>2, <1>3

LEMMA DepositMoney ==
  ASSUME PayTypes, MoneyInv, NEW j \in Jobs, Deposit(j), \A a \in Attempts : Ahead(a)' => Ahead(a)
  PROVE  MoneyInv'
<1>1. UNCHANGED <<balances, settlements, collections, batch>>
  BY DEF Deposit, railVars, vars, bookVars
<1>2. CASE UNCHANGED <<funds, deposits>>
  BY <1>1, <1>2, MoneyStays
<1>3. PICK a0 \in Attempts : a0 = AttemptOf(j)
  BY AttemptIs
<1>4. a0[1] = j /\ a0[2] = job[j].attempt /\ AgentOf(j) \in Agents /\ job[j].attempt \in {1, 2}
  BY <1>3, AttemptIs DEF AgentOf, JobState
<1>5. CASE /\ funds[AgentOf(j)] >= deposits[a0].amount
           /\ funds' = [funds EXCEPT ![AgentOf(j)] = @ - deposits[a0].amount]
           /\ deposits' = [deposits EXCEPT ![a0].state = "sent"]
           /\ (Goes(j, "awaiting") /\ UNCHANGED told) \/ Answer(j, "unpaid")
  <2>1. /\ deposits \in [Attempts -> DepositState] /\ Purse(funds, deposits)
        /\ funds \in [Agents -> Nat]
        /\ deposits[a0].state \in {"none", "quoted"} /\ deposits[a0].amount \in Nat
    <3>1. Ahead(a0)
      BY <1>4 DEF Ahead, Current, Unfunded, Deposit
    <3> QED BY <3>1 DEF MoneyInv, Purse, DepositState
  <2>2. PICK d \in DepositState :
          /\ deposits' = [deposits EXCEPT ![a0] = d]
          /\ d.state = "sent" /\ d.amount = deposits[a0].amount
    <3>1. [deposits[a0] EXCEPT !.state = "sent"] \in DepositState
      BY <2>1 DEF DepositState
    <3>2. /\ [deposits[a0] EXCEPT !.state = "sent"].state = "sent"
          /\ [deposits[a0] EXCEPT !.state = "sent"].amount = deposits[a0].amount
      BY <2>1 DEF DepositState
    <3> QED BY <1>5, <3>1, <3>2
  <2>3. ~Ahead(a0)'
    <3>1. CASE Goes(j, "awaiting")
      <4>1. job'[j].attempt = job[j].attempt /\ job'[j].stage = "awaiting"
        BY <3>1, GoesMoves DEF EarlyStages
      <4> QED BY <1>4, <4>1 DEF Ahead, Current, Unfunded
    <3>2. CASE Answer(j, "unpaid")
      <4>1. Begun(a0)' /\ (job'[j].attempt = job[j].attempt \/ job'[j].attempt = 2)
        BY <1>3, <3>2, AnswerMoves
      <4> QED BY <1>4, <4>1 DEF Begun, Ahead, Current, Unfunded, EarlyStages
    <3> QED BY <1>5, <3>1, <3>2
  <2>4. Purse(funds', deposits')
    <3>1. /\ deposits' \in [Attempts -> DepositState]
          /\ \A a \in Attempts \ {a0} : deposits'[a] = deposits[a]
          /\ deposits'[a0] = d
      BY <2>1, <2>2
    <3>2. PICK own : own = AgentOf(a0[1])
      OBVIOUS
    <3>3. /\ own \in Agents /\ funds[own] >= deposits[a0].amount
          /\ funds' = [funds EXCEPT ![own] = @ - deposits[a0].amount]
      BY <1>4, <1>5, <3>2
    <3>4. /\ funds' \in [Agents -> Nat] /\ funds'[own] = funds[own] - deposits[a0].amount
          /\ \A agent \in Agents \ {own} : funds'[agent] = funds[agent]
      <4>1. funds[own] - deposits[a0].amount \in Nat
        BY <2>1, <3>3
      <4> QED BY <2>1, <3>3, <4>1
    <3>5. /\ Part(deposits'[a0], TRUE, {"sent", "delivered"}) = deposits[a0].amount
          /\ Part(deposits[a0], TRUE, {"sent", "delivered"}) = 0
      BY <2>1, <2>2, <3>1 DEF Part
    <3>6. funds'[own] + Part(deposits'[a0], TRUE, {"sent", "delivered"}) =
            funds[own] + Part(deposits[a0], TRUE, {"sent", "delivered"})
      <4>1. PICK n \in Nat, k \in Nat : n = funds[own] /\ k = deposits[a0].amount
        BY <2>1, <3>3
      <4>2. (n - k) + k = n + 0
        OBVIOUS
      <4> QED BY <3>4, <3>5, <4>1, <4>2
    <3> QED BY <2>1, <3>1, <3>2, <3>4, <3>6, PurseMoves
  <2> QED BY <1>1, <2>1, <2>2, <2>3, <2>4, MoneyDeposits
<1> QED BY <1>2, <1>3, <1>5 DEF Deposit

LEMMA DeliveryMoney ==
  ASSUME MoneyInv, NEW a0 \in Attempts, Delivers(a0)
  PROVE  MoneyInv'
<1> DEFINE amount == deposits[a0].amount
<1>1. PICK x : x = Account(TabOf[a0[1]])
  OBVIOUS
<1>2. /\ deposits[a0].state = "sent" /\ batch' = NoBatch
      /\ deposits' = [deposits EXCEPT ![a0].state = "delivered"]
      /\ balances' = [balances EXCEPT ![x] = @ + amount]
      /\ UNCHANGED <<funds, job, settlements, collections>>
  BY <1>1 DEF Delivers, vars, bookVars, jobVars
<1>3. /\ deposits \in [Attempts -> DepositState] /\ Purse(funds, deposits)
      /\ funds \in [Agents -> Nat] /\ amount \in Nat
      /\ Matches(balances, settlements, deposits, collections)
      /\ ~Ahead(a0)
  BY <1>2 DEF MoneyInv, Purse, DepositState
<1>4. PICK d \in DepositState :
        /\ deposits' = [deposits EXCEPT ![a0] = d]
        /\ d.state = "delivered" /\ d.amount = amount
  <2>1. [deposits[a0] EXCEPT !.state = "delivered"] \in DepositState
    BY <1>3 DEF DepositState
  <2>2. /\ [deposits[a0] EXCEPT !.state = "delivered"].state = "delivered"
        /\ [deposits[a0] EXCEPT !.state = "delivered"].amount = amount
    BY <1>3 DEF DepositState
  <2> QED BY <1>2, <2>1, <2>2
<1>5. /\ deposits' \in [Attempts -> DepositState] /\ deposits'[a0] = d
      /\ \A a \in Attempts \ {a0} : deposits'[a] = deposits[a]
  BY <1>3, <1>4
<1>6. Matches(balances', settlements, deposits', collections)
  <2>1. balances' = [balances EXCEPT ![x] = @ + d.amount] /\ deposits[a0].state # "delivered"
    BY <1>2, <1>4
  <2> QED BY <1>1, <1>3, <1>4, <2>1, MatchesDelivers
<1>7. Purse(funds', deposits')
  <2>1. Part(deposits'[a0], TRUE, {"sent", "delivered"}) =
          Part(deposits[a0], TRUE, {"sent", "delivered"})
    BY <1>2, <1>4, <1>5 DEF Part
  <2> QED BY <1>2, <1>3, <1>5, <2>1, PurseMoves
<1>8. \A a \in Attempts : Ahead(a)' => deposits'[a].state \in {"none", "quoted"}
  <2>1. \A a \in Attempts : Ahead(a)' <=> Ahead(a)
    BY <1>2 DEF Ahead, Current
  <2> QED BY <1>3, <1>5, <2>1 DEF MoneyInv
<1>9. collections' \in Collections
  BY <1>2 DEF MoneyInv
<1>10. Matches(balances, settlements, deposits, collections)'
  BY <1>2, <1>6 DEF Matches
<1>11. Purse(funds, deposits)'
  BY <1>7 DEF Purse
<1> HIDE DEF amount
<1> QED BY <1>2, <1>5, <1>8, <1>9, <1>10, <1>11 DEF MoneyInv

LEMMA RefundMoney ==
  ASSUME MoneyInv, NEW a0 \in Attempts, Refunds(a0)
  PROVE  MoneyInv'
<1> DEFINE amount == deposits[a0].amount
<1>1. PICK own : own = AgentOf(a0[1])
  OBVIOUS
<1>2. own \in Agents
  BY <1>1, PaymentsAssumption DEF AgentOf, Attempts, Tabs
<1>3. /\ deposits[a0].state = "sent"
      /\ deposits' = [deposits EXCEPT ![a0].state = "refunded"]
      /\ funds' = [funds EXCEPT ![own] = @ + amount]
      /\ UNCHANGED <<balances, job, settlements, collections, batch>>
  BY <1>1 DEF Refunds, railVars, vars, bookVars, jobVars
<1>4. /\ deposits \in [Attempts -> DepositState] /\ Purse(funds, deposits)
      /\ funds \in [Agents -> Nat] /\ amount \in Nat /\ ~Ahead(a0)
  BY <1>3 DEF MoneyInv, Purse, DepositState
<1>5. PICK d \in DepositState :
        deposits' = [deposits EXCEPT ![a0] = d] /\ d.state = "refunded"
  <2>1. [deposits[a0] EXCEPT !.state = "refunded"] \in DepositState
    BY <1>4 DEF DepositState
  <2>2. [deposits[a0] EXCEPT !.state = "refunded"].state = "refunded"
    BY <1>4 DEF DepositState
  <2> QED BY <1>3, <2>1, <2>2
<1>6. \A a \in Attempts : Ahead(a)' <=> Ahead(a)
  BY <1>3 DEF Ahead, Current
<1>7. Purse(funds', deposits')
  <2>1. /\ deposits' \in [Attempts -> DepositState] /\ deposits'[a0] = d
        /\ \A a \in Attempts \ {a0} : deposits'[a] = deposits[a]
    BY <1>4, <1>5
  <2>2. /\ funds' \in [Agents -> Nat] /\ funds'[own] = funds[own] + amount
        /\ \A agent \in Agents \ {own} : funds'[agent] = funds[agent]
    <3>1. funds[own] + amount \in Nat
      BY <1>2, <1>4
    <3> QED BY <1>2, <1>3, <1>4, <3>1
  <2>3. /\ Part(deposits'[a0], TRUE, {"sent", "delivered"}) = 0
        /\ Part(deposits[a0], TRUE, {"sent", "delivered"}) = amount
    BY <1>3, <1>5, <2>1 DEF Part
  <2>4. funds'[own] + Part(deposits'[a0], TRUE, {"sent", "delivered"}) =
          funds[own] + Part(deposits[a0], TRUE, {"sent", "delivered"})
    <3>1. PICK n \in Nat, k \in Nat : n = funds[own] /\ k = amount
      BY <1>2, <1>4
    <3>2. (n + k) + 0 = n + k
      OBVIOUS
    <3> QED BY <2>2, <2>3, <3>1, <3>2
  <2> QED BY <1>1, <1>4, <2>1, <2>2, <2>3, <2>4, PurseMoves
<1> QED BY <1>3, <1>4, <1>5, <1>6, <1>7, MoneyDeposits
\* A settlement moves the amount it enters in the book.
LEMMA PayMatches ==
  ASSUME TypeOK, MoneyInv, NEW t \in Tabs, NEW amount \in Amount, Pay(t, amount),
         UNCHANGED <<deposits, collections>>
  PROVE  Matches(balances', settlements', deposits', collections')
<1> DEFINE r == [agent |-> t[1], serviceId |-> t[2], asset |-> t[3], amount |-> amount,
                 applied |-> Applied(tabs[t], amount), settledAt |-> now]
<1>1. /\ t[1] \in Agents /\ t[2] \in Services /\ t[3] \in Assets /\ tabs[t] \in Tab
      /\ now \in Time /\ collections \in Collections
  BY TabBookAssumption DEF Tabs, TypeOK, MoneyInv, Time
<1>2. /\ collections[<<t[2], t[3]>>] # NoAccount /\ settlements' = Append(settlements, r)
      /\ balances[<<t[1], t[3]>>] >= amount
      /\ balances' = [balances EXCEPT ![<<t[1], t[3]>>] = @ - amount,
                                      ![<<collections[<<t[2], t[3]>>], t[3]>>] = @ + amount]
      /\ tabs[t].prepaid + (amount - Applied(tabs[t], amount)) <= MaxAmount
  BY DEF Pay, ApplySettlement, Transfer
<1>3. PICK from \in Agents, to \in Accounts, asset \in Assets :
        from = t[1] /\ to = collections[<<t[2], t[3]>>] /\ asset = t[3]
  BY <1>1, <1>2 DEF Collections
<1>4. Applied(tabs[t], amount) \in Amount
  <2>1. Applied(tabs[t], amount) \in 0 .. amount
    BY <1>1, <1>2, SettlementType
  <2> QED BY <2>1, TabBookAssumption DEF Amount
<1>5. /\ r \in Settlement /\ r.agent = from /\ r.asset = asset /\ r.amount = amount
      /\ collections[<<r.serviceId, asset>>] = to
  BY <1>1, <1>3, <1>4 DEF Settlement
<1>6. balances[<<from, asset>>] >= r.amount
  BY <1>2, <1>3
<1>7. balances' = [balances EXCEPT ![<<from, asset>>] = @ - r.amount,
                                   ![<<to, asset>>] = @ + r.amount]
  BY <1>2, <1>3
<1>8. settlements' = Append(settlements, r)
  BY <1>2
<1> HIDE DEF r
<1>9. Matches(balances', Append(settlements, r), deposits, collections)
  BY <1>5, <1>6, <1>7, MatchesPays DEF MoneyInv
<1> QED BY <1>8, <1>9

LEMMA PayMoney ==
  ASSUME TypeOK, MoneyInv, NEW t \in Tabs, NEW amount \in Amount, Pay(t, amount),
         UNCHANGED <<funds, deposits, job, collections>>,
         batch' = NoBatch \/ (batch # NoBatch /\ batch'.before = batch.before)
  PROVE  MoneyInv'
<1>1. Matches(balances', settlements', deposits', collections')
  BY PayMatches
<1>2. \A a \in Attempts : Ahead(a)' <=> Ahead(a)
  BY DEF Ahead, Current
<1>3. batch' # NoBatch =>
        Matches(batch'.before.balances, batch'.before.settlements, deposits', collections')
  BY DEF MoneyInv
<1> QED BY <1>1, <1>2, <1>3 DEF MoneyInv, Purse, Matches

\* What the others do on the tabs, a batch that is taken back included.
LEMMA DealMoney ==
  ASSUME TypeOK, BatchOK, PayTypes, MoneyInv, SettlementNext, UNCHANGED <<funds, deposits, job>>
  PROVE  MoneyInv'
<1>1. collections' = collections
  BY DEF SettlementNext, Settle, Sign, SettleWithPermit2, BatchBegins, BatchPays, BatchEnds,
         BatchReverts
<1>2. \A a \in Attempts : Ahead(a)' <=> Ahead(a)
  BY DEF Ahead, Current
<1>3. ASSUME NEW t \in Tabs, NEW amount \in Payments, Settle(t, amount)
      PROVE  MoneyInv'
  <2>1. amount \in Amount /\ Pay(t, amount) /\ batch' = NoBatch
    BY <1>3, TabSettlementAssumption DEF Settle
  <2> QED BY <1>1, <2>1, PayMoney
<1>4. ASSUME NEW p \in Permit, SettleWithPermit2(p)
      PROVE  MoneyInv'
  <2>1. PICK t \in Tabs, amount \in Amount : t = <<p.agent, p.serviceId, p.asset>> /\ amount = p.amount
    BY TabSettlementAssumption DEF Permit, Tabs
  <2>2. Pay(t, amount) /\ batch' = NoBatch
    BY <1>4, <2>1 DEF SettleWithPermit2
  <2> QED BY <1>1, <2>2, PayMoney
<1>5. ASSUME NEW p, Sign(p)
      PROVE  MoneyInv'
  <2>1. UNCHANGED <<balances, settlements, batch>>
    BY <1>5 DEF Sign, vars, bookVars
  <2> QED BY <1>1, <1>2, <2>1, MoneyStays
<1>6. ASSUME NEW agent, NEW instructions, BatchBegins(agent, instructions)
      PROVE  MoneyInv'
  <2>1. /\ UNCHANGED <<balances, settlements>> /\ batch'.before = Ledger
    BY <1>6 DEF BatchBegins, vars, bookVars
  <2>2. batch'.before.balances = balances /\ batch'.before.settlements = settlements
    BY <2>1 DEF Ledger
  <2>3. Matches(balances, settlements, deposits, collections)
    BY DEF MoneyInv
  <2> QED BY <1>1, <1>2, <2>1, <2>2, <2>3 DEF MoneyInv, Purse, Matches
<1>7. CASE BatchPays
  <2>1. batch # NoBatch /\ batch.rest # <<>> /\ batch' = [batch EXCEPT !.rest = Tail(@)]
    BY <1>7 DEF BatchPays
  <2>2. batch.agent \in Agents /\ batch.rest \in Seq(Instructions)
    BY <2>1 DEF BatchOK
  <2>3. PICK i \in Instructions : i = Head(batch.rest)
    BY <2>1, <2>2
  <2>4. PICK t \in Tabs, amount \in Amount :
          t = <<batch.agent, i.serviceId, i.asset>> /\ amount = i.amount
    BY <2>2, TabSettlementAssumption DEF Instructions, Tabs
  <2>5. Pay(t, amount)
    BY <1>7, <2>3, <2>4 DEF BatchPays
  <2>6. batch'.before = batch.before
    BY <2>1
  <2> QED BY <1>1, <2>1, <2>5, <2>6, PayMoney
<1>8. CASE BatchEnds
  <2>1. UNCHANGED <<balances, settlements>> /\ batch' = NoBatch
    BY <1>8 DEF BatchEnds, vars, bookVars
  <2> QED BY <1>1, <1>2, <2>1, MoneyStays
<1>9. CASE BatchReverts
  <2>1. /\ batch # NoBatch /\ batch' = NoBatch
        /\ balances' = batch.before.balances /\ settlements' = batch.before.settlements
    BY <1>9 DEF BatchReverts, Restored
  <2>2. Matches(batch.before.balances, batch.before.settlements, deposits, collections)
    BY <2>1 DEF MoneyInv
  <2> QED BY <1>1, <1>2, <2>1, <2>2 DEF MoneyInv, Purse, Matches
<1>10. CASE /\ BookCall \/ Tick
            /\ batch = NoBatch
            /\ UNCHANGED <<balances, collections, permitVars, batch>>
  <2>1. settlements' = settlements
    BY <1>10, CallsPayNothing
  <2> QED BY <1>1, <1>2, <1>10, <2>1, MoneyStays
<1> QED BY <1>3, <1>4, <1>5, <1>6, <1>7, <1>8, <1>9, <1>10 DEF SettlementNext
LEMMA MoneyInit == PaymentsInit => MoneyInv
<1> SUFFICES ASSUME PaymentsInit PROVE MoneyInv
  OBVIOUS
<1> USE DEF PaymentsInit, SettlementInit
<1>1. deposits \in [Attempts -> DepositState] /\ collections \in Collections
  BY DEF DepositState, Collections
<1>2. \A A, states : "none" \notin states /\ A \subseteq Attempts
                       => DepositsIn(deposits, A, states) = 0
  <2> SUFFICES ASSUME NEW A, NEW states, "none" \notin states, A \subseteq Attempts
               PROVE  DepositsIn(deposits, A, states) = 0
    OBVIOUS
  <2>1. {a \in A : deposits[a].state \in states} = {}
    OBVIOUS
  <2> QED BY <2>1, SumOfZeros DEF DepositsIn
<1>3. \A R : PaidIn(settlements, R) = 0
  <2>1. \A R : {i \in DOMAIN settlements : settlements[i] \in R} = {}
    BY DEF Init
  <2> QED BY <2>1, SumOfZeros DEF PaidIn
<1>4. Purse(funds, deposits)
  <2>1. \A agent : DepositsIn(deposits, AttemptsOf(agent), {"sent", "delivered"}) = 0
    BY <1>2 DEF AttemptsOf
  <2> QED BY <2>1, PaymentsAssumption DEF Purse
<1>5. Matches(balances, settlements, deposits, collections)
  <2>1. balances \in Balances /\ settlements \in Seq(Settlement)
    BY TabSettlementAssumption DEF Init, Balances
  <2>2. \A x : DepositsIn(deposits, AttemptsIn(x), {"delivered"}) = 0
    BY <1>2 DEF AttemptsIn
  <2>3. \A agent \in Agents, asset \in Assets : balances[<<agent, asset>>] = Tokens
    OBVIOUS
  <2>4. \A c \in Accounts, asset \in Assets : balances[<<c, asset>>] = 0
    BY TabSettlementAssumption
  <2>5. \A agent \in Agents, asset \in Assets :
          Tokens + DepositsIn(deposits, AttemptsIn(<<agent, asset>>), {"delivered"}) =
            balances[<<agent, asset>>] + PaidIn(settlements, PaidBy(agent, asset))
    BY <1>3, <2>2, <2>3
  <2>6. \A c \in Accounts, asset \in Assets :
          balances[<<c, asset>>] = PaidIn(settlements, PaidTo(c, asset, collections))
    BY <1>3, <2>4
  <2> QED BY <2>1, <2>5, <2>6 DEF Matches
<1>6. \A a \in Attempts : deposits[a].state = "none"
  OBVIOUS
<1> QED BY <1>1, <1>4, <1>5, <1>6 DEF MoneyInv

LEMMA MoneyStep == AnswersInv /\ MoneyInv /\ [PaymentsNext]_payVars => MoneyInv'
<1> SUFFICES ASSUME AnswersInv, MoneyInv, [PaymentsNext]_payVars PROVE MoneyInv'
  OBVIOUS
<1>1. TypeOK /\ BatchOK /\ PayTypes
  BY DEF AnswersInv, SettlementInv1, IInv, Kept
<1>2. ASSUME NEW j \in Jobs, CallStarts(j) \/ JobStep(j) \/ LosesReceipt(j)
      PROVE  MoneyInv'
  <2>1. \A a \in Attempts : Ahead(a)' => Ahead(a)
    BY <1>1, <1>2, JobAhead
  <2>2. CASE Plan(j)
    BY <1>1, <2>1, <2>2, PlanMoney
  <2>3. CASE Deposit(j)
    BY <1>1, <2>1, <2>3, DepositMoney
  <2>4. CASE UNCHANGED <<funds, deposits, balances, settlements, collections, batch>>
    BY <2>1, <2>4, MoneyStays
  <2> QED BY <1>2, <2>2, <2>3, <2>4
          DEF CallStarts, LosesReceipt, JobStep, Simulates, Declines, ReadsOpen, CallFails,
              AwaitDelivery, EnsureAllowance, Approved, Sends, ReadsReceipt, ReadsReply,
              Records, RecordDelivery, Posts, Sign, railVars, vars, bookVars, walletVars
<1>3. \A a \in Attempts : job' = job => (Ahead(a)' <=> Ahead(a))
  BY DEF Ahead, Current
<1>4. CASE MineApprove
  <2>1. UNCHANGED <<funds, deposits, balances, settlements, collections, batch, job>>
    BY <1>4 DEF MineApprove, railVars, vars, bookVars, jobVars
  <2> QED BY <1>3, <2>1, MoneyStays
<1>5. CASE MineSettle
  <2>1. PICK tx \in Transaction : tx = Head(wire)
    <3>1. wire # <<>> /\ wire \in Seq(Transaction)
      BY <1>1, <1>5 DEF MineSettle, PayTypes
    <3> QED BY <3>1
  <2>2. PICK t \in Tabs, amount \in Amount : t = TabOf[tx.of[1]] /\ amount = tx.amount
    BY PaymentsAssumption DEF Transaction, Attempts
  <2>3. UNCHANGED <<funds, deposits, job>>
    BY <1>5 DEF MineSettle, jobVars
  <2>4. CASE Pay(t, amount) /\ collections' = collections /\ batch' = NoBatch
    BY <1>1, <2>3, <2>4, PayMoney
  <2>5. CASE UNCHANGED <<balances, settlements, collections, batch>>
    BY <1>3, <2>3, <2>5, MoneyStays
  <2> QED BY <1>5, <2>1, <2>2, <2>4, <2>5 DEF MineSettle, railVars, vars, bookVars
<1>6. ASSUME NEW a \in Attempts, Delivers(a) \/ Refunds(a) \/ Relays(a[1], a[2])
      PROVE  MoneyInv'
  <2>1. CASE Relays(a[1], a[2])
    <3>1. PICK p \in signed : SettleWithPermit2(p)
      BY <2>1 DEF Relays
    <3>2. PICK t \in Tabs, amount \in Amount :
            t = <<p.agent, p.serviceId, p.asset>> /\ amount = p.amount
      BY <1>1, SignedPays
    <3>3. /\ Pay(t, amount) /\ batch' = NoBatch
          /\ UNCHANGED <<funds, deposits, job, collections>>
      BY <2>1, <3>1, <3>2 DEF Relays, SettleWithPermit2, walletVars, jobVars
    <3> QED BY <1>1, <3>3, PayMoney
  <2> QED BY <1>6, <2>1, DeliveryMoney, RefundMoney
<1>7. CASE Dealing(SettlementNext)
  <2>1. SettlementNext /\ UNCHANGED <<funds, deposits, job>>
    BY <1>7 DEF Dealing, walletVars, jobVars
  <2> QED BY <1>1, <2>1, DealMoney
<1>8. CASE UNCHANGED payVars
  <2>1. UNCHANGED <<funds, deposits, balances, settlements, collections, batch, job>>
    BY <1>8 DEF payVars, railVars, vars, bookVars, walletVars, jobVars
  <2> QED BY <1>3, <2>1, MoneyStays
<1> QED BY <1>2, <1>4, <1>5, <1>6, <1>7, <1>8 DEF PaymentsNext, Mine, External

\* No money is lost or made: on the funding chain, with the Agents and with the
\* Collection addresses, whatever is given up on, late, taken back or paid twice.
THEOREM MoneyBalances == PaymentsSpec => []MoneyIsAccountedFor
<1>1. AnswersInv /\ MoneyInv => MoneyIsAccountedFor
  <2> SUFFICES ASSUME AnswersInv, MoneyInv PROVE MoneyIsAccountedFor
    OBVIOUS
  <2> DEFINE f == [i \in DOMAIN settlements |-> settlements[i].amount]
  <2>1. settlements \in Seq(Settlement) /\ balances \in Balances
    BY DEF MoneyInv, Matches
  <2>2. \A i \in DOMAIN settlements : settlements[i] \in Settlement
    BY <2>1
  <2>3. ASSUME NEW agent \in Agents
        PROVE  funds[agent] + Deposited(AttemptsOf(agent), {"sent", "delivered"}) = FundingTokens
    BY DEF MoneyInv, Purse, Deposited, DepositsIn
  <2>4. ASSUME NEW agent \in Agents, NEW asset \in Assets
        PROVE  Tokens + Deposited(AttemptsIn(<<agent, asset>>), {"delivered"})
                 - balances[<<agent, asset>>] =
                 SumOf({i \in DOMAIN settlements :
                          settlements[i].agent = agent /\ settlements[i].asset = asset}, f)
    <3>1. {i \in DOMAIN settlements :
             settlements[i].agent = agent /\ settlements[i].asset = asset} =
          {i \in DOMAIN settlements : settlements[i] \in PaidBy(agent, asset)}
      BY <2>2 DEF PaidBy
    <3>2. PICK k \in Nat, m \in Nat, n \in Nat :
            /\ k = balances[<<agent, asset>>] /\ m = PaidIn(settlements, PaidBy(agent, asset))
            /\ n = Deposited(AttemptsIn(<<agent, asset>>), {"delivered"})
      <4>1. /\ balances[<<agent, asset>>] \in Nat
            /\ PaidIn(settlements, PaidBy(agent, asset)) \in Nat
        BY <2>1, LogFinite DEF Balances
      <4>2. DepositsIn(deposits, AttemptsIn(<<agent, asset>>), {"delivered"}) \in Nat
        BY DepositsFinite DEF MoneyInv, AttemptsIn
      <4> QED BY <4>1, <4>2 DEF Deposited, DepositsIn
    <3>3. Tokens + n = k + m /\ Tokens \in Nat
      BY <3>2, TabSettlementAssumption DEF MoneyInv, Matches, Deposited, DepositsIn
    <3>4. Tokens + (n - k) = m
      BY <3>3
    <3>5. SumOf({i \in DOMAIN settlements :
                   settlements[i].agent = agent /\ settlements[i].asset = asset}, f) = m
      BY <3>1, <3>2 DEF PaidIn
    <3>6. Tokens + Deposited(AttemptsIn(<<agent, asset>>), {"delivered"})
            - balances[<<agent, asset>>] = m
      BY <3>2, <3>4
    <3> QED BY <3>5, <3>6
  <2>5. ASSUME NEW c \in Accounts, NEW asset \in Assets
        PROVE  balances[<<c, asset>>] =
                 SumOf({i \in DOMAIN settlements :
                          settlements[i].asset = asset
                            /\ collections[<<settlements[i].serviceId, asset>>] = c}, f)
    <3>1. {i \in DOMAIN settlements :
             settlements[i].asset = asset
               /\ collections[<<settlements[i].serviceId, asset>>] = c} =
          {i \in DOMAIN settlements : settlements[i] \in PaidTo(c, asset, collections)}
      BY <2>2 DEF PaidTo
    <3> QED BY <3>1 DEF MoneyInv, Matches, PaidIn
  <2> QED BY <2>3, <2>4, <2>5 DEF MoneyIsAccountedFor, PaidOf
<1> QED BY AnswersInit, AnswersStep, MoneyInit, MoneyStep, <1>1, PTL DEF PaymentsSpec
-----------------------------------------------------------------------------
(* A call that is alone settles exactly.                                   *)

\* What the wallet has sent is of a current attempt, at the figure of its call.
WireOK ==
  \A i \in DOMAIN wire :
    LET a == wire[i].of
    IN  /\ Current(a) /\ wire[i].amount = AmountOf(a[1])
        /\ wire[i].kind = "approve" => job[a[1]].stage \in {"approving", "over"}
        /\ wire[i].kind = "settle" => job[a[1]].stage \in {"sent", "over"}

\* So is what was posted, unless its attempt has been paid.
PostOK(p) ==
  LET j == p.nonce[1]
  IN  /\ <<p.agent, p.serviceId, p.asset>> = TabOf[j]
      /\ Current(p.nonce) => p.amount = AmountOf(j) /\ job[j].stage \in {"posted", "over"}
      /\ ~Current(p.nonce) => WasPaid(p.nonce)

PostsOK == \A p \in signed : p.nonce \in Attempts => PostOK(p)

PastFunding == {"funded", "approving", "allowed"}
Pending(a) == Flying(a) \/ (HasSigned(a) /\ ~WasPaid(a))

\* The figure of a call is what its tab is about to owe, or owes; there is enough
\* of the Asset; and there is enough allowed.
Meters(j) == job[j].stage = "metering"
Decided(j) ==
  job[j].stage \in {"settling", "depositing", "awaiting"} \cup PastFunding \/ Pending(AttemptOf(j))
Funded(j) == job[j].stage \in PastFunding \/ Flying(AttemptOf(j))
CanSpend(j) ==
  \/ job[j].stage = "allowed"
  \/ job[j].stage = "approving" /\ ~InFlight("approve", j)
  \/ Flying(AttemptOf(j))

ExactOK(j) ==
  LET t == TabOf[j] IN
  j \notin touched =>
    /\ Meters(j) => AmountOf(j) = tabs[t].open + ToOpen(tabs[t], Charge(t))
    /\ Decided(j) => AmountOf(j) = tabs[t].open /\ AmountOf(j) > 0
    /\ Funded(j) => balances[Account(t)] >= AmountOf(j)
    /\ CanSpend(j) => allowance[Account(t)] >= AmountOf(j)

\* The inductive invariant of the exactness.
ExactInv ==
  allowance \in [AgentAssets -> Nat] /\ WireOK /\ PostsOK /\ \A j \in Jobs : ExactOK(j)

\* No step but a settlement, a delivery or a batch taken back moves these, and a
\* call that none of them moves for keeps what it claims; what it claims anew holds.
LEMMA ExactMoves ==
  ASSUME NEW j \in Jobs, ExactOK(j),
         j \notin touched' =>
           /\ j \notin touched /\ AmountOf(j)' = AmountOf(j)
           /\ tabs'[TabOf[j]] = tabs[TabOf[j]] /\ Charge(TabOf[j])' = Charge(TabOf[j])
           /\ balances'[Account(TabOf[j])] = balances[Account(TabOf[j])]
           /\ allowance'[Account(TabOf[j])] = allowance[Account(TabOf[j])],
         Meters(j)' => Meters(j), Decided(j)' => Decided(j),
         Funded(j)' => Funded(j) \/ balances[Account(TabOf[j])] >= AmountOf(j),
         CanSpend(j)' => CanSpend(j) \/ allowance[Account(TabOf[j])] >= AmountOf(j)
  PROVE  ExactOK(j)'
<1> SUFFICES ASSUME j \notin touched' PROVE ExactOK(j)'
  BY DEF ExactOK
<1>1. ToOpen(tabs[TabOf[j]], Charge(TabOf[j]))' = ToOpen(tabs[TabOf[j]], Charge(TabOf[j]))
  BY DEF ToOpen, FromPrepaid
<1> QED BY <1>1 DEF ExactOK

\* The attempt of a call that has not sent or signed anything yet.
LEMMA NothingPends ==
  ASSUME Kept, NEW a \in Attempts, ~Begun(a)
  PROVE  ~Flying(a) /\ ~HasSigned(a) /\ ~Pending(a)
BY DEF Kept, AttemptsOK, AttemptOK, Pending

NothingSent(j) == \A i \in DOMAIN wire : wire[i].of[1] # j

\* Nothing of a call is on the wire but what its stage says.
LEMMA SendsNothingYet ==
  ASSUME PayTypes, WireOK, NEW j \in Jobs, job[j].stage # "over",
         job[j].stage # "approving" \/ ~InFlight("approve", j),
         job[j].stage # "sent" \/ ~InFlight("settle", j)
  PROVE  NothingSent(j)
<1> SUFFICES ASSUME NEW i \in DOMAIN wire, wire[i].of[1] = j PROVE FALSE
  BY DEF NothingSent
<1>1. wire[i] \in Transaction
  BY DEF PayTypes
<1>2. wire[i].kind \in {"approve", "settle"} /\ wire[i].of \in Attempts
  BY <1>1 DEF Transaction
<1>3. wire[i].of = AttemptOf(j)
  BY <1>2 DEF WireOK, Current, AttemptOf, Attempts
<1> QED BY <1>2, <1>3 DEF WireOK, InFlight

\* A step of a call keeps the wire in order.
LEMMA WireMoves ==
  ASSUME PayTypes, WireOK, NEW j \in Jobs, \A k \in Jobs \ {j} : job'[k] = job[k],
         \/ NothingSent(j)
         \/ job'[j].attempt = job[j].attempt /\ job'[j].amount = job[j].amount
              /\ job'[j].stage = "over",
         \/ wire' = wire
         \/ \E kind \in {"approve", "settle"} :
              /\ wire' = Sent(kind, j)
              /\ job'[j].attempt = job[j].attempt /\ job'[j].amount = job[j].amount
              /\ job'[j].stage \in IF kind = "approve" THEN {"approving", "over"}
                                                       ELSE {"sent", "over"}
  PROVE  WireOK'
<1> DEFINE Fits(tx) ==
      /\ tx.of[2] = job'[tx.of[1]].attempt /\ tx.amount = job'[tx.of[1]].amount
      /\ tx.kind = "approve" => job'[tx.of[1]].stage \in {"approving", "over"}
      /\ tx.kind = "settle" => job'[tx.of[1]].stage \in {"sent", "over"}
<1>1. ASSUME NEW i \in DOMAIN wire
      PROVE  Fits(wire[i])
  <2>1. wire[i] \in Transaction
    BY DEF PayTypes
  <2>2. wire[i].of[1] \in Jobs
    BY <2>1 DEF Transaction, Attempts
  <2>3. CASE wire[i].of[1] # j
    BY <2>2, <2>3 DEF WireOK, Current, AmountOf
  <2>4. CASE wire[i].of[1] = j
    BY <2>4 DEF WireOK, Current, AmountOf, NothingSent
  <2> QED BY <2>3, <2>4
<1>2. CASE wire' = wire
  BY <1>1, <1>2 DEF WireOK, Current, AmountOf
<1>3. ASSUME NEW kind \in {"approve", "settle"},
             wire' = Sent(kind, j),
             job'[j].attempt = job[j].attempt /\ job'[j].amount = job[j].amount,
             job'[j].stage \in IF kind = "approve" THEN {"approving", "over"}
                                                   ELSE {"sent", "over"}
      PROVE  WireOK'
  <2> DEFINE tx == [kind |-> kind, of |-> AttemptOf(j), amount |-> AmountOf(j)]
  <2>1. Fits(tx)
    BY <1>3 DEF Current, AmountOf, AttemptOf
  <2>2. wire' = Append(wire, tx) /\ wire \in Seq(Transaction)
    BY <1>3 DEF Sent, PayTypes
  <2> HIDE DEF tx, Fits
  <2>3. \A i \in DOMAIN wire' : (i \in DOMAIN wire /\ wire'[i] = wire[i]) \/ wire'[i] = tx
    BY <2>2
  <2>4. \A i \in DOMAIN wire' : Fits(wire'[i])
    BY <1>1, <2>1, <2>3
  <2> QED BY <2>4 DEF WireOK, Fits, Current, AmountOf
<1> QED BY <1>2, <1>3

\* So do its posts, and what it posts.
LEMMA PostsMove ==
  ASSUME Kept, PostsOK, NEW j \in Jobs, \A k \in Jobs \ {j} : job'[k] = job[k],
         UNCHANGED paidFor,
         job'[j].attempt = job[j].attempt \/ job'[j].attempt = 2,
         \/ ~HasSigned(AttemptOf(j))
         \/ job'[j].attempt = job[j].attempt /\ job'[j].amount = job[j].amount
              /\ job'[j].stage = "over"
         \/ job'[j].attempt # job[j].attempt /\ WasPaid(AttemptOf(j)),
         \/ signed' = signed
         \/ \E p : /\ signed' = signed \cup {p} /\ p.nonce = AttemptOf(j)
                   /\ <<p.agent, p.serviceId, p.asset>> = TabOf[j]
                   /\ p.amount = job'[j].amount
                   /\ job'[j].attempt = job[j].attempt /\ job'[j].stage = "posted"
  PROVE  PostsOK'
<1>1. /\ AttemptOf(j) = <<j, job[j].attempt>> /\ job[j].attempt \in {1, 2}
      /\ AttemptOf(j)' = <<j, job'[j].attempt>>
  BY AttemptIs DEF Kept, AttemptOf, JobState
<1>2. \A a : WasPaid(a)' <=> WasPaid(a)
  BY DEF WasPaid
<1>3. ASSUME NEW p \in signed, p.nonce \in Attempts
      PROVE  PostOK(p)'
  <2>1. PostOK(p) /\ HasSigned(p.nonce) /\ p.nonce = <<p.nonce[1], p.nonce[2]>>
        /\ p.nonce[1] \in Jobs /\ p.nonce[2] \in {1, 2}
    BY <1>3 DEF PostsOK, HasSigned, Attempts
  <2>2. CASE p.nonce[1] # j
    BY <1>2, <2>1, <2>2 DEF PostOK, Current, AmountOf
  <2>3. CASE p.nonce = AttemptOf(j)
    BY <1>1, <1>2, <2>1, <2>3 DEF PostOK, Current, AmountOf
  <2>4. CASE p.nonce[1] = j /\ p.nonce # AttemptOf(j)
    <3>1. ~Current(p.nonce) /\ WasPaid(p.nonce)
      BY <1>1, <2>1, <2>4 DEF PostOK, Current
    <3>2. Begun(p.nonce)
      BY <1>3, <2>1, NothingPends
    <3>3. ~Current(p.nonce)'
      BY <1>1, <2>1, <2>4, <3>1, <3>2 DEF Begun, Current
    <3> QED BY <1>2, <2>1, <3>1, <3>3 DEF PostOK
  <2> QED BY <1>1, <2>1, <2>2, <2>3, <2>4
<1>4. ASSUME NEW p,
             p.nonce = AttemptOf(j), <<p.agent, p.serviceId, p.asset>> = TabOf[j],
             p.amount = job'[j].amount,
             job'[j].attempt = job[j].attempt, job'[j].stage = "posted"
      PROVE  PostOK(p)'
  BY <1>1, <1>4 DEF PostOK, Current, AmountOf
<1> QED BY <1>3, <1>4 DEF PostsOK

OnWire(kind, a) == \E i \in DOMAIN wire : wire[i].kind = kind /\ wire[i].of = a

LEMMA OnWireIs ==
  /\ \A a : Flying(a) <=> OnWire("settle", a)
  /\ \A kind, j : InFlight(kind, j) <=> OnWire(kind, AttemptOf(j))
BY DEF Flying, InFlight, OnWire

\* What is sent is on the wire, and nothing else comes there.
LEMMA SendsOn ==
  ASSUME PayTypes, NEW j \in Jobs, NEW kind, wire' = Sent(kind, j)
  PROVE  \A what, a : OnWire(what, a)' <=> OnWire(what, a) \/ (what = kind /\ a = AttemptOf(j))
<1> DEFINE tx == [kind |-> kind, of |-> AttemptOf(j), amount |-> AmountOf(j)]
<1>1. wire' = Append(wire, tx) /\ wire \in Seq(Transaction)
  BY DEF Sent, PayTypes
<1>2. tx.kind = kind /\ tx.of = AttemptOf(j)
  OBVIOUS
<1> HIDE DEF tx
<1>3. /\ DOMAIN wire' = DOMAIN wire \cup {Len(wire) + 1} /\ wire'[Len(wire) + 1] = tx
      /\ \A i \in DOMAIN wire : wire'[i] = wire[i]
  BY <1>1
<1> QED BY <1>2, <1>3 DEF OnWire

\* A step of a call leaves the claims of the others alone.
LEMMA OthersClaims ==
  ASSUME PayTypes, NEW j \in Jobs, NEW k \in Jobs \ {j}, job'[k] = job[k], ExactOK(k),
         UNCHANGED <<prices, balances, allowance, paidFor>>,
         wire' = wire \/ \E kind : wire' = Sent(kind, j),
         \A p : p.nonce # AttemptOf(j) => (p \in signed' <=> p \in signed),
         k \notin touched' => k \notin touched /\ tabs'[TabOf[k]] = tabs[TabOf[k]]
  PROVE  ExactOK(k)'
<1>1. AttemptOf(k)' = AttemptOf(k) /\ AttemptOf(k) # AttemptOf(j)
  BY DEF AttemptOf
<1>2. \A what : OnWire(what, AttemptOf(k))' <=> OnWire(what, AttemptOf(k))
  <2>1. CASE wire' = wire
    BY <1>1, <2>1 DEF OnWire
  <2>2. ASSUME NEW kind, wire' = Sent(kind, j)
        PROVE  \A what : OnWire(what, AttemptOf(k))' <=> OnWire(what, AttemptOf(k))
    <3> DEFINE b == AttemptOf(k)
    <3>1. \A what : OnWire(what, b)' <=> OnWire(what, b)
      <4>1. b' = b /\ b # AttemptOf(j)
        BY <1>1
      <4> HIDE DEF b
      <4> QED BY <2>2, <4>1, SendsOn DEF OnWire
    <3> QED BY <3>1
  <2> QED BY <2>1, <2>2
<1>3. (Flying(AttemptOf(k))' <=> Flying(AttemptOf(k)))
      /\ (InFlight("approve", k)' <=> InFlight("approve", k))
  BY <1>2 DEF OnWire, Flying, InFlight
<1>4. Pending(AttemptOf(k))' <=> Pending(AttemptOf(k))
  BY <1>1, <1>3 DEF Pending, HasSigned, WasPaid
<1>5. /\ Meters(k)' <=> Meters(k)
      /\ Decided(k)' <=> Decided(k)
      /\ Funded(k)' <=> Funded(k)
      /\ CanSpend(k)' <=> CanSpend(k)
  BY <1>3, <1>4 DEF Meters, Decided, Funded, CanSpend
<1> QED BY <1>5, ExactMoves DEF AmountOf, Charge

Settling(j) == WireOK /\ PostsOK /\ ExactOK(j)

\* A call goes on to decide, to fund or to be allowed, or ends.
LEMMA GoesExactly ==
  ASSUME Kept, NEW j \in Jobs, Settling(j), NEW stage \in EarlyStages \cup {"over"},
         job[j].stage \in EarlyStages, Goes(j, stage),
         job[j].stage # "approving" \/ ~InFlight("approve", j),
         IF stage = "approving" THEN wire' = Sent("approve", j) ELSE wire' = wire,
         UNCHANGED <<tabs, prices, balances, allowance, signed, paidFor, touched>>,
         stage # "metering",
         stage \in {"settling", "depositing", "awaiting"} \cup PastFunding => Decided(j),
         stage \in PastFunding => Funded(j) \/ Held(j) >= AmountOf(j),
         stage = "allowed" => CanSpend(j) \/ allowance[Account(TabOf[j])] >= AmountOf(j)
  PROVE  Settling(j)'
<1> USE DEF Settling
<1>1. /\ job' \in [Jobs -> JobState] /\ \A k \in Jobs \ {j} : job'[k] = job[k]
      /\ job'[j].attempt = job[j].attempt /\ job'[j].stage = stage
      /\ job'[j].amount = job[j].amount /\ PayTypes
  <2>1. PayTypes /\ job \in [Jobs -> JobState] /\ job[j] \in JobState
    BY DEF Kept, PayTypes
  <2>2. job'[j].amount = job[j].amount
    BY <2>1 DEF Goes, JobState
  <2> QED BY <2>1, <2>2, GoesMoves
<1>2. /\ AttemptOf(j) \in Attempts /\ AttemptOf(j)' = AttemptOf(j) /\ AmountOf(j)' = AmountOf(j)
      /\ ~Begun(AttemptOf(j))
  <2>1. /\ AttemptOf(j) \in Attempts /\ AttemptOf(j)[1] = j /\ AttemptOf(j)[2] = job[j].attempt
        /\ job[j].attempt \in Nat
    BY <1>1, AttemptIs DEF JobState
  <2>2. ~Begun(AttemptOf(j))
    BY <2>1 DEF Begun, Current
  <2> QED BY <1>1, <2>1, <2>2 DEF AttemptOf, AmountOf
<1>3. ~Flying(AttemptOf(j)) /\ ~HasSigned(AttemptOf(j)) /\ ~Pending(AttemptOf(j))
  BY <1>2, NothingPends
<1>4. NothingSent(j)
  BY <1>1, SendsNothingYet DEF EarlyStages
<1>5. WireOK'
  BY <1>1, <1>4, WireMoves
<1>6. PostsOK'
  BY <1>1, <1>3, PostsMove
<1>7. ~Flying(AttemptOf(j))' /\ ~Pending(AttemptOf(j))'
      /\ (stage = "approving" => InFlight("approve", j)')
  <2> DEFINE b == AttemptOf(j)
  <2>1. b' = b /\ ~OnWire("settle", b)
    BY <1>2, <1>3, OnWireIs
  <2> HIDE DEF b
  <2>2. ~OnWire("settle", b)' /\ (stage = "approving" /\ b = AttemptOf(j) => OnWire("approve", b)')
    <3>1. CASE wire' = wire /\ stage # "approving"
      BY <2>1, <3>1 DEF OnWire
    <3>2. CASE wire' = Sent("approve", j)
      BY <1>1, <2>1, <3>2, SendsOn
    <3> QED BY <3>1, <3>2
  <2>3. ~OnWire("settle", AttemptOf(j))' /\ (stage = "approving" => OnWire("approve", AttemptOf(j))')
    BY <2>2 DEF b
  <2> QED BY <1>2, <1>3, <2>3 DEF Flying, InFlight, OnWire, Pending, HasSigned
<1>8. ExactOK(j)'
  <2>1. /\ ~Meters(j)'
        /\ Decided(j)' => Decided(j)
        /\ Funded(j)' => Funded(j) \/ balances[Account(TabOf[j])] >= AmountOf(j)
        /\ CanSpend(j)' => CanSpend(j) \/ allowance[Account(TabOf[j])] >= AmountOf(j)
    BY <1>1, <1>7 DEF Meters, Decided, Funded, CanSpend, Held, AgentOf, Account
  <2> QED BY <1>2, <2>1, ExactMoves DEF Charge
<1> QED BY <1>5, <1>6, <1>8

\* A call is answered, and ends or is made again.
LEMMA AnswersExactly ==
  ASSUME Kept, NEW j \in Jobs, Settling(j), NEW answer \in {"paid", "unpaid", "unknown"},
         Answer(j, answer), answer = "paid" => NothingSent(j) /\ WasPaid(AttemptOf(j)),
         \/ wire' = wire
         \/ wire' = Sent("settle", j) /\ answer = "unknown" /\ job[j].stage = "allowed",
         UNCHANGED <<tabs, prices, balances, allowance, signed, paidFor, touched>>
  PROVE  Settling(j)'
<1> USE DEF Settling
<1>1. /\ PayTypes /\ job[j] \in JobState /\ job[j].attempt \in {1, 2}
      /\ AttemptOf(j) = <<j, job[j].attempt>>
      /\ \A k \in Jobs \ {j} : job'[k] = job[k]
  BY AttemptIs, AnswerMoves DEF Kept, AttemptOf, JobState
<1>2. \/ /\ answer = "paid" /\ job[j].attempt = 1 /\ job'[j].attempt = 2
         /\ job'[j].stage = "calling"
      \/ /\ job'[j].attempt = job[j].attempt /\ job'[j].amount = job[j].amount
         /\ job'[j].stage = "over"
  BY <1>1 DEF Answer, GoesAgain, PayTypes, JobState
<1>3. WireOK'
  BY <1>1, <1>2, WireMoves
<1>4. PostsOK'
  BY <1>1, <1>2, PostsMove
<1>5. ExactOK(j)'
  <2>1. CASE answer = "paid" /\ job[j].attempt = 1 /\ job'[j].attempt = 2 /\ job'[j].stage = "calling"
    <3> DEFINE b == <<j, 2>>
    <3>1. b \in Attempts /\ ~Begun(b) /\ wire' = wire
      BY <1>1, <2>1 DEF Attempts, Begun, Current
    <3>2. ~Flying(b)' /\ ~HasSigned(b)'
      BY <3>1, NothingPends DEF Flying, HasSigned
    <3>3. AttemptOf(j)' = b
      BY <2>1 DEF AttemptOf
    <3> HIDE DEF b
    <3>4. ~Flying(AttemptOf(j))' /\ ~Pending(AttemptOf(j))'
      BY <3>2, <3>3 DEF Pending, Flying, HasSigned
    <3> QED BY <2>1, <3>4 DEF ExactOK, Meters, Decided, Funded, CanSpend, PastFunding
  <2>2. CASE /\ job'[j].attempt = job[j].attempt /\ job'[j].amount = job[j].amount
             /\ job'[j].stage = "over"
    <3>1. AttemptOf(j)' = AttemptOf(j) /\ AmountOf(j)' = AmountOf(j)
      BY <2>2 DEF AttemptOf, AmountOf
    <3>2. Flying(AttemptOf(j))' => Flying(AttemptOf(j)) \/ job[j].stage = "allowed"
      <4>1. CASE wire' = wire
        BY <3>1, <4>1 DEF Flying
      <4>2. CASE job[j].stage = "allowed"
        BY <4>2
      <4> QED BY <4>1, <4>2
    <3>3. Pending(AttemptOf(j))' => Pending(AttemptOf(j)) \/ job[j].stage = "allowed"
      BY <3>1, <3>2 DEF Pending, HasSigned, WasPaid
    <3>4. /\ ~Meters(j)' /\ (Decided(j)' => Decided(j))
          /\ (Funded(j)' => Funded(j)) /\ (CanSpend(j)' => CanSpend(j))
      BY <2>2, <3>2, <3>3 DEF Meters, Decided, Funded, CanSpend, PastFunding
    <3> QED BY <3>1, <3>4, ExactMoves DEF Charge
  <2> QED BY <1>2, <2>1, <2>2
<1> QED BY <1>3, <1>4, <1>5

\* A call learns the figure it will go by, or that there is nothing to settle.
LEMMA LearnsExactly ==
  ASSUME Kept, WireOK, PostsOK, NEW j \in Jobs, Simulates(j) \/ Records(j) \/ ReadsOpen(j),
         TypeOK, ExactOK(j)
  PROVE  Settling(j)'
<1>1. /\ PayTypes /\ job[j] \in JobState /\ job \in [Jobs -> JobState] /\ job[j].attempt \in {1, 2}
      /\ AttemptOf(j) \in Attempts /\ AttemptOf(j) = <<j, job[j].attempt>>
      /\ TabOf[j] \in Tabs /\ tabs[TabOf[j]] \in Tab /\ tabs \in [Tabs -> Tab]
  BY AttemptIs DEF Kept, PayTypes, AttemptOf, JobState, TypeOK
<1>2. /\ job[j].stage \in {"calling", "metering", "declined"}
      /\ UNCHANGED <<wire, signed, paidFor, prices>>
  BY DEF Simulates, Records, RecordDelivery, ReadsOpen, railVars, vars, envVars, permitVars, walletVars
<1> DEFINE open == tabs'[TabOf[j]].open
           toOpen == ToOpen(tabs'[TabOf[j]], Charge(TabOf[j]))
<1>3. /\ \A k \in Jobs \ {j} : job'[k] = job[k]
      /\ job'[j].attempt = job[j].attempt
      /\ \/ job'[j].stage = "metering" /\ job'[j].amount = open + toOpen
         \/ job'[j].stage = "settling" /\ (j \notin touched' => job'[j].amount = open /\ open > 0)
         \/ job'[j].stage = "over"
  <2>1. CASE Simulates(j)
    <3>1. /\ tabs' = tabs
          /\ job' = [job EXCEPT ![j].stage = "metering",
                                ![j].amount = tabs[TabOf[j]].open
                                                + ToOpen(tabs[TabOf[j]], Charge(TabOf[j]))]
      BY <2>1 DEF Simulates, railVars, vars, bookVars
    <3> QED BY <1>1, <3>1 DEF JobState
  <2>2. CASE Records(j)
    <3>1. tabs' = [tabs EXCEPT ![TabOf[j]] = TabAfterDelivery(tabs[TabOf[j]], 1 * Charge(TabOf[j]))]
      BY <2>2 DEF Records, RecordDelivery, Charge
    <3>2. 1 * Charge(TabOf[j]) = Charge(TabOf[j])
      <4>1. prices[<<TabOf[j][2], TabOf[j][3]>>] \in Nat
        BY <1>1 DEF TypeOK, Tabs
      <4> QED BY <4>1 DEF Charge
    <3>3. open = tabs[TabOf[j]].open + ToOpen(tabs[TabOf[j]], Charge(TabOf[j]))
      BY <1>1, <3>1, <3>2 DEF TabAfterDelivery
    <3>4. \/ Goes(j, "over")
          \/ /\ job[j].amount > 0
             /\ job' = [job EXCEPT ![j].stage = "settling", ![j].amount = job[j].amount]
      BY <2>2 DEF Records, Settles, AmountToSettle
    <3>5. j \notin touched' => j \notin touched
      BY <2>2 DEF Records, Touches
    <3>6. j \notin touched' => job[j].amount = open
      BY <2>2, <3>3, <3>5 DEF Records, ExactOK, Meters, AmountOf
    <3> QED BY <1>1, <3>4, <3>6 DEF Goes, JobState
  <2>3. CASE ReadsOpen(j)
    <3>1. /\ tabs' = tabs
          /\ job' = [job EXCEPT
               ![j].stage = IF Settles(tabs[TabOf[j]].open, TRUE) THEN "settling" ELSE "over",
               ![j].declined = TRUE, ![j].amount = tabs[TabOf[j]].open]
      BY <2>3 DEF ReadsOpen, AmountToSettle, railVars, vars, bookVars
    <3> QED BY <1>1, <3>1 DEF JobState, Settles
  <2> QED BY <2>1, <2>2, <2>3
<1>4. ~Begun(AttemptOf(j)) /\ ~Flying(AttemptOf(j)) /\ ~HasSigned(AttemptOf(j))
  <2>1. ~Begun(AttemptOf(j))
    BY <1>1, <1>2 DEF Begun, Current, EarlyStages
  <2> QED BY <1>1, <2>1, NothingPends
<1>5. WireOK' /\ PostsOK'
  <2>1. NothingSent(j)
    BY <1>1, <1>2, SendsNothingYet
  <2> QED BY <1>1, <1>2, <1>3, <1>4, <2>1, WireMoves, PostsMove
<1>6. ExactOK(j)'
  <2>1. AttemptOf(j)' = AttemptOf(j) /\ AmountOf(j)' = job'[j].amount
    BY <1>3 DEF AttemptOf, AmountOf
  <2>2. ~Flying(AttemptOf(j))' /\ ~Pending(AttemptOf(j))'
    BY <1>2, <1>4, <2>1 DEF Flying, HasSigned, Pending
  <2>3. ~Funded(j)' /\ ~CanSpend(j)'
    BY <1>3, <2>2 DEF Funded, CanSpend, PastFunding
  <2>4. Decided(j)' => job'[j].stage = "settling"
    BY <1>3, <2>2 DEF Decided, PastFunding
  <2>5. (tabs[TabOf[j]].open + ToOpen(tabs[TabOf[j]], Charge(TabOf[j])))' = open + toOpen
    BY <1>2 DEF ToOpen, FromPrepaid, Charge
  <2>6. Meters(j)' => job'[j].stage = "metering"
    BY DEF Meters
  <2> QED BY <1>3, <2>1, <2>3, <2>4, <2>5, <2>6 DEF ExactOK
<1> QED BY <1>5, <1>6 DEF Settling

\* A settlement is sent, or signed and posted.
LEMMA CommitsExactly ==
  ASSUME Kept, NEW j \in Jobs, Settling(j),
         UNCHANGED <<tabs, prices, balances, allowance, paidFor, touched>>,
         \/ /\ job[j].stage = "allowed" /\ Goes(j, "sent")
            /\ wire' = Sent("settle", j) /\ signed' = signed
         \/ /\ job[j].stage = "funded" /\ Goes(j, "posted")
            /\ wire' = wire
            /\ \E p : /\ signed' = signed \cup {p} /\ p.nonce = AttemptOf(j)
                      /\ <<p.agent, p.serviceId, p.asset>> = TabOf[j] /\ p.amount = AmountOf(j)
  PROVE  Settling(j)'
<1> USE DEF Settling
<1>1. /\ PayTypes /\ job[j] \in JobState /\ job \in [Jobs -> JobState] /\ job[j].attempt \in {1, 2}
      /\ AttemptOf(j) \in Attempts /\ AttemptOf(j) = <<j, job[j].attempt>>
  BY AttemptIs DEF Kept, PayTypes, AttemptOf, JobState
<1>2. /\ \A k \in Jobs \ {j} : job'[k] = job[k]
      /\ job'[j].attempt = job[j].attempt /\ job'[j].amount = job[j].amount
      /\ \/ job[j].stage = "allowed" /\ job'[j].stage = "sent" /\ wire' = Sent("settle", j)
         \/ job[j].stage = "funded" /\ job'[j].stage = "posted" /\ wire' = wire
  BY <1>1 DEF Goes, JobState
<1>3. ~Begun(AttemptOf(j)) /\ ~Flying(AttemptOf(j)) /\ ~HasSigned(AttemptOf(j))
  <2>1. ~Begun(AttemptOf(j))
    BY <1>1, <1>2 DEF Begun, Current, EarlyStages
  <2> QED BY <1>1, <2>1, NothingPends
<1>4. WireOK'
  <2>1. NothingSent(j)
    BY <1>1, <1>2, SendsNothingYet
  <2> QED BY <1>1, <1>2, <2>1, WireMoves
<1>5. PostsOK'
  <2>1. \/ signed' = signed
        \/ \E p : /\ signed' = signed \cup {p} /\ p.nonce = AttemptOf(j)
                  /\ <<p.agent, p.serviceId, p.asset>> = TabOf[j]
                  /\ p.amount = job'[j].amount
                  /\ job'[j].attempt = job[j].attempt /\ job'[j].stage = "posted"
    BY <1>2 DEF AmountOf
  <2> QED BY <1>2, <1>3, <2>1, PostsMove
<1>6. ExactOK(j)'
  <2>1. AttemptOf(j)' = AttemptOf(j) /\ AmountOf(j)' = AmountOf(j)
    BY <1>2 DEF AttemptOf, AmountOf
  <2>2. Flying(AttemptOf(j))' => job[j].stage = "allowed"
    BY <1>2, <1>3, <2>1 DEF Flying
  <2>3. /\ ~Meters(j)' /\ Decided(j) /\ (Funded(j)' => Funded(j)) /\ (CanSpend(j)' => CanSpend(j))
    BY <1>2, <2>2 DEF Meters, Decided, Funded, CanSpend, PastFunding
  <2> QED BY <2>1, <2>3, ExactMoves DEF Charge
<1> QED BY <1>4, <1>5, <1>6

LEMMA CallExactly ==
  ASSUME IInv, Kept, NEW j \in Jobs, Settling(j), CallStarts(j) \/ JobStep(j) \/ LosesReceipt(j)
  PROVE  Settling(j)'
<1>1. PayTypes
  BY DEF Kept
<1>2. CASE Simulates(j) \/ Records(j) \/ ReadsOpen(j)
  BY <1>2, LearnsExactly DEF Settling, IInv
<1>3. UNCHANGED <<tabs, prices, balances, allowance, paidFor, touched>> \/ Simulates(j)
      \/ Records(j) \/ ReadsOpen(j)
  BY DEF CallStarts, LosesReceipt, JobStep, Declines, CallFails, Plan, Deposit, AwaitDelivery,
         EnsureAllowance, Approved, Sends, ReadsReceipt, ReadsReply, Posts, Sign,
         railVars, vars, bookVars, envVars, walletVars
<1>4. ASSUME NEW stage \in EarlyStages \cup {"over"}, Goes(j, stage), wire' = wire,
             stage \in {"calling", "declined", "over"},
             job[j].stage \in {"idle", "calling", "metering", "declined"},
             UNCHANGED <<tabs, prices, balances, allowance, signed, paidFor, touched>>
      PROVE  Settling(j)'
  BY <1>4, GoesExactly DEF EarlyStages, PastFunding
<1>5. CASE CallStarts(j) \/ Declines(j) \/ CallFails(j)
  BY <1>5, <1>4 DEF CallStarts, Declines, CallFails, EarlyStages, railVars, vars, bookVars, envVars,
                    permitVars, walletVars
<1>6. ASSUME Answer(j, "unpaid"), wire' = wire,
             UNCHANGED <<tabs, prices, balances, allowance, signed, paidFor, touched>>
      PROVE  Settling(j)'
  BY <1>6, AnswersExactly
<1>7. CASE Plan(j) \/ Deposit(j) \/ AwaitDelivery(j)
  <2>1. /\ UNCHANGED <<tabs, prices, balances, allowance, signed, paidFor, touched, wire>>
        /\ job[j].stage \in {"settling", "depositing", "awaiting"}
    BY <1>7 DEF Plan, Deposit, AwaitDelivery, railVars, vars, bookVars, envVars, permitVars,
                walletVars
  <2>2. \/ Answer(j, "unpaid")
        \/ Goes(j, "depositing") \/ Goes(j, "awaiting")
        \/ Goes(j, "funded") /\ Held(j) >= AmountOf(j)
    BY <1>7 DEF Plan, Deposit, AwaitDelivery
  <2>3. ASSUME NEW stage \in {"depositing", "awaiting", "funded"}, Goes(j, stage),
               stage = "funded" => Held(j) >= AmountOf(j)
        PROVE  Settling(j)'
    <3>1. Decided(j) /\ stage \in EarlyStages /\ job[j].stage \in EarlyStages
      BY <2>1 DEF Decided, EarlyStages
    <3> QED BY <2>1, <2>3, <3>1, GoesExactly DEF PastFunding
  <2> QED BY <1>6, <2>1, <2>2, <2>3
<1>8. CASE EnsureAllowance(j)
  <2>1. /\ UNCHANGED <<tabs, prices, balances, allowance, signed, paidFor, touched>>
        /\ job[j].stage = "funded"
    BY <1>8 DEF EnsureAllowance, railVars, vars, bookVars, envVars, permitVars
  <2>2. Decided(j) /\ Funded(j) /\ job[j].stage \in EarlyStages
    BY <2>1 DEF Decided, Funded, EarlyStages, PastFunding
  <2>3. CASE allowance[Account(TabOf[j])] >= AmountOf(j) /\ Goes(j, "allowed") /\ wire' = wire
    BY <2>1, <2>2, <2>3, GoesExactly DEF EarlyStages
  <2>4. CASE wire' = Sent("approve", j) /\ Goes(j, "approving")
    BY <2>1, <2>2, <2>4, GoesExactly DEF EarlyStages
  <2>5. CASE Answer(j, "unpaid") /\ wire' = wire
    BY <1>6, <2>1, <2>5
  <2> QED BY <1>8, <2>3, <2>4, <2>5 DEF EnsureAllowance
<1>9. CASE Approved(j)
  <2>1. /\ UNCHANGED <<tabs, prices, balances, allowance, signed, paidFor, touched, wire>>
        /\ job[j].stage = "approving" /\ ~InFlight("approve", j) /\ Goes(j, "allowed")
    BY <1>9 DEF Approved, railVars, vars, bookVars, envVars, permitVars, walletVars
  <2>2. Decided(j) /\ Funded(j) /\ CanSpend(j) /\ job[j].stage \in EarlyStages
    BY <2>1 DEF Decided, Funded, CanSpend, EarlyStages, PastFunding
  <2> QED BY <2>1, <2>2, GoesExactly DEF EarlyStages
<1>10. CASE Sends(j)
  <2>1. /\ UNCHANGED <<tabs, prices, balances, allowance, signed, paidFor, touched>>
        /\ job[j].stage = "allowed"
    BY <1>10 DEF Sends, railVars, vars, bookVars, envVars, permitVars
  <2>2. CASE wire' = Sent("settle", j) /\ Goes(j, "sent")
    BY <2>1, <2>2, CommitsExactly
  <2>3. CASE (wire' = Sent("settle", j) \/ wire' = wire) /\ Answer(j, "unknown")
    BY <2>1, <2>3, AnswersExactly
  <2> QED BY <1>10, <2>2, <2>3 DEF Sends
<1>11. CASE ReadsReceipt(j) \/ ReadsReply(j)
  <2>1. UNCHANGED <<tabs, prices, balances, allowance, signed, paidFor, touched, wire>>
    BY <1>11 DEF ReadsReceipt, ReadsReply, railVars, vars, bookVars, envVars, permitVars, walletVars
  <2>2. NothingSent(j)
    BY <1>1, <1>11, SendsNothingYet DEF ReadsReceipt, ReadsReply, Settling
  <2>3. PICK answer \in {"paid", "unpaid", "unknown"} :
          Answer(j, answer) /\ (answer = "paid" => WasPaid(AttemptOf(j)))
    <3>1. CASE WasPaid(AttemptOf(j))
      BY <1>11, <3>1 DEF ReadsReceipt, ReadsReply
    <3>2. CASE ~WasPaid(AttemptOf(j))
      BY <1>11, <3>2 DEF ReadsReceipt, ReadsReply
    <3> QED BY <3>1, <3>2
  <2> QED BY <2>1, <2>2, <2>3, AnswersExactly
<1>12. CASE LosesReceipt(j)
  <2>1. UNCHANGED <<tabs, prices, balances, allowance, signed, paidFor, touched, wire>>
    BY <1>12 DEF LosesReceipt, railVars, vars, bookVars, envVars, permitVars, walletVars
  <2>2. Answer(j, "unpaid") \/ Answer(j, "unknown")
    BY <1>12 DEF LosesReceipt, ReceiptUnavailable
  <2> QED BY <2>1, <2>2, AnswersExactly
<1>13. CASE Posts(j)
  <2>1. /\ UNCHANGED <<tabs, prices, balances, allowance, paidFor, touched, wire>>
        /\ job[j].stage = "funded"
    BY <1>13 DEF Posts, Sign, railVars, vars, bookVars, envVars, walletVars
  <2>2. ASSUME NEW deadline,
               Sign([agent |-> TabOf[j][1], serviceId |-> TabOf[j][2], asset |-> TabOf[j][3],
                     amount |-> AmountOf(j), nonce |-> AttemptOf(j), deadline |-> deadline]),
               Goes(j, "posted")
        PROVE  Settling(j)'
    <3>1. PICK p : p = [agent |-> TabOf[j][1], serviceId |-> TabOf[j][2], asset |-> TabOf[j][3],
                        amount |-> AmountOf(j), nonce |-> AttemptOf(j), deadline |-> deadline]
      OBVIOUS
    <3>2. TabOf[j] \in Tabs
      BY PaymentsAssumption
    <3>3. <<p.agent, p.serviceId, p.asset>> = TabOf[j]
      BY <3>1, <3>2 DEF Tabs
    <3>4. signed' = signed \cup {p} /\ p.nonce = AttemptOf(j) /\ p.amount = AmountOf(j)
      BY <2>2, <3>1 DEF Sign
    <3> QED BY <2>1, <2>2, <3>3, <3>4, CommitsExactly
  <2>3. CASE Answer(j, "unpaid") /\ UNCHANGED railVars
    BY <1>6, <2>1, <2>3 DEF railVars, permitVars
  <2> QED BY <1>13, <2>2, <2>3 DEF Posts
<1> QED BY <1>2, <1>5, <1>7, <1>8, <1>9, <1>10, <1>11, <1>12, <1>13 DEF JobStep

LEMMA CallSends ==
  ASSUME NEW j \in Jobs, CallStarts(j) \/ JobStep(j) \/ LosesReceipt(j)
  PROVE  wire' = wire \/ \E kind : wire' = Sent(kind, j)
BY DEF CallStarts, LosesReceipt, JobStep, Simulates, Declines, ReadsOpen, CallFails, Plan, Deposit,
       AwaitDelivery, EnsureAllowance, Approved, Sends, ReadsReceipt, ReadsReply, Records,
       Posts, walletVars

LEMMA CallSparesOthers ==
  ASSUME IInv, Kept, NEW j \in Jobs, CallStarts(j) \/ JobStep(j) \/ LosesReceipt(j),
         NEW k \in Jobs \ {j}, ExactOK(k)
  PROVE  ExactOK(k)'
<1>1. UNCHANGED <<prices, balances, allowance, paidFor>>
  BY DEF CallStarts, LosesReceipt, JobStep, Simulates, Declines, ReadsOpen, CallFails, Plan, Deposit,
         AwaitDelivery, EnsureAllowance, Approved, Sends, ReadsReceipt, ReadsReply, Records,
         RecordDelivery, Posts, Sign, railVars, vars, envVars, walletVars
<1>2. job'[k] = job[k]
  BY DEF CallStarts, LosesReceipt, JobStep, Simulates, Declines, ReadsOpen, CallFails, Plan, Deposit,
         AwaitDelivery, EnsureAllowance, Approved, Sends, ReadsReceipt, ReadsReply, Records,
         Posts, Goes, Answer, Kept, PayTypes
<1>3. wire' = wire \/ \E kind : wire' = Sent(kind, j)
  BY CallSends
<1>4. \A p : p.nonce # AttemptOf(j) => (p \in signed' <=> p \in signed)
  <2>1. CASE Posts(j)
    BY <2>1 DEF Posts, Sign, railVars, permitVars
  <2>2. CASE signed' = signed
    BY <2>2
  <2> QED BY <2>1, <2>2
          DEF CallStarts, LosesReceipt, JobStep, Simulates, Declines, ReadsOpen, CallFails, Plan,
              Deposit, AwaitDelivery, EnsureAllowance, Approved, Sends, ReadsReceipt, ReadsReply,
              Records, railVars, permitVars
<1>5. k \notin touched' => k \notin touched /\ tabs'[TabOf[k]] = tabs[TabOf[k]]
  <2>1. CASE Records(j)
    <3>1. /\ touched' = touched \cup {i \in Jobs \ {j} : AgentOf(i) = AgentOf(j)}
          /\ \E tab : tabs' = [tabs EXCEPT ![TabOf[j]] = tab]
      BY <2>1 DEF Records, RecordDelivery, Touches
    <3>2. TabOf[k] \in Tabs /\ tabs \in [Tabs -> Tab]
      BY PaymentsAssumption DEF IInv, TypeOK
    <3>3. k \notin touched' => TabOf[k] # TabOf[j]
      BY <3>1 DEF AgentOf
    <3> QED BY <3>1, <3>2, <3>3
  <2>2. CASE tabs' = tabs /\ (touched' = touched \/ Looks(j))
    BY <2>2 DEF Looks
  <2> QED BY <2>1, <2>2
          DEF CallStarts, LosesReceipt, JobStep, Simulates, Declines, ReadsOpen, CallFails, Plan,
              Deposit, AwaitDelivery, EnsureAllowance, Approved, Sends, ReadsReceipt, ReadsReply,
              Posts, Sign, railVars, vars, bookVars
<1> QED BY <1>1, <1>2, <1>3, <1>4, <1>5, OthersClaims DEF Kept

\* The next transaction is of the current attempt of its call, at its figure.
LEMMA NextIs ==
  ASSUME PayTypes, WireOK, wire # <<>>
  PROVE  /\ Head(wire) \in Transaction /\ Head(wire).of[1] \in Jobs
         /\ TabOf[Head(wire).of[1]] \in Tabs
         /\ Head(wire).of = AttemptOf(Head(wire).of[1])
         /\ Head(wire).amount = AmountOf(Head(wire).of[1])
         /\ Head(wire).kind = "approve" => job[Head(wire).of[1]].stage \in {"approving", "over"}
         /\ Head(wire).kind = "settle" => job[Head(wire).of[1]].stage \in {"sent", "over"}
<1>1. 1 \in DOMAIN wire /\ Head(wire) = wire[1] /\ wire[1] \in Transaction
  BY DEF PayTypes
<1>2. wire[1].of \in Attempts
  BY <1>1 DEF Transaction
<1>3. wire[1].of = <<wire[1].of[1], wire[1].of[2]>> /\ wire[1].of[1] \in Jobs
  BY <1>2 DEF Attempts
<1> QED BY <1>1, <1>3, PaymentsAssumption DEF WireOK, Current, AttemptOf

LEMMA WireTail ==
  ASSUME PayTypes, WireOK, wire # <<>>, wire' = Tail(wire), job' = job
  PROVE  /\ WireOK'
         /\ \A what, a : OnWire(what, a)' => OnWire(what, a)
         /\ \A what, a : OnWire(what, a) =>
              OnWire(what, a)' \/ (what = Head(wire).kind /\ a = Head(wire).of)
<1>1. /\ wire \in Seq(Transaction) /\ Len(wire) \in Nat /\ Len(wire) >= 1
      /\ DOMAIN wire = 1 .. Len(wire) /\ DOMAIN wire' = 1 .. (Len(wire) - 1)
      /\ \A i \in DOMAIN wire' : wire'[i] = wire[i + 1]
      /\ Head(wire) = wire[1]
  BY DEF PayTypes
<1>2. /\ \A i \in DOMAIN wire' : i + 1 \in DOMAIN wire
      /\ \A i \in DOMAIN wire : i # 1 => i - 1 \in DOMAIN wire' /\ wire'[i - 1] = wire[i]
  BY <1>1
<1>3. WireOK'
  BY <1>1, <1>2 DEF WireOK, Current, AmountOf
<1>4. ASSUME NEW what, NEW a, OnWire(what, a)'
      PROVE  OnWire(what, a)
  BY <1>1, <1>2, <1>4 DEF OnWire
<1>5. ASSUME NEW what, NEW a, OnWire(what, a), ~(what = Head(wire).kind /\ a = Head(wire).of)
      PROVE  OnWire(what, a)'
  <2>1. PICK i \in DOMAIN wire : wire[i].kind = what /\ wire[i].of = a
    BY <1>5 DEF OnWire
  <2>2. i # 1
    BY <1>1, <1>5, <2>1
  <2> QED BY <1>2, <2>1, <2>2 DEF OnWire
<1> QED BY <1>3, <1>4, <1>5

LEMMA PostsStay ==
  ASSUME PostsOK, job' = job, \A a \in Attempts : WasPaid(a) => WasPaid(a)',
         \A p : p.nonce \in Attempts => (p \in signed' <=> p \in signed)
  PROVE  PostsOK'
<1> SUFFICES ASSUME NEW p \in signed, p.nonce \in Attempts PROVE PostOK(p)'
  BY DEF PostsOK
<1>1. PostOK(p)
  BY DEF PostsOK
<1>2. (Current(p.nonce)' <=> Current(p.nonce)) /\ AmountOf(p.nonce[1])' = AmountOf(p.nonce[1])
  BY DEF Current, AmountOf
<1> QED BY <1>1, <1>2 DEF PostOK

\* What is not about a call leaves its claims as they are.
LEMMA ClaimsStay ==
  ASSUME NEW k \in Jobs, ExactOK(k), job' = job, prices' = prices,
         OnWire("settle", AttemptOf(k))' => OnWire("settle", AttemptOf(k)),
         OnWire("approve", AttemptOf(k)) => OnWire("approve", AttemptOf(k))',
         HasSigned(AttemptOf(k))' => HasSigned(AttemptOf(k)),
         WasPaid(AttemptOf(k)) => WasPaid(AttemptOf(k))',
         k \notin touched' =>
           /\ k \notin touched
           /\ tabs'[TabOf[k]] = tabs[TabOf[k]]
           /\ balances'[Account(TabOf[k])] = balances[Account(TabOf[k])]
           /\ allowance'[Account(TabOf[k])] = allowance[Account(TabOf[k])]
  PROVE  ExactOK(k)'
<1>1. (Flying(AttemptOf(k))' => Flying(AttemptOf(k)))
      /\ (InFlight("approve", k) => InFlight("approve", k)')
  BY DEF OnWire, Flying, InFlight
<1>2. Pending(AttemptOf(k))' => Pending(AttemptOf(k))
  BY <1>1 DEF Pending
<1>3. /\ Meters(k)' => Meters(k)
      /\ Decided(k)' => Decided(k)
      /\ Funded(k)' => Funded(k)
      /\ CanSpend(k)' => CanSpend(k)
  BY <1>1, <1>2 DEF Meters, Decided, Funded, CanSpend
<1> QED BY <1>3, ExactMoves DEF AmountOf, Charge

\* A call whose settlement was mined or relayed claims nothing any more.
LEMMA ClaimsEnd ==
  ASSUME NEW j \in Jobs, job' = job, job[j].stage \in {"sent", "posted", "over"},
         ~Flying(AttemptOf(j))', HasSigned(AttemptOf(j))' => WasPaid(AttemptOf(j))'
  PROVE  ExactOK(j)'
<1>1. ~Meters(j)' /\ ~Decided(j)' /\ ~Funded(j)' /\ ~CanSpend(j)'
  BY DEF Meters, Decided, Funded, CanSpend, Pending, PastFunding
<1> QED BY <1>1 DEF ExactOK

\* Who settles moves nothing of another Agent.
LEMMA PaySpares ==
  ASSUME TypeOK, collections \in Collections, balances \in Balances,
         NEW t \in Tabs, NEW amount, Pay(t, amount), NEW u \in Tabs, u[1] # t[1]
  PROVE  tabs'[u] = tabs[u] /\ balances'[Account(u)] = balances[Account(u)] /\ prices' = prices
<1>1. /\ tabs \in [Tabs -> Tab] /\ \E tab : tabs' = [tabs EXCEPT ![t] = tab]
      /\ prices' = prices
      /\ balances' = [balances EXCEPT ![<<t[1], t[3]>>] = @ - amount,
                                      ![<<collections[<<t[2], t[3]>>], t[3]>>] = @ + amount]
      /\ collections[<<t[2], t[3]>>] # NoAccount
  BY DEF TypeOK, Pay, ApplySettlement, Transfer, envVars
<1>2. collections[<<t[2], t[3]>>] \in Accounts /\ u[1] \in Agents
  BY <1>1 DEF Collections, Tabs
<1>3. /\ Account(u) # <<t[1], t[3]>> /\ Account(u) # <<collections[<<t[2], t[3]>>], t[3]>>
      /\ Account(u) \in DOMAIN balances
  BY <1>2, TabSettlementAssumption DEF Account, Balances, Tabs
<1> QED BY <1>1, <1>3

\* A figure that is the Open Tab closes it, and leaves nothing over.
LEMMA PaysExactly ==
  ASSUME IInv, NEW t \in Tabs, NEW amount, amount = tabs[t].open, amount > 0, Pay(t, amount)
  PROVE  tabs'[t].open = 0 /\ tabs'[t].prepaid = 0
<1>1. tabs \in [Tabs -> Tab] /\ tabs[t].open \in Nat /\ tabs[t].prepaid \in Nat
  BY TabBookAssumption DEF IInv, TypeOK, Tab, Amount
<1>2. tabs' = [tabs EXCEPT ![t] = TabAfterSettlement(tabs[t], amount)]
  BY DEF Pay, ApplySettlement
<1>3. tabs[t].prepaid = 0
  BY <1>1 DEF IInv, NoDebtBesideCredit
<1>4. Applied(tabs[t], amount) = amount
  BY <1>1 DEF Applied
<1>5. tabs[t] \in Tab
  BY <1>1
<1>6. /\ TabAfterSettlement(tabs[t], amount).open = tabs[t].open - Applied(tabs[t], amount)
      /\ TabAfterSettlement(tabs[t], amount).prepaid =
           tabs[t].prepaid + (amount - Applied(tabs[t], amount))
  BY <1>5 DEF TabAfterSettlement, Tab
<1> QED BY <1>1, <1>2, <1>3, <1>4, <1>6

\* What the wire loses of one attempt it keeps of the others.
LEMMA OthersOnWire ==
  ASSUME NEW k \in Jobs, job' = job, NEW gone, AttemptOf(k) # gone,
         \A what, a : OnWire(what, a)' => OnWire(what, a),
         \A what, a : OnWire(what, a) => OnWire(what, a)' \/ a = gone
  PROVE  /\ OnWire("settle", AttemptOf(k))' => OnWire("settle", AttemptOf(k))
         /\ OnWire("approve", AttemptOf(k)) => OnWire("approve", AttemptOf(k))'
<1>1. PICK b : b = AttemptOf(k)
  OBVIOUS
<1>2. AttemptOf(k)' = b
  BY <1>1 DEF AttemptOf
<1>3. /\ OnWire("settle", b)' => OnWire("settle", b)
      /\ OnWire("approve", b) => OnWire("approve", b)'
  BY <1>1
<1> QED BY <1>1, <1>2, <1>3 DEF OnWire

LEMMA ApproveExactly ==
  ASSUME PayTypes, ExactInv, MineApprove
  PROVE  ExactInv'
<1> USE DEF ExactInv
<1>1. /\ wire # <<>> /\ Head(wire).kind = "approve" /\ wire' = Tail(wire)
      /\ allowance' = [allowance EXCEPT ![Account(TabOf[Head(wire).of[1]])] = Head(wire).amount]
      /\ touched' = touched \cup {k \in Jobs \ {Head(wire).of[1]} : AgentOf(k) = AgentOf(Head(wire).of[1])}
      /\ UNCHANGED <<job, tabs, balances, prices, signed, paidFor>>
  BY DEF MineApprove, Approval, Touches, railVars, vars, bookVars, envVars, permitVars, jobVars
<1>2. PICK j \in Jobs : j = Head(wire).of[1]
  BY <1>1, NextIs
<1>3. /\ TabOf[j] \in Tabs /\ Head(wire).of = AttemptOf(j) /\ Head(wire).amount = AmountOf(j)
      /\ AmountOf(j) \in Nat /\ job[j].stage \in {"approving", "over"} /\ job[j] \in JobState
      /\ allowance' = [allowance EXCEPT ![Account(TabOf[j])] = AmountOf(j)]
      /\ touched' = touched \cup {k \in Jobs \ {j} : AgentOf(k) = AgentOf(j)}
  <2>1. /\ TabOf[j] \in Tabs /\ Head(wire).of = AttemptOf(j) /\ Head(wire).amount = AmountOf(j)
        /\ job[j].stage \in {"approving", "over"} /\ Head(wire) \in Transaction
    BY <1>1, <1>2, NextIs
  <2>2. AmountOf(j) \in Nat
    BY <2>1, TabBookAssumption DEF Transaction, Amount
  <2>3. job[j] \in JobState
    BY DEF PayTypes
  <2>4. /\ allowance' = [allowance EXCEPT ![Account(TabOf[j])] = AmountOf(j)]
        /\ touched' = touched \cup {k \in Jobs \ {j} : AgentOf(k) = AgentOf(j)}
    BY <1>1, <1>2, <2>1
  <2> QED BY <2>1, <2>2, <2>3, <2>4
<1>4. /\ WireOK'
      /\ \A what, a : OnWire(what, a)' => OnWire(what, a)
      /\ \A what, a : OnWire(what, a) => OnWire(what, a)' \/ (what = "approve" /\ a = AttemptOf(j))
  BY <1>1, <1>3, WireTail
<1>5. PostsOK'
  <2>1. \A a : WasPaid(a) => WasPaid(a)'
    BY <1>1 DEF WasPaid
  <2> QED BY <1>1, <2>1, PostsStay
<1>6. allowance' \in [AgentAssets -> Nat] /\ Account(TabOf[j]) \in AgentAssets
      /\ allowance'[Account(TabOf[j])] = AmountOf(j)
      /\ \A x \in AgentAssets : x # Account(TabOf[j]) => allowance'[x] = allowance[x]
  <2>1. Account(TabOf[j]) \in AgentAssets
    BY <1>3 DEF Account, AgentAssets, Tabs
  <2> QED BY <1>3, <2>1
<1>7. ASSUME NEW k \in Jobs, k # j
      PROVE  ExactOK(k)'
  <2>1. AttemptOf(k)' = AttemptOf(k) /\ AttemptOf(k) # AttemptOf(j)
    BY <1>1, <1>7 DEF AttemptOf
  <2>2. /\ HasSigned(AttemptOf(k))' => HasSigned(AttemptOf(k))
        /\ WasPaid(AttemptOf(k)) => WasPaid(AttemptOf(k))'
    BY <1>1, <2>1 DEF HasSigned, WasPaid
  <2>3. /\ OnWire("settle", AttemptOf(k))' => OnWire("settle", AttemptOf(k))
        /\ OnWire("approve", AttemptOf(k)) => OnWire("approve", AttemptOf(k))'
    <3>1. \A what, a : OnWire(what, a) => OnWire(what, a)' \/ a = AttemptOf(j)
      BY <1>4
    <3> QED BY <1>1, <1>4, <2>1, <3>1, OthersOnWire
  <2>4. k \notin touched' => allowance'[Account(TabOf[k])] = allowance[Account(TabOf[k])]
    <3>1. ASSUME AgentOf(k) # AgentOf(j)
          PROVE  Account(TabOf[k]) # Account(TabOf[j]) /\ Account(TabOf[k]) \in AgentAssets
      BY <3>1, PaymentsAssumption DEF AgentOf, Account, AgentAssets, Tabs
    <3> QED BY <1>3, <1>6, <1>7, <3>1
  <2> QED BY <1>1, <1>3, <2>2, <2>3, <2>4, ClaimsStay
<1>8. ExactOK(j)'
  <2>1. Flying(AttemptOf(j))' => Flying(AttemptOf(j))
    <3> DEFINE b == AttemptOf(j)
    <3>1. b' = b
      BY <1>1 DEF AttemptOf
    <3> HIDE DEF b
    <3>2. OnWire("settle", b)' => OnWire("settle", b)
      BY <1>4, <3>1 DEF OnWire
    <3> QED BY <3>2 DEF OnWire, Flying, b
  <2>2. Pending(AttemptOf(j))' => Pending(AttemptOf(j))
    BY <1>1, <2>1 DEF Pending, HasSigned, WasPaid, AttemptOf
  <2>3. (Meters(j)' => Meters(j)) /\ (Decided(j)' => Decided(j)) /\ (Funded(j)' => Funded(j))
    BY <1>1, <2>1, <2>2 DEF Meters, Decided, Funded
  <2>4. /\ j \notin touched' => j \notin touched
        /\ AmountOf(j)' = AmountOf(j)
        /\ allowance'[Account(TabOf[j])] >= AmountOf(j)
        /\ (tabs[TabOf[j]].open + ToOpen(tabs[TabOf[j]], Charge(TabOf[j])))'
             = tabs[TabOf[j]].open + ToOpen(tabs[TabOf[j]], Charge(TabOf[j]))
    BY <1>1, <1>3, <1>6 DEF AmountOf, ToOpen, FromPrepaid, Charge
  <2> QED BY <1>1, <2>3, <2>4 DEF ExactOK
<1> QED BY <1>4, <1>5, <1>6, <1>7, <1>8

\* A settlement of a call ends its claims, and what other calls of the Agent saw.
LEMMA PaidExactly ==
  ASSUME TypeOK, collections \in Collections, balances \in Balances, ExactInv, NEW j \in Jobs,
         job[j].stage \in {"sent", "posted", "over"}, job' = job,
         NEW amount, Pay(TabOf[j], amount), Touches(j),
         allowance' \in [AgentAssets -> Nat],
         \A x \in AgentAssets : x # Account(TabOf[j]) => allowance'[x] = allowance[x],
         \A p : p.nonce \in Attempts => (p \in signed' <=> p \in signed),
         \A a \in Attempts : WasPaid(a) => WasPaid(a)', PayTypes,
         WireOK', \A what, a : OnWire(what, a)' => OnWire(what, a),
         \A what, a : OnWire(what, a) => OnWire(what, a)' \/ a = AttemptOf(j),
         ~Flying(AttemptOf(j))', HasSigned(AttemptOf(j))' => WasPaid(AttemptOf(j))'
  PROVE  ExactInv'
<1> USE DEF ExactInv
<1>1. TabOf[j] \in Tabs /\ Account(TabOf[j]) \in AgentAssets
  BY AttemptIs
<1>2. touched' = touched \cup {k \in Jobs \ {j} : AgentOf(k) = AgentOf(j)}
  BY DEF Touches
<1>3. PostsOK'
  BY PostsStay
<1>4. ASSUME NEW k \in Jobs, k # j
      PROVE  ExactOK(k)'
  <2>1. AttemptOf(k)' = AttemptOf(k) /\ AttemptOf(k) # AttemptOf(j) /\ AttemptOf(k) \in Attempts
    BY <1>4, AttemptIs DEF AttemptOf
  <2>2. /\ HasSigned(AttemptOf(k))' => HasSigned(AttemptOf(k))
        /\ WasPaid(AttemptOf(k)) => WasPaid(AttemptOf(k))'
    <3>1. PICK b \in Attempts : b = AttemptOf(k)
      BY <2>1
    <3>2. (HasSigned(b)' => HasSigned(b)) /\ (WasPaid(b) => WasPaid(b)')
      BY DEF HasSigned, WasPaid
    <3> QED BY <2>1, <3>1, <3>2 DEF HasSigned, WasPaid
  <2>3. /\ OnWire("settle", AttemptOf(k))' => OnWire("settle", AttemptOf(k))
        /\ OnWire("approve", AttemptOf(k)) => OnWire("approve", AttemptOf(k))'
    BY <2>1, OthersOnWire
  <2>4. k \notin touched' =>
          /\ k \notin touched
          /\ tabs'[TabOf[k]] = tabs[TabOf[k]]
          /\ balances'[Account(TabOf[k])] = balances[Account(TabOf[k])]
          /\ allowance'[Account(TabOf[k])] = allowance[Account(TabOf[k])]
    <3> SUFFICES ASSUME k \notin touched' PROVE
          /\ k \notin touched
          /\ tabs'[TabOf[k]] = tabs[TabOf[k]]
          /\ balances'[Account(TabOf[k])] = balances[Account(TabOf[k])]
          /\ allowance'[Account(TabOf[k])] = allowance[Account(TabOf[k])]
      OBVIOUS
    <3>1. /\ TabOf[k] \in Tabs /\ TabOf[k][1] # TabOf[j][1] /\ k \notin touched
          /\ Account(TabOf[k]) \in AgentAssets
      BY <1>2, <1>4, AttemptIs DEF AgentOf
    <3>2. Account(TabOf[k]) # Account(TabOf[j])
      BY <3>1 DEF Account
    <3> QED BY <1>1, <3>1, <3>2, PaySpares
  <2>5. prices' = prices
    BY DEF Pay, ApplySettlement, envVars
  <2> QED BY <2>2, <2>3, <2>4, <2>5, ClaimsStay
<1>5. ExactOK(j)'
  BY ClaimsEnd
<1> QED BY <1>3, <1>4, <1>5

\* What a step pays is the last of the log, and what was paid stays so.
LEMMA PaysForIs ==
  ASSUME TypeOK, LogOK, NEW t, NEW amount, Pay(t, amount),
         NEW owner \in Attempts \cup {Outside}, PaysFor(owner)
  PROVE  /\ Len(settlements') > Len(settlements) /\ paidFor'[Len(paidFor')] = owner
         /\ WasPaid(owner)' /\ \A a : WasPaid(a) => WasPaid(a)'
<1>1. Len(settlements) \in Nat /\ Len(settlements') = Len(settlements) + 1
  BY PayLengthens
<1>2. paidFor' = Append(paidFor, owner) /\ paidFor \in Seq(Attempts \cup {Outside})
  BY <1>1 DEF PaysFor, LogOK
<1>3. /\ Len(paidFor) \in Nat /\ Len(paidFor') = Len(paidFor) + 1
      /\ DOMAIN paidFor' = DOMAIN paidFor \cup {Len(paidFor) + 1}
      /\ paidFor'[Len(paidFor) + 1] = owner
      /\ \A i \in DOMAIN paidFor : paidFor'[i] = paidFor[i]
  BY <1>2
<1> QED BY <1>1, <1>3 DEF WasPaid

\* The settlement that is mined is the whole Open Tab of a call that was alone.
LEMMA MinedIsExact ==
  ASSUME Kept, ExactInv, wire # <<>>, Head(wire).kind = "settle",
         NEW j \in Jobs, j = Head(wire).of[1], j \notin touched
  PROVE  /\ Head(wire).amount = tabs[TabOf[j]].open /\ Head(wire).amount > 0
         /\ balances[Account(TabOf[j])] >= Head(wire).amount
         /\ allowance[Account(TabOf[j])] >= Head(wire).amount
<1>1. Head(wire).of = AttemptOf(j) /\ Head(wire).amount = AmountOf(j)
  BY NextIs DEF Kept, ExactInv
<1>2. Flying(AttemptOf(j))
  BY <1>1, WireShrinks DEF Kept, PayTypes, Flying
<1> QED BY <1>1, <1>2 DEF ExactInv, ExactOK, Decided, Funded, CanSpend, Pending

LEMMA MineExactly ==
  ASSUME TypeOK, Kept, LogOK, ExactInv, collections \in Collections, balances \in Balances,
         MineSettle
  PROVE  ExactInv'
<1>1. PayTypes /\ SentOnce /\ WireOK /\ PostsOK
  BY DEF Kept, ExactInv
<1>2. /\ wire # <<>> /\ Head(wire).kind = "settle" /\ wire' = Tail(wire)
      /\ UNCHANGED <<job, signed>>
  BY DEF MineSettle, railVars, permitVars, jobVars
<1>3. PICK j \in Jobs : j = Head(wire).of[1]
  BY <1>1, <1>2, NextIs
<1>4. /\ TabOf[j] \in Tabs /\ Head(wire).of = AttemptOf(j) /\ AttemptOf(j) \in Attempts
      /\ job[j].stage \in {"sent", "over"} /\ Head(wire).amount \in Nat
  BY <1>1, <1>2, <1>3, NextIs, AttemptIs, TabBookAssumption DEF Transaction, Amount
<1>5. /\ WireOK'
      /\ \A what, a : OnWire(what, a)' => OnWire(what, a)
      /\ \A what, a : OnWire(what, a) => OnWire(what, a)' \/ a = AttemptOf(j)
  BY <1>1, <1>2, <1>4, WireTail
<1>6. ~Flying(AttemptOf(j))' /\ ~HasSigned(AttemptOf(j))'
  <2> DEFINE b == AttemptOf(j)
  <2>1. b' = b /\ b = Head(wire).of /\ b \in Attempts
    BY <1>2, <1>4 DEF AttemptOf
  <2> HIDE DEF b
  <2>2. Flying(b) /\ \A a : Flying(a)' <=> Flying(a) /\ a # b
    BY <1>1, <1>2, <2>1, WireShrinks DEF PayTypes
  <2>3. ~HasSigned(b)
    BY <2>1, <2>2 DEF Kept, AttemptsOK, AttemptOK
  <2>4. ~Flying(b)' /\ ~HasSigned(b)'
    <3>1. ~Flying(b)'
      BY <2>1, <2>2 DEF Flying
    <3> QED BY <1>2, <2>1, <2>3, <3>1 DEF HasSigned
  <2> QED BY <2>4 DEF b
<1>7. CASE /\ Succeeds(Head(wire))
           /\ Pay(TabOf[j], Head(wire).amount)
           /\ allowance' = [allowance EXCEPT ![Account(TabOf[j])] = @ - Head(wire).amount]
           /\ PaysFor(Head(wire).of) /\ Touches(j)
  <2>1. allowance[Account(TabOf[j])] >= Head(wire).amount
    BY <1>3, <1>7 DEF Succeeds
  <2>2. /\ allowance' \in [AgentAssets -> Nat]
        /\ \A x \in AgentAssets : x # Account(TabOf[j]) => allowance'[x] = allowance[x]
    <3>1. Account(TabOf[j]) \in AgentAssets /\ allowance \in [AgentAssets -> Nat]
      BY <1>1, AttemptIs DEF ExactInv
    <3>2. PICK rest \in Nat : rest = allowance[Account(TabOf[j])] - Head(wire).amount
      BY <1>4, <2>1, <3>1
    <3> QED BY <1>7, <3>1, <3>2
  <2>3. \A a : WasPaid(a) => WasPaid(a)'
    BY <1>4, <1>7, PaysForIs
  <2> QED BY <1>1, <1>2, <1>4, <1>5, <1>6, <1>7, <2>2, <2>3, PaidExactly
<1>8. CASE UNCHANGED <<railVars, allowance, paidFor, touched>>
  <2>1. UNCHANGED <<tabs, prices, balances, allowance, paidFor, touched, job, signed>>
    BY <1>2, <1>8 DEF railVars, vars, bookVars, envVars
  <2>2. \A a : WasPaid(a) <=> WasPaid(a)'
    BY <2>1 DEF WasPaid
  <2>3. PostsOK'
    BY <1>1, <2>1, <2>2, PostsStay
  <2>4. ExactOK(j)'
    BY <1>2, <1>4, <1>6, ClaimsEnd
  <2>5. ASSUME NEW k \in Jobs, k # j
        PROVE  ExactOK(k)'
    <3>1. AttemptOf(k)' = AttemptOf(k) /\ AttemptOf(k) # AttemptOf(j)
      BY <1>2, <2>5 DEF AttemptOf
    <3>2. /\ OnWire("settle", AttemptOf(k))' => OnWire("settle", AttemptOf(k))
          /\ OnWire("approve", AttemptOf(k)) => OnWire("approve", AttemptOf(k))'
      BY <1>2, <1>5, <3>1, OthersOnWire
    <3>3. /\ HasSigned(AttemptOf(k))' => HasSigned(AttemptOf(k))
          /\ WasPaid(AttemptOf(k)) => WasPaid(AttemptOf(k))'
      BY <2>1, <3>1 DEF HasSigned, WasPaid
    <3> QED BY <2>1, <3>2, <3>3, ClaimsStay DEF ExactInv
  <2> QED BY <1>5, <2>1, <2>3, <2>4, <2>5 DEF ExactInv
<1> QED BY <1>3, <1>7, <1>8 DEF MineSettle

\* What the relay submits is a post of the current attempt of its call.
LEMMA RelayedIs ==
  ASSUME Kept, ExactInv, NEW a \in Attempts, NEW p \in signed, p.nonce = a, SettleWithPermit2(p)
  PROVE  /\ a[1] \in Jobs /\ a = AttemptOf(a[1])
         /\ <<p.agent, p.serviceId, p.asset>> = TabOf[a[1]] /\ p.amount = AmountOf(a[1])
         /\ job[a[1]].stage \in {"posted", "over"}
         /\ HasSigned(a) /\ ~Flying(a) /\ ~WasPaid(a)
<1>1. a = <<a[1], a[2]>> /\ a[1] \in Jobs
  BY DEF Attempts
<1>2. AttemptOK(a) /\ HasSigned(a) /\ PostOK(p)
  BY DEF Kept, AttemptsOK, HasSigned, ExactInv, PostsOK
<1>3. ~WasPaid(a)
  BY <1>2 DEF AttemptOK, SettleWithPermit2, PermitHolds
<1>4. Current(a)
  BY <1>2, <1>3 DEF PostOK
<1> QED BY <1>1, <1>2, <1>3, <1>4 DEF PostOK, Current, AttemptOf, AttemptOK

LEMMA RelayExactly ==
  ASSUME TypeOK, Kept, LogOK, ExactInv, collections \in Collections, balances \in Balances,
         NEW a0 \in Attempts, Relays(a0[1], a0[2])
  PROVE  ExactInv'
<1>1. a0 = <<a0[1], a0[2]>> /\ PayTypes
  BY DEF Attempts, Kept
<1>2. PICK p \in signed : p.nonce = a0 /\ SettleWithPermit2(p)
  BY <1>1 DEF Relays
<1>3. PICK j \in Jobs : j = a0[1]
  BY DEF Attempts
<1>4. /\ PaysFor(a0) /\ Touches(j) /\ UNCHANGED <<job, wire, allowance, signed>>
      /\ Pay(<<p.agent, p.serviceId, p.asset>>, p.amount)
  BY <1>1, <1>2, <1>3 DEF Relays, SettleWithPermit2, walletVars, jobVars
<1>5. /\ a0 = AttemptOf(j) /\ <<p.agent, p.serviceId, p.asset>> = TabOf[j]
      /\ job[j].stage \in {"posted", "over"} /\ ~Flying(a0)
  BY <1>2, <1>3, RelayedIs
<1>6. Pay(TabOf[j], p.amount)
  BY <1>4, <1>5
<1>7. WasPaid(a0)' /\ \A a : WasPaid(a) => WasPaid(a)'
  BY <1>4, <1>6, PaysForIs
<1>8. WireOK' /\ (\A what, a : OnWire(what, a)' <=> OnWire(what, a))
      /\ ~Flying(AttemptOf(j))' /\ WasPaid(AttemptOf(j))'
  <2>1. AttemptOf(j)' = a0
    BY <1>4, <1>5 DEF AttemptOf
  <2>2. ~Flying(AttemptOf(j))' /\ WasPaid(AttemptOf(j))'
    BY <1>4, <1>5, <1>7, <2>1 DEF Flying, WasPaid
  <2>3. WireOK'
    BY <1>4 DEF ExactInv, WireOK, Current, AmountOf
  <2> QED BY <1>4, <2>2, <2>3 DEF OnWire
<1>9. /\ job[j].stage \in {"sent", "posted", "over"}
      /\ allowance' \in [AgentAssets -> Nat]
      /\ \A x \in AgentAssets : x # Account(TabOf[j]) => allowance'[x] = allowance[x]
  BY <1>4, <1>5 DEF ExactInv
<1> QED BY <1>1, <1>4, <1>6, <1>7, <1>8, <1>9, PaidExactly

\* 1Click only adds to what an Agent has.
LEMMA DeliveryExactly ==
  ASSUME ExactInv, balances \in Balances, deposits \in [Attempts -> DepositState], PayTypes,
         NEW a \in Attempts, Delivers(a) \/ Refunds(a)
  PROVE  ExactInv'
<1>1. UNCHANGED <<tabs, prices, allowance, wire, job, signed, paidFor, touched>>
  BY DEF Delivers, Refunds, railVars, vars, bookVars, envVars, permitVars, jobVars
<1>2. \A x \in AgentAssets : balances[x] \in Nat /\ balances'[x] \in Nat /\ balances'[x] >= balances[x]
  <2>1. deposits[a].amount \in Nat /\ \A x \in AgentAssets : balances[x] \in Nat
    BY DEF DepositState, Balances, AgentAssets
  <2>2. PICK x0 : \/ balances' = [balances EXCEPT ![x0] = @ + deposits[a].amount]
                  \/ balances' = balances
    BY DEF Delivers, Refunds, railVars
  <2>3. DOMAIN balances = (Agents \cup Accounts) \X Assets /\ AgentAssets \subseteq DOMAIN balances
    BY DEF Balances, AgentAssets
  <2> QED BY <2>1, <2>2, <2>3 DEF Balances
<1>3. WireOK' /\ PostsOK'
  <2>1. WireOK'
    BY <1>1 DEF ExactInv, WireOK, Current, AmountOf
  <2>2. \A b : WasPaid(b) => WasPaid(b)'
    BY <1>1 DEF WasPaid
  <2> QED BY <1>1, <2>1, <2>2, PostsStay DEF ExactInv
<1>4. ASSUME NEW k \in Jobs
      PROVE  ExactOK(k)'
  <2>1. /\ Meters(k)' <=> Meters(k)
        /\ Decided(k)' <=> Decided(k)
        /\ Funded(k)' <=> Funded(k)
        /\ CanSpend(k)' <=> CanSpend(k)
    <3>1. /\ Flying(AttemptOf(k))' <=> Flying(AttemptOf(k))
          /\ Pending(AttemptOf(k))' <=> Pending(AttemptOf(k))
          /\ InFlight("approve", k)' <=> InFlight("approve", k)
      BY <1>1 DEF AttemptOf, Flying, InFlight, Pending, HasSigned, WasPaid
    <3> QED BY <1>1, <3>1 DEF Meters, Decided, Funded, CanSpend
  <2>2. /\ balances[Account(TabOf[k])] \in Nat /\ balances'[Account(TabOf[k])] \in Nat
        /\ balances'[Account(TabOf[k])] >= balances[Account(TabOf[k])]
        /\ AmountOf(k) \in Nat /\ AmountOf(k)' = AmountOf(k)
    BY <1>1, <1>2, AttemptIs, TabBookAssumption DEF AmountOf, JobState, Amount
  <2>3. (tabs[TabOf[k]].open + ToOpen(tabs[TabOf[k]], Charge(TabOf[k])))'
          = tabs[TabOf[k]].open + ToOpen(tabs[TabOf[k]], Charge(TabOf[k]))
    BY <1>1 DEF ToOpen, FromPrepaid, Charge
  <2>4. ExactOK(k)
    BY DEF ExactInv
  <2> QED BY <1>1, <2>1, <2>2, <2>3, <2>4 DEF ExactOK
<1> QED BY <1>1, <1>3, <1>4 DEF ExactInv

\* Nobody changes a price here.
LEMMA PricesStand ==
  ASSUME SettlementNext
  PROVE  prices' = prices
<1>1. ASSUME NEW t, NEW amount, Pay(t, amount)
      PROVE  prices' = prices
  BY <1>1 DEF Pay, ApplySettlement, envVars
<1>2. ASSUME BookCall \/ Tick
      PROVE  prices' = prices
  <2>1. ASSUME NEW caller, NEW surface, SetSettlementSurface(caller, surface)
        PROVE  prices' = prices
    BY <2>1, Zenon DEF SetSettlementSurface, envVars
  <2>2. ASSUME NEW t, NEW m, NEW d, Authorise(t, m, now + d)
        PROVE  prices' = prices
    BY <2>2, Zenon DEF Authorise, envVars
  <2>3. ASSUME NEW caller, NEW t, NEW units, NEW price, NEW witness, NEW cited,
               RecordDelivery(caller, t, units, price, witness, cited)
        PROVE  prices' = prices
    BY <2>3, Zenon DEF RecordDelivery, envVars
  <2>4. ASSUME NEW t, MarkDelinquent(t)
        PROVE  prices' = prices
    BY <2>4, Zenon DEF MarkDelinquent, envVars
  <2>5. CASE Tick
    BY <2>5, Zenon DEF Tick
  <2> QED BY <1>2, <2>1, <2>2, <2>3, <2>4, <2>5, Zenon DEF BookCall
<1>3. ASSUME NEW p, Sign(p) \/ SettleWithPermit2(p)
      PROVE  prices' = prices
  BY <1>1, <1>3 DEF Sign, SettleWithPermit2, vars, envVars
<1>4. ASSUME NEW agent, NEW instructions, BatchBegins(agent, instructions)
      PROVE  prices' = prices
  BY <1>4 DEF BatchBegins, vars, envVars
<1>5. CASE BatchPays
  BY <1>1, <1>5 DEF BatchPays
<1>6. CASE BatchEnds \/ BatchReverts
  BY <1>6 DEF BatchEnds, BatchReverts, vars, envVars
<1>7. ASSUME NEW t, NEW amount, Settle(t, amount)
      PROVE  prices' = prices
  BY <1>1, <1>7 DEF Settle
<1> QED BY <1>2, <1>3, <1>4, <1>5, <1>6, <1>7 DEF SettlementNext

LEMMA DealExactly ==
  ASSUME TypeOK, Kept, LogOK, ExactInv, Dealing(SettlementNext)
  PROVE  ExactInv'
<1>1. /\ SettlementNext /\ PaysFor(Outside) /\ UNCHANGED <<wire, allowance, job>>
      /\ \A p \in signed' \ signed : p.nonce \notin Attempts
      /\ touched' = IF tabs' = tabs /\ balances' = balances THEN touched ELSE Jobs
  BY DEF Dealing, walletVars, jobVars
<1>2. prices' = prices /\ signed \subseteq signed'
  BY <1>1, PricesStand, SignedByOthers DEF Kept, PayTypes
<1>3. \A a \in Attempts : WasPaid(a)' <=> WasPaid(a)
  BY <1>1, DealingMovesLog, LogDeals
<1>4. \A p : p.nonce \in Attempts => (p \in signed' <=> p \in signed)
  BY <1>1, <1>2
<1>5. WireOK'
  BY <1>1 DEF ExactInv, WireOK, Current, AmountOf
<1>6. PostsOK'
  BY <1>1, <1>3, <1>4, PostsStay DEF ExactInv
<1>7. ASSUME NEW k \in Jobs
      PROVE  ExactOK(k)'
  <2>1. CASE touched' = Jobs
    BY <2>1 DEF ExactOK
  <2>2. CASE tabs' = tabs /\ balances' = balances /\ touched' = touched
    <3>1. PICK a \in Attempts : a = AttemptOf(k) /\ a = AttemptOf(k)'
      BY <1>1, AttemptIs DEF Kept, AttemptOf
    <3>2. (HasSigned(a)' => HasSigned(a)) /\ (WasPaid(a) => WasPaid(a)')
      BY <1>3, <1>4 DEF HasSigned
    <3>3. /\ HasSigned(AttemptOf(k))' => HasSigned(AttemptOf(k))
          /\ WasPaid(AttemptOf(k)) => WasPaid(AttemptOf(k))'
      BY <3>1, <3>2 DEF HasSigned, WasPaid
    <3>4. /\ OnWire("settle", AttemptOf(k))' => OnWire("settle", AttemptOf(k))
          /\ OnWire("approve", AttemptOf(k)) => OnWire("approve", AttemptOf(k))'
      BY <1>1, <3>1 DEF OnWire
    <3> QED BY <1>1, <1>2, <2>2, <3>3, <3>4, ClaimsStay DEF ExactInv
  <2> QED BY <1>1, <2>1, <2>2
<1> QED BY <1>1, <1>5, <1>6, <1>7 DEF ExactInv

LEMMA ExactInit == PaymentsInit => ExactInv
<1> SUFFICES ASSUME PaymentsInit PROVE ExactInv
  OBVIOUS
<1> USE DEF PaymentsInit, SettlementInit
<1>1. WireOK /\ PostsOK /\ allowance \in [AgentAssets -> Nat]
  BY DEF WireOK, PostsOK
<1>2. ASSUME NEW j \in Jobs
      PROVE  ExactOK(j)
  <2>1. job[j].stage = "idle" /\ wire = <<>> /\ signed = {}
    OBVIOUS
  <2>2. ~Meters(j) /\ ~Decided(j) /\ ~Funded(j) /\ ~CanSpend(j)
    BY <2>1 DEF Meters, Decided, Funded, CanSpend, Pending, Flying, HasSigned, PastFunding
  <2> QED BY <2>2 DEF ExactOK
<1> QED BY <1>1, <1>2 DEF ExactInv

\* The whole of a step of a call, on the log.
LEMMA CallPaysNothing ==
  ASSUME NEW j \in Jobs, CallStarts(j) \/ JobStep(j) \/ LosesReceipt(j)
  PROVE  UNCHANGED <<paidFor, settlements, batch, allowance>>
BY DEF CallStarts, LosesReceipt, JobStep, Simulates, Declines, ReadsOpen, CallFails, Plan, Deposit,
       AwaitDelivery, EnsureAllowance, Approved, Sends, ReadsReceipt, ReadsReply,
       Records, RecordDelivery, Posts, Sign, railVars, vars, bookVars, walletVars

LEMMA ExactStep == AnswersInv /\ MoneyInv /\ ExactInv /\ [PaymentsNext]_payVars => ExactInv'
<1> SUFFICES ASSUME AnswersInv, MoneyInv, ExactInv, [PaymentsNext]_payVars PROVE ExactInv'
  OBVIOUS
<1>1. /\ TypeOK /\ IInv /\ Kept /\ LogOK /\ PayTypes
      /\ collections \in Collections /\ balances \in Balances
      /\ deposits \in [Attempts -> DepositState]
  BY DEF AnswersInv, SettlementInv1, IInv, Kept, MoneyInv, Matches
<1>2. ASSUME NEW j \in Jobs, CallStarts(j) \/ JobStep(j) \/ LosesReceipt(j)
      PROVE  ExactInv'
  <2>1. Settling(j)'
    BY <1>1, <1>2, CallExactly DEF ExactInv, Settling
  <2>2. \A k \in Jobs \ {j} : ExactOK(k)'
    BY <1>1, <1>2, CallSparesOthers DEF ExactInv
  <2>3. allowance' \in [AgentAssets -> Nat]
    BY <1>2, CallPaysNothing DEF ExactInv
  <2> QED BY <2>1, <2>2, <2>3 DEF ExactInv, Settling
<1>3. CASE MineApprove
  BY <1>1, <1>3, ApproveExactly
<1>4. CASE MineSettle
  BY <1>1, <1>4, MineExactly
<1>5. ASSUME NEW a \in Attempts, Delivers(a) \/ Refunds(a) \/ Relays(a[1], a[2])
      PROVE  ExactInv'
  BY <1>1, <1>5, DeliveryExactly, RelayExactly
<1>6. CASE Dealing(SettlementNext)
  BY <1>1, <1>6, DealExactly
<1>7. CASE UNCHANGED payVars
  <2>1. UNCHANGED <<tabs, prices, balances, allowance, wire, job, signed, paidFor, touched>>
    BY <1>7 DEF payVars, railVars, vars, bookVars, envVars, permitVars, walletVars, jobVars
  <2>2. WireOK'
    BY <2>1 DEF ExactInv, WireOK, Current, AmountOf
  <2>3. PostsOK'
    <3>1. \A a : WasPaid(a) => WasPaid(a)'
      BY <2>1 DEF WasPaid
    <3> QED BY <2>1, <3>1, PostsStay DEF ExactInv
  <2>4. ASSUME NEW k \in Jobs
        PROVE  ExactOK(k)'
    <3>1. /\ OnWire("settle", AttemptOf(k))' <=> OnWire("settle", AttemptOf(k))
          /\ OnWire("approve", AttemptOf(k))' <=> OnWire("approve", AttemptOf(k))
          /\ HasSigned(AttemptOf(k))' <=> HasSigned(AttemptOf(k))
          /\ WasPaid(AttemptOf(k))' <=> WasPaid(AttemptOf(k))
      BY <2>1 DEF OnWire, HasSigned, WasPaid, AttemptOf
    <3> QED BY <2>1, <3>1, ClaimsStay DEF ExactInv
  <2> QED BY <2>1, <2>2, <2>3, <2>4 DEF ExactInv
<1> QED BY <1>2, <1>3, <1>4, <1>5, <1>6, <1>7 DEF PaymentsNext, Mine, External

ExactNow == AnswersInv /\ MoneyInv /\ ExactInv

LEMMA PaysWhatIsOpen ==
  ASSUME ExactNow, PaymentsNext, Len(settlements') > Len(settlements),
         paidFor'[Len(paidFor')] # Outside,
         NEW j, j = paidFor'[Len(paidFor')][1], j \notin touched
  PROVE  tabs'[TabOf[j]].open = 0 /\ tabs'[TabOf[j]].prepaid = 0
<1>1. /\ TypeOK /\ IInv /\ Kept /\ LogOK /\ PayTypes /\ ExactInv /\ WireOK
      /\ Len(settlements) \in Nat
  BY DEF ExactNow, AnswersInv, SettlementInv1, IInv, Kept, ExactInv, TypeOK
<1>2. settlements' # settlements
  BY <1>1
<1>3. ASSUME NEW k \in Jobs, CallStarts(k) \/ JobStep(k) \/ LosesReceipt(k)
      PROVE  FALSE
  BY <1>2, <1>3, CallPaysNothing
<1>4. ASSUME NEW a \in Attempts, Delivers(a) \/ Refunds(a)
      PROVE  FALSE
  BY <1>2, <1>4 DEF Delivers, Refunds, railVars, vars, bookVars
<1>5. CASE MineApprove
  BY <1>2, <1>5 DEF MineApprove, railVars, vars, bookVars
<1>6. CASE Dealing(SettlementNext)
  <2>1. paidFor' = Append(paidFor, Outside) /\ paidFor \in Seq(Attempts \cup {Outside})
    BY <1>1, <1>6 DEF Dealing, PaysFor, LogOK
  <2> QED BY <2>1
<1>7. CASE MineSettle
  <2>1. wire # <<>> /\ Head(wire).kind = "settle"
    BY <1>7 DEF MineSettle
  <2>2. PICK k \in Jobs : k = Head(wire).of[1] /\ TabOf[k] \in Tabs /\ Head(wire).of \in Attempts
    BY <1>1, <2>1, NextIs DEF Transaction
  <2>3. Pay(TabOf[k], Head(wire).amount) /\ PaysFor(Head(wire).of)
    BY <1>2, <1>7, <2>2 DEF MineSettle, railVars, vars, bookVars
  <2>4. k = j
    BY <1>1, <2>2, <2>3, PaysForIs
  <2>5. Head(wire).amount = tabs[TabOf[k]].open /\ Head(wire).amount > 0
    BY <1>1, <2>1, <2>2, <2>4, MinedIsExact
  <2> QED BY <1>1, <2>2, <2>3, <2>4, <2>5, PaysExactly
<1>8. ASSUME NEW a \in Attempts, Relays(a[1], a[2])
      PROVE  tabs'[TabOf[j]].open = 0 /\ tabs'[TabOf[j]].prepaid = 0
  <2>1. a = <<a[1], a[2]>>
    BY DEF Attempts
  <2>2. PICK p \in signed : p.nonce = a /\ SettleWithPermit2(p)
    BY <1>8, <2>1 DEF Relays
  <2>3. PICK k \in Jobs : k = a[1]
    BY DEF Attempts
  <2>4. /\ a = AttemptOf(k) /\ <<p.agent, p.serviceId, p.asset>> = TabOf[k]
        /\ p.amount = AmountOf(k) /\ HasSigned(a) /\ ~WasPaid(a)
    BY <1>1, <2>2, <2>3, RelayedIs
  <2>5. Pay(TabOf[k], p.amount) /\ PaysFor(a)
    BY <1>8, <2>1, <2>2, <2>4 DEF Relays, SettleWithPermit2
  <2>6. k = j
    BY <1>1, <2>3, <2>5, PaysForIs
  <2>7. p.amount = tabs[TabOf[k]].open /\ p.amount > 0
    BY <1>1, <2>4, <2>6 DEF ExactInv, ExactOK, Decided, Pending
  <2>8. TabOf[k] \in Tabs
    BY PaymentsAssumption
  <2> QED BY <1>1, <2>5, <2>6, <2>7, <2>8, PaysExactly
<1> QED BY <1>3, <1>4, <1>5, <1>6, <1>7, <1>8 DEF PaymentsNext, Mine, External

LEMMA MinedIsPaid ==
  ASSUME ExactNow, PaymentsNext, wire # <<>>, wire' = Tail(wire), Head(wire).kind = "settle",
         Payable(TabOf[Head(wire).of[1]]), Head(wire).of[1] \notin touched
  PROVE  Len(settlements') > Len(settlements)
<1>1. TypeOK /\ Kept /\ LogOK /\ PayTypes /\ ExactInv /\ WireOK
  BY DEF ExactNow, AnswersInv, SettlementInv1, IInv, Kept, ExactInv
<1>2. /\ wire \in Seq(Transaction) /\ wire' # wire
      /\ \A tx : wire' # Append(wire, tx)
  BY <1>1 DEF PayTypes
<1>3. ASSUME NEW k \in Jobs, CallStarts(k) \/ JobStep(k) \/ LosesReceipt(k)
      PROVE  FALSE
  BY <1>2, <1>3, CallSends DEF Sent
<1>4. ASSUME NEW a \in Attempts, Delivers(a) \/ Refunds(a) \/ Relays(a[1], a[2])
      PROVE  FALSE
  BY <1>2, <1>4 DEF Delivers, Refunds, Relays, walletVars
<1>5. ~Dealing(SettlementNext) /\ ~MineApprove
  BY <1>2 DEF Dealing, walletVars, MineApprove
<1>6. CASE MineSettle
  <2>1. PICK j \in Jobs : j = Head(wire).of[1] /\ TabOf[j] \in Tabs /\ Head(wire).of \in Attempts
    BY <1>1, NextIs DEF Transaction
  <2>2. /\ Head(wire).amount = tabs[TabOf[j]].open
        /\ balances[Account(TabOf[j])] >= Head(wire).amount
        /\ allowance[Account(TabOf[j])] >= Head(wire).amount
    BY <1>1, <2>1, MinedIsExact
  <2>3. tabs[TabOf[j]].prepaid + (Head(wire).amount - Applied(tabs[TabOf[j]], Head(wire).amount))
          <= MaxAmount
    <3>1. tabs[TabOf[j]].open \in Nat /\ tabs[TabOf[j]].prepaid \in 0 .. MaxAmount
      BY <1>1, <2>1, TabBookAssumption DEF TypeOK, Tab, Amount
    <3>2. Applied(tabs[TabOf[j]], Head(wire).amount) = Head(wire).amount
      BY <2>2, <3>1 DEF Applied
    <3> QED BY <2>2, <3>1, <3>2, TabBookAssumption
  <2>4. Succeeds(Head(wire))
    BY <2>1, <2>2, <2>3 DEF Succeeds
  <2>5. Pay(TabOf[j], Head(wire).amount) /\ PaysFor(Head(wire).of)
    BY <1>6, <2>1, <2>4 DEF MineSettle
  <2> QED BY <1>1, <2>1, <2>5, PaysForIs
<1> QED BY <1>3, <1>4, <1>5, <1>6 DEF PaymentsNext, Mine, External

\* For any number of calls beside deliveries, settlements and funding of others:
\* one that was alone since it learnt its figure closes its tab and leaves nothing
\* over, and its transaction does not revert where any settlement could be made.
THEOREM ExactWhenAlone == PaymentsSpec => AloneItIsExact
<1> DEFINE
      closes ==
        Len(settlements') > Len(settlements) /\ paidFor'[Len(paidFor')] # Outside =>
          LET j == paidFor'[Len(paidFor')][1]
          IN  j \notin touched => tabs'[TabOf[j]].open = 0 /\ tabs'[TabOf[j]].prepaid = 0
      pays ==
        wire # <<>> /\ wire' = Tail(wire) /\ Head(wire).kind = "settle"
          /\ Payable(TabOf[Head(wire).of[1]]) =>
          Head(wire).of[1] \in touched \/ Len(settlements') > Len(settlements)
<1>1. PaymentsInit => ExactNow
  BY AnswersInit, MoneyInit, ExactInit DEF ExactNow
<1>2. ExactNow /\ [PaymentsNext]_payVars => ExactNow'
  BY AnswersStep, MoneyStep, ExactStep DEF ExactNow
<1>3. ExactNow /\ [PaymentsNext]_payVars => [closes /\ pays]_payVars
  <2> SUFFICES ASSUME ExactNow, PaymentsNext PROVE closes /\ pays
    OBVIOUS
  <2>1. closes
    BY PaysWhatIsOpen
  <2>2. pays
    BY MinedIsPaid
  <2> QED BY <2>1, <2>2
<1> QED BY <1>1, <1>2, <1>3, PTL DEF PaymentsSpec, AloneItIsExact
=============================================================================
