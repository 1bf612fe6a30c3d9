--------------------------- MODULE GatewayProofs ---------------------------
(***************************************************************************)
(* What the gateway promises for any number of calls, posts, settlements,  *)
(* failures and restarts: no request becomes two transactions, metering    *)
(* implements MeteredCall, a delegate's call is let in no later than the   *)
(* reads allow, and the feedback entries follow the settlements.           *)
(*                                                                         *)
(* The inductive invariant IInv follows a request through the sender: it   *)
(* is nowhere before it is submitted, then in the queue, then in a late    *)
(* send or in a transaction, and never in two places.  RatedInv counts     *)
(* over it the entries that may still be mined.                            *)
(***************************************************************************)
EXTENDS Gateway, SequenceTheorems, FiniteSetTheorems, TLAPS

\* Where a request can be.
Queued(r) == \E i \in DOMAIN queue : queue[i] = r
IsLate(r) == \E send \in late : send.request = r
Taken(r) == \E n \in DOMAIN txs : txs[n] = r
Untouched(r) == ~Queued(r) /\ ~IsLate(r) /\ ~Taken(r) /\ reply[r] = Nothing

SenderTypeOK ==
  /\ txs \in Seq(Requests \cup {Elsewhere})
  /\ receipts \in Seq(BOOLEAN) /\ Len(receipts) <= Len(txs)
  /\ late \subseteq [request : Requests, nonce : Nat]
  /\ next \in Nat \cup {Nothing}
  /\ queue \in Seq(Requests)
  /\ reply \in [Requests -> Nat \cup {Nothing, Failed}]

SenderSound ==
  /\ SenderTypeOK
  /\ \A i, j \in DOMAIN queue : queue[i] = queue[j] => i = j
  /\ \A r \in Requests : Queued(r) => ~IsLate(r) /\ ~Taken(r) /\ reply[r] = Nothing
  /\ \A a, b \in late : a.request = b.request => a = b
  /\ \A r \in Requests : IsLate(r) => ~Taken(r)
  /\ OneTransactionEach

\* A transaction of the call is mined and succeeded.
Succeeded(c) == \E n \in DOMAIN receipts : txs[n] = c /\ receipts[n] = TRUE

Early == {"idle", "arrived", "called", "simulating", "simulated", "sending"}

\* A call before its submission is nowhere, one that was refused stays there, and
\* those that are charged are those that succeeded.
CallsSound ==
  /\ stage \in [Calls -> Early \cup {"sent", "over"}]
  /\ told \in [Calls -> {"nothing", "neither", "charged", "refused"}]
  /\ charges \in [Calls -> {0, 1}]
  /\ \A c \in Calls :
       /\ stage[c] \in Early => Untouched(c)
       /\ stage[c] # "over" => told[c] = "nothing"
       /\ told[c] = "refused" => Untouched(c)
       /\ charges[c] = 1 <=> Succeeded(c)

\* Something of what the last simulation found holds no more.
Ended == spent \/ expired \/ lapsed

\* The posts still to come are nowhere; of those that are mined one settled, if
\* any did, and the last of them reverted for what had ended since it was
\* simulated.
PostsSound ==
  /\ post \in Nat
  /\ at \in {"posted", "sent"} => post \in Posts
  /\ \A k \in Posts :
       k > post \/ (k = post /\ at = "posted") => Untouched(Post(k))
  /\ spent \in BOOLEAN /\ expired \in BOOLEAN
  /\ payable \in BOOLEAN /\ lapsed \in BOOLEAN /\ (payable \/ lapsed)
  /\ settled \in {0, 1} /\ (settled = 1 => spent)
  /\ at # "idle" => answer \in Retryable
  /\ \A k \in Posts, n \in DOMAIN receipts :
       txs[n] = Post(k) => /\ receipts[n] = TRUE => settled = 1
                           /\ receipts[n] = FALSE /\ k = post => Ended
  /\ RelayTellsTheTruth

\* The entries still to be sent are nowhere, and one that is being sent is about
\* a settlement there is.
EntriesSound ==
  /\ entries \in Seq(Nat)
  /\ {settlements, indexed, known, writes, current} \subseteq Nat
  /\ known <= indexed /\ indexed <= settlements /\ settlements <= MaxPaid
  /\ step = "writing" => current \in 1 .. known
  /\ step = "sent" => current \in 1 .. known
  /\ \A s \in 1 .. MaxPaid, n \in 1 .. MaxWrites : n > writes => Untouched(Entry(s, n))

IInv == SenderSound /\ CallsSound /\ PostsSound /\ EntriesSound

-----------------------------------------------------------------------------
(* The sender.                                                             *)

\* What every step of the sender and the node leaves true of the rest: no
\* request is touched, and what is taken stays where it is.
Undisturbed ==
  /\ \A r \in Requests : Untouched(r) => Untouched(r)'
  /\ Len(txs) <= Len(txs') /\ \A n \in DOMAIN txs : txs'[n] = txs[n]

\* The first of the queue is nowhere else, and what is left has it no more.
LEMMA HeadOfQueue ==
  ASSUME SenderSound, queue # <<>>
  PROVE  /\ Head(queue) \in Requests /\ Queued(Head(queue))
         /\ ~IsLate(Head(queue)) /\ ~Taken(Head(queue)) /\ reply[Head(queue)] = Nothing
         /\ Tail(queue) \in Seq(Requests)
         /\ \A i \in DOMAIN Tail(queue) :
              /\ i \in Nat /\ i + 1 \in DOMAIN queue /\ Tail(queue)[i] = queue[i + 1]
              /\ Tail(queue)[i] # Head(queue)
<1>1. queue \in Seq(Requests) BY DEF SenderSound, SenderTypeOK
<1>2. Len(queue) \in Nat \ {0} /\ 1 \in DOMAIN queue /\ Head(queue) = queue[1]
      /\ DOMAIN queue = 1 .. Len(queue) /\ queue[1] \in Requests
  BY <1>1
<1>3. /\ Tail(queue) \in Seq(Requests) /\ Len(Tail(queue)) = Len(queue) - 1
      /\ DOMAIN Tail(queue) = 1 .. Len(queue) - 1
      /\ \A i \in 1 .. Len(queue) - 1 : Tail(queue)[i] = queue[i + 1]
  BY <1>1, <1>2, HeadTailProperties
<1>4. Queued(Head(queue)) BY <1>2 DEF Queued
<1>5. ~IsLate(Head(queue)) /\ ~Taken(Head(queue)) /\ reply[Head(queue)] = Nothing
  BY <1>2, <1>4 DEF SenderSound
<1>6. ASSUME NEW i \in DOMAIN Tail(queue)
      PROVE  /\ i \in Nat /\ i + 1 \in DOMAIN queue /\ Tail(queue)[i] = queue[i + 1]
             /\ Tail(queue)[i] # Head(queue)
  <2>1. i \in Nat /\ i + 1 \in DOMAIN queue /\ Tail(queue)[i] = queue[i + 1] /\ i + 1 # 1
    BY <1>2, <1>3
  <2>2. queue[i + 1] # queue[1]
    BY <1>2, <2>1 DEF SenderSound
  <2> QED BY <1>2, <2>1, <2>2
<1> QED BY <1>2, <1>3, <1>4, <1>5, <1>6

\* A transaction that the node takes is the last.
LEMMA TakenLast ==
  ASSUME SenderTypeOK, NEW t \in Requests \cup {Elsewhere}, txs' = Append(txs, t)
  PROVE  /\ txs' \in Seq(Requests \cup {Elsewhere}) /\ Len(txs') = Len(txs) + 1
         /\ DOMAIN txs' = DOMAIN txs \cup {Len(txs) + 1} /\ Len(txs) + 1 \notin DOMAIN txs
         /\ txs'[Len(txs) + 1] = t /\ \A n \in DOMAIN txs : txs'[n] = txs[n]
         /\ \A r : Taken(r)' <=> Taken(r) \/ r = t
<1>1. txs \in Seq(Requests \cup {Elsewhere}) /\ Len(txs) \in Nat /\ DOMAIN txs = 1 .. Len(txs)
  BY DEF SenderTypeOK
<1>2. /\ txs' \in Seq(Requests \cup {Elsewhere}) /\ Len(txs') = Len(txs) + 1
      /\ txs'[Len(txs) + 1] = t /\ \A n \in 1 .. Len(txs) : txs'[n] = txs[n]
  BY <1>1, AppendProperties
<1>3. DOMAIN txs' = 1 .. (Len(txs) + 1)
  BY <1>2
<1>4. /\ DOMAIN txs' = DOMAIN txs \cup {Len(txs) + 1} /\ Len(txs) + 1 \notin DOMAIN txs
  BY <1>1, <1>3
<1>5. \A r : Taken(r)' <=> Taken(r) \/ r = t
  BY <1>1, <1>2, <1>4 DEF Taken
<1> QED BY <1>1, <1>2, <1>4, <1>5

\* A request that is answered leaves the queue, and the others are as before.
LEMMA Leaves ==
  ASSUME SenderSound, queue # <<>>, NEW answered \in Nat \cup {Failed}, Finish(answered)
  PROVE  /\ queue' \in Seq(Requests) /\ reply' \in [Requests -> Nat \cup {Nothing, Failed}]
         /\ \A i, j \in DOMAIN queue' : queue'[i] = queue'[j] => i = j
         /\ \A r \in Requests :
              Queued(r)' => /\ r # Head(queue) /\ Queued(r)
                            /\ ~IsLate(r) /\ ~Taken(r) /\ reply'[r] = Nothing
         /\ \A r \in Requests : r # Head(queue) => reply'[r] = reply[r]
         /\ reply'[Head(queue)] = answered
         /\ \A r \in Requests :
              Untouched(r) => r # Head(queue) /\ ~Queued(r)' /\ reply'[r] = Nothing
<1> DEFINE h == Head(queue)
<1>1. /\ h \in Requests /\ queue' = Tail(queue) /\ reply' = [reply EXCEPT ![h] = answered]
      /\ queue' \in Seq(Requests) /\ reply \in [Requests -> Nat \cup {Nothing, Failed}]
  BY HeadOfQueue DEF Finish, SenderSound, SenderTypeOK
<1>2. /\ reply' \in [Requests -> Nat \cup {Nothing, Failed}] /\ reply'[h] = answered
      /\ \A r \in Requests : r # h => reply'[r] = reply[r]
  BY <1>1
<1>3. \A i \in DOMAIN queue' :
        i \in Nat /\ i + 1 \in DOMAIN queue /\ queue'[i] = queue[i + 1] /\ queue'[i] # h
  BY <1>1, HeadOfQueue
<1>4. \A i, j \in DOMAIN queue' : queue'[i] = queue'[j] => i = j
  BY <1>3 DEF SenderSound
<1>5. \A r \in Requests : Queued(r)' => r # h /\ Queued(r)
  BY <1>3 DEF Queued
<1>6. \A r \in Requests :
        Queued(r)' => ~IsLate(r) /\ ~Taken(r) /\ reply'[r] = Nothing
  BY <1>2, <1>5 DEF SenderSound
<1>7. \A r \in Requests : Untouched(r) => r # h /\ ~Queued(r)' /\ reply'[r] = Nothing
  BY <1>2, <1>5, HeadOfQueue DEF Untouched
<1> QED BY <1>1, <1>2, <1>4, <1>5, <1>6, <1>7

\* A step that changes neither the queue nor what is late or taken.
LEMMA Recounts ==
  ASSUME SenderSound, UNCHANGED <<txs, late, queue, reply>>,
         receipts' \in Seq(BOOLEAN), Len(receipts') <= Len(txs),
         next' \in Nat \cup {Nothing}, next' # Nothing => next' <= Pending
  PROVE  SenderSound' /\ Undisturbed
<1>1. SenderTypeOK' BY DEF SenderSound, SenderTypeOK
<1>2. OneTransactionEach' BY DEF SenderSound, OneTransactionEach, Pending
<1>3. Undisturbed BY DEF Undisturbed, Untouched, Queued, IsLate, Taken, SenderSound, SenderTypeOK
<1> QED BY <1>1, <1>2, <1>3 DEF SenderSound, Queued, IsLate, Taken

\* The first of the queue fails, and nothing of it is with the node.
LEMMA FailsHere ==
  ASSUME SenderSound, queue # <<>>, next' = Nothing, Finish(Failed), UNCHANGED <<txs, receipts, late>>
  PROVE  SenderSound' /\ Undisturbed
<1>1. SenderTypeOK'
  BY Leaves DEF SenderSound, SenderTypeOK
<1>2. OneTransactionEach'
  BY Leaves, HeadOfQueue DEF SenderSound, OneTransactionEach
<1>3. Undisturbed
  <2>1. \A r \in Requests : Untouched(r) => Untouched(r)'
    BY Leaves DEF Untouched, IsLate, Taken
  <2> QED BY <2>1 DEF Undisturbed, SenderSound, SenderTypeOK
<1> QED BY <1>1, <1>2, <1>3, Leaves DEF SenderSound, IsLate, Taken

\* The node takes the first of the queue, and the sender knows or does not.
LEMMA TakesHere ==
  ASSUME SenderSound, queue # <<>>, next = Pending, txs' = Append(txs, Head(queue)),
         \/ next' = next + 1 /\ Finish(next)
         \/ next' = Nothing /\ Finish(Failed),
         UNCHANGED <<receipts, late>>
  PROVE  SenderSound' /\ Undisturbed
<1> DEFINE h == Head(queue)
<1>1. SenderTypeOK /\ h \in Requests /\ ~IsLate(h) /\ ~Taken(h) /\ Len(txs) \in Nat
      /\ next = Len(txs) + 1 /\ DOMAIN txs = 1 .. Len(txs)
  BY HeadOfQueue DEF SenderSound, SenderTypeOK, Pending
<1>2. PICK answered \in {next, Failed} :
        /\ Finish(answered) /\ answered \in Nat \cup {Failed}
        /\ next' \in Nat \cup {Nothing} /\ (next' # Nothing => next' = Len(txs) + 2)
  BY <1>1
<1>3. /\ txs' \in Seq(Requests \cup {Elsewhere}) /\ Len(txs') = Len(txs) + 1
      /\ DOMAIN txs' = DOMAIN txs \cup {Len(txs) + 1} /\ Len(txs) + 1 \notin DOMAIN txs
      /\ txs'[Len(txs) + 1] = h /\ \A n \in DOMAIN txs : txs'[n] = txs[n]
      /\ \A r : Taken(r)' <=> Taken(r) \/ r = h
  BY <1>1, TakenLast
<1>4. SenderTypeOK'
  BY <1>1, <1>2, <1>3, Leaves DEF SenderTypeOK
<1>5. OneTransactionEach'
  <2>1. \A m, n \in DOMAIN txs' : m # n /\ txs'[m] = txs'[n] => txs'[m] = Elsewhere
    BY <1>1, <1>3 DEF SenderSound, OneTransactionEach, Taken
  <2>2. ASSUME NEW r \in Requests, reply'[r] \notin {Nothing, Failed}
        PROVE  reply'[r] \in DOMAIN txs' /\ txs'[reply'[r]] = r
    BY <1>1, <1>2, <1>3, <2>2, Leaves DEF SenderSound, OneTransactionEach
  <2>3. next' # Nothing => next' <= Pending'
    BY <1>1, <1>2, <1>3 DEF Pending
  <2> QED BY <2>1, <2>2, <2>3 DEF OneTransactionEach
<1>6. \A r \in Requests : Queued(r)' => ~IsLate(r)' /\ ~Taken(r)' /\ reply'[r] = Nothing
  BY <1>2, <1>3, Leaves DEF IsLate
<1>7. \A r \in Requests : IsLate(r)' => ~Taken(r)'
  BY <1>1, <1>3 DEF SenderSound, IsLate
<1>8. Undisturbed
  BY <1>1, <1>2, <1>3, Leaves DEF Undisturbed, Untouched, IsLate
<1>9. \A i, j \in DOMAIN queue' : queue'[i] = queue'[j] => i = j
  BY <1>2, Leaves
<1> QED BY <1>4, <1>5, <1>6, <1>7, <1>8, <1>9 DEF SenderSound

\* A send that is given up joins those on their way.
LEMMA JoinsLate ==
  ASSUME NEW r, NEW n, late' = late \cup {[request |-> r, nonce |-> n]}
  PROVE  \A q : IsLate(q)' <=> IsLate(q) \/ q = r
<1> DEFINE send == [request |-> r, nonce |-> n]
<1>1. send.request = r /\ late' = late \cup {send}
  OBVIOUS
<1> HIDE DEF send
<1> QED BY <1>1 DEF IsLate

\* The first of the queue is given up, and its send is still on its way.
LEMMA DelayedHere ==
  ASSUME SenderSound, queue # <<>>, next # Nothing, next' = Nothing, Finish(Failed),
         late' = late \cup {[request |-> Head(queue), nonce |-> next]},
         UNCHANGED <<txs, receipts>>
  PROVE  SenderSound' /\ Undisturbed
<1> DEFINE h == Head(queue)
           send == [request |-> h, nonce |-> next]
<1>1. SenderTypeOK /\ h \in Requests /\ ~IsLate(h) /\ ~Taken(h) /\ next \in Nat
  BY HeadOfQueue DEF SenderSound, SenderTypeOK
<1>2. SenderTypeOK'
  <2>1. queue' \in Seq(Requests) /\ reply' \in [Requests -> Nat \cup {Nothing, Failed}]
    BY Leaves
  <2>2. send \in [request : Requests, nonce : Nat] /\ late' = late \cup {send}
    BY <1>1
  <2> HIDE DEF send
  <2> QED BY <1>1, <2>1, <2>2 DEF SenderTypeOK
<1>3. \A r : IsLate(r)' <=> IsLate(r) \/ r = h
  BY JoinsLate
<1>4. \A r : Taken(r)' <=> Taken(r)
  BY DEF Taken
<1>5. \A r \in Requests : Queued(r)' => ~IsLate(r)' /\ ~Taken(r)' /\ reply'[r] = Nothing
  BY <1>3, <1>4, Leaves
<1>6. \A r \in Requests : IsLate(r)' => ~Taken(r)'
  BY <1>1, <1>3, <1>4 DEF SenderSound
<1>7. \A a, b \in late' : a.request = b.request => a = b
  <2>1. \A a \in late : a.request # h
    BY <1>1 DEF IsLate
  <2> QED BY <2>1 DEF SenderSound
<1>8. OneTransactionEach'
  BY <1>1, <1>4, Leaves DEF SenderSound, OneTransactionEach, Pending
<1>9. Undisturbed
  <2>1. \A r \in Requests : Untouched(r) => Untouched(r)'
    BY <1>3, <1>4, Leaves DEF Untouched
  <2> QED BY <1>1, <2>1 DEF Undisturbed, SenderTypeOK
<1>10. \A i, j \in DOMAIN queue' : queue'[i] = queue'[j] => i = j
  BY Leaves
<1> QED BY <1>2, <1>5, <1>6, <1>7, <1>8, <1>9, <1>10 DEF SenderSound

LEMMA SenderSteps == SenderSound /\ SenderStep => SenderSound' /\ Undisturbed
<1> SUFFICES ASSUME SenderSound, SenderStep PROVE SenderSound' /\ Undisturbed
  OBVIOUS
<1> USE DEF nodeVars, queueVars
<1>1. SenderTypeOK /\ Len(txs) \in Nat
  BY DEF SenderSound, SenderTypeOK
<1>2. CASE ReadNonce
  BY <1>1, <1>2, Recounts DEF ReadNonce, SenderTypeOK, Pending
<1>3. CASE Accepted
  BY <1>3, TakesHere DEF Accepted
<1>4. CASE Refused
  <2>1. CASE again
    BY <1>4, <2>1, FailsHere DEF Refused
  <2>2. CASE ~again
    BY <1>1, <1>4, <2>2, Recounts DEF Refused, SenderTypeOK
  <2> QED BY <2>1, <2>2
<1>5. CASE SendFails
  BY <1>5, FailsHere DEF SendFails, Forgotten
<1>6. CASE AnswerLost
  BY <1>6, TakesHere DEF AnswerLost, Forgotten
<1>7. CASE SendDelayed
  BY <1>7, DelayedHere DEF SendDelayed, Forgotten
<1> QED BY <1>2, <1>3, <1>4, <1>5, <1>6, <1>7 DEF SenderStep

LEMMA ArrivalSound == SenderSound /\ Arrives => SenderSound' /\ Undisturbed
<1> SUFFICES ASSUME SenderSound, Arrives PROVE SenderSound' /\ Undisturbed
  OBVIOUS
<1> USE DEF nodeVars, queueVars
<1>1. SenderTypeOK /\ Len(txs) \in Nat
  BY DEF SenderSound, SenderTypeOK
<1>2. PICK send \in late :
        /\ late' = late \ {send}
        /\ txs' = IF send.nonce = Pending THEN Append(txs, send.request) ELSE txs
  BY DEF Arrives
<1>3. /\ UNCHANGED <<receipts, next, queue, reply>>
      /\ send.request \in Requests /\ IsLate(send.request)
  BY <1>1, <1>2 DEF Arrives, SenderTypeOK, IsLate
<1>4. \A r : IsLate(r)' => IsLate(r) /\ r # send.request
  BY <1>2 DEF SenderSound, IsLate
<1>5. \A r : Queued(r)' <=> Queued(r)
  BY <1>3 DEF Queued
<1>6. CASE send.nonce = Pending
  <2>1. ~Taken(send.request) /\ txs' = Append(txs, send.request)
    BY <1>2, <1>3, <1>6 DEF SenderSound
  <2>2. /\ txs' \in Seq(Requests \cup {Elsewhere}) /\ Len(txs') = Len(txs) + 1
        /\ DOMAIN txs' = DOMAIN txs \cup {Len(txs) + 1} /\ Len(txs) + 1 \notin DOMAIN txs
        /\ txs'[Len(txs) + 1] = send.request /\ \A n \in DOMAIN txs : txs'[n] = txs[n]
        /\ \A r : Taken(r)' <=> Taken(r) \/ r = send.request
    BY <1>1, <1>3, <2>1, TakenLast
  <2>3. SenderTypeOK'
    BY <1>1, <1>2, <1>3, <2>2 DEF SenderTypeOK
  <2>4. \A r \in Requests : Queued(r)' => ~IsLate(r)' /\ ~Taken(r)' /\ reply'[r] = Nothing
    BY <1>3, <1>4, <1>5, <2>2 DEF SenderSound
  <2>5. \A r \in Requests : IsLate(r)' => ~Taken(r)'
    BY <1>4, <2>2 DEF SenderSound
  <2>6. \A m, n \in DOMAIN txs' : m # n /\ txs'[m] = txs'[n] => txs'[m] = Elsewhere
    BY <2>1, <2>2 DEF SenderSound, OneTransactionEach, Taken
  <2>7. \A r \in Requests : reply'[r] \notin {Nothing, Failed} =>
          reply'[r] \in DOMAIN txs' /\ txs'[reply'[r]] = r
    BY <1>3, <2>2 DEF SenderSound, OneTransactionEach
  <2>8. next' # Nothing => next' <= Pending'
    BY <1>1, <1>3, <2>2 DEF SenderSound, OneTransactionEach, Pending, SenderTypeOK
  <2>9. Undisturbed
    BY <1>1, <1>3, <1>4, <1>5, <2>2 DEF Undisturbed, Untouched
  <2> QED BY <1>2, <1>3, <2>3, <2>4, <2>5, <2>6, <2>7, <2>8, <2>9 DEF SenderSound, OneTransactionEach
<1>7. CASE send.nonce # Pending
  <2>1. txs' = txs /\ \A r : Taken(r)' <=> Taken(r)
    BY <1>2, <1>7 DEF Taken
  <2>2. SenderTypeOK'
    BY <1>1, <1>2, <1>3, <2>1 DEF SenderTypeOK
  <2>3. OneTransactionEach'
    BY <1>3, <2>1 DEF SenderSound, OneTransactionEach, Pending
  <2>4. Undisturbed
    BY <1>1, <1>3, <1>4, <1>5, <2>1 DEF Undisturbed, Untouched, SenderTypeOK
  <2> QED BY <1>2, <1>3, <1>4, <1>5, <2>1, <2>2, <2>3, <2>4 DEF SenderSound
<1> QED BY <1>6, <1>7

LEMMA OutsideSound == SenderSound /\ Outside => SenderSound' /\ Undisturbed
<1> SUFFICES ASSUME SenderSound, Outside PROVE SenderSound' /\ Undisturbed
  OBVIOUS
<1> USE DEF queueVars
<1>1. SenderTypeOK /\ Len(txs) \in Nat /\ Elsewhere \notin Requests
  BY SenderAssumption DEF SenderSound, SenderTypeOK
<1>2. UNCHANGED <<receipts, late, next, queue, reply>> /\ txs' = Append(txs, Elsewhere)
  BY DEF Outside
<1>3. /\ txs' \in Seq(Requests \cup {Elsewhere}) /\ Len(txs') = Len(txs) + 1
      /\ DOMAIN txs' = DOMAIN txs \cup {Len(txs) + 1} /\ Len(txs) + 1 \notin DOMAIN txs
      /\ txs'[Len(txs) + 1] = Elsewhere /\ \A n \in DOMAIN txs : txs'[n] = txs[n]
      /\ \A r \in Requests : Taken(r)' <=> Taken(r)
  BY <1>1, <1>2, TakenLast
<1>4. /\ \A r : Queued(r)' <=> Queued(r)
      /\ \A r : IsLate(r)' <=> IsLate(r)
  BY <1>2 DEF Queued, IsLate
<1>5. SenderTypeOK'
  BY <1>1, <1>2, <1>3 DEF SenderTypeOK
<1>6. OneTransactionEach'
  <2>1. \A m, n \in DOMAIN txs' : m # n /\ txs'[m] = txs'[n] => txs'[m] = Elsewhere
    BY <1>3 DEF SenderSound, OneTransactionEach
  <2>2. \A r \in Requests : reply'[r] \notin {Nothing, Failed} =>
          reply'[r] \in DOMAIN txs' /\ txs'[reply'[r]] = r
    BY <1>2, <1>3 DEF SenderSound, OneTransactionEach
  <2>3. next' # Nothing => next' <= Pending'
    BY <1>1, <1>2, <1>3 DEF SenderSound, OneTransactionEach, Pending, SenderTypeOK
  <2> QED BY <2>1, <2>2, <2>3 DEF OneTransactionEach
<1>7. Undisturbed
  BY <1>1, <1>2, <1>3, <1>4 DEF Undisturbed, Untouched
<1> QED BY <1>2, <1>3, <1>4, <1>5, <1>6, <1>7 DEF SenderSound

\* The process restarts: its queue is gone, and its first may still arrive.
LEMMA RestartSound == SenderSound /\ SenderRestarts => SenderSound' /\ Undisturbed
<1> SUFFICES ASSUME SenderSound, SenderRestarts PROVE SenderSound' /\ Undisturbed
  OBVIOUS
<1>1. SenderTypeOK
  BY DEF SenderSound
<1>2. /\ next' = Nothing /\ queue' = <<>> /\ UNCHANGED <<txs, receipts, reply>>
      /\ \/ late' = late
         \/ /\ queue # <<>> /\ next # Nothing
            /\ late' = late \cup {[request |-> Head(queue), nonce |-> next]}
  BY DEF SenderRestarts
<1>3. OneTransactionEach'
  BY <1>2 DEF SenderSound, OneTransactionEach, Pending
<1>4. /\ \A r : ~Queued(r)' /\ (Taken(r)' <=> Taken(r))
      /\ queue' \in Seq(Requests) /\ \A i, j \in DOMAIN queue' : queue'[i] = queue'[j] => i = j
  BY <1>2 DEF Queued, Taken
<1>5. CASE late' = late
  <2>1. \A r : IsLate(r)' <=> IsLate(r)
    BY <1>5 DEF IsLate
  <2>2. SenderTypeOK' BY <1>1, <1>2, <1>4, <1>5 DEF SenderTypeOK
  <2>3. Undisturbed BY <1>1, <1>2, <1>4, <2>1 DEF Undisturbed, Untouched, SenderTypeOK
  <2> QED BY <1>2, <1>3, <1>4, <1>5, <2>1, <2>2, <2>3 DEF SenderSound
<1>6. CASE /\ queue # <<>> /\ next # Nothing
           /\ late' = late \cup {[request |-> Head(queue), nonce |-> next]}
  <2> DEFINE h == Head(queue)
  <2>1. h \in Requests /\ Queued(h) /\ ~IsLate(h) /\ ~Taken(h) /\ next \in Nat
    BY <1>1, <1>6, HeadOfQueue DEF SenderTypeOK
  <2>2. \A r : IsLate(r)' <=> IsLate(r) \/ r = h
    BY <1>6, JoinsLate
  <2>3. SenderTypeOK' BY <1>1, <1>2, <1>4, <1>6, <2>1 DEF SenderTypeOK
  <2>4. \A a, b \in late' : a.request = b.request => a = b
    BY <1>6, <2>1 DEF SenderSound, IsLate
  <2>5. \A r \in Requests : IsLate(r)' => ~Taken(r)'
    BY <1>4, <2>1, <2>2 DEF SenderSound
  <2>6. Undisturbed
    BY <1>1, <1>2, <1>4, <2>1, <2>2 DEF Undisturbed, Untouched, SenderTypeOK
  <2> QED BY <1>3, <1>4, <2>3, <2>4, <2>5, <2>6 DEF SenderSound
<1> QED BY <1>2, <1>5, <1>6

\* A request that was nowhere enters the queue, and no other is touched.
LEMMA SubmissionSound ==
  ASSUME SenderSound, NEW r \in Requests, Untouched(r), Submit(r), Submission
  PROVE  /\ SenderSound' /\ UNCHANGED <<txs, receipts>>
         /\ \A q \in Requests : q # r /\ Untouched(q) => Untouched(q)'
<1>1. SenderTypeOK /\ UNCHANGED <<txs, receipts, late, next, reply>> /\ queue' = Append(queue, r)
  BY DEF SenderSound, Submit, Submission, nodeVars
<1>2. queue \in Seq(Requests) /\ Len(queue) \in Nat /\ DOMAIN queue = 1 .. Len(queue)
  BY <1>1 DEF SenderTypeOK
<1>3. /\ queue' \in Seq(Requests) /\ DOMAIN queue' = 1 .. (Len(queue) + 1)
      /\ queue'[Len(queue) + 1] = r /\ \A i \in 1 .. Len(queue) : queue'[i] = queue[i]
  BY <1>1, <1>2, AppendProperties
<1>4. /\ \A q : Queued(q)' <=> Queued(q) \/ q = r
      /\ \A q : IsLate(q)' <=> IsLate(q)
      /\ \A q : Taken(q)' <=> Taken(q)
  <2>1. \A q : Queued(q)' <=> Queued(q) \/ q = r
    BY <1>2, <1>3 DEF Queued
  <2> QED BY <1>1, <2>1 DEF IsLate, Taken
<1>5. \A i, j \in DOMAIN queue' : queue'[i] = queue'[j] => i = j
  BY <1>2, <1>3 DEF SenderSound, Untouched, Queued
<1>6. SenderTypeOK'
  BY <1>1, <1>3 DEF SenderTypeOK
<1>7. OneTransactionEach'
  BY <1>1 DEF SenderSound, OneTransactionEach, Pending
<1>8. \A q \in Requests : Queued(q)' => ~IsLate(q)' /\ ~Taken(q)' /\ reply'[q] = Nothing
  BY <1>1, <1>4 DEF SenderSound, Untouched
<1>9. \A q \in Requests : q # r /\ Untouched(q) => Untouched(q)'
  BY <1>1, <1>4 DEF Untouched
<1> QED BY <1>1, <1>4, <1>5, <1>6, <1>7, <1>8, <1>9 DEF SenderSound

\* What is mined is the transaction after the last one with a receipt.
LEMMA MiningSound ==
  ASSUME SenderSound, NEW status \in BOOLEAN, MineNext(status)
  PROVE  /\ SenderSound' /\ Undisturbed /\ txs' = txs
         /\ receipts' \in Seq(BOOLEAN) /\ Len(receipts) + 1 \in DOMAIN txs
         /\ DOMAIN receipts' = DOMAIN receipts \cup {Len(receipts) + 1}
         /\ Len(receipts) + 1 \notin DOMAIN receipts
         /\ receipts'[Len(receipts) + 1] = status
         /\ \A n \in DOMAIN receipts : receipts'[n] = receipts[n]
<1>1. /\ receipts \in Seq(BOOLEAN) /\ Len(receipts) \in Nat /\ DOMAIN receipts = 1 .. Len(receipts)
      /\ Len(txs) \in Nat /\ DOMAIN txs = 1 .. Len(txs) /\ Len(receipts) < Len(txs)
  BY DEF SenderSound, SenderTypeOK, MineNext
<1>2. receipts' = Append(receipts, status) /\ UNCHANGED <<txs, late, next, queue, reply>>
  BY DEF MineNext, queueVars
<1>3. /\ receipts' \in Seq(BOOLEAN) /\ Len(receipts') = Len(receipts) + 1
      /\ receipts'[Len(receipts) + 1] = status
      /\ \A n \in 1 .. Len(receipts) : receipts'[n] = receipts[n]
  BY <1>1, <1>2, AppendProperties
<1>4. DOMAIN receipts' = 1 .. (Len(receipts) + 1)
  BY <1>1, <1>3
<1>5. SenderSound' /\ Undisturbed
  <2>1. next' \in Nat \cup {Nothing} /\ (next' # Nothing => next' <= Pending)
    BY <1>2 DEF SenderSound, SenderTypeOK, OneTransactionEach
  <2> QED BY <1>1, <1>2, <1>3, <2>1, Recounts
<1> QED BY <1>1, <1>2, <1>3, <1>4, <1>5

-----------------------------------------------------------------------------
(* The calls.                                                              *)

\* A step in which no call moves and none is mined.
LEMMA CallsFrame ==
  ASSUME SenderSound, CallsSound, Undisturbed, UNCHANGED <<receipts, stage, told, charges>>
  PROVE  CallsSound'
<1>1. \A c \in Calls : Succeeded(c)' <=> Succeeded(c)
  <2>1. \A n \in DOMAIN receipts : txs'[n] = txs[n]
    BY DEF SenderSound, SenderTypeOK, Undisturbed
  <2> QED BY <2>1 DEF Succeeded
<1>2. \A c \in Calls : Untouched(c) => Untouched(c)'
  BY MeteringAssumption DEF Undisturbed
<1> QED BY <1>1, <1>2 DEF CallsSound

\* What a step of a call does to what is promised of it: it goes on, or it is
\* over and told something, a refusal only before it was submitted, and a charge
\* only when it is charged.
CallMoves(c) ==
  /\ charges' = charges /\ stage[c] # "over"
  /\ \E to \in Early \cup {"over"} : stage' = [stage EXCEPT ![c] = to]
  /\ \/ /\ stage[c] \in Early /\ stage'[c] \in Early /\ told' = told
     \/ /\ stage'[c] = "over"
        /\ \E what \in {"neither", "charged", "refused"} :
             /\ told' = [told EXCEPT ![c] = what]
             /\ what = "refused" => stage[c] \in Early
             /\ what = "charged" => charges[c] = 1

LEMMA CallSteps ==
  ASSUME SenderSound, CallsSound, NEW c \in Calls,
         Arrive(c) \/ Admit(c) \/ TurnAway(c) \/ CallStep(c)
  PROVE  CallMoves(c)
<1> USE DEF bookVars
<1>1. stage \in [Calls -> Early \cup {"sent", "over"}]
  BY DEF CallsSound
<1>2. CASE Arrive(c)
  BY <1>1, <1>2 DEF Arrive, Move, CallMoves, Early
<1>3. CASE Admit(c)
  BY <1>1, <1>3 DEF Admit, Move, CallMoves, Early
<1>4. CASE TurnAway(c)
  BY <1>1, <1>4 DEF TurnAway, Respond, Move, CallMoves, Early
<1>5. CASE BuildWitness(c)
  BY <1>1, <1>5 DEF BuildWitness, Move, CallMoves, Early
<1>6. CASE SimulationPasses(c)
  BY <1>1, <1>6 DEF SimulationPasses, Move, CallMoves, Early
<1>7. CASE SimulationRefuses(c)
  BY <1>1, <1>7 DEF SimulationRefuses, Refuse, Respond, Move, CallMoves, Early
<1>8. CASE Unmetered(c)
  BY <1>1, <1>8 DEF Unmetered, Respond, Move, CallMoves, Early
<1>9. CASE NotSent(c)
  BY <1>1, <1>9 DEF NotSent, Respond, Move, CallMoves, Early
<1>10. CASE Receipt(c)
  <2>1. /\ stage[c] = "sent" /\ reply[c] \in DOMAIN receipts /\ charges' = charges
        /\ Respond(c, IF receipts[reply[c]] THEN "charged" ELSE "neither")
    BY <1>10 DEF Receipt, Mined, SenderSound, SenderTypeOK
  <2>2. receipts[reply[c]] \in BOOLEAN /\ c \in Requests
    BY <2>1, MeteringAssumption DEF SenderSound, SenderTypeOK
  <2>3. CASE receipts[reply[c]] = TRUE
    <3>1. txs[reply[c]] = c
      BY <2>1, <2>2, SenderAssumption DEF SenderSound, SenderTypeOK, OneTransactionEach
    <3>2. charges[c] = 1
      BY <2>1, <2>3, <3>1 DEF CallsSound, Succeeded
    <3> QED BY <1>1, <2>1, <2>3, <3>2 DEF Respond, Move, CallMoves, Early
  <2>4. CASE receipts[reply[c]] = FALSE
    BY <1>1, <2>1, <2>4 DEF Respond, Move, CallMoves, Early
  <2> QED BY <2>2, <2>3, <2>4
<1>11. CASE Unconfirmed(c)
  BY <1>1, <1>11 DEF Unconfirmed, Respond, Move, CallMoves, Early
<1> QED BY <1>2, <1>3, <1>4, <1>5, <1>6, <1>7, <1>8, <1>9, <1>10, <1>11 DEF CallStep

LEMMA CallMovesSound ==
  ASSUME CallsSound, NEW c \in Calls, CallMoves(c), UNCHANGED senderVars
  PROVE  CallsSound'
<1>1. \A d \in Calls : (Untouched(d)' <=> Untouched(d)) /\ (Succeeded(d)' <=> Succeeded(d))
  BY DEF senderVars, nodeVars, queueVars, Untouched, Queued, IsLate, Taken, Succeeded
<1>2. /\ stage' \in [Calls -> Early \cup {"sent", "over"}]
      /\ \A d \in Calls : d # c => stage'[d] = stage[d]
  BY DEF CallsSound, CallMoves
<1>3. /\ told' \in [Calls -> {"nothing", "neither", "charged", "refused"}]
      /\ \A d \in Calls : d # c => told'[d] = told[d]
  BY DEF CallsSound, CallMoves
<1>4. /\ stage'[c] \in Early => Untouched(c)'
      /\ stage'[c] # "over" => told'[c] = "nothing"
      /\ told'[c] = "refused" => Untouched(c)'
  <2>1. /\ stage[c] \in Early => Untouched(c)'
        /\ stage[c] # "over" => told[c] = "nothing"
        /\ told[c] = "refused" => Untouched(c)'
    BY <1>1 DEF CallsSound
  <2>2. CASE stage[c] \in Early /\ stage'[c] \in Early /\ told' = told
    BY <2>1, <2>2 DEF CallMoves, Early
  <2>3. CASE stage'[c] = "over" /\ stage[c] \notin Early
    <3>1. told'[c] # "refused"
      BY <2>3 DEF CallMoves, CallsSound
    <3> QED BY <2>3, <3>1 DEF Early
  <2>4. CASE stage'[c] = "over" /\ stage[c] \in Early
    BY <2>1, <2>4 DEF Early
  <2> QED BY <2>2, <2>3, <2>4 DEF CallMoves
<1> QED BY <1>1, <1>2, <1>3, <1>4 DEF CallsSound, CallMoves

\* Send: the call is in the queue from now on.
LEMMA SendSound ==
  ASSUME SenderSound, CallsSound, NEW c \in Calls, Send(c), Submission
  PROVE  /\ SenderSound' /\ CallsSound' /\ UNCHANGED <<told, charges, txs, receipts>>
         /\ \A q \in Requests : q # c /\ Untouched(q) => Untouched(q)'
<1>1. stage[c] = "sending" /\ stage' = [stage EXCEPT ![c] = "sent"]
      /\ UNCHANGED <<told, charges>> /\ Submit(c)
  BY DEF Send, Move, bookVars
<1>2. c \in Requests /\ Untouched(c) /\ told[c] = "nothing"
  BY <1>1, MeteringAssumption DEF CallsSound, Early
<1>3. /\ SenderSound' /\ UNCHANGED <<txs, receipts>>
      /\ \A q \in Requests : q # c /\ Untouched(q) => Untouched(q)'
  BY <1>1, <1>2, SubmissionSound
<1>4. \A d \in Calls : Succeeded(d)' <=> Succeeded(d)
  BY <1>3 DEF Succeeded
<1>5. stage' \in [Calls -> Early \cup {"sent", "over"}]
      /\ stage'[c] = "sent" /\ \A d \in Calls : d # c => stage'[d] = stage[d]
  BY <1>1 DEF CallsSound
<1>6. ASSUME NEW d \in Calls, d # c
      PROVE  /\ stage'[d] \in Early => Untouched(d)'
             /\ told'[d] = "refused" => Untouched(d)'
  BY <1>1, <1>3, <1>5, <1>6, MeteringAssumption DEF CallsSound
<1> QED BY <1>1, <1>2, <1>3, <1>4, <1>5, <1>6 DEF CallsSound, Early

\* Another writer submits a request of its own.
LEMMA OthersSubmit ==
  ASSUME CallsSound, NEW r \in Requests, \A c \in Calls : c # r,
         UNCHANGED <<txs, receipts, stage, told, charges>>,
         \A q \in Requests : q # r /\ Untouched(q) => Untouched(q)'
  PROVE  CallsSound'
<1>1. \A c \in Calls : Untouched(c) => Untouched(c)'
  BY MeteringAssumption
<1>2. \A c \in Calls : Succeeded(c)' <=> Succeeded(c)
  BY DEF Succeeded
<1> QED BY <1>1, <1>2 DEF CallsSound

\* A transaction that is mined is the success of no call but the one it is of.
LEMMA MinedForOthers ==
  ASSUME SenderSound, NEW status \in BOOLEAN, MineNext(status), NEW c \in Calls,
         NextMined = c => status = FALSE
  PROVE  Succeeded(c)' <=> Succeeded(c)
BY MiningSound DEF Succeeded, NextMined

\* A delivery is mined: it was not charged before, and it was not refused.
LEMMA DeliverySound ==
  ASSUME SenderSound, CallsSound, NEW c \in Calls, NextMined = c, DeliveryMined(c)
  PROVE  /\ SenderSound' /\ Undisturbed /\ CallsSound' /\ UNCHANGED <<stage, told>>
         /\ \/ charges' = charges
            \/ /\ charges[c] = 0 /\ told[c] # "refused"
               /\ charges' = [charges EXCEPT ![c] = 1]
<1>1. UNCHANGED <<stage, told>> /\ MineNext(Recorded(c)) /\ Recorded(c) \in BOOLEAN
  BY DEF DeliveryMined, callVars, Recorded, Accepts
<1>2. /\ SenderSound' /\ Undisturbed /\ txs' = txs
      /\ receipts' \in Seq(BOOLEAN) /\ Len(receipts) + 1 \in DOMAIN txs
      /\ DOMAIN receipts' = DOMAIN receipts \cup {Len(receipts) + 1}
      /\ Len(receipts) + 1 \notin DOMAIN receipts
      /\ receipts'[Len(receipts) + 1] = Recorded(c)
      /\ \A n \in DOMAIN receipts : receipts'[n] = receipts[n]
  BY <1>1, MiningSound
<1>3. \A d \in Calls : Untouched(d) => Untouched(d)'
  BY <1>2, MeteringAssumption DEF Undisturbed
<1>4. \A d \in Calls : d # c => (Succeeded(d)' <=> Succeeded(d))
  BY <1>1, MinedForOthers
<1>5. CASE ~Recorded(c)
  <2>1. charges' = charges /\ (Succeeded(c)' <=> Succeeded(c))
    BY <1>1, <1>5, MinedForOthers DEF DeliveryMined
  <2> QED BY <1>1, <1>2, <1>3, <1>4, <2>1 DEF CallsSound
<1>6. CASE Recorded(c)
  <2>1. Taken(c) /\ ~Succeeded(c)
    <3>1. txs[Len(receipts) + 1] = c /\ c # Elsewhere
      BY MeteringAssumption, SenderAssumption DEF NextMined
    <3>2. \A n \in DOMAIN receipts : n \in DOMAIN txs /\ n # Len(receipts) + 1
      BY <1>2 DEF SenderSound, SenderTypeOK
    <3> QED BY <1>2, <3>1, <3>2 DEF SenderSound, OneTransactionEach, Taken, Succeeded
  <2>2. charges[c] = 0 /\ told[c] # "refused"
    BY <2>1 DEF CallsSound, Untouched
  <2>3. charges' = [charges EXCEPT ![c] = 1]
    BY <1>6, <2>2 DEF DeliveryMined, CallsSound
  <2>4. Succeeded(c)'
    <3>1. receipts'[Len(receipts) + 1] = TRUE
      BY <1>2, <1>6, Zenon
    <3> QED BY <1>2, <3>1 DEF Succeeded, NextMined
  <2>5. charges' \in [Calls -> {0, 1}] /\ charges'[c] = 1
        /\ \A d \in Calls : d # c => charges'[d] = charges[d]
    BY <2>3 DEF CallsSound
  <2> QED BY <1>1, <1>2, <1>3, <1>4, <2>2, <2>3, <2>4, <2>5 DEF CallsSound
<1> QED BY <1>5, <1>6

-----------------------------------------------------------------------------
(* The relay.                                                              *)

LEMMA PostsFrame ==
  ASSUME PostsSound, UNCHANGED <<relayVars, receipts>>,
         \A n \in DOMAIN receipts : txs'[n] = txs[n],
         \A k \in Posts : Untouched(Post(k)) => Untouched(Post(k))'
  PROVE  PostsSound'
BY DEF PostsSound, RelayTellsTheTruth, Ended, relayVars, permitVars, restVars, postVars

\* A transaction that is of no post is mined.
LEMMA PostsMining ==
  ASSUME SenderSound, PostsSound, UNCHANGED relayVars,
         NEW status \in BOOLEAN, MineNext(status), \A k \in Posts : NextMined # Post(k)
  PROVE  PostsSound'
<1>1. /\ Undisturbed /\ txs' = txs
      /\ DOMAIN receipts' = DOMAIN receipts \cup {Len(receipts) + 1}
      /\ \A n \in DOMAIN receipts : receipts'[n] = receipts[n]
      /\ \A k \in Posts : txs[Len(receipts) + 1] # Post(k)
  BY MiningSound DEF NextMined
<1>2. \A k \in Posts : Untouched(Post(k)) => Untouched(Post(k))'
  BY <1>1, RelayAssumption DEF Undisturbed
<1>3. \A k \in Posts, n \in DOMAIN receipts' :
        txs'[n] = Post(k) => /\ receipts'[n] = TRUE => settled = 1
                             /\ receipts'[n] = FALSE /\ k = post => Ended
  BY <1>1 DEF PostsSound
<1> QED BY <1>2, <1>3
        DEF PostsSound, RelayTellsTheTruth, Ended, relayVars, permitVars, restVars, postVars

\* A settlement that is mined settles if all that it needs still holds.
LEMMA SettlementSound ==
  ASSUME SenderSound, PostsSound, SettlementMined
  PROVE  SenderSound' /\ Undisturbed /\ PostsSound'
<1>1. /\ Settles \in BOOLEAN /\ MineNext(Settles)
      /\ UNCHANGED <<expired, payable, lapsed, post, at, answer>>
  BY DEF SettlementMined, Settles, restVars, postVars
<1>2. /\ SenderSound' /\ Undisturbed /\ txs' = txs
      /\ DOMAIN receipts' = DOMAIN receipts \cup {Len(receipts) + 1}
      /\ receipts'[Len(receipts) + 1] = Settles
      /\ \A n \in DOMAIN receipts : receipts'[n] = receipts[n]
  BY <1>1, MiningSound
<1>3. \A k \in Posts : Untouched(Post(k)) => Untouched(Post(k))'
  BY <1>2, RelayAssumption DEF Undisturbed
<1>4. CASE Settles
  <2>1. ~spent /\ ~expired /\ settled = 0 /\ spent' = TRUE /\ settled' = 1
    <3>1. ~spent /\ ~expired /\ settled = 0
      BY <1>4 DEF Settles, PostsSound
    <3>2. spent' = TRUE
      BY <1>4, Zenon DEF SettlementMined
    <3> QED BY <1>4, <3>1, <3>2 DEF SettlementMined
  <2>2. Ended' /\ settled' = 1
    BY <2>1 DEF Ended
  <2>3. RelayTellsTheTruth'
    BY <2>1, Zenon DEF RelayTellsTheTruth
  <2> QED BY <1>1, <1>2, <1>3, <2>1, <2>2, <2>3 DEF PostsSound
<1>5. CASE ~Settles
  <2>1. (spent \/ expired \/ ~payable) /\ spent' = spent /\ settled' = settled
    <3>1. spent \/ expired \/ ~payable
      BY <1>5 DEF Settles
    <3>2. spent' = spent
      BY <1>5, Zenon DEF SettlementMined, PostsSound
    <3> QED BY <1>5, <3>1, <3>2 DEF SettlementMined
  <2>2. Ended' /\ Ended
    <3>1. Ended
      BY <2>1, Zenon DEF Ended, PostsSound
    <3> QED BY <1>1, <2>1, <3>1 DEF Ended
  <2>3. receipts'[Len(receipts) + 1] = FALSE
    <3>1. Settles = FALSE
      BY <1>1, <1>5
    <3> QED BY <1>2, <3>1
  <2>4. \A k \in Posts, n \in DOMAIN receipts' :
          txs'[n] = Post(k) => /\ receipts'[n] = TRUE => settled' = 1
                               /\ receipts'[n] = FALSE /\ k = post' => Ended'
    BY <1>1, <1>2, <2>1, <2>2, <2>3 DEF PostsSound
  <2> QED BY <1>1, <1>2, <1>3, <2>1, <2>4 DEF PostsSound, RelayTellsTheTruth
<1> QED BY <1>2, <1>4, <1>5

\* A post that is answered without a receipt.
LEMMA RelayAnswers ==
  ASSUME PostsSound, UNCHANGED senderVars, NEW what, Told(what),
         what # "settled", what = "nonce used" => spent, what = "reverted" => Ended
  PROVE  PostsSound'
<1>1. \A r : Untouched(r)' <=> Untouched(r)
  BY DEF senderVars, nodeVars, queueVars, Untouched, Queued, IsLate, Taken
<1>2. /\ at' = "idle" /\ answer' = what
      /\ UNCHANGED <<spent, settled, expired, payable, lapsed, post, txs, receipts>>
  BY DEF Told, permitVars, restVars, senderVars, nodeVars
<1>3. RelayTellsTheTruth' /\ Ended' = Ended
  BY <1>2 DEF PostsSound, RelayTellsTheTruth, Ended
<1> QED BY <1>1, <1>2, <1>3 DEF PostsSound

LEMMA RelayReceiptSound ==
  ASSUME SenderSound, PostsSound, UNCHANGED senderVars, RelayReceipt
  PROVE  PostsSound'
<1> DEFINE r == Post(post)
<1>1. /\ r \in Requests /\ post \in Posts /\ reply[r] \in DOMAIN receipts
      /\ Told(Outcome(receipts[reply[r]]))
  BY RelayAssumption DEF RelayReceipt, PostsSound, Mined, SenderSound, SenderTypeOK
<1>2. txs[reply[r]] = r /\ receipts[reply[r]] \in BOOLEAN
  BY <1>1, SenderAssumption DEF SenderSound, SenderTypeOK, OneTransactionEach
<1>3. CASE receipts[reply[r]] = TRUE
  <2>1. settled = 1 /\ Told("settled")
    BY <1>1, <1>2, <1>3 DEF PostsSound, Outcome
  <2>2. \A q : Untouched(q)' <=> Untouched(q)
    BY DEF senderVars, nodeVars, queueVars, Untouched, Queued, IsLate, Taken
  <2>3. /\ at' = "idle" /\ answer' = "settled"
        /\ UNCHANGED <<spent, settled, expired, payable, lapsed, post, txs, receipts>>
    BY <2>1 DEF Told, permitVars, restVars, senderVars, nodeVars
  <2>4. RelayTellsTheTruth' /\ Ended' = Ended
    BY <2>1, <2>3 DEF RelayTellsTheTruth, Ended
  <2> QED BY <2>2, <2>3, <2>4 DEF PostsSound
<1>4. CASE receipts[reply[r]] = FALSE
  <2>1. Ended /\ Told("reverted")
    BY <1>1, <1>2, <1>4 DEF PostsSound, Outcome
  <2> QED BY <2>1, RelayAnswers
<1> QED BY <1>2, <1>3, <1>4

LEMMA RelayLocal ==
  ASSUME SenderSound, PostsSound, UNCHANGED senderVars,
         \/ PostExpired \/ SimulationOfSpent \/ SimulationFails
         \/ NotSubmitted \/ RelayReceipt \/ RelayUnconfirmed
  PROVE  PostsSound'
<1>1. CASE PostExpired BY <1>1, RelayAnswers DEF PostExpired
<1>2. CASE SimulationOfSpent BY <1>2, RelayAnswers DEF SimulationOfSpent
<1>3. CASE SimulationFails BY <1>3, RelayAnswers DEF SimulationFails
<1>4. CASE NotSubmitted BY <1>4, RelayAnswers DEF NotSubmitted
<1>5. CASE RelayReceipt BY <1>5, RelayReceiptSound
<1>6. CASE RelayUnconfirmed BY <1>6, RelayAnswers DEF RelayUnconfirmed
<1> QED BY <1>1, <1>2, <1>3, <1>4, <1>5, <1>6

\* A post submits its own request, which was nowhere.
LEMMA RelaysSound ==
  ASSUME SenderSound, PostsSound, Relays, Submission
  PROVE  /\ SenderSound' /\ PostsSound' /\ UNCHANGED <<txs, receipts>>
         /\ post \in Posts /\ \A q \in Requests : q # Post(post) /\ Untouched(q) => Untouched(q)'
<1> DEFINE r == Post(post)
<1>1. r \in Requests /\ post \in Posts /\ Untouched(r) /\ at = "posted"
  BY RelayAssumption DEF Relays, PostsSound
<1>2. /\ SenderSound' /\ UNCHANGED <<txs, receipts>>
      /\ \A q \in Requests : q # r /\ Untouched(q) => Untouched(q)'
  BY <1>1, SubmissionSound DEF Relays
<1>3. /\ UNCHANGED <<spent, settled, expired, payable, post, answer>>
      /\ at' = "sent" /\ lapsed' = FALSE /\ payable /\ answer \in Retryable
  BY <1>1 DEF Relays, Settles, PostsSound
<1>4. ASSUME NEW k \in Posts, k > post
      PROVE  Untouched(Post(k))'
  <2>1. Post(k) # r
    BY <1>1, <1>4, RelayAssumption DEF Post, PostsSound
  <2> QED BY <1>2, <1>4, <2>1, RelayAssumption DEF PostsSound
<1>5. RelayTellsTheTruth'
  BY <1>3 DEF PostsSound, RelayTellsTheTruth, Retryable
<1>6. \A n \in DOMAIN receipts' : txs'[n] # Post(post')
  BY <1>1, <1>2, <1>3 DEF Untouched, Taken, SenderSound, SenderTypeOK
<1> QED BY <1>1, <1>2, <1>3, <1>4, <1>5, <1>6 DEF PostsSound

\* What the client, the Agent and anybody else do with the signature.
LEMMA PermitSteps ==
  ASSUME SenderSound, PostsSound, UNCHANGED senderVars,
         Posted \/ SubmittedBeside \/ Cancelled \/ Expires \/ RestChanges
  PROVE  PostsSound'
<1>1. /\ \A r : Untouched(r)' <=> Untouched(r)
      /\ UNCHANGED <<txs, receipts>>
  BY DEF senderVars, nodeVars, queueVars, Untouched, Queued, IsLate, Taken
<1>2. CASE Posted
  <2>1. /\ post + 1 \in Posts /\ post' = post + 1 /\ at' = "posted" /\ post \in Nat
        /\ answer \in Retryable
        /\ UNCHANGED <<spent, settled, expired, payable, lapsed, answer>>
    BY <1>2 DEF Posted, permitVars, restVars, PostsSound
  <2>2. \A k \in Posts : k > post' \/ k = post' => k > post
    BY <2>1, RelayAssumption
  <2>3. RelayTellsTheTruth'
    BY <2>1 DEF PostsSound, RelayTellsTheTruth
  <2>4. \A n \in DOMAIN receipts' : txs'[n] # Post(post')
    BY <1>1, <2>1, <2>2 DEF PostsSound, Untouched, Taken, SenderSound, SenderTypeOK
  <2> QED BY <1>1, <2>1, <2>2, <2>3, <2>4 DEF PostsSound
<1>3. CASE SubmittedBeside
  <2>1. /\ ~spent /\ settled = 0 /\ spent' = TRUE /\ settled' = 1
        /\ UNCHANGED <<expired, payable, lapsed, post, at, answer>>
    BY <1>3 DEF SubmittedBeside, Settles, PostsSound, restVars, postVars
  <2>2. Ended' /\ RelayTellsTheTruth'
    BY <2>1, Zenon DEF RelayTellsTheTruth, Ended
  <2> QED BY <1>1, <2>1, <2>2 DEF PostsSound
<1>4. CASE Cancelled
  <2>1. /\ ~spent /\ settled = 0 /\ spent' = TRUE
        /\ UNCHANGED <<settled, expired, payable, lapsed, post, at, answer>>
    BY <1>4 DEF Cancelled, PostsSound, restVars, postVars
  <2>2. Ended' /\ RelayTellsTheTruth'
    BY <2>1 DEF PostsSound, RelayTellsTheTruth, Ended
  <2> QED BY <1>1, <2>1, <2>2 DEF PostsSound
<1>5. CASE Expires
  <2>1. expired' = TRUE /\ UNCHANGED <<spent, settled, payable, lapsed, post, at, answer>>
    BY <1>5 DEF Expires, restVars, postVars
  <2>2. Ended'
    BY <2>1, Zenon DEF Ended
  <2>3. RelayTellsTheTruth'
    <3>1. answer' = "settled" => settled' = 1
      BY <2>1 DEF PostsSound, RelayTellsTheTruth
    <3>2. answer' = "nonce used" => spent'
      BY <2>1, Zenon DEF PostsSound, RelayTellsTheTruth
    <3> QED BY <2>2, <3>1, <3>2, Zenon DEF RelayTellsTheTruth, Ended
  <2> QED BY <1>1, <2>1, <2>2, <2>3 DEF PostsSound
<1>6. CASE RestChanges
  <2>1. /\ payable' = ~payable /\ lapsed' = (lapsed \/ payable)
        /\ UNCHANGED <<spent, settled, expired, post, at, answer>>
    BY <1>6 DEF RestChanges, postVars
  <2>2. /\ payable' \in BOOLEAN /\ lapsed' \in BOOLEAN /\ (payable' \/ lapsed')
        /\ lapsed => lapsed'
    BY <2>1, Zenon DEF PostsSound
  <2>3. Ended => Ended'
    BY <2>1, <2>2, Zenon DEF Ended
  <2>4. RelayTellsTheTruth'
    <3>1. answer' = "settled" => settled' = 1
      BY <2>1 DEF PostsSound, RelayTellsTheTruth
    <3>2. (answer' = "nonce used" => spent') /\ (answer' = "reverted" => Ended')
      BY <2>1, <2>3, Zenon DEF PostsSound, RelayTellsTheTruth, Ended
    <3> QED BY <3>1, <3>2, Zenon DEF RelayTellsTheTruth, Ended
  <2> QED BY <1>1, <2>1, <2>2, <2>3, <2>4 DEF PostsSound
<1> QED BY <1>2, <1>3, <1>4, <1>5, <1>6

LEMMA RelayBreaksSound ==
  ASSUME PostsSound, RelayBreaks, UNCHANGED receipts,
         \A n \in DOMAIN receipts : txs'[n] = txs[n],
         \A k \in Posts : Untouched(Post(k)) => Untouched(Post(k))'
  PROVE  PostsSound'
<1>1. /\ UNCHANGED <<spent, settled, expired, payable, lapsed, post>> /\ at' \in {at, "idle"}
      /\ (at' = at /\ answer' = answer) \/ (at' = "idle" /\ answer' = "unconfirmed")
  BY DEF RelayBreaks, permitVars, restVars
<1>2. RelayTellsTheTruth' /\ Ended' = Ended
  BY <1>1 DEF PostsSound, RelayTellsTheTruth, Ended
<1> QED BY <1>1, <1>2 DEF PostsSound

-----------------------------------------------------------------------------
(* The feedback writer.                                                    *)

LEMMA EntriesFrame ==
  ASSUME EntriesSound, UNCHANGED feedbackVars,
         \A s \in 1 .. MaxPaid, n \in 1 .. MaxWrites :
           Untouched(Entry(s, n)) => Untouched(Entry(s, n))'
  PROVE  EntriesSound'
BY DEF EntriesSound, feedbackVars, ledgerVars, writerVars

\* A tick that asks nothing of the sender.
LEMMA WriterLocal ==
  ASSUME EntriesSound, UNCHANGED <<txs, late, queue, reply>>,
         \/ FeedbackTick \/ NoIdentity \/ WriteInFlight \/ CountEntries
         \/ NotWritten \/ WrittenMined \/ WrittenUnconfirmed \/ FeedbackReadFails
  PROVE  EntriesSound'
<1> USE DEF ledgerVars
<1>1. /\ \A r : Untouched(r)' <=> Untouched(r)
      /\ entries \in Seq(Nat) /\ Len(entries) \in Nat
  BY DEF Untouched, Queued, IsLate, Taken, EntriesSound
<1>2. CASE FeedbackTick
  BY <1>1, <1>2 DEF FeedbackTick, EntriesSound
<1>3. CASE NoIdentity
  BY <1>1, <1>3 DEF NoIdentity, TickEnds, EntriesSound
<1>4. CASE WriteInFlight
  BY <1>1, <1>4 DEF WriteInFlight, TickEnds, EntriesSound
<1>5. CASE CountEntries
  BY <1>1, <1>5 DEF CountEntries, TickEnds, EntriesSound
<1>6. CASE NotWritten
  BY <1>1, <1>6 DEF NotWritten, TickEnds, EntriesSound
<1>7. CASE WrittenMined
  BY <1>1, <1>7 DEF WrittenMined, TickEnds, EntriesSound
<1>8. CASE WrittenUnconfirmed
  BY <1>1, <1>8 DEF WrittenUnconfirmed, TickEnds, EntriesSound
<1>9. CASE FeedbackReadFails
  BY <1>1, <1>9 DEF FeedbackReadFails, TickEnds, EntriesSound
<1> QED BY <1>2, <1>3, <1>4, <1>5, <1>6, <1>7, <1>8, <1>9

\* What happens on chain and in the registry beside the writer.
LEMMA LedgerSteps ==
  ASSUME EntriesSound, UNCHANGED senderVars, Settled \/ Indexed \/ TakesIdentity
  PROVE  EntriesSound'
<1> USE DEF writerVars
<1>1. \A r : Untouched(r)' <=> Untouched(r)
  BY DEF senderVars, nodeVars, queueVars, Untouched, Queued, IsLate, Taken
<1>2. CASE Settled
  <2>1. /\ settlements < MaxPaid /\ settlements' = settlements + 1
        /\ UNCHANGED <<entries, indexed, known, step, current, writes>>
    BY <1>2 DEF Settled
  <2>2. /\ settlements \in Nat /\ known \in Nat /\ indexed \in Nat
        /\ known <= indexed /\ indexed <= settlements /\ MaxPaid \in Nat
    BY FeedbackAssumption DEF EntriesSound
  <2>3. /\ settlements' \in Nat
        /\ known <= indexed /\ indexed <= settlements' /\ settlements' <= MaxPaid
    BY <2>1, <2>2
  <2>4. \A s \in 1 .. MaxPaid, n \in 1 .. MaxWrites :
          n > writes' => Untouched(Entry(s, n))'
    BY <1>1, <2>1 DEF EntriesSound
  <2> QED BY <2>1, <2>3, <2>4 DEF EntriesSound
<1>3. CASE Indexed
  BY <1>1, <1>3 DEF Indexed, EntriesSound
<1>4. CASE TakesIdentity
  BY <1>1, <1>4 DEF TakesIdentity, EntriesSound
<1> QED BY <1>2, <1>3, <1>4

LEMMA EntryMinedSound ==
  ASSUME SenderSound, EntriesSound, NEW s \in 1 .. MaxPaid, EntryMined(s)
  PROVE  SenderSound' /\ Undisturbed /\ EntriesSound'
<1>1. entries' = Append(entries, s) /\ s \in Nat
      /\ UNCHANGED <<settlements, indexed, known, step, current, writes>>
  BY FeedbackAssumption DEF EntryMined, writerVars
<1>2. SenderSound' /\ Undisturbed
  <2>1. MineNext(TRUE)
    BY Zenon DEF EntryMined
  <2> QED BY <2>1, MiningSound
<1>3. entries' \in Seq(Nat)
  BY <1>1 DEF EntriesSound
<1> QED BY <1>1, <1>2, <1>3, FeedbackAssumption DEF EntriesSound, Undisturbed

\* The writer submits a request of its own, which was nowhere.
LEMMA SubmitEntrySound ==
  ASSUME SenderSound, EntriesSound, SubmitEntry, Submission
  PROVE  /\ SenderSound' /\ EntriesSound' /\ UNCHANGED <<txs, receipts>>
         /\ current \in 1 .. MaxPaid /\ writes' \in 1 .. MaxWrites
         /\ \A q \in Requests :
              q # Entry(current, writes') /\ Untouched(q) => Untouched(q)'
<1> DEFINE r == Entry(current, writes + 1)
<1>1. /\ writes' = writes + 1 /\ Submit(r) /\ step' = "sent"
      /\ UNCHANGED <<entries, settlements, indexed, known, current>>
      /\ current \in 1 .. known /\ writes \in Nat /\ writes + 1 \in 1 .. MaxWrites
  BY FeedbackAssumption DEF SubmitEntry, EntriesSound, ledgerVars
<1>2. current \in 1 .. MaxPaid
  BY <1>1, FeedbackAssumption DEF EntriesSound
<1>3. r \in Requests /\ Untouched(r)
  BY <1>1, <1>2, FeedbackAssumption DEF EntriesSound
<1>4. /\ SenderSound' /\ UNCHANGED <<txs, receipts>>
      /\ \A q \in Requests : q # r /\ Untouched(q) => Untouched(q)'
  BY <1>1, <1>3, SubmissionSound
<1>5. ASSUME NEW s \in 1 .. MaxPaid, NEW n \in 1 .. MaxWrites, n > writes'
      PROVE  Untouched(Entry(s, n))'
  <2>1. Entry(s, n) \in Requests /\ n \in Nat /\ n > writes /\ n # writes + 1
    BY <1>1, <1>5, FeedbackAssumption
  <2>2. Untouched(Entry(s, n)) /\ Entry(s, n) # r
    BY <2>1, <1>1 DEF EntriesSound, Entry
  <2> QED BY <1>4, <2>1, <2>2
<1>6. EntriesSound'
  BY <1>1, <1>5 DEF EntriesSound
<1> QED BY <1>1, <1>2, <1>4, <1>6

LEMMA FeedbackRestartSound ==
  ASSUME EntriesSound, FeedbackRestarts, Undisturbed
  PROVE  EntriesSound'
<1>1. /\ known' = 0 /\ step' = "idle" /\ current' = 0
      /\ UNCHANGED <<entries, settlements, indexed, writes>>
  BY DEF FeedbackRestarts, ledgerVars
<1>2. \A s \in 1 .. MaxPaid, n \in 1 .. MaxWrites :
        Untouched(Entry(s, n)) => Untouched(Entry(s, n))'
  BY FeedbackAssumption DEF Undisturbed
<1> QED BY <1>1, <1>2 DEF EntriesSound

-----------------------------------------------------------------------------
(* The writers together.                                                   *)

\* The requests of the three writers are different ones.
LEMMA RequestsDiffer ==
  /\ \A c \in Calls : c \in Requests
  /\ \A k \in Posts : Post(k) \in Requests
  /\ \A s \in 1 .. MaxPaid, n \in 1 .. MaxWrites : Entry(s, n) \in Requests
  /\ \A c \in Calls, k \in Posts : c # Post(k)
  /\ \A c \in Calls, s \in 1 .. MaxPaid, n \in 1 .. MaxWrites : c # Entry(s, n)
  /\ \A k \in Posts, s \in 1 .. MaxPaid, n \in 1 .. MaxWrites : Post(k) # Entry(s, n)
  /\ \A r \in Requests : r # Elsewhere
<1>1. \A k \in Posts, s \in 1 .. MaxPaid, n \in 1 .. MaxWrites : Post(k) # Entry(s, n)
  BY DEF Post, Entry
<1> QED
  BY <1>1, SenderAssumption, MeteringAssumption, RelayAssumption, FeedbackAssumption,
     GatewayAssumption

\* A step that changes nothing of the sender but the calls that failed.
LEMMA SenderFrame ==
  ASSUME SenderSound, UNCHANGED <<txs, receipts, late, next, queue, reply>>
  PROVE  SenderSound' /\ Undisturbed
BY Recounts DEF SenderSound, SenderTypeOK, OneTransactionEach

\* A step of the sender or the node leaves the posts and the entries sound.
LEMMA WritersFrame ==
  ASSUME SenderSound, PostsSound, EntriesSound, Undisturbed,
         UNCHANGED <<receipts, relayVars, feedbackVars>>
  PROVE  PostsSound' /\ EntriesSound'
<1>1. \A n \in DOMAIN receipts : txs'[n] = txs[n]
  BY DEF SenderSound, SenderTypeOK, Undisturbed
<1>2. /\ \A k \in Posts : Untouched(Post(k)) => Untouched(Post(k))'
      /\ \A s \in 1 .. MaxPaid, n \in 1 .. MaxWrites :
           Untouched(Entry(s, n)) => Untouched(Entry(s, n))'
  BY RequestsDiffer DEF Undisturbed
<1> QED BY <1>1, <1>2, PostsFrame, EntriesFrame

\* A delegate's call is let in, turned away, or still being looked up.
LEMMA DelegateMoves ==
  ASSUME SenderSound, CallsSound, NEW c \in Calls, DelegateCheck(c)
  PROVE  CallMoves(c) \/ UNCHANGED <<stage, told, charges>>
<1>1. CASE FromHeld(c)
  BY <1>1, CallSteps DEF FromHeld
<1>2. CASE ReadIsDelegate(c) \/ ReadExpiry(c)
  BY <1>2 DEF ReadIsDelegate, ReadExpiry, meteringVars, bookVars, callVars
<1>3. CASE Decide(c)
  BY <1>3, CallSteps DEF Decide
<1>4. CASE Unreadable(c)
  BY <1>4, CallSteps DEF Unreadable
<1> QED BY <1>1, <1>2, <1>3, <1>4 DEF DelegateCheck

\* A restart breaks the calls that are under way: their clients are told neither.
LEMMA CallsBreakSound ==
  ASSUME SenderSound, CallsSound, Undisturbed, UNCHANGED receipts, CallsBreak
  PROVE  CallsSound'
<1>1. /\ \A c \in Calls : stage'[c] = IF stage[c] \in {"idle", "over"} THEN stage[c] ELSE "over"
      /\ \A c \in Calls : told'[c] = IF stage[c] \in {"idle", "over"} THEN told[c] ELSE "neither"
      /\ charges' = charges
      /\ stage' \in [Calls -> Early \cup {"sent", "over"}]
      /\ told' \in [Calls -> {"nothing", "neither", "charged", "refused"}]
  BY DEF CallsBreak, bookVars, CallsSound, Early
<1>2. \A c \in Calls : Succeeded(c)' <=> Succeeded(c)
  <2>1. \A n \in DOMAIN receipts : txs'[n] = txs[n]
    BY DEF SenderSound, SenderTypeOK, Undisturbed
  <2> QED BY <2>1 DEF Succeeded
<1>3. \A c \in Calls : Untouched(c) => Untouched(c)'
  BY MeteringAssumption DEF Undisturbed
<1> QED BY <1>1, <1>2, <1>3 DEF CallsSound, Early

-----------------------------------------------------------------------------
(* The invariant, and what a step is to the calls.                         *)

\* What may become of a charge and an answer in a step.
CallsSee ==
  \/ UNCHANGED <<charges, told>>
  \/ \E c \in Calls : CallMoves(c)
  \/ \E c \in Calls : /\ charges[c] = 0 /\ told[c] # "refused"
                      /\ charges' = [charges EXCEPT ![c] = 1] /\ told' = told
  \/ CallsBreak

LEMMA InvInit == GatewayInit => IInv
<1> SUFFICES ASSUME GatewayInit PROVE IInv
  OBVIOUS
<1>1. SenderSound /\ \A r \in Requests : Untouched(r)
  BY DEF GatewayInit, SenderInit, SenderSound, SenderTypeOK, OneTransactionEach, Untouched,
         Queued, IsLate, Taken
<1>2. CallsSound
  BY <1>1, RequestsDiffer
  DEF GatewayInit, SenderInit, MeteringInit, CallsSound, Succeeded, Early
<1>3. PostsSound
  <2>1. /\ post = 0 /\ at = "idle" /\ answer = "none" /\ settled = 0
        /\ spent \in BOOLEAN /\ expired \in BOOLEAN /\ receipts = <<>>
    BY DEF GatewayInit, SenderInit, RelayInit
  <2>2. RelayTellsTheTruth
    BY <2>1 DEF RelayTellsTheTruth
  <2>3. payable \in BOOLEAN /\ lapsed \in BOOLEAN /\ (payable \/ lapsed)
    BY Zenon DEF GatewayInit, RelayInit
  <2> QED BY <1>1, <2>1, <2>2, <2>3, RequestsDiffer DEF PostsSound
<1>4. EntriesSound
  BY <1>1, RequestsDiffer, FeedbackAssumption
  DEF GatewayInit, FeedbackInit, EntriesSound
<1> QED BY <1>1, <1>2, <1>3, <1>4 DEF IInv

\* A step of metering.
LEMMA MeteringStepSound ==
  ASSUME IInv, NEW c \in Calls, MeteringStep(c)
  PROVE  IInv' /\ CallsSee
<1>1. SenderSound /\ CallsSound /\ PostsSound /\ EntriesSound /\ UNCHANGED <<relayVars, feedbackVars>>
  BY DEF IInv, MeteringStep
<1>2. CASE UNCHANGED senderVars /\ (CallMoves(c) \/ UNCHANGED <<stage, told, charges>>)
  <2>1. SenderSound' /\ Undisturbed /\ UNCHANGED <<receipts>>
    BY <1>1, <1>2, SenderFrame DEF senderVars, nodeVars, queueVars
  <2>2. CallsSound'
    BY <1>1, <1>2, <2>1, CallMovesSound, CallsFrame
  <2> QED BY <1>1, <1>2, <2>1, <2>2, WritersFrame DEF IInv, CallsSee
<1>3. CASE Send(c) /\ Submission
  <2>1. /\ SenderSound' /\ CallsSound' /\ UNCHANGED <<told, charges, txs, receipts>>
        /\ \A q \in Requests : q # c /\ Untouched(q) => Untouched(q)'
    BY <1>1, <1>3, SendSound
  <2>2. PostsSound'
    BY <1>1, <2>1, RequestsDiffer, PostsFrame
  <2>3. EntriesSound'
    BY <1>1, <2>1, RequestsDiffer, EntriesFrame
  <2> QED BY <2>1, <2>2, <2>3 DEF IInv, CallsSee
<1>4. CASE Local((~load.delegated /\ Admit(c)) \/ CallStep(c))
  BY <1>1, <1>2, <1>4, CallSteps DEF Local
<1>5. CASE Local(DelegateCheck(c))
  BY <1>1, <1>2, <1>5, DelegateMoves DEF Local
<1> QED BY <1>3, <1>4, <1>5 DEF MeteringStep

\* A step of the relay.
LEMMA RelayStepSound ==
  ASSUME IInv, RelayStep
  PROVE  IInv' /\ CallsSee
<1>1. /\ SenderSound /\ CallsSound /\ PostsSound /\ EntriesSound
      /\ UNCHANGED <<stage, told, charges, feedbackVars>>
  BY DEF IInv, RelayStep, meteringVars, bookVars, callVars
<1>2. CASE Relays /\ Submission
  <2>1. /\ SenderSound' /\ PostsSound' /\ UNCHANGED <<txs, receipts>>
        /\ post \in Posts /\ \A q \in Requests : q # Post(post) /\ Untouched(q) => Untouched(q)'
    BY <1>1, <1>2, RelaysSound
  <2>2. CallsSound'
    BY <1>1, <2>1, RequestsDiffer, OthersSubmit
  <2>3. EntriesSound'
    BY <1>1, <2>1, RequestsDiffer, EntriesFrame
  <2> QED BY <1>1, <2>1, <2>2, <2>3 DEF IInv, CallsSee
<1>3. CASE /\ UNCHANGED senderVars
           /\ \/ PostExpired \/ SimulationOfSpent \/ SimulationFails
              \/ NotSubmitted \/ RelayReceipt \/ RelayUnconfirmed
  <2>1. SenderSound' /\ Undisturbed /\ UNCHANGED receipts
    BY <1>1, <1>3, SenderFrame DEF senderVars, nodeVars, queueVars
  <2>2. PostsSound'
    BY <1>1, <1>3, RelayLocal
  <2>3. CallsSound'
    BY <1>1, <2>1, CallsFrame
  <2>4. EntriesSound'
    BY <1>1, <2>1, RequestsDiffer, EntriesFrame DEF Undisturbed
  <2> QED BY <1>1, <2>1, <2>2, <2>3, <2>4 DEF IInv, CallsSee
<1> QED BY <1>2, <1>3 DEF RelayStep, Local

\* A step of the feedback writer.
LEMMA FeedbackStepSound ==
  ASSUME IInv, FeedbackStep \/ ReadFails
  PROVE  IInv' /\ CallsSee
<1>1. /\ SenderSound /\ CallsSound /\ PostsSound /\ EntriesSound
      /\ UNCHANGED <<stage, told, charges, relayVars>>
  BY DEF IInv, FeedbackStep, ReadFails, meteringVars, bookVars, callVars
<1>2. CASE SubmitEntry /\ Submission
  <2>1. /\ SenderSound' /\ EntriesSound' /\ UNCHANGED <<txs, receipts>>
        /\ current \in 1 .. MaxPaid /\ writes' \in 1 .. MaxWrites
        /\ \A q \in Requests :
             q # Entry(current, writes') /\ Untouched(q) => Untouched(q)'
    BY <1>1, <1>2, SubmitEntrySound
  <2>2. CallsSound'
    BY <1>1, <2>1, RequestsDiffer, OthersSubmit
  <2>3. PostsSound'
    BY <1>1, <2>1, RequestsDiffer, PostsFrame
  <2> QED BY <1>1, <2>1, <2>2, <2>3 DEF IInv, CallsSee
<1>3. CASE /\ UNCHANGED <<txs, receipts, late, next, queue, reply>>
           /\ \/ FeedbackTick \/ NoIdentity \/ WriteInFlight \/ CountEntries
              \/ NotWritten \/ WrittenMined \/ WrittenUnconfirmed \/ FeedbackReadFails
  <2>1. SenderSound' /\ Undisturbed
    BY <1>1, <1>3, SenderFrame
  <2>2. EntriesSound'
    BY <1>1, <1>3, WriterLocal
  <2>3. CallsSound'
    BY <1>1, <1>3, <2>1, CallsFrame
  <2>4. PostsSound'
    BY <1>1, <1>3, <2>1, RequestsDiffer, PostsFrame DEF Undisturbed
  <2> QED BY <1>1, <2>1, <2>2, <2>3, <2>4 DEF IInv, CallsSee
<1>4. CASE ReadFails
  BY <1>3, <1>4 DEF ReadFails, FeedbackReadFails, queueVars
<1>5. CASE FeedbackStep
  BY <1>2, <1>3, <1>5 DEF FeedbackStep, Local, senderVars, nodeVars, queueVars
<1> QED BY <1>4, <1>5

\* A transaction is mined: whoever's it is, the others see none of it.
LEMMA MineStepSound ==
  ASSUME IInv, MineStep
  PROVE  IInv' /\ CallsSee
<1>1. SenderSound /\ CallsSound /\ PostsSound /\ EntriesSound
  BY DEF IInv
<1>2. CASE /\ NextMined = Elsewhere /\ MineNext(TRUE)
           /\ UNCHANGED <<meteringVars, relayVars, feedbackVars>>
  <2>1. SenderSound' /\ Undisturbed
    BY <1>1, <1>2, MiningSound
  <2>2. CallsSound'
    <3>1. UNCHANGED <<stage, told, charges>> /\ \A c \in Calls : NextMined # c
      BY <1>2, RequestsDiffer DEF meteringVars, bookVars, callVars
    <3>2. \A c \in Calls : Succeeded(c)' <=> Succeeded(c)
      BY <1>1, <1>2, <3>1, MinedForOthers
    <3> QED BY <1>1, <2>1, <3>1, <3>2, RequestsDiffer DEF CallsSound, Undisturbed
  <2>3. PostsSound'
    BY <1>1, <1>2, RequestsDiffer, PostsMining
  <2>4. EntriesSound'
    BY <1>1, <1>2, <2>1, RequestsDiffer, EntriesFrame DEF Undisturbed
  <2> QED BY <1>2, <2>1, <2>2, <2>3, <2>4 DEF IInv, CallsSee, meteringVars, bookVars, callVars
<1>3. ASSUME NEW c \in Calls, NextMined = c, DeliveryMined(c),
             UNCHANGED <<relayVars, feedbackVars>>
      PROVE  IInv' /\ CallsSee
  <2>1. /\ SenderSound' /\ Undisturbed /\ CallsSound' /\ UNCHANGED <<stage, told>>
        /\ \/ charges' = charges
           \/ /\ charges[c] = 0 /\ told[c] # "refused"
              /\ charges' = [charges EXCEPT ![c] = 1]
    BY <1>1, <1>3, DeliverySound
  <2>2. PostsSound'
    <3>1. MineNext(Recorded(c)) /\ Recorded(c) \in BOOLEAN
      BY <1>3 DEF DeliveryMined, Recorded, Accepts
    <3> QED BY <1>1, <1>3, <3>1, RequestsDiffer, PostsMining
  <2>3. EntriesSound'
    BY <1>1, <1>3, <2>1, RequestsDiffer, EntriesFrame DEF Undisturbed
  <2> QED BY <2>1, <2>2, <2>3 DEF IInv, CallsSee
<1>4. ASSUME NEW k \in Posts, NextMined = Post(k), SettlementMined,
             UNCHANGED <<meteringVars, feedbackVars>>
      PROVE  IInv' /\ CallsSee
  <2>1. SenderSound' /\ Undisturbed /\ PostsSound'
    BY <1>1, <1>4, SettlementSound
  <2>2. CallsSound'
    <3>1. MineNext(Settles) /\ Settles \in BOOLEAN
      BY <1>4 DEF SettlementMined, Settles
    <3>2. UNCHANGED <<stage, told, charges>> /\ \A c \in Calls : NextMined # c
      BY <1>4, RequestsDiffer DEF meteringVars, bookVars, callVars
    <3>3. \A c \in Calls : Succeeded(c)' <=> Succeeded(c)
      BY <1>1, <3>1, <3>2, MinedForOthers
    <3> QED BY <1>1, <2>1, <3>2, <3>3, RequestsDiffer DEF CallsSound, Undisturbed
  <2>3. EntriesSound'
    BY <1>1, <1>4, <2>1, RequestsDiffer, EntriesFrame DEF Undisturbed
  <2> QED BY <1>4, <2>1, <2>2, <2>3 DEF IInv, CallsSee, meteringVars, bookVars, callVars
<1>5. ASSUME NEW s \in 1 .. MaxPaid, NEW n \in 1 .. MaxWrites,
             NextMined = Entry(s, n), EntryMined(s), UNCHANGED <<meteringVars, relayVars>>
      PROVE  IInv' /\ CallsSee
  <2>1. SenderSound' /\ Undisturbed /\ EntriesSound'
    BY <1>1, <1>5, EntryMinedSound
  <2>2. MineNext(TRUE)
    BY <1>5, Zenon DEF EntryMined
  <2>3. CallsSound'
    <3>1. UNCHANGED <<stage, told, charges>> /\ \A c \in Calls : NextMined # c
      BY <1>5, RequestsDiffer DEF meteringVars, bookVars, callVars
    <3>2. \A c \in Calls : Succeeded(c)' <=> Succeeded(c)
      BY <1>1, <2>2, <3>1, MinedForOthers
    <3> QED BY <1>1, <2>1, <3>1, <3>2, RequestsDiffer DEF CallsSound, Undisturbed
  <2>4. PostsSound'
    BY <1>1, <1>5, <2>2, RequestsDiffer, PostsMining
  <2> QED BY <1>5, <2>1, <2>3, <2>4 DEF IInv, CallsSee, meteringVars, bookVars, callVars
<1> QED BY <1>2, <1>3, <1>4, <1>5, Zenon DEF MineStep

\* What comes from outside: calls, posts, settlements, time and delegates.
LEMMA CallerStepSound ==
  ASSUME IInv, CallerStep \/ DelegationStep
  PROVE  IInv' /\ CallsSee
<1>1. /\ SenderSound /\ CallsSound /\ PostsSound /\ EntriesSound /\ UNCHANGED senderVars
  BY DEF IInv, CallerStep, DelegationStep
<1>2. SenderSound' /\ Undisturbed /\ UNCHANGED <<txs, receipts>>
  BY <1>1, SenderFrame DEF senderVars, nodeVars, queueVars
<1>3. CASE UNCHANGED <<relayVars, feedbackVars>>
           /\ ((\E c \in Calls : CallMoves(c)) \/ UNCHANGED <<stage, told, charges>>)
  <2>1. CallsSound'
    BY <1>1, <1>2, <1>3, CallMovesSound, CallsFrame
  <2> QED BY <1>1, <1>2, <1>3, <2>1, WritersFrame DEF IInv, CallsSee
<1>4. CASE /\ Posted \/ SubmittedBeside \/ Cancelled \/ Expires \/ RestChanges
           /\ UNCHANGED <<meteringVars, feedbackVars>>
  <2>1. UNCHANGED <<stage, told, charges>>
    BY <1>4 DEF meteringVars, bookVars, callVars
  <2>2. PostsSound' /\ CallsSound'
    BY <1>1, <1>2, <1>4, <2>1, PermitSteps, CallsFrame
  <2>3. EntriesSound'
    BY <1>1, <1>2, <1>4, RequestsDiffer, EntriesFrame DEF Undisturbed
  <2> QED BY <1>2, <2>1, <2>2, <2>3 DEF IInv, CallsSee
<1>5. CASE /\ Settled \/ Indexed \/ TakesIdentity
           /\ UNCHANGED <<meteringVars, relayVars>>
  <2>1. UNCHANGED <<stage, told, charges>>
    BY <1>5 DEF meteringVars, bookVars, callVars
  <2>2. EntriesSound' /\ CallsSound'
    BY <1>1, <1>2, <1>5, <2>1, LedgerSteps, CallsFrame
  <2>3. PostsSound'
    BY <1>1, <1>2, <1>5, RequestsDiffer, PostsFrame DEF Undisturbed
  <2> QED BY <1>2, <2>1, <2>2, <2>3 DEF IInv, CallsSee
<1>6. ASSUME NEW c \in Calls, AgentSettles \/ Arrive(c),
             UNCHANGED <<relayVars, feedbackVars>>
      PROVE  IInv' /\ CallsSee
  <2>1. CASE AgentSettles
    BY <1>3, <1>6, <2>1 DEF AgentSettles, callVars
  <2>2. CASE Arrive(c)
    BY <1>1, <1>3, <1>6, <2>2, CallSteps
  <2> QED BY <1>6, <2>1, <2>2
<1>7. CASE OthersDeliver /\ UNCHANGED <<relayVars, feedbackVars>>
  BY <1>3, <1>7 DEF OthersDeliver, callVars
<1>8. CASE DelegationStep
  BY <1>3, <1>8 DEF DelegationStep, meteringVars, bookVars, callVars
<1> QED BY <1>4, <1>5, <1>6, <1>7, <1>8 DEF CallerStep

\* A step of the queue or the node.
LEMMA SendingStepSound ==
  ASSUME IInv, SendingStep \/ NodeStep
  PROVE  IInv' /\ CallsSee
<1>1. /\ SenderSound /\ CallsSound /\ PostsSound /\ EntriesSound
      /\ SenderStep \/ Arrives \/ Outside
      /\ UNCHANGED <<stage, told, charges, relayVars, feedbackVars>>
  BY DEF IInv, SendingStep, NodeStep, meteringVars, bookVars, callVars
<1>2. SenderSound' /\ Undisturbed
  BY <1>1, SenderSteps, ArrivalSound, OutsideSound
<1>3. UNCHANGED receipts
  BY <1>1 DEF SenderStep, ReadNonce, Accepted, Refused, SendFails, AnswerLost, SendDelayed,
     Arrives, Outside, nodeVars
<1>4. CallsSound' /\ PostsSound' /\ EntriesSound'
  BY <1>1, <1>2, <1>3, CallsFrame, WritersFrame
<1> QED BY <1>1, <1>2, <1>4 DEF IInv, CallsSee

\* A restart of all three writers and the sender at once.
LEMMA RestartStepSound ==
  ASSUME IInv, Restart
  PROVE  IInv' /\ CallsSee
<1>1. /\ SenderSound /\ CallsSound /\ PostsSound /\ EntriesSound
      /\ SenderRestarts /\ CallsBreak /\ RelayBreaks /\ FeedbackRestarts
  BY DEF IInv, Restart
<1>2. SenderSound' /\ Undisturbed /\ UNCHANGED <<txs, receipts>>
  BY <1>1, RestartSound DEF SenderRestarts
<1>3. CallsSound' /\ EntriesSound'
  BY <1>1, <1>2, CallsBreakSound, FeedbackRestartSound
<1>4. PostsSound'
  BY <1>1, <1>2, RequestsDiffer, RelayBreaksSound DEF Undisturbed
<1> QED BY <1>1, <1>2, <1>3, <1>4 DEF IInv, CallsSee

LEMMA InvNext == IInv /\ [GatewayNext]_gatewayVars => IInv' /\ CallsSee
<1> SUFFICES ASSUME IInv, [GatewayNext]_gatewayVars PROVE IInv' /\ CallsSee
  OBVIOUS
<1>1. CASE UNCHANGED gatewayVars
  <2>1. /\ SenderSound /\ CallsSound /\ PostsSound /\ EntriesSound
        /\ UNCHANGED <<txs, receipts, late, next, queue, reply>>
        /\ UNCHANGED <<stage, told, charges, relayVars, feedbackVars>>
    BY <1>1 DEF IInv, gatewayVars, senderVars, nodeVars, queueVars, meteringVars, bookVars, callVars
  <2>2. SenderSound' /\ Undisturbed
    BY <2>1, SenderFrame
  <2> QED BY <2>1, <2>2, CallsFrame, WritersFrame DEF IInv, CallsSee
<1>2. CASE \E c \in Calls : MeteringStep(c)
  BY <1>2, MeteringStepSound
<1>3. CASE RelayStep
  BY <1>3, RelayStepSound
<1>4. CASE FeedbackStep \/ ReadFails
  BY <1>4, FeedbackStepSound
<1>5. CASE SendingStep \/ NodeStep
  BY <1>5, SendingStepSound
<1>6. CASE MineStep
  BY <1>6, MineStepSound
<1>7. CASE CallerStep \/ DelegationStep
  BY <1>7, CallerStepSound
<1>8. CASE Restart
  BY <1>8, RestartStepSound
<1> QED BY <1>1, <1>2, <1>3, <1>4, <1>5, <1>6, <1>7, <1>8 DEF GatewayNext

-----------------------------------------------------------------------------
\* The inductive invariant of the gateway: where a request is, and what is
\* charged, settled and being written in terms of it.
THEOREM GatewayInv == GatewaySpec => []IInv
<1>1. GatewayInit => IInv
  BY InvInit
<1>2. IInv /\ [GatewayNext]_gatewayVars => IInv'
  BY InvNext
<1> QED BY <1>1, <1>2, PTL DEF GatewaySpec

\* sendOnce and send of sender.ts: whatever fails, is lost, late or restarted, no
\* request becomes two transactions, and a nonce is answered to its own request.
THEOREM OneTransaction == GatewaySpec => []OneTransactionEach
<1>1. IInv => OneTransactionEach
  BY DEF IInv, SenderSound
<1> QED BY <1>1, GatewayInv, PTL

\* relay of relay.ts: a final answer to a post is so, whoever else submits or cancels
\* the signature and whatever ends between a simulation and its transaction.
THEOREM RelayIsTrue == GatewaySpec => []RelayTellsTheTruth
<1>1. IInv => RelayTellsTheTruth
  BY DEF IInv, PostsSound
<1> QED BY <1>1, GatewayInv, PTL

\* A call that moves keeps the promise: it is told of a charge when it is charged,
\* and refused when it is not and has nothing with the sender.
LEMMA MovesKeepPromise ==
  ASSUME IInv, NEW c \in Calls, CallMoves(c)
  PROVE  [Promise!Next]_(Promise!promise)
<1> USE DEF Promise!promise
<1>1. /\ CallsSound /\ charges' = charges /\ told[c] = "nothing" /\ charges[c] \in {0, 1}
      /\ told \in [Calls -> {"nothing", "neither", "charged", "refused"}]
  BY DEF IInv, CallsSound, CallMoves
<1>2. CASE told' = told
  BY <1>1, <1>2
<1>3. ASSUME NEW what \in {"neither", "charged", "refused"},
             told' = [told EXCEPT ![c] = what],
             what = "refused" => stage[c] \in Early,
             what = "charged" => charges[c] = 1
      PROVE  Promise!Next
  <2>1. CASE what = "neither"
    <3>1. told' = [d \in Calls |-> IF d \in {c} THEN "neither" ELSE told[d]]
      BY <1>1, <1>3, <2>1
    <3>2. Promise!LeaveOpen({c})
      BY <1>1, <3>1 DEF Promise!LeaveOpen
    <3> QED BY <3>2 DEF Promise!Next
  <2>2. CASE what = "charged"
    BY <1>1, <1>3, <2>2 DEF Promise!Next, Promise!Tell
  <2>3. CASE what = "refused"
    <3>1. ~Taken(c)
      BY <1>1, <1>3, <2>3 DEF CallsSound, Untouched
    <3>2. \A n \in DOMAIN receipts : n \in DOMAIN txs
      BY DEF IInv, SenderSound, SenderTypeOK
    <3>3. charges[c] = 0
      BY <1>1, <3>1, <3>2 DEF CallsSound, Succeeded, Taken
    <3>4. Promise!Tell(c)
      BY <1>1, <1>3, <2>3, <3>3 DEF Promise!Tell
    <3> QED BY <3>4 DEF Promise!Next
  <2> QED BY <2>1, <2>2, <2>3
<1> QED BY <1>2, <1>3 DEF CallMoves

\* A restart leaves open what becomes of the calls under way.
LEMMA BreakKeepsPromise ==
  ASSUME IInv, CallsBreak
  PROVE  [Promise!Next]_(Promise!promise)
<1> DEFINE some == {c \in Calls : stage[c] \notin {"idle", "over"}}
<1>1. charges' = charges /\ \A c \in some : told[c] = "nothing"
  BY DEF CallsBreak, bookVars, IInv, CallsSound
<1>2. told' = [c \in Calls |-> IF c \in some THEN "neither" ELSE told[c]]
  BY DEF CallsBreak
<1>3. Promise!LeaveOpen(some) /\ some \in SUBSET Calls
  BY <1>1, <1>2 DEF Promise!LeaveOpen
<1> QED BY <1>3 DEF Promise!Next

\* recordDelivery of tab-book.ts and what meter of post-paid.ts makes of it implement
\* MeteredCall: charged at most once, told of a charge that was made, never charged
\* once refused.
THEOREM MeteringKeepsPromise == GatewaySpec => ImplementsMeteredCall
<1>1. GatewayInit => Promise!Init
  BY DEF GatewayInit, MeteringInit, Promise!Init
<1>2. IInv /\ [GatewayNext]_gatewayVars => [Promise!Next]_(Promise!promise)
  <2> SUFFICES ASSUME IInv, [GatewayNext]_gatewayVars
               PROVE  [Promise!Next]_(Promise!promise)
    OBVIOUS
  <2>1. CallsSee
    BY InvNext
  <2>2. CASE UNCHANGED <<charges, told>>
    BY <2>2 DEF Promise!promise
  <2>3. CASE \E c \in Calls : CallMoves(c)
    BY <2>3, MovesKeepPromise
  <2>4. CASE \E c \in Calls : /\ charges[c] = 0 /\ told[c] # "refused"
                              /\ charges' = [charges EXCEPT ![c] = 1] /\ told' = told
    BY <2>4 DEF Promise!Next, Promise!Charge
  <2>5. CASE CallsBreak
    BY <2>5, BreakKeepsPromise
  <2> QED BY <2>1, <2>2, <2>3, <2>4, <2>5 DEF CallsSee
<1> QED BY <1>1, <1>2, GatewayInv, PTL DEF GatewaySpec, ImplementsMeteredCall, Promise!Spec

-----------------------------------------------------------------------------
(* The delegates.                                                          *)

\* The key is a delegate up to this moment or was up to the last at which it
\* stood; a positive answer was read while it stood, and is held so much longer.
DelegatesSound ==
  /\ {now, expiry, held} \subseteq Nat
  /\ stood \in Int /\ stood <= now
  /\ expiry > now => stood = now
  /\ held <= now \/ held <= stood + CacheTime + ReadTime
  /\ isRead = [c \in Calls |-> isRead[c]] /\ untilRead = [c \in Calls |-> untilRead[c]]
  /\ \A c \in Calls :
       /\ isRead[c] # Nothing =>
            /\ isRead[c].at \in Nat /\ isRead[c].at <= now /\ now <= isRead[c].at + ReadTime
            /\ isRead[c].is => isRead[c].at <= stood
       /\ untilRead[c] # Nothing => untilRead[c] \in Nat

LEMMA DelegatesInitSound == DelegatesInit => DelegatesSound
  BY DelegatesAssumption DEF DelegatesInit, DelegatesSound

\* What the Agent and time do.
LEMMA DelegationSound ==
  ASSUME DelegatesSound, SetDelegate \/ Revoke \/ DelegatesTick
  PROVE  DelegatesSound'
<1> USE DelegatesAssumption DEF DelegatesSound, readerVars
<1>1. {CacheTime, ReadTime, MaxDelegation} \subseteq Nat
  OBVIOUS
<1>2. CASE SetDelegate
  <2>1. PICK until \in now + 1 .. now + MaxDelegation : expiry' = until /\ Stands(until, now)
    BY <1>2 DEF SetDelegate
  <2>2. /\ until \in Nat /\ until > now /\ stood' = now
        /\ UNCHANGED <<now, held, isRead, untilRead>>
    BY <1>1, <1>2, <2>1 DEF SetDelegate, Stands
  <2> QED BY <1>1, <2>1, <2>2
<1>3. CASE Revoke
  BY <1>1, <1>3 DEF Revoke
<1>4. CASE DelegatesTick
  <2>1. /\ now' = now + 1 /\ UNCHANGED <<expiry, held, isRead, untilRead>>
        /\ stood' = IF expiry > now + 1 THEN now + 1 ELSE stood
        /\ \A c \in Calls : isRead[c] # Nothing => now < isRead[c].at + ReadTime
    BY <1>4 DEF DelegatesTick, Stands
  <2>2. stood' \in Int /\ stood <= stood' /\ stood' <= now' /\ (expiry' > now' => stood' = now')
    BY <2>1
  <2>3. held' <= now' \/ held' <= stood' + CacheTime + ReadTime
    BY <1>1, <2>1, <2>2
  <2> QED BY <1>1, <2>1, <2>2, <2>3
<1> QED BY <1>2, <1>3, <1>4

\* A positive answer is late by no more than it took to read and is held.
LEMMA DecisionIsRecent ==
  ASSUME DelegatesSound, NEW c \in Calls, isRead[c] # Nothing, isRead[c].is
  PROVE  now <= stood + ReadTime
  BY DelegatesAssumption DEF DelegatesSound

LEMMA CheckSound ==
  ASSUME DelegatesSound, NEW c \in Calls, DelegateCheck(c)
  PROVE  DelegatesSound'
<1> USE DEF DelegatesSound, readerVars, contractVars, delegateVars
<1>1. {CacheTime, ReadTime} \subseteq Nat
  BY DelegatesAssumption
<1>2. CASE FromHeld(c)
  BY <1>2 DEF FromHeld
<1>3. CASE ReadIsDelegate(c)
  <2>1. /\ isRead' = [isRead EXCEPT ![c] = [is |-> expiry > now, at |-> now]]
        /\ UNCHANGED <<now, expiry, stood, held, untilRead>>
    BY <1>3 DEF ReadIsDelegate, IsDelegate
  <2>2. /\ isRead'[c] = [is |-> expiry > now, at |-> now]
        /\ \A d \in Calls \ {c} : isRead'[d] = isRead[d]
        /\ isRead' = [d \in Calls |-> isRead'[d]]
    BY <2>1
  <2>3. isRead'[c].at = now
    BY <2>2
  <2>5. isRead'[c].is <=> IsDelegate
    <3>1. isRead'[c] = [is |-> IsDelegate, at |-> now]
      BY <2>2 DEF IsDelegate
    <3>2. [is |-> IsDelegate, at |-> now].is <=> IsDelegate
      BY Zenon
    <3> QED BY <3>1, <3>2, Zenon
  <2>4. ASSUME NEW d \in Calls, isRead'[d] # Nothing
        PROVE  /\ isRead'[d].at \in Nat /\ isRead'[d].at <= now
               /\ now <= isRead'[d].at + ReadTime
               /\ isRead'[d].is => isRead'[d].at <= stood
    BY <1>1, <2>2, <2>3, <2>4, <2>5 DEF IsDelegate
  <2> QED BY <2>1, <2>2, <2>4
<1>4. CASE ReadExpiry(c)
  BY <1>1, <1>4 DEF ReadExpiry
<1>5. ASSUME Forget(c) PROVE /\ isRead' = [d \in Calls |-> isRead'[d]]
                             /\ untilRead' = [d \in Calls |-> untilRead'[d]]
                             /\ \A d \in Calls : /\ isRead'[d] \in {isRead[d], Nothing}
                                                 /\ untilRead'[d] \in {untilRead[d], Nothing}
  BY <1>5 DEF Forget
<1>6. CASE Unreadable(c)
  BY <1>5, <1>6 DEF Unreadable
<1>7. CASE Decide(c)
  <2>1. /\ isRead[c] # Nothing /\ untilRead[c] \in Nat /\ Forget(c)
        /\ UNCHANGED <<now, expiry, stood>>
    BY <1>7 DEF Decide
  <2>2. \/ held' = held
        \/ isRead[c].is /\ held' = HeldUntil(untilRead[c]) /\ held' > now
    BY <1>7 DEF Decide
  <2>3. CASE held' = held
    BY <1>5, <2>1, <2>3
  <2>4. CASE isRead[c].is /\ held' = HeldUntil(untilRead[c])
    <3>1. HeldUntil(untilRead[c]) \in Nat /\ HeldUntil(untilRead[c]) <= now + CacheTime
      BY <1>1, <2>1 DEF HeldUntil
    <3>2. now <= stood + ReadTime
      BY <2>1, <2>4, DecisionIsRecent
    <3>3. held' \in Nat /\ held' <= stood' + CacheTime + ReadTime
      BY <1>1, <2>1, <2>4, <3>1, <3>2
    <3> QED BY <1>5, <2>1, <3>3
  <2> QED BY <2>2, <2>3, <2>4
<1> QED BY <1>2, <1>3, <1>4, <1>6, <1>7 DEF DelegateCheck

LEMMA DelegatesStep == DelegatesSound /\ [GatewayNext]_gatewayVars => DelegatesSound'
<1> SUFFICES ASSUME DelegatesSound, [GatewayNext]_gatewayVars PROVE DelegatesSound'
  OBVIOUS
<1>1. CASE UNCHANGED delegateVars
  BY <1>1 DEF DelegatesSound, delegateVars, contractVars, readerVars
<1>2. CASE \E c \in Calls : MeteringStep(c)
  BY <1>1, <1>2, CheckSound DEF MeteringStep, Local
<1>3. CASE Restart
  BY <1>3 DEF Restart, ReaderRestarts, DelegatesSound, contractVars
<1>4. CASE DelegationStep
  BY <1>4, DelegationSound DEF DelegationStep
<1> QED BY <1>1, <1>2, <1>3, <1>4
        DEF GatewayNext, gatewayVars, RelayStep, FeedbackStep, SendingStep, MineStep, CallerStep,
            NodeStep, ReadFails

\* isDelegate of delegates.ts: for any cache time and any length of a read, a key is
\* let in no later after it was last a delegate than the two together.
THEOREM DelegatesAreCurrent == GatewaySpec => DelegateStoodLately
<1> DEFINE A == \A c \in Calls :
                  DelegateCheck(c) /\ stage'[c] = "called" => now - stood <= CacheTime + ReadTime
<1>1. ASSUME IInv, DelegatesSound PROVE A
  <2> SUFFICES ASSUME NEW c \in Calls, DelegateCheck(c), stage'[c] = "called"
               PROVE  now - stood <= CacheTime + ReadTime
    OBVIOUS
  <2>1. /\ {CacheTime, ReadTime} \subseteq Nat
        /\ now \in Nat /\ stood \in Int /\ held \in Nat
        /\ held <= now \/ held <= stood + CacheTime + ReadTime
    BY <1>1, DelegatesAssumption DEF DelegatesSound
  <2>2. DOMAIN stage = Calls
    BY <1>1 DEF IInv, CallsSound
  <2>3. CASE FromHeld(c)
    BY <2>1, <2>3 DEF FromHeld
  <2>4. CASE ReadIsDelegate(c) \/ ReadExpiry(c)
    BY <2>4 DEF ReadIsDelegate, ReadExpiry, Reads, meteringVars, callVars
  <2>5. CASE Unreadable(c)
    BY <2>2, <2>5 DEF Unreadable, TurnAway, Respond, Move
  <2>6. CASE Decide(c)
    <3>1. isRead[c] # Nothing /\ isRead[c].is
      BY <2>2, <2>6 DEF Decide, TurnAway, Respond, Move
    <3>2. now <= stood + ReadTime
      BY <1>1, <3>1, DecisionIsRecent
    <3> QED BY <2>1, <3>2
  <2> QED BY <2>3, <2>4, <2>5, <2>6 DEF DelegateCheck
<1>2. GatewayInit => DelegatesSound
  BY DelegatesInitSound DEF GatewayInit
<1>3. IInv /\ DelegatesSound => [A]_<<stage, delegateVars>>
  BY <1>1
<1> QED BY <1>2, <1>3, DelegatesStep, GatewayInv, PTL DEF GatewaySpec, DelegateStoodLately

-----------------------------------------------------------------------------
(* The order of the entries.                                               *)

Entries == {Entry(p[1], p[2]) : p \in (1 .. MaxPaid) \X (1 .. MaxWrites)}

\* The entries that may still be mined, and those of them the writer waits for.
InPool(r) == \E n \in DOMAIN txs : txs[n] = r /\ n > Len(receipts)
Out == {r \in Entries : Queued(r) \/ IsLate(r) \/ InPool(r)}
Followed ==
  {r \in Entries : (inFlight # Nothing /\ r = inFlight) \/ (step = "sent" /\ r = Written)}

\* How many settlements the writer has dealt with when it has mined what it is at.
Reach == IF step = "writing" THEN current - 1 ELSE IF step = "sent" THEN current ELSE settlements

InOrder ==
  /\ \A i \in DOMAIN entries : entries[i] = i
  /\ \A s \in 1 .. MaxPaid, n \in 1 .. MaxWrites :
       Entry(s, n) \in Out \cap Followed => Len(entries) = s - 1
  /\ step = "writing" => Len(entries) = current - 1
  /\ step = "sent" /\ Mined(Written) => Len(entries) = current

\* The inductive invariant: an entry that may still be mined is one the writer
\* waits for, but for as many as were lost sight of; there is room for all of them
\* among the settlements; and while none was, the one that is waited for is next.
RatedInv ==
  /\ step \in {"idle", "resolving", "writing", "sent"} /\ cuts \in Nat
  /\ step = "sent" => writes \in 1 .. MaxWrites
  /\ step \in {"writing", "sent"} => inFlight = Nothing
  /\ \A r \in Entries : Queued(r) => step = "sent" /\ r = Written
  /\ Cardinality(Out \ Followed) <= cuts
  /\ Len(entries) + Cardinality(Out) <= Reach + cuts
  /\ cuts = 0 => InOrder

LEMMA EntryFacts ==
  /\ Entries \subseteq Requests
  /\ \A s \in 1 .. MaxPaid, n \in 1 .. MaxWrites : Entry(s, n) \in Entries
  /\ \A r \in Entries : \E s \in 1 .. MaxPaid, n \in 1 .. MaxWrites : r = Entry(s, n)
  /\ \A s, n, t, m : Entry(s, n) = Entry(t, m) => s = t /\ n = m
<1>1. \A s \in 1 .. MaxPaid, n \in 1 .. MaxWrites : Entry(s, n) \in Entries
  <2> SUFFICES ASSUME NEW s \in 1 .. MaxPaid, NEW n \in 1 .. MaxWrites
               PROVE  Entry(s, n) \in Entries
    OBVIOUS
  <2>1. <<s, n>> \in (1 .. MaxPaid) \X (1 .. MaxWrites) /\ <<s, n>>[1] = s /\ <<s, n>>[2] = n
    OBVIOUS
  <2> QED BY <2>1 DEF Entries
<1>2. \A r \in Entries : \E s \in 1 .. MaxPaid, n \in 1 .. MaxWrites : r = Entry(s, n)
  BY DEF Entries
<1>3. Entries \subseteq Requests
  BY <1>2, FeedbackAssumption
<1>4. \A s, n, t, m : Entry(s, n) = Entry(t, m) => s = t /\ n = m
  BY DEF Entry
<1> QED BY <1>1, <1>2, <1>3, <1>4

LEMMA EntriesFinite == IsFiniteSet(Entries)
<1> DEFINE X == (1 .. MaxPaid) \X (1 .. MaxWrites)
           f == [p \in X |-> Entry(p[1], p[2])]
<1>1. IsFiniteSet(X)
  <2>1. 1 \in Int /\ MaxPaid \in Int /\ MaxWrites \in Int
    BY FeedbackAssumption
  <2>2. IsFiniteSet(1 .. MaxPaid) /\ IsFiniteSet(1 .. MaxWrites)
    BY <2>1, FS_Interval
  <2> QED BY <2>2, FS_Product
<1>2. f \in Surjection(X, Entries)
  BY DEF Surjection, Entries
<1> HIDE DEF X, f
<1> QED BY <1>1, <1>2, FS_Surjection

\* Sets of entries are finite, and one that is within another is no larger.
LEMMA EntryCounts ==
  ASSUME NEW A, NEW B, A \subseteq B, B \subseteq Entries
  PROVE  Cardinality(A) \in Nat /\ Cardinality(B) \in Nat /\ Cardinality(A) <= Cardinality(B)
<1>1. IsFiniteSet(B)
  BY EntriesFinite, FS_Subset
<1>2. IsFiniteSet(A) /\ Cardinality(A) <= Cardinality(B)
  BY <1>1, FS_Subset
<1> QED BY <1>1, <1>2, FS_CardinalityType

\* One more entry counts one more at most, and one that is taken away one less.
LEMMA EntryCounted ==
  ASSUME NEW A, A \subseteq Entries, NEW r \in Entries
  PROVE  /\ Cardinality(A \cup {r}) <= Cardinality(A) + 1
         /\ r \in A => Cardinality(A \ {r}) = Cardinality(A) - 1
         /\ Cardinality(A) \in Nat
<1>1. IsFiniteSet(A)
  BY EntriesFinite, FS_Subset
<1>2. Cardinality(A) \in Nat
  BY <1>1, FS_CardinalityType
<1>3. Cardinality(A \cup {r}) <= Cardinality(A) + 1
  BY <1>1, <1>2, FS_AddElement
<1>4. r \in A => Cardinality(A \ {r}) = Cardinality(A) - 1
  BY <1>1, FS_RemoveElement
<1> QED BY <1>2, <1>3, <1>4

\* What the invariants say of the types.
LEMMA RatedTypes ==
  ASSUME IInv
  PROVE  /\ Len(entries) \in Nat /\ Len(txs) \in Nat /\ Len(receipts) \in Nat
         /\ Len(receipts) <= Len(txs) /\ DOMAIN txs = 1 .. Len(txs)
         /\ DOMAIN entries = 1 .. Len(entries)
         /\ {settlements, indexed, known, writes, current} \subseteq Nat
         /\ known <= indexed /\ indexed <= settlements /\ settlements <= MaxPaid
         /\ step \in {"writing", "sent"} =>
              current \in 1 .. known /\ current \in 1 .. MaxPaid /\ current <= settlements
         /\ MaxPaid \in Nat /\ MaxWrites \in Nat
         /\ reply \in [Requests -> Nat \cup {Nothing, Failed}]
         /\ Nothing \notin Nat /\ Failed \notin Nat /\ Nothing # Failed
<1> USE DEF IInv
<1>1. /\ Len(txs) \in Nat /\ Len(receipts) \in Nat /\ Len(receipts) <= Len(txs)
      /\ DOMAIN txs = 1 .. Len(txs) /\ reply \in [Requests -> Nat \cup {Nothing, Failed}]
  BY DEF SenderSound, SenderTypeOK
<1>2. /\ Len(entries) \in Nat /\ DOMAIN entries = 1 .. Len(entries)
      /\ {settlements, indexed, known, writes, current} \subseteq Nat
      /\ known <= indexed /\ indexed <= settlements /\ settlements <= MaxPaid
      /\ step \in {"writing", "sent"} => current \in 1 .. known
  BY DEF EntriesSound
<1>3. MaxPaid \in Nat /\ MaxWrites \in Nat
  BY FeedbackAssumption
<1>4. step \in {"writing", "sent"} => current \in 1 .. MaxPaid /\ current <= settlements
  BY <1>2, <1>3
<1> QED BY <1>1, <1>2, <1>3, <1>4, SenderAssumption

\* A transaction that is mined is not in the pool, nor anywhere else.
LEMMA MinedIsNotOut ==
  ASSUME IInv, NEW r \in Requests, Mined(r)
  PROVE  ~Queued(r) /\ ~IsLate(r) /\ ~InPool(r)
<1>1. SenderSound /\ Len(receipts) \in Nat
  BY RatedTypes DEF IInv
<1>2. reply[r] \in Nat /\ reply[r] <= Len(receipts) /\ reply[r] \notin {Nothing, Failed}
  BY <1>1, SenderAssumption DEF Mined
<1>3. reply[r] \in DOMAIN txs /\ txs[reply[r]] = r
  BY <1>1, <1>2 DEF SenderSound, OneTransactionEach
<1>4. Taken(r)
  BY <1>3 DEF Taken
<1>5. ~Queued(r) /\ ~IsLate(r)
  BY <1>1, <1>4 DEF SenderSound
<1>6. ASSUME NEW n \in DOMAIN txs, txs[n] = r, n > Len(receipts)
      PROVE  FALSE
  <2>1. n # reply[r]
    BY <1>2, <1>6, RatedTypes
  <2>2. r = Elsewhere
    BY <1>1, <1>3, <1>6, <2>1 DEF SenderSound, OneTransactionEach
  <2> QED BY <2>2, SenderAssumption
<1> QED BY <1>5, <1>6 DEF InPool

\* A request that is not in the queue was answered or is yet to be sent.
LEMMA AnsweredIsNotQueued ==
  ASSUME IInv, NEW r \in Requests, reply[r] # Nothing
  PROVE  ~Queued(r)
  BY DEF IInv, SenderSound

-----------------------------------------------------------------------------

LEMMA OutInEntries == Out \subseteq Entries /\ Followed \subseteq Entries
  BY DEF Out, Followed

\* A step that moves nothing of the writer and brings no entry nearer.
LEMMA RatedFrame ==
  ASSUME IInv, RatedInv, UNCHANGED feedbackVars, Out' \subseteq Out,
         \A r \in Entries : Queued(r)' => Queued(r),
         \A r \in Entries : Mined(r)' => Mined(r)
  PROVE  RatedInv'
<1>1. /\ UNCHANGED <<settlements, entries, inFlight, step, current, writes, cuts>>
      /\ Followed' = Followed /\ Reach' = Reach /\ Written' = Written
  BY DEF feedbackVars, ledgerVars, writerVars, Followed, Written, Reach
<1>2. Cardinality(Out' \ Followed') <= Cardinality(Out \ Followed)
      /\ Cardinality(Out' \ Followed') \in Nat /\ Cardinality(Out \ Followed) \in Nat
  BY <1>1, OutInEntries, EntryCounts
<1>3. Cardinality(Out') <= Cardinality(Out)
      /\ Cardinality(Out') \in Nat /\ Cardinality(Out) \in Nat
  BY OutInEntries, EntryCounts
<1>4. Reach \in Int /\ Len(entries) \in Nat /\ cuts \in Nat
  BY RatedTypes DEF Reach, RatedInv
<1>5. Cardinality(Out' \ Followed') <= cuts'
  BY <1>1, <1>2, <1>4 DEF RatedInv
<1>6. Len(entries') + Cardinality(Out') <= Reach' + cuts'
  BY <1>1, <1>3, <1>4 DEF RatedInv
<1>7. step = "sent" => Written \in Entries
  BY EntryFacts, RatedTypes DEF RatedInv, Written
<1>8. cuts' = 0 => InOrder'
  BY <1>1, <1>7 DEF RatedInv, InOrder
<1> QED BY <1>1, <1>5, <1>6, <1>8 DEF RatedInv

\* No step of the queue or the node does.
LEMMA SendingNears ==
  ASSUME IInv, SenderStep \/ Arrives \/ Outside
  PROVE  /\ Out' \subseteq Out
         /\ \A r \in Entries : Queued(r)' => Queued(r)
         /\ \A r \in Entries : Mined(r)' => Mined(r)
<1> USE DEF nodeVars, queueVars
<1>1. SenderSound /\ SenderTypeOK /\ receipts' = receipts
  BY DEF IInv, SenderSound, SenderStep, ReadNonce, Accepted, Refused, SendFails, AnswerLost,
         SendDelayed, Arrives, Outside
<1>2. SenderTypeOK' /\ Undisturbed
  BY <1>1, SenderSteps, ArrivalSound, OutsideSound DEF SenderSound
<1>3. /\ Len(receipts) \in Nat /\ Len(txs) \in Nat /\ Len(receipts) <= Len(txs)
      /\ DOMAIN txs = 1 .. Len(txs)
  BY RatedTypes
<1>4. \/ UNCHANGED <<queue, reply>>
      \/ queue # <<>> /\ \E answered \in {Failed, Pending} : Finish(answered)
  BY <1>1 DEF SenderStep, ReadNonce, Accepted, Refused, Forgotten, SendFails, AnswerLost,
         SendDelayed, Arrives, Outside
<1>5. ASSUME NEW r \in Requests
      PROVE  (Queued(r)' => Queued(r)) /\ (Mined(r)' => Mined(r))
  <2>1. CASE UNCHANGED <<queue, reply>>
    BY <1>1, <2>1 DEF Queued, Mined
  <2>2. ASSUME NEW answered \in {Failed, Pending}, queue # <<>>, Finish(answered)
        PROVE  (Queued(r)' => Queued(r)) /\ (Mined(r)' => Mined(r))
    <3>1. answered \in Nat \cup {Failed} /\ answered \notin 1 .. Len(receipts)
      BY <1>3, SenderAssumption DEF Pending
    <3>2. /\ Queued(r)' => Queued(r)
          /\ r # Head(queue) => reply'[r] = reply[r]
          /\ reply'[Head(queue)] = answered
      BY <1>1, <2>2, <3>1, Leaves
    <3> QED BY <1>1, <3>1, <3>2 DEF Mined
  <2> QED BY <1>4, <2>1, <2>2
<1>6. ASSUME NEW r \in Requests, IsLate(r)'
      PROVE  Queued(r) \/ IsLate(r)
  <2>1. CASE late' \subseteq late
    BY <1>6, <2>1 DEF IsLate
  <2>2. CASE queue # <<>> /\ late' = late \cup {[request |-> Head(queue), nonce |-> next]}
    BY <1>1, <1>6, <2>2, JoinsLate, HeadOfQueue
  <2> QED BY <2>1, <2>2 DEF SenderStep, ReadNonce, Accepted, Refused, Forgotten, SendFails,
                            AnswerLost, SendDelayed, Arrives, Outside
<1>7. ASSUME NEW r \in Requests, InPool(r)'
      PROVE  Queued(r) \/ IsLate(r) \/ InPool(r)
  <2>1. CASE txs' = txs
    BY <1>1, <1>7, <2>1 DEF InPool
  <2>2. ASSUME NEW t \in Requests \cup {Elsewhere}, txs' = Append(txs, t),
               t = r => Queued(r) \/ IsLate(r)
        PROVE  Queued(r) \/ IsLate(r) \/ InPool(r)
    <3>1. /\ DOMAIN txs' = DOMAIN txs \cup {Len(txs) + 1}
          /\ txs'[Len(txs) + 1] = t /\ \A n \in DOMAIN txs : txs'[n] = txs[n]
      BY <1>1, <2>2, TakenLast
    <3>2. PICK n \in DOMAIN txs' : txs'[n] = r /\ n > Len(receipts)
      BY <1>1, <1>7 DEF InPool
    <3> QED BY <2>2, <3>1, <3>2 DEF InPool
  <2>3. CASE queue # <<>> /\ txs' = Append(txs, Head(queue))
    BY <1>1, <2>2, <2>3, HeadOfQueue
  <2>4. CASE Outside
    BY <2>2, <2>4, SenderAssumption DEF Outside
  <2>5. CASE Arrives
    <3>1. PICK send \in late :
            txs' = IF send.nonce = Pending THEN Append(txs, send.request) ELSE txs
      BY <2>5 DEF Arrives
    <3>2. send.request \in Requests /\ IsLate(send.request)
      BY <1>1, <3>1 DEF SenderTypeOK, IsLate
    <3> QED BY <2>1, <2>2, <3>1, <3>2
  <2> QED BY <2>1, <2>3, <2>4, <2>5 DEF SenderStep, ReadNonce, Accepted, Refused, Forgotten,
                                        SendFails, AnswerLost, SendDelayed
<1> QED BY <1>5, <1>6, <1>7, EntryFacts DEF Out

\* Nor does the submission of another request, nor its mining.
LEMMA OthersNear ==
  ASSUME IInv, NEW r \in Requests \ Entries, Submit(r), Submission
  PROVE  /\ Out' \subseteq Out
         /\ \A q \in Entries : Queued(q)' => Queued(q)
         /\ \A q \in Entries : Mined(q)' => Mined(q)
<1>1. UNCHANGED <<txs, receipts, late, reply>> /\ queue' = Append(queue, r)
  BY DEF Submission, Submit, nodeVars
<1>2. queue \in Seq(Requests)
  BY DEF IInv, SenderSound, SenderTypeOK
<1>3. \A q \in Entries : Queued(q)' => Queued(q)
  BY <1>1, <1>2 DEF Queued
<1> QED BY <1>1, <1>3 DEF Out, IsLate, InPool, Mined

LEMMA MiningNears ==
  ASSUME IInv, NEW status \in BOOLEAN, MineNext(status), NextMined \notin Entries
  PROVE  /\ Out' \subseteq Out
         /\ \A q \in Entries : Queued(q)' => Queued(q)
         /\ \A q \in Entries : Mined(q)' => Mined(q)
<1>1. /\ UNCHANGED <<txs, late, queue, reply>> /\ receipts' = Append(receipts, status)
      /\ receipts \in Seq(BOOLEAN)
  BY DEF MineNext, queueVars, IInv, SenderSound, SenderTypeOK
<1>2. Len(receipts') = Len(receipts) + 1 /\ Len(receipts) \in Nat
  BY <1>1
<1>3. \A q \in Entries : Mined(q)' => Mined(q)
  <2> SUFFICES ASSUME NEW q \in Entries, Mined(q)' PROVE Mined(q)
    OBVIOUS
  <2>1. reply[q] \in 1 .. Len(receipts) + 1
    BY <1>1, <1>2 DEF Mined
  <2>2. txs[reply[q]] = q
    BY <1>2, <2>1, EntryFacts, SenderAssumption DEF IInv, SenderSound, OneTransactionEach
  <2>3. reply[q] # Len(receipts) + 1
    BY <2>2 DEF NextMined
  <2> QED BY <1>2, <2>1, <2>3 DEF Mined
<1>4. \A q : InPool(q)' => InPool(q)
  <2>1. DOMAIN txs \subseteq Nat
    BY RatedTypes
  <2> QED BY <1>1, <1>2, <2>1 DEF InPool
<1> QED BY <1>1, <1>3, <1>4 DEF Out, IsLate, Queued

\* The settlements only grow.
LEMMA LedgerRated ==
  ASSUME IInv, RatedInv, UNCHANGED senderVars, Settled \/ Indexed \/ TakesIdentity
  PROVE  RatedInv'
<1>1. /\ UNCHANGED <<entries, inFlight, step, current, writes, cuts>>
      /\ UNCHANGED <<txs, receipts, late, queue, reply>>
      /\ settlements' \in Nat /\ settlements' >= settlements
  BY RatedTypes DEF Settled, Indexed, TakesIdentity, senderVars, nodeVars, queueVars, writerVars
<1>2. /\ Out' = Out /\ Followed' = Followed /\ Written' = Written
      /\ \A r \in Entries : (Queued(r)' <=> Queued(r)) /\ (Mined(r)' <=> Mined(r))
  BY <1>1 DEF Out, Queued, IsLate, InPool, Followed, Written, Mined
<1>3. Cardinality(Out) \in Nat /\ Len(entries) \in Nat /\ cuts \in Nat
      /\ Reach' \in Int /\ Reach \in Int /\ Reach <= Reach'
  <2>1. Cardinality(Out) \in Nat
    BY OutInEntries, EntryCounts
  <2>2. Len(entries) \in Nat /\ cuts \in Nat /\ settlements \in Nat /\ current \in Nat
    BY RatedTypes DEF RatedInv
  <2>3. Reach' \in Int /\ Reach \in Int /\ Reach <= Reach'
    BY <1>1, <2>2 DEF Reach
  <2> QED BY <2>1, <2>2, <2>3
<1>4. Len(entries') + Cardinality(Out') <= Reach' + cuts'
  BY <1>1, <1>2, <1>3 DEF RatedInv
<1>5. step = "sent" => Written \in Entries
  BY EntryFacts, RatedTypes DEF RatedInv, Written
<1> QED BY <1>1, <1>2, <1>4, <1>5 DEF RatedInv, InOrder

\* The writer moves, and the chain and its queue do not.  What it waited for and
\* does no more is mined, nowhere, or counted.
LEMMA WriterRated ==
  ASSUME IInv, IInv', RatedInv, UNCHANGED <<txs, receipts, late, queue, reply>>,
         UNCHANGED <<settlements, entries, writes>>,
         step' \in {"idle", "resolving", "writing"},
         step' = "writing" => inFlight' = Nothing,
         \A r \in Entries : ~Queued(r),
         cuts' = cuts \/ cuts' = cuts + 1,
         \A r \in Out : r \in Followed /\ r \notin Followed' => cuts' = cuts + 1 /\ r = Written,
         Followed' \subseteq Followed,
         step' = "writing" =>
           Cardinality(Out) <= cuts' - (Len(entries) - (current' - 1)),
         step' # "writing" => Reach <= settlements,
         cuts' = 0 /\ step' = "writing" => Len(entries) = current' - 1
  PROVE  RatedInv'
<1>1. /\ Out' = Out
      /\ \A r \in Entries : Queued(r)' <=> Queued(r)
  BY DEF Out, Queued, IsLate, InPool
<1>2. /\ Len(entries) \in Nat /\ cuts \in Nat /\ cuts' \in Nat /\ settlements \in Nat
      /\ Reach \in Int
  <2>1. Len(entries) \in Nat /\ settlements \in Nat /\ current \in Nat
    BY RatedTypes
  <2>2. cuts \in Nat /\ cuts' \in Nat
    BY DEF RatedInv
  <2> QED BY <2>1, <2>2 DEF Reach
<1>6. current' \in Nat
  BY DEF IInv, EntriesSound
<1>3. Cardinality(Out' \ Followed') <= cuts'
  <2>1. /\ Out \ Followed \subseteq Entries /\ Out \ Followed' \subseteq Entries
        /\ Cardinality(Out \ Followed) \in Nat /\ Cardinality(Out \ Followed') \in Nat
    BY OutInEntries, EntryCounts
  <2>2. CASE \A r \in Out : r \in Followed => r \in Followed'
    <3>1. Out \ Followed' \subseteq Out \ Followed
      BY <2>2
    <3>2. Cardinality(Out \ Followed') <= Cardinality(Out \ Followed)
      BY <2>1, <3>1, EntryCounts
    <3> QED BY <1>1, <1>2, <2>1, <3>2 DEF RatedInv
  <2>3. CASE ~(\A r \in Out : r \in Followed => r \in Followed')
    <3>1. cuts' = cuts + 1 /\ Written \in Entries
      BY <2>3, OutInEntries
    <3>2. Out \ Followed' \subseteq (Out \ Followed) \cup {Written}
      OBVIOUS
    <3>3. /\ (Out \ Followed) \cup {Written} \subseteq Entries
          /\ Cardinality((Out \ Followed) \cup {Written}) \in Nat
          /\ Cardinality((Out \ Followed) \cup {Written}) <= Cardinality(Out \ Followed) + 1
      BY <2>1, <3>1, EntryCounted
    <3>4. Cardinality(Out \ Followed') <= Cardinality((Out \ Followed) \cup {Written})
      BY <3>2, <3>3, EntryCounts
    <3> QED BY <1>1, <1>2, <2>1, <3>1, <3>3, <3>4 DEF RatedInv
  <2> QED BY <2>2, <2>3
<1>4. Len(entries') + Cardinality(Out') <= Reach' + cuts'
  <2>1. Cardinality(Out) \in Nat
    BY OutInEntries, EntryCounts
  <2>2. CASE step' = "writing"
    <3>1. Reach' = current' - 1
      BY <2>2 DEF Reach
    <3> QED BY <1>1, <1>2, <1>6, <2>1, <2>2, <3>1
  <2>3. CASE step' # "writing"
    <3>1. Reach' = settlements
      BY <2>3 DEF Reach
    <3> QED BY <1>1, <1>2, <2>1, <2>3, <3>1 DEF RatedInv
  <2> QED BY <2>2, <2>3
<1>5. cuts' = 0 => InOrder'
  <2>1. cuts' = 0 => cuts = 0
    BY <1>2
  <2> QED BY <1>1, <2>1 DEF RatedInv, InOrder
<1> QED BY <1>1, <1>2, <1>3, <1>4, <1>5 DEF RatedInv

LEMMA WriterStepsRated ==
  ASSUME IInv, IInv', RatedInv, UNCHANGED senderVars,
         \/ FeedbackTick \/ NoIdentity \/ WriteInFlight \/ CountEntries
         \/ NotWritten \/ WrittenMined \/ WrittenUnconfirmed
  PROVE  RatedInv'
<1> USE DEF TickEnds
<1>1. UNCHANGED <<txs, receipts, late, queue, reply>>
  BY DEF senderVars, nodeVars, queueVars
<1>2. UNCHANGED <<settlements, entries, writes>>
  BY DEF FeedbackTick, NoIdentity, WriteInFlight, CountEntries, NotWritten, WrittenMined,
         WrittenUnconfirmed, ledgerVars
<1>3. /\ Len(entries) \in Nat /\ settlements \in Nat /\ cuts \in Nat /\ known \in Nat
      /\ Cardinality(Out) \in Nat /\ Cardinality(Out \ Followed) \in Nat
  BY RatedTypes, OutInEntries, EntryCounts DEF RatedInv
<1>4. Reach <= settlements /\ Reach \in Int
  BY RatedTypes DEF Reach
<1>5. /\ step = "sent" => Written \in Entries /\ current \in Nat
      /\ step # "sent" => \A r \in Entries : ~Queued(r)
  BY EntryFacts, RatedTypes DEF RatedInv, Written
<1>6. /\ Nothing \notin Nat /\ Failed # Nothing /\ Nothing \notin Requests
      /\ Entries \subseteq Requests
  BY SenderAssumption, EntryFacts
<1>7. CASE FeedbackTick
  <2>1. UNCHANGED <<inFlight, current, cuts>> /\ step = "idle" /\ step' \in {"idle", "resolving"}
    BY <1>7 DEF FeedbackTick
  <2>2. Followed' = Followed
    BY <2>1 DEF Followed
  <2> QED BY <1>1, <1>2, <1>4, <1>5, <2>1, <2>2, WriterRated
<1>8. CASE NoIdentity \/ WriteInFlight
  <2>1. UNCHANGED <<inFlight, cuts>> /\ step = "resolving" /\ step' = "idle"
    BY <1>8 DEF NoIdentity, WriteInFlight
  <2>2. Followed' = Followed
    BY <2>1 DEF Followed
  <2> QED BY <1>1, <1>2, <1>4, <1>5, <2>1, <2>2, WriterRated
<1>9. CASE CountEntries
  <2>1. /\ inFlight' = Nothing /\ step = "resolving" /\ step' \in {"idle", "writing"}
        /\ cuts' = cuts
        /\ step' = "writing" => current' = Len(entries) + 1
        /\ inFlight # Nothing => Mined(inFlight)
    BY <1>9 DEF CountEntries, StillInFlight
  <2>2. \A r \in Out : r \notin Followed
    BY <1>6, <2>1, MinedIsNotOut DEF Out, Followed
  <2>3. Followed' = {}
    BY <2>1 DEF Followed
  <2>4. Out \ Followed = Out
    BY <2>2
  <2>5. Cardinality(Out) <= cuts
    BY <2>4 DEF RatedInv
  <2>6. step' = "writing" => Cardinality(Out) <= cuts' - (Len(entries) - (current' - 1))
                             /\ Len(entries) = current' - 1
    BY <1>3, <2>1, <2>5
  <2> QED BY <1>1, <1>2, <1>4, <1>5, <2>1, <2>2, <2>3, <2>6, WriterRated
<1>10. CASE NotWritten
  <2>1. /\ step = "sent" /\ reply[Written] = Failed /\ step' = "idle" /\ inFlight' = inFlight
        /\ cuts' = IF Astray(Written) THEN cuts + 1 ELSE cuts
    BY <1>10 DEF NotWritten
  <2>2. inFlight = Nothing
    BY <2>1 DEF RatedInv
  <2>3. ~Queued(Written)
    BY <1>5, <1>6, <2>1, AnsweredIsNotQueued
  <2>4. \A r \in Entries : ~Queued(r)
    BY <2>1, <2>3 DEF RatedInv
  <2>5. Followed' = {} /\ Followed = {Written}
    BY <1>5, <2>1, <2>2 DEF Followed
  <2>6. Written \in Out => Astray(Written)
    BY <2>3 DEF Out, Astray, IsLate, InPool
  <2>7. \A r \in Out : r \in Followed /\ r \notin Followed' => cuts' = cuts + 1 /\ r = Written
    BY <2>1, <2>5, <2>6
  <2>8. cuts' = cuts \/ cuts' = cuts + 1
    BY <2>1
  <2> HIDE DEF Astray
  <2> QED BY <1>1, <1>2, <1>4, <2>1, <2>4, <2>5, <2>7, <2>8, WriterRated
<1>11. CASE WrittenMined
  <2>1. /\ step = "sent" /\ Mined(Written) /\ inFlight' = Nothing
        /\ step' \in {"idle", "writing"} /\ cuts' = cuts
        /\ step' = "writing" => current' = current + 1
    BY <1>11 DEF WrittenMined
  <2>2. Written \notin Out
    BY <1>5, <1>6, <2>1, MinedIsNotOut DEF Out
  <2>3. \A r \in Entries : ~Queued(r)
    BY <1>5, <1>6, <2>1, MinedIsNotOut DEF RatedInv
  <2>4. Followed' = {} /\ Followed = {Written}
    BY <1>5, <2>1 DEF Followed, RatedInv
  <2>5. Len(entries) + Cardinality(Out) <= current + cuts
    BY <2>1 DEF RatedInv, Reach
  <2>6. step' = "writing" => Cardinality(Out) <= cuts' - (Len(entries) - (current' - 1))
    BY <1>3, <1>5, <2>1, <2>5
  <2>7. cuts' = 0 /\ step' = "writing" => Len(entries) = current' - 1
    BY <1>3, <1>5, <2>1 DEF RatedInv, InOrder
  <2> QED BY <1>1, <1>2, <1>4, <2>1, <2>2, <2>3, <2>4, <2>6, <2>7, WriterRated
<1>12. CASE WrittenUnconfirmed
  <2>1. /\ step = "sent" /\ reply[Written] \in Nat /\ inFlight' = Written /\ step' = "idle"
        /\ cuts' = cuts
    BY <1>12 DEF WrittenUnconfirmed
  <2>2. \A r \in Entries : ~Queued(r)
    BY <1>5, <1>6, <2>1, AnsweredIsNotQueued DEF RatedInv
  <2>3. Followed' \subseteq Followed /\ Followed = {Written}
    BY <1>5, <2>1 DEF Followed, RatedInv
  <2>4. Written \in Followed'
    BY <1>5, <1>6, <2>1 DEF Followed
  <2> QED BY <1>1, <1>2, <1>4, <2>1, <2>2, <2>3, <2>4, WriterRated
<1> QED BY <1>7, <1>8, <1>9, <1>10, <1>11, <1>12

LEMMA ReadFailsRated ==
  ASSUME IInv, IInv', RatedInv, FeedbackReadFails
  PROVE  RatedInv'
<1>1. /\ UNCHANGED <<txs, receipts, late, queue, reply>>
      /\ UNCHANGED <<settlements, entries, writes, inFlight, cuts>>
      /\ step \in {"resolving", "writing"} /\ step' = "idle"
  BY DEF FeedbackReadFails, queueVars, ledgerVars, TickEnds
<1>2. Followed' = Followed
  BY <1>1 DEF Followed
<1>3. \A r \in Entries : ~Queued(r)
  BY <1>1 DEF RatedInv
<1>4. Reach <= settlements
  BY <1>1, RatedTypes DEF Reach
<1> QED BY <1>1, <1>2, <1>3, <1>4, WriterRated

\* The next entry is sent.
LEMMA SubmitRated ==
  ASSUME IInv, IInv', RatedInv, SubmitEntry, Submission
  PROVE  RatedInv'
<1>1. /\ step = "writing" /\ step' = "sent" /\ writes' = writes + 1 /\ writes < MaxWrites
      /\ queue' = Append(queue, Entry(current, writes'))
      /\ UNCHANGED <<settlements, entries, known, inFlight, current, cuts>>
      /\ UNCHANGED <<txs, receipts, late, reply>>
  BY DEF SubmitEntry, Submission, Submit, ledgerVars, nodeVars
<1>2. /\ Len(entries) \in Nat /\ cuts \in Nat /\ current \in 1 .. MaxPaid /\ current \in Nat
      /\ writes' \in 1 .. MaxWrites
  BY <1>1, RatedTypes DEF RatedInv
<1>3. Written' = Entry(current, writes') /\ Written' \in Entries
  BY <1>1, <1>2, EntryFacts DEF Written
<1>4. queue \in Seq(Requests) /\ Written' \in Requests
  BY <1>3, EntryFacts DEF IInv, SenderSound, SenderTypeOK
<1>5. \A r : Queued(r)' <=> Queued(r) \/ r = Written'
  BY <1>1, <1>3, <1>4 DEF Queued
<1>6. inFlight = Nothing /\ Followed = {} /\ Followed' = {Written'}
  BY <1>1, <1>3 DEF RatedInv, Followed
<1>7. Out' = Out \cup {Written'}
  BY <1>1, <1>3, <1>5 DEF Out, IsLate, InPool
<1>8. /\ Cardinality(Out \ Followed) <= cuts /\ Out \ Followed = Out
      /\ Cardinality(Out) \in Nat /\ Cardinality(Out') <= Cardinality(Out) + 1
      /\ Cardinality(Out') \in Nat
      /\ Cardinality(Out' \ Followed') \in Nat
      /\ Cardinality(Out' \ Followed') <= Cardinality(Out)
  <2>1. Out \subseteq Entries /\ Out' \subseteq Entries
    BY <1>3, <1>7, OutInEntries
  <2>2. Out' \ Followed' \subseteq Out
    BY <1>6, <1>7
  <2>3. Cardinality(Out' \ Followed') \in Nat /\ Cardinality(Out' \ Followed') <= Cardinality(Out)
    BY <2>1, <2>2, EntryCounts
  <2>4. Cardinality(Out) \in Nat /\ Cardinality(Out') \in Nat
    BY <2>1, EntryCounts
  <2>5. Cardinality(Out') <= Cardinality(Out) + 1
    BY <1>3, <1>7, <2>1, EntryCounted
  <2> QED BY <1>6, <2>3, <2>4, <2>5 DEF RatedInv
<1>9. Cardinality(Out' \ Followed') <= cuts'
  <2>1. Cardinality(Out) <= cuts
    BY <1>8
  <2> QED BY <1>1, <1>2, <1>8, <2>1
<1>10. Len(entries') + Cardinality(Out') <= Reach' + cuts'
  <2>1. Reach = current - 1 /\ Reach' = current
    BY <1>1 DEF Reach
  <2> QED BY <1>1, <1>2, <1>8, <2>1 DEF RatedInv
<1>11. cuts' = 0 => InOrder'
  <2>1. ~Mined(Written)'
    <3>1. reply[Written'] = Nothing
      <4>1. Untouched(Written')
        BY <1>1, <1>2, <1>3, RatedTypes DEF IInv, EntriesSound
      <4> QED BY <4>1 DEF Untouched
    <3> QED BY <1>1, <3>1, SenderAssumption DEF Mined
  <2>2. ASSUME cuts' = 0, NEW s \in 1 .. MaxPaid, NEW n \in 1 .. MaxWrites,
               Entry(s, n) \in Followed'
        PROVE  Len(entries') = s - 1
    <3>1. s = current
      BY <1>3, <1>6, <2>2, EntryFacts
    <3> QED BY <1>1, <2>2, <3>1 DEF RatedInv, InOrder
  <2> QED BY <1>1, <2>1, <2>2 DEF RatedInv, InOrder
<1> QED BY <1>1, <1>2, <1>5, <1>6, <1>9, <1>10, <1>11 DEF RatedInv

\* An entry is mined: it was waited for, or lost sight of.
LEMMA EntryMinedRated ==
  ASSUME IInv, IInv', RatedInv, Len(receipts) < Len(txs), NEW s \in 1 .. MaxPaid,
         NEW n \in 1 .. MaxWrites, NextMined = Entry(s, n), EntryMined(s)
  PROVE  RatedInv'
<1> DEFINE r == Entry(s, n)
           m == Len(receipts) + 1
<1>1. /\ receipts' = Append(receipts, TRUE) /\ receipts \in Seq(BOOLEAN)
      /\ UNCHANGED <<txs, late, queue, reply>>
      /\ entries' = Append(entries, s) /\ entries \in Seq(Nat)
      /\ UNCHANGED <<settlements, inFlight, step, current, writes, cuts>>
  BY DEF EntryMined, MineNext, queueVars, writerVars, IInv, SenderSound, SenderTypeOK, EntriesSound
<1>2. /\ Len(receipts) \in Nat /\ Len(receipts') = m /\ m \in DOMAIN txs /\ DOMAIN txs \subseteq Nat
      /\ txs[m] = r /\ r \in Entries /\ r \in Requests
  BY <1>1, RatedTypes, EntryFacts DEF NextMined
<1>3. /\ Len(entries) \in Nat /\ Len(entries') = Len(entries) + 1
      /\ DOMAIN entries' = 1 .. Len(entries) + 1
      /\ entries'[Len(entries) + 1] = s /\ \A i \in 1 .. Len(entries) : entries'[i] = entries[i]
  BY <1>1
<1> HIDE DEF r
<1>4. /\ Followed' = Followed /\ Reach' = Reach /\ Written' = Written
      /\ \A q : Queued(q)' <=> Queued(q)
  BY <1>1 DEF Followed, Written, Reach, Queued
<1>5. r \in Out /\ Out' = Out \ {r}
  <2>1. Taken(r) /\ \A k \in DOMAIN txs : txs[k] = r => k = m
    <3>1. r # Elsewhere
      BY <1>2, SenderAssumption
    <3> QED BY <1>2, <3>1 DEF Taken, IInv, SenderSound, OneTransactionEach
  <2>2. ~Queued(r) /\ ~IsLate(r)
    BY <1>2, <2>1 DEF IInv, SenderSound
  <2>3. InPool(r) /\ ~InPool(r)'
    BY <1>1, <1>2, <2>1 DEF InPool
  <2>4. \A q : q # r => (InPool(q)' <=> InPool(q))
    BY <1>1, <1>2 DEF InPool
  <2>5. \A q : IsLate(q)' <=> IsLate(q)
    BY <1>1 DEF IsLate
  <2> QED BY <1>2, <1>4, <2>2, <2>3, <2>4, <2>5 DEF Out
<1>6. /\ Cardinality(Out) \in Nat /\ Cardinality(Out') = Cardinality(Out) - 1
      /\ Cardinality(Out \ Followed) \in Nat /\ Cardinality(Out' \ Followed') \in Nat
      /\ Cardinality(Out' \ Followed') <= Cardinality(Out \ Followed)
  <2>1. Out \subseteq Entries /\ Out' \ Followed' \subseteq Out \ Followed
    BY <1>4, <1>5, OutInEntries
  <2>2. Out \ Followed \subseteq Entries
    BY <2>1
  <2>3. /\ Cardinality(Out \ Followed) \in Nat /\ Cardinality(Out' \ Followed') \in Nat
        /\ Cardinality(Out' \ Followed') <= Cardinality(Out \ Followed)
    BY <2>1, <2>2, EntryCounts
  <2>4. Cardinality(Out) \in Nat /\ Cardinality(Out') = Cardinality(Out) - 1
    BY <1>2, <1>5, <2>1, EntryCounted
  <2> QED BY <2>3, <2>4
<1>7. cuts \in Nat /\ Reach \in Int
  BY RatedTypes DEF RatedInv, Reach
<1>8. Cardinality(Out' \ Followed') <= cuts'
  BY <1>1, <1>6, <1>7 DEF RatedInv
<1>9. Len(entries') + Cardinality(Out') <= Reach' + cuts'
  BY <1>1, <1>3, <1>4, <1>6, <1>7 DEF RatedInv
<1>10. ASSUME cuts = 0 PROVE InOrder'
  <2>1. Out \ Followed = {}
    <3>1. Cardinality(Out \ Followed) = 0
      BY <1>6, <1>10 DEF RatedInv
    <3>2. IsFiniteSet(Out \ Followed)
      BY OutInEntries, EntriesFinite, FS_Subset
    <3> QED BY <3>1, <3>2, FS_EmptySet
  <2>2. r \in Followed /\ InOrder
    BY <1>5, <1>10, <2>1 DEF RatedInv
  <2>3. Len(entries) = s - 1 /\ s \in Nat
    BY <1>5, <2>2, RatedTypes DEF InOrder, r
  <2>4. \A i \in DOMAIN entries' : entries'[i] = i
    BY <1>3, <2>2, <2>3, RatedTypes DEF InOrder
  <2>5. Out' \cap Followed' = {}
    <3>1. ASSUME NEW q \in Followed PROVE q = r
      BY <2>2, <3>1 DEF Followed, RatedInv
    <3> QED BY <1>4, <1>5, <3>1
  <2>6. step # "writing"
    BY <2>2 DEF Followed, RatedInv
  <2>7. step = "sent" => s = current
    BY <2>2, EntryFacts DEF Followed, RatedInv, Written, r
  <2> QED BY <1>1, <1>3, <1>4, <2>3, <2>4, <2>5, <2>6, <2>7 DEF InOrder
<1> QED BY <1>1, <1>4, <1>8, <1>9, <1>10 DEF RatedInv

\* The process stops: what it waited for is lost sight of.
LEMMA RestartRated ==
  ASSUME IInv, IInv', RatedInv, SenderRestarts, FeedbackRestarts
  PROVE  RatedInv'
<1>1. /\ queue' = <<>> /\ UNCHANGED <<txs, receipts, reply, settlements, entries, writes>>
      /\ inFlight' = Nothing /\ step' = "idle"
  BY DEF SenderRestarts, FeedbackRestarts, ledgerVars
<1> DEFINE gone == {r \in Requests :
                      /\ \E s \in 1 .. MaxPaid, n \in 1 .. MaxWrites : r = Entry(s, n)
                      /\ r = inFlight \/ (step = "sent" /\ r = Written)
                      /\ \/ \E n \in DOMAIN txs : txs[n] = r /\ n > Len(receipts)
                         \/ \E send \in late' : send.request = r}
<1>2. cuts' = cuts + Cardinality(gone)
  BY DEF FeedbackRestarts
<1>3. gone \subseteq Entries
  BY EntryFacts
<1>4. \A r : ~Queued(r)'
  BY <1>1 DEF Queued
<1>5. Out' \subseteq Out
  <2>1. ASSUME NEW r \in Requests, IsLate(r)'
        PROVE  Queued(r) \/ IsLate(r)
    <3>1. CASE late' = late
      BY <2>1, <3>1 DEF IsLate
    <3>2. CASE queue # <<>> /\ late' = late \cup {[request |-> Head(queue), nonce |-> next]}
      BY <2>1, <3>2, JoinsLate, HeadOfQueue DEF IInv
    <3> QED BY <3>1, <3>2 DEF SenderRestarts
  <2>2. \A r : InPool(r)' => InPool(r)
    BY <1>1 DEF InPool
  <2> QED BY <1>4, <2>1, <2>2, EntryFacts DEF Out
<1>6. Out' \subseteq (Out \ Followed) \cup gone
  <2> SUFFICES ASSUME NEW r \in Out', r \in Followed PROVE r \in gone
    BY <1>5
  <2>1. r \in Entries /\ (IsLate(r)' \/ InPool(r)')
    BY <1>4 DEF Out
  <2>2. (\E send \in late' : send.request = r) \/ \E n \in DOMAIN txs : txs[n] = r /\ n > Len(receipts)
    BY <1>1, <2>1 DEF IsLate, InPool
  <2>3. r = inFlight \/ (step = "sent" /\ r = Written)
    BY DEF Followed
  <2> QED BY <2>1, <2>2, <2>3, EntryFacts
<1> HIDE DEF gone
<1>7. /\ Cardinality(Out') \in Nat /\ Cardinality(Out) \in Nat
      /\ Cardinality(Out') <= Cardinality(Out)
  BY <1>5, OutInEntries, EntryCounts
<1>8. Cardinality(gone) \in Nat /\ cuts \in Nat
      /\ Cardinality(Out') <= Cardinality(Out \ Followed) + Cardinality(gone)
      /\ Cardinality(Out \ Followed) \in Nat
  <2>1. Out \ Followed \subseteq Entries /\ (Out \ Followed) \cup gone \subseteq Entries
    BY <1>3, OutInEntries
  <2>2. IsFiniteSet(Out \ Followed) /\ IsFiniteSet(gone) /\ IsFiniteSet((Out \ Followed) \cap gone)
    BY <1>3, <2>1, EntriesFinite, FS_Subset, FS_Intersection
  <2>3. /\ Cardinality(Out \ Followed) \in Nat /\ Cardinality(gone) \in Nat
        /\ Cardinality((Out \ Followed) \cap gone) \in Nat
    BY <2>2, FS_CardinalityType
  <2>4. Cardinality((Out \ Followed) \cup gone) =
          Cardinality(Out \ Followed) + Cardinality(gone) - Cardinality((Out \ Followed) \cap gone)
    BY <2>2, FS_Union
  <2>5. Cardinality(Out') <= Cardinality((Out \ Followed) \cup gone)
    BY <1>6, <2>1, EntryCounts
  <2>6. cuts \in Nat
    BY DEF RatedInv
  <2>7. Cardinality((Out \ Followed) \cup gone) \in Nat
    BY <2>1, EntryCounts
  <2> QED BY <1>7, <2>3, <2>4, <2>5, <2>6, <2>7
<1>9. Followed' = {}
  BY <1>1 DEF Followed
<1>10. Cardinality(Out' \ Followed') <= cuts'
  <2>1. Out' \ Followed' = Out'
    BY <1>9
  <2>2. Cardinality(Out' \ Followed') = Cardinality(Out')
    BY <2>1
  <2>3. Cardinality(Out \ Followed) <= cuts
    BY DEF RatedInv
  <2> QED BY <1>2, <1>7, <1>8, <2>2, <2>3
<1>11. Len(entries') + Cardinality(Out') <= Reach' + cuts'
  <2>1. /\ Reach' = settlements /\ Reach <= settlements /\ Reach \in Int
        /\ Len(entries) \in Nat /\ settlements \in Nat
    BY <1>1, RatedTypes DEF Reach
  <2> QED BY <1>1, <1>2, <1>7, <1>8, <2>1 DEF RatedInv
<1>12. cuts' = 0 => InOrder'
  <2>1. cuts' = 0 => cuts = 0
    BY <1>2, <1>8
  <2> QED BY <1>1, <1>9, <2>1 DEF RatedInv, InOrder
<1>13. cuts' \in Nat
  BY <1>2, <1>8
<1> QED BY <1>1, <1>4, <1>10, <1>11, <1>12, <1>13 DEF RatedInv

\* A step of neither the sender nor the writer.
LEMMA ElsewhereRated ==
  ASSUME IInv, RatedInv, UNCHANGED <<senderVars, feedbackVars>>
  PROVE  RatedInv'
<1>1. UNCHANGED <<txs, receipts, late, queue, reply>> /\ UNCHANGED feedbackVars
  BY DEF senderVars, nodeVars, queueVars
<1>2. /\ Out' \subseteq Out
      /\ \A r \in Entries : (Queued(r)' => Queued(r)) /\ (Mined(r)' => Mined(r))
  BY <1>1 DEF Out, Queued, IsLate, InPool, Mined
<1> QED BY <1>1, <1>2, RatedFrame

\* A transaction is mined: an entry, or nothing to the writer.
LEMMA MineRated ==
  ASSUME IInv, IInv', RatedInv, MineStep
  PROVE  RatedInv'
<1>1. Len(receipts) < Len(txs)
  BY DEF MineStep
<1>2. ASSUME NEW status \in BOOLEAN, MineNext(status), NextMined \notin Entries,
             UNCHANGED feedbackVars
      PROVE  RatedInv'
  BY <1>2, MiningNears, RatedFrame
<1>3. CASE NextMined = Elsewhere /\ MineNext(TRUE) /\ UNCHANGED feedbackVars
  <2>1. NextMined \notin Entries
    BY <1>3, EntryFacts, SenderAssumption
  <2> QED BY <1>2, <1>3, <2>1
<1>4. ASSUME NEW c \in Calls, NextMined = c, DeliveryMined(c), UNCHANGED feedbackVars
      PROVE  RatedInv'
  <2>1. MineNext(Recorded(c)) /\ Recorded(c) \in BOOLEAN
    BY <1>4 DEF DeliveryMined, Recorded, Accepts
  <2>2. NextMined \notin Entries
    BY <1>4, EntryFacts, RequestsDiffer
  <2> QED BY <1>2, <1>4, <2>1, <2>2
<1>5. ASSUME NEW k \in Posts, NextMined = Post(k), SettlementMined, UNCHANGED feedbackVars
      PROVE  RatedInv'
  <2>1. MineNext(Settles) /\ Settles \in BOOLEAN
    BY <1>5 DEF SettlementMined, Settles
  <2>2. NextMined \notin Entries
    BY <1>5, EntryFacts, RequestsDiffer
  <2> QED BY <1>2, <1>5, <2>1, <2>2
<1>6. ASSUME NEW s \in 1 .. MaxPaid, NEW n \in 1 .. MaxWrites, NextMined = Entry(s, n), EntryMined(s)
      PROVE  RatedInv'
  BY <1>1, <1>6, EntryMinedRated
<1> QED BY <1>3, <1>4, <1>5, <1>6, Zenon DEF MineStep

LEMMA RatedStep ==
  ASSUME IInv, RatedInv, [GatewayNext]_gatewayVars
  PROVE  RatedInv'
<1>1. IInv'
  BY InvNext
<1>2. ASSUME SenderStep \/ Arrives \/ Outside, UNCHANGED feedbackVars
      PROVE  RatedInv'
  BY <1>2, SendingNears, RatedFrame
<1>3. ASSUME NEW r \in Requests \ Entries, Submit(r), Submission, UNCHANGED feedbackVars
      PROVE  RatedInv'
  BY <1>3, OthersNear, RatedFrame
<1>4. CASE UNCHANGED gatewayVars
  BY <1>4, ElsewhereRated DEF gatewayVars
<1>5. ASSUME NEW c \in Calls, MeteringStep(c)
      PROVE  RatedInv'
  <2>1. UNCHANGED feedbackVars /\ (UNCHANGED senderVars \/ (Send(c) /\ Submission))
    BY <1>5 DEF MeteringStep, Local
  <2>2. CASE Send(c) /\ Submission
    <3>1. c \in Requests \ Entries
      BY EntryFacts, RequestsDiffer
    <3> QED BY <1>3, <2>1, <2>2, <3>1 DEF Send
  <2> QED BY <2>1, <2>2, ElsewhereRated
<1>6. CASE RelayStep
  <2>1. UNCHANGED feedbackVars /\ (UNCHANGED senderVars \/ (Relays /\ Submission))
    BY <1>6 DEF RelayStep, Local
  <2>2. CASE Relays /\ Submission
    <3>1. post \in Posts
      BY <2>2 DEF Relays, IInv, PostsSound
    <3>2. Post(post) \in Requests \ Entries
      BY <3>1, EntryFacts, RequestsDiffer
    <3> QED BY <1>3, <2>1, <2>2, <3>2 DEF Relays
  <2> QED BY <2>1, <2>2, ElsewhereRated
<1>7. CASE FeedbackStep
  BY <1>1, <1>7, WriterStepsRated, SubmitRated DEF FeedbackStep, Local
<1>8. CASE SendingStep \/ NodeStep
  BY <1>2, <1>8 DEF SendingStep, NodeStep
<1>9. CASE MineStep
  BY <1>1, <1>9, MineRated
<1>10. CASE CallerStep \/ DelegationStep
  <2>1. UNCHANGED senderVars /\ (UNCHANGED feedbackVars \/ Settled \/ Indexed \/ TakesIdentity)
    BY <1>10 DEF CallerStep, DelegationStep
  <2> QED BY <2>1, ElsewhereRated, LedgerRated
<1>11. CASE ReadFails
  BY <1>1, <1>11, ReadFailsRated DEF ReadFails
<1>12. CASE Restart
  BY <1>1, <1>12, RestartRated DEF Restart
<1> QED
  BY <1>4, <1>5, <1>6, <1>7, <1>8, <1>9, <1>10, <1>11, <1>12 DEF GatewayNext

LEMMA RatedInit == GatewayInit => RatedInv
<1> SUFFICES ASSUME GatewayInit PROVE RatedInv
  OBVIOUS
<1>1. /\ txs = <<>> /\ late = {} /\ queue = <<>>
      /\ entries = <<>> /\ inFlight = Nothing /\ step = "idle" /\ cuts = 0 /\ settlements = 0
  BY DEF GatewayInit, SenderInit, FeedbackInit
<1>2. \A r : ~Queued(r) /\ ~IsLate(r) /\ ~InPool(r)
  BY <1>1 DEF Queued, IsLate, InPool
<1>3. Out = {} /\ Out \ Followed = {}
  BY <1>2 DEF Out
<1>4. Cardinality(Out) = 0 /\ Cardinality(Out \ Followed) = 0
  BY <1>3, FS_EmptySet
<1>5. Reach = 0 /\ Len(entries) = 0
  BY <1>1 DEF Reach
<1>6. InOrder
  BY <1>1, <1>3 DEF InOrder
<1> QED BY <1>1, <1>2, <1>4, <1>5, <1>6 DEF RatedInv

\* The feedback writer of reputation.ts: while no write is lost sight of, the
\* entries follow the settlements in their order, and there are never more of them
\* than settlements but for as many as were lost sight of.
THEOREM EntriesAreInOrder == GatewaySpec => []RatedInOrder
<1>1. GatewayInit => IInv /\ RatedInv
  BY InvInit, RatedInit
<1>2. IInv /\ RatedInv /\ [GatewayNext]_gatewayVars => IInv' /\ RatedInv'
  BY InvNext, RatedStep
<1>3. IInv /\ RatedInv => RatedInOrder
  <2> SUFFICES ASSUME IInv, RatedInv PROVE RatedInOrder
    OBVIOUS
  <2>1. /\ Cardinality(Out) \in Nat /\ Len(entries) \in Nat /\ cuts \in Nat
        /\ settlements \in Nat /\ Reach \in Int /\ Reach <= settlements
    BY OutInEntries, EntryCounts, RatedTypes DEF RatedInv, Reach
  <2>2. Len(entries) <= settlements + cuts
    BY <2>1 DEF RatedInv
  <2> QED BY <2>2 DEF RatedInv, InOrder, RatedInOrder
<1> QED BY <1>1, <1>2, <1>3, PTL DEF GatewaySpec
=============================================================================
