---------------------------- MODULE SerialSender ----------------------------
(***************************************************************************)
(* apps/gateway/src/sender.ts: one queue for every transaction the         *)
(* operator key sends.  The sender counts nonces itself, forgets the count *)
(* when a send fails, and repeats a send once when the refusal names the   *)
(* nonce.                                                                  *)
(*                                                                         *)
(* Under it are the node and the chain as the sender meets them: what the  *)
(* node took for each nonce, how much of that is mined, and the sends      *)
(* whose answer was given up.  A transaction the node has taken is not     *)
(* dropped or replaced, which takes another fee than the gateway states;   *)
(* an answer that does not come says nothing about a nonce.                *)
(***************************************************************************)
EXTENDS Integers, Sequences, FiniteSets

CONSTANTS
  Requests,    \* what the callers ask to have sent
  Nothing,     \* no nonce counted, no reply
  Failed,      \* the reply to a send that threw
  MaxOutside,  \* bound on the transactions sent with the key from elsewhere
  MaxLost      \* bound on the calls to the node that fail

\* A transaction sent with the key by something else.
Elsewhere == <<"elsewhere">>

ASSUME SenderAssumption ==
  /\ MaxOutside \in Nat /\ MaxLost \in Nat
  /\ Nothing \notin Nat /\ Failed \notin Nat /\ Nothing # Failed
  /\ Elsewhere \notin Requests /\ Nothing \notin Requests

VARIABLES
  txs,       \* the transactions the node took, by nonce
  receipts,  \* the status of those that are mined
  late,      \* sends that were given up and may still reach the node
  lost,      \* how many calls to the node failed
  next,      \* the nonce the sender counts, or Nothing
  queue,     \* the requests it has yet to answer; the first is being served
  again,     \* whether the first is being sent a second time
  reply      \* its answer to each request: a nonce, Failed, or Nothing yet

nodeVars == <<txs, receipts, late, lost>>
queueVars == <<next, queue, again, reply>>
senderVars == <<nodeVars, queueVars>>

SenderInit ==
  /\ txs = <<>> /\ receipts = <<>> /\ late = {} /\ lost = 0
  /\ next = Nothing /\ queue = <<>> /\ again = FALSE
  /\ reply = [r \in Requests |-> Nothing]

Pending == Len(txs) + 1

\* Whether the transaction a request was answered with is mined, and how.
Mined(r) == reply[r] \in 1 .. Len(receipts)

-----------------------------------------------------------------------------
(* sendTransaction, sendOnce and send.                                     *)

Submit(r) == queue' = Append(queue, r)

\* getNonce("pending").
ReadNonce ==
  /\ queue # <<>> /\ next = Nothing
  /\ next' = Pending
  /\ UNCHANGED <<nodeVars, queue, again, reply>>

\* The first of the queue is answered, and the next one has its turn
\* whatever the answer is.
Finish(answer) ==
  /\ queue' = Tail(queue)
  /\ again' = FALSE
  /\ reply' = [reply EXCEPT ![Head(queue)] = answer]

Accepted ==
  /\ queue # <<>> /\ next = Pending
  /\ txs' = Append(txs, Head(queue))
  /\ next' = next + 1
  /\ Finish(next)
  /\ UNCHANGED <<receipts, late, lost>>

\* The nonce is taken: a fresh read and one more send, or the end of it.
Refused ==
  /\ queue # <<>> /\ next # Nothing /\ next < Pending
  /\ next' = Nothing
  /\ IF again THEN Finish(Failed) ELSE again' = TRUE /\ UNCHANGED <<queue, reply>>
  /\ UNCHANGED nodeVars

\* Mutant: whatever the failure, the request is sent once more.
ForgottenRepeating ==
  /\ next' = Nothing
  /\ IF again THEN Finish(Failed) ELSE again' = TRUE /\ UNCHANGED <<queue, reply>>

\* Any other failure forgets the count and is the answer.
Forgotten ==
  /\ next' = Nothing
  /\ Finish(Failed)

\* The read of the nonce or the send fails, and the node took nothing.
SendFails ==
  /\ queue # <<>> /\ lost < MaxLost
  /\ lost' = lost + 1
  /\ Forgotten
  /\ UNCHANGED <<txs, receipts, late>>

\* The node took it and the answer is lost.
AnswerLost ==
  /\ queue # <<>> /\ next = Pending /\ lost < MaxLost
  /\ lost' = lost + 1
  /\ txs' = Append(txs, Head(queue))
  /\ Forgotten
  /\ UNCHANGED <<receipts, late>>

\* No answer came in time and the send is still on its way.
SendDelayed ==
  /\ queue # <<>> /\ next # Nothing /\ lost < MaxLost
  /\ lost' = lost + 1
  /\ late' = late \cup {[request |-> Head(queue), nonce |-> next]}
  /\ Forgotten
  /\ UNCHANGED <<txs, receipts>>

SenderStep == ReadNonce \/ Accepted \/ Refused \/ SendFails \/ AnswerLost \/ SendDelayed

-----------------------------------------------------------------------------
(* The node and the chain.                                                 *)

\* A send arrives after all: the node takes it if its nonce is still free.
Arrives ==
  /\ \E send \in late :
       /\ late' = late \ {send}
       /\ txs' = IF send.nonce = Pending THEN Append(txs, send.request) ELSE txs
  /\ UNCHANGED <<receipts, lost, queueVars>>

\* A person running a script with the key.
Outside ==
  /\ Cardinality({n \in DOMAIN txs : txs[n] = Elsewhere}) < MaxOutside
  /\ txs' = Append(txs, Elsewhere)
  /\ UNCHANGED <<receipts, late, lost, queueVars>>

\* The next transaction is mined with a status.
MineNext(status) ==
  /\ Len(receipts) < Len(txs)
  /\ receipts' = Append(receipts, status)
  /\ UNCHANGED <<txs, late, lost, queueVars>>

NextMined == txs[Len(receipts) + 1]

\* The process stops: the queue and the count are gone, and the send that
\* was out may or may not arrive.
SenderRestarts ==
  /\ next' = Nothing /\ queue' = <<>> /\ again' = FALSE
  /\ late' \in {late} \cup
       (IF queue = <<>> \/ next = Nothing THEN {}
        ELSE {late \cup {[request |-> Head(queue), nonce |-> next]}})
  /\ UNCHANGED <<txs, receipts, lost, reply>>

-----------------------------------------------------------------------------
\* However sends fail, get lost, come late or are repeated beside a script
\* with the same key, no request becomes two transactions, one answered with a
\* nonce is the transaction at that nonce, and the nonce that is counted leaves
\* no gap the chain would wait at.
OneTransactionEach ==
  /\ \A m, n \in DOMAIN txs : m # n /\ txs[m] = txs[n] => txs[m] = Elsewhere
  /\ \A r \in Requests : reply[r] \notin {Nothing, Failed} =>
       reply[r] \in DOMAIN txs /\ txs[reply[r]] = r
  /\ next # Nothing => next <= Pending
=============================================================================
