------------------------------ MODULE Feedback ------------------------------
(***************************************************************************)
(* The feedback writer of apps/gateway/src/reputation.ts: one entry on     *)
(* chain for each settlement an Agent made, in their order.  How far it is *)
(* is not stored: a tick counts the entries on chain and goes on from      *)
(* there, and remembers in memory only the one it has yet to see mined.    *)
(*                                                                         *)
(* One Agent with one address.  Settlements are numbered as the chain      *)
(* orders them.                                                            *)
(***************************************************************************)
EXTENDS SerialSender

CONSTANTS
  MaxPaid,        \* bound on the settlements
  MaxWrites,      \* bound on the sends
  RecheckTicks    \* recheckEveryTicks

\* The request to write about a settlement, and which send it is.
Entry(s, n) == <<"entry", s, n>>

ASSUME FeedbackAssumption ==
  /\ MaxPaid \in Nat /\ MaxWrites \in Nat /\ RecheckTicks \in Nat \ {0}
  /\ \A s \in 1 .. MaxPaid, n \in 1 .. MaxWrites : Entry(s, n) \in Requests

VARIABLES
  settlements,  \* the settlements so far
  indexed,      \* how many of them the registry lists
  identity,     \* whether the Agent holds an identity to write about
  entries,      \* the settlements written about, as the chain has them
  known,        \* the settlements the writer has read
  dirty,        \* whether the Agent is due
  ticks,        \* the ticks since the last recheck
  inFlight,     \* the write it waits for, or Nothing
  step,         \* where the tick is
  current,      \* the settlement it is at
  writes,       \* the sends so far
  cuts          \* how often it lost sight of a write that may be mined

ledgerVars == <<settlements, indexed, identity, entries>>
writerVars == <<known, dirty, ticks, inFlight, step, current, writes, cuts>>
feedbackVars == <<ledgerVars, writerVars>>

FeedbackInit ==
  /\ settlements = 0 /\ indexed = 0 /\ entries = <<>>
  /\ identity \in BOOLEAN
  /\ known = 0 /\ dirty = FALSE /\ ticks = 0 /\ inFlight = Nothing
  /\ step = "idle" /\ current = 0 /\ writes = 0 /\ cuts = 0

-----------------------------------------------------------------------------
(* The chain and the registry.                                             *)

Settled ==
  /\ settlements < MaxPaid
  /\ settlements' = settlements + 1
  /\ UNCHANGED <<indexed, identity, entries, writerVars>>

Indexed ==
  /\ indexed < settlements
  /\ indexed' = indexed + 1
  /\ UNCHANGED <<settlements, identity, entries, writerVars>>

TakesIdentity ==
  /\ ~identity
  /\ identity' = TRUE
  /\ UNCHANGED <<settlements, indexed, entries, writerVars>>

EntryMined(s) ==
  /\ MineNext(TRUE)
  /\ entries' = Append(entries, s)
  /\ UNCHANGED <<settlements, indexed, identity, writerVars>>

-----------------------------------------------------------------------------
(* tick.                                                                   *)

\* Every so many ticks whatever is known is due again.
FeedbackTick ==
  /\ step = "idle"
  /\ ticks' = (ticks + 1) % RecheckTicks
  /\ known' = indexed
  /\ dirty' = (dirty \/ indexed > known \/ (ticks' = 0 /\ indexed > 0))
  /\ step' = IF dirty' THEN "resolving" ELSE "idle"
  /\ UNCHANGED <<ledgerVars, inFlight, current, writes, cuts>>

\* The tick is over; what is to be retried stays due.
TickEnds(retry) == step' = "idle" /\ dirty' = retry /\ current' = 0

\* No identity, nobody to write about: due again at the recheck.
NoIdentity ==
  /\ step = "resolving" /\ ~identity
  /\ TickEnds(FALSE)
  /\ UNCHANGED <<ledgerVars, known, ticks, inFlight, writes, cuts>>

\* Mutant: a write in flight is not looked for again.
StillInFlightForGood == inFlight # Nothing

StillInFlight == inFlight # Nothing /\ ~Mined(inFlight)

\* An earlier write is not mined yet.
WriteInFlight ==
  /\ step = "resolving" /\ identity /\ StillInFlight
  /\ TickEnds(TRUE)
  /\ UNCHANGED <<ledgerVars, known, ticks, inFlight, writes, cuts>>

\* The entries on chain are counted: the count is how far the writer is.
\* With more of them than settlements are known, nothing is written.
CountEntries ==
  /\ step = "resolving" /\ identity /\ ~StillInFlight
  /\ inFlight' = Nothing
  /\ IF Len(entries) < known
       THEN step' = "writing" /\ current' = Len(entries) + 1 /\ UNCHANGED dirty
       ELSE TickEnds(FALSE)
  /\ UNCHANGED <<ledgerVars, known, ticks, writes, cuts>>

\* A read of the tick fails: retried.  A write the chain refuses when it is
\* simulated waits for the recheck.
FeedbackReadFails ==
  /\ step \in {"resolving", "writing"} /\ lost < MaxLost
  /\ lost' = lost + 1
  /\ TickEnds(TRUE) \/ (step = "writing" /\ TickEnds(FALSE))
  /\ UNCHANGED <<txs, receipts, late, queueVars>>
  /\ UNCHANGED <<ledgerVars, known, ticks, inFlight, writes, cuts>>

SubmitEntry ==
  /\ step = "writing" /\ writes < MaxWrites
  /\ writes' = writes + 1
  /\ Submit(Entry(current, writes'))
  /\ step' = "sent"
  /\ UNCHANGED <<ledgerVars, known, dirty, ticks, inFlight, current, cuts>>

\* What the writer waits for in this tick.
Written == Entry(current, writes)

\* Whether a request is with the node although its sender was told it failed.
Astray(r) ==
  \/ \E n \in DOMAIN txs : txs[n] = r /\ n > Len(receipts)
  \/ \E send \in late : send.request = r

NotWritten ==
  /\ step = "sent" /\ reply[Written] = Failed
  /\ TickEnds(TRUE)
  /\ cuts' = IF Astray(Written) THEN cuts + 1 ELSE cuts
  /\ UNCHANGED <<ledgerVars, known, ticks, inFlight, writes>>

WrittenMined ==
  /\ step = "sent" /\ Mined(Written)
  /\ inFlight' = Nothing
  /\ IF current < known
       THEN step' = "writing" /\ current' = current + 1 /\ UNCHANGED dirty
       ELSE TickEnds(FALSE)
  /\ UNCHANGED <<ledgerVars, known, ticks, writes, cuts>>

\* Mutant: a write without a receipt is not remembered.
WrittenUnconfirmedForgetting ==
  /\ step = "sent" /\ reply[Written] \in Nat
  /\ TickEnds(TRUE)
  /\ UNCHANGED <<ledgerVars, known, ticks, inFlight, writes, cuts>>

\* No receipt in time: the write stays in flight for the ticks to come.
WrittenUnconfirmed ==
  /\ step = "sent" /\ reply[Written] \in Nat
  /\ inFlight' = Written
  /\ TickEnds(TRUE)
  /\ UNCHANGED <<ledgerVars, known, ticks, writes, cuts>>

TickGoesOn ==
  \/ FeedbackTick \/ NoIdentity \/ WriteInFlight \/ CountEntries \/ SubmitEntry
  \/ NotWritten \/ WrittenMined \/ WrittenUnconfirmed

\* What is known and in flight is in memory, and a restart finds the count
\* as it is.
FeedbackRestarts ==
  /\ known' = 0 /\ dirty' = FALSE /\ ticks' = 0 /\ inFlight' = Nothing
  /\ step' = "idle" /\ current' = 0
  /\ cuts' = cuts + Cardinality({r \in Requests :
                       /\ \E s \in 1 .. MaxPaid, n \in 1 .. MaxWrites : r = Entry(s, n)
                       /\ r = inFlight \/ (step = "sent" /\ r = Written)
                       /\ \/ \E n \in DOMAIN txs : txs[n] = r /\ n > Len(receipts)
                          \/ \E send \in late' : send.request = r})
  /\ UNCHANGED <<ledgerVars, writes>>

-----------------------------------------------------------------------------
\* While no write is lost sight of, the entries are about the settlements in
\* their order, none twice and none left out; and every entry too many goes
\* back to one that was.
RatedInOrder ==
  /\ cuts = 0 => \A i \in DOMAIN entries : entries[i] = i
  /\ Len(entries) <= settlements + cuts
=============================================================================
