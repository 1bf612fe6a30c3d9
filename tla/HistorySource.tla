--------------------------- MODULE HistorySource ---------------------------
(***************************************************************************)
(* apps/gateway/src/history.ts and buildWitness of witness.ts: how the     *)
(* gateway comes by the history it proves a Credit Limit with.  What it    *)
(* has read of the one history modelled is held between calls; a call that *)
(* finds the history longer catches up from the registry or the chain, and *)
(* what comes out is compared with the commitment on chain before use.     *)
(*                                                                         *)
(* Calls run concurrently: each await is the end of a step.  A record is   *)
(* its position in the history, a history a sequence of positions, so the  *)
(* history folds to the commitment when it is 1, 2, ..., n for the n on    *)
(* chain.  A read of the chain sees it as it is at that step.              *)
(***************************************************************************)
EXTENDS Integers, Sequences, FiniteSets, Functions

CONSTANTS
  Calls,             \* the calls that build a witness at the same time
  MaxCatchUpBlocks,  \* MAX_CATCH_UP_BLOCKS
  MaxHistory,        \* MAX_HISTORY
  MaxHead,           \* bound on the blocks
  MaxRecords,        \* bound on the records
  Nothing            \* undefined

ASSUME HistoryAssumption ==
  {MaxCatchUpBlocks, MaxHistory, MaxHead, MaxRecords} \subseteq Nat

VARIABLES
  head,        \* the last block
  recordedIn,  \* the block each record of the history was appended in
  hasRegistry, \* whether registryUrl is set
  indexedTo,   \* the block the registry has indexed to
  held,        \* held.get(key): [records, completeTo]
  pc,          \* where each call is
  count,       \* onChain.value.count, as each call read it
  have,        \* held, as each call read it
  to,          \* the head, as each call read it
  asked,       \* what the registry read first for each call
  base,        \* what each call starts from
  answer,      \* the records historyRecords returned to each call
  quiet        \* no record was appended since the call began

chainVars == <<head, recordedIn>>
callVars == <<pc, count, have, to, asked, base, answer>>
historyVars == <<chainVars, hasRegistry, indexedTo, held, callVars, quiet>>

\* The positions in I, in the order of the history.
Ordered(I) ==
  CHOOSE s \in Bijection(1 .. Cardinality(I), I) :
    \A i, j \in DOMAIN s : i < j => s[i] < s[j]

\* The records appended in the blocks from one to another.
RecordsIn(from, upTo) ==
  Ordered({k \in DOMAIN recordedIn : recordedIn[k] \in from .. upTo})

HistoryInit ==
  /\ head = 0 /\ recordedIn = <<>>
  /\ hasRegistry \in BOOLEAN /\ indexedTo = 0
  /\ held = Nothing
  /\ pc = [c \in Calls |-> "idle"]
  /\ count = [c \in Calls |-> 0]
  /\ have = [c \in Calls |-> Nothing]
  /\ to = [c \in Calls |-> 0]
  /\ asked = [c \in Calls |-> 0]
  /\ base = [c \in Calls |-> Nothing]
  /\ answer = [c \in Calls |-> <<>>]
  /\ quiet = [c \in Calls |-> TRUE]

-----------------------------------------------------------------------------
(* historyRecords.                                                         *)

ReadCount(c) ==
  /\ pc[c] = "idle"
  /\ count' = [count EXCEPT ![c] = Len(recordedIn)]
  /\ pc' = [pc EXCEPT ![c] = "counted"]
  /\ UNCHANGED <<chainVars, indexedTo, held, have, to, asked, base, answer, quiet>>

Answer(c, records) ==
  /\ answer' = [answer EXCEPT ![c] = records]
  /\ pc' = [pc EXCEPT ![c] = "verify"]

\* No records, or as many as are held: no more reads.
AnswerFromHeld(c) ==
  /\ pc[c] = "counted"
  /\ \/ count[c] = 0 /\ Answer(c, <<>>)
     \/ /\ count[c] # 0 /\ held # Nothing
        /\ Len(held.records) = count[c]
        /\ Answer(c, held.records)
  /\ UNCHANGED <<chainVars, indexedTo, held, count, have, to, asked, base, quiet>>

MustCatchUp(c) ==
  /\ pc[c] = "counted"
  /\ count[c] # 0
  /\ held # Nothing => Len(held.records) # count[c]
  /\ have' = [have EXCEPT ![c] = held]
  /\ pc' = [pc EXCEPT ![c] = "head"]
  /\ UNCHANGED <<chainVars, indexedTo, held, count, to, asked, base, answer, quiet>>

AsksRegistry(c) ==
  hasRegistry /\ (have[c] = Nothing \/ head - have[c].completeTo > MaxCatchUpBlocks)

ReadHead(c) ==
  /\ pc[c] = "head"
  /\ to' = [to EXCEPT ![c] = head]
  /\ base' = [base EXCEPT ![c] = have[c]]
  /\ pc' = [pc EXCEPT ![c] = IF AsksRegistry(c) THEN "registry" ELSE "base"]
  /\ UNCHANGED <<chainVars, indexedTo, held, count, have, asked, answer, quiet>>

\* The registry reads its rows and its horizon side by side, one before the
\* other (apps/registry/src/routes/agents.ts).
RegistryReads(c) ==
  /\ pc[c] = "registry"
  /\ asked' = [asked EXCEPT ![c] = indexedTo]
  /\ pc' = [pc EXCEPT ![c] = "horizon"]
  /\ UNCHANGED <<chainVars, indexedTo, held, count, have, to, base, answer, quiet>>

\* The registry's copy is taken when it is the newer of the two; no answer, or a
\* malformed one, leaves the base as it is.
RegistryAnswers(c) ==
  /\ pc[c] = "horizon"
  /\ \/ \E rowsTo, horizon \in {asked[c], indexedTo} :
          /\ have[c] # Nothing => horizon > have[c].completeTo
          /\ base' = [base EXCEPT ![c] = [records |-> RecordsIn(0, rowsTo),
                                          completeTo |-> horizon]]
     \/ UNCHANGED base
  /\ pc' = [pc EXCEPT ![c] = "base"]
  /\ UNCHANGED <<chainVars, indexedTo, held, count, have, to, asked, answer, quiet>>

Later(i, j) == IF i > j THEN i ELSE j

BaseIsComplete(c) == base[c] # Nothing /\ Len(base[c].records) = count[c]

AnswerFromBase(c) ==
  /\ pc[c] = "base"
  /\ BaseIsComplete(c)
  /\ held' = [records |-> base[c].records, completeTo |-> Later(base[c].completeTo, to[c])]
  /\ Answer(c, base[c].records)
  /\ UNCHANGED <<chainVars, indexedTo, count, have, to, asked, base, quiet>>

\* Mutant: the block after the last one that was read is left out.
ScanFromSkipping(from) == IF from = Nothing THEN 0 ELSE from.completeTo + 2

ScanFrom(from) == IF from = Nothing THEN 0 ELSE from.completeTo + 1

\* Mutant: a record the base already has is added again.
NewRecordsAll(known, logs) == logs

NewRecords(known, logs) == Ordered(Range(logs) \ Range(known))

\* records.sort by position: one that is there twice stays there twice.
SortedByCount(s) ==
  LET from == CHOOSE p \in Bijection(DOMAIN s, DOMAIN s) :
                \A i, j \in DOMAIN s : i < j => s[p[i]] <= s[p[j]]
  IN  [i \in DOMAIN s |-> s[from[i]]]

\* scanSince
Scanned(from, upTo) ==
  LET known == IF from = Nothing THEN <<>> ELSE from.records
      logs == RecordsIn(ScanFrom(from), upTo)
  IN  [records |-> SortedByCount(known \o NewRecords(known, logs)),
       completeTo |-> IF from = Nothing THEN upTo ELSE Later(upTo, from.completeTo)]

AnswerFromScan(c) ==
  /\ pc[c] = "base"
  /\ ~BaseIsComplete(c)
  /\ held' = Scanned(base[c], to[c])
  /\ Answer(c, held'.records)
  /\ UNCHANGED <<chainVars, indexedTo, count, have, to, asked, base, quiet>>

\* A read that fails ends the call.
HistoryReadFails(c) ==
  /\ pc[c] \in {"idle", "head", "base", "verify"}
  /\ pc' = [pc EXCEPT ![c] = "failed"]
  /\ UNCHANGED <<chainVars, indexedTo, held, count, have, to, asked, base, answer, quiet>>

-----------------------------------------------------------------------------
(* buildWitness, the process around the calls, and the chain.              *)

Folds(records) ==
  /\ \A i \in DOMAIN records : records[i] = i
  /\ Len(records) <= MaxHistory
  /\ Len(records) = Len(recordedIn)

\* The commitment is read again and compared with what was returned.
Verify(c) ==
  /\ pc[c] = "verify"
  /\ pc' = [pc EXCEPT ![c] = IF Folds(answer[c]) THEN "accepted" ELSE "refused"]
  /\ UNCHANGED <<chainVars, indexedTo, held, count, have, to, asked, base, answer, quiet>>

\* The calls in D are over, and what they read is gone with them.
End(D) ==
  /\ pc' = [c \in Calls |-> IF c \in D THEN "idle" ELSE pc[c]]
  /\ count' = [c \in Calls |-> IF c \in D THEN 0 ELSE count[c]]
  /\ have' = [c \in Calls |-> IF c \in D THEN Nothing ELSE have[c]]
  /\ to' = [c \in Calls |-> IF c \in D THEN 0 ELSE to[c]]
  /\ asked' = [c \in Calls |-> IF c \in D THEN 0 ELSE asked[c]]
  /\ base' = [c \in Calls |-> IF c \in D THEN Nothing ELSE base[c]]
  /\ answer' = [c \in Calls |-> IF c \in D THEN <<>> ELSE answer[c]]
  /\ quiet' = [c \in Calls |-> c \in D \/ quiet[c]]

Finish(c) ==
  /\ pc[c] \in {"accepted", "refused", "failed"}
  /\ End({c})
  /\ UNCHANGED <<chainVars, indexedTo, held>>

\* The gateway starts again with nothing held.
Restart ==
  /\ held' = Nothing
  /\ End(Calls)
  /\ UNCHANGED <<chainVars, indexedTo>>

\* A block, with the records of its transactions.
Mine ==
  /\ head < MaxHead
  /\ head' = head + 1
  /\ \/ UNCHANGED <<recordedIn, quiet>>
     \/ /\ \E n \in Len(recordedIn) + 1 .. MaxRecords :
             recordedIn' = [k \in 1 .. n |->
                              IF k <= Len(recordedIn) THEN recordedIn[k] ELSE head + 1]
        /\ quiet' = [c \in Calls |-> pc[c] = "idle"]
  /\ UNCHANGED <<indexedTo, held, callVars>>

Index ==
  /\ hasRegistry
  /\ indexedTo < head
  /\ indexedTo' = indexedTo + 1
  /\ UNCHANGED <<chainVars, held, callVars, quiet>>

HistoryStep(c) ==
  \/ ReadCount(c) \/ AnswerFromHeld(c) \/ MustCatchUp(c) \/ ReadHead(c)
  \/ RegistryReads(c) \/ RegistryAnswers(c)
  \/ AnswerFromBase(c) \/ AnswerFromScan(c)
  \/ HistoryReadFails(c) \/ Verify(c) \/ Finish(c)

HistoryNext ==
  /\ (\E c \in Calls : HistoryStep(c)) \/ Restart \/ Mine \/ Index
  /\ UNCHANGED hasRegistry

HistorySpec == HistoryInit /\ [][HistoryNext]_historyVars

-----------------------------------------------------------------------------

\* "What this module keeps per Agent and Asset is the records it has seen and
\* the block it has seen them to" (history.ts:22-24): no record up to that block
\* is missing from what is held, for no later call would look for it there.
HeldIsComplete ==
  held # Nothing =>
    \A k \in DOMAIN recordedIn :
      recordedIn[k] <= held.completeTo => \E i \in DOMAIN held.records : held.records[i] = k

\* The same of a gateway that reads the chain alone.
ChainIsComplete == hasRegistry \/ HeldIsComplete

\* "The history never carries one twice" (history.ts:220-221), whatever the
\* registry's rows and horizon were, and whoever was catching up beside.
NoRecordTwice ==
  \A c \in Calls, i, j \in 1 .. MaxRecords :
    i < j /\ j <= Len(answer[c]) => answer[c][i] < answer[c][j]

\* A call during which no Settlement lands has its witness, when the chain alone
\* is read: what is held can be behind, but never in the way.  Only a history
\* longer than one that folds is refused for ever.
QuietIsAccepted ==
  \A c \in Calls :
    pc[c] = "refused" => hasRegistry \/ ~quiet[c] \/ Len(recordedIn) > MaxHistory
=============================================================================
