------------------------------ MODULE Indexer ------------------------------
(***************************************************************************)
(* apps/registry/src/indexer.ts over the sinks of sink.ts and              *)
(* postgres-sink.ts: ticks that read a range of blocks and rewrite the     *)
(* rows of the range, while the chain grows and reorganises under them.    *)
(*                                                                         *)
(* A tick is a step for each of its reads of the chain and one for its     *)
(* batch, which is one database transaction.  Only the indexer writes its  *)
(* tables, so what a tick reads of them stays as it is until its batch.    *)
(* Of a block the model keeps the branch it was mined on (number and       *)
(* branch stand for the hash) and whether it has a log that is indexed; of *)
(* the tables, the blocks that have rows.                                  *)
(***************************************************************************)
EXTENDS Integers, Sequences, FiniteSets

CONSTANTS
  Window,       \* reorgWindowBlocks
  Chunk,        \* logChunkBlocks
  FastChunk,    \* HYPERSYNC_CHUNK_BLOCKS, or 0 without an archive
  LiveWindow,   \* liveWindowBlocks
  MaxAnchors,   \* MAX_ANCHOR_CHECKS
  MaxHead,      \* bound on the blocks
  MaxReorgs,    \* bound on the reorganisations
  MaxFailures   \* bound on the ticks that fail

\* The two settings are read apart and nothing compares them; a range that
\* is no longer than the window would end where the last one ended.
ASSUME IndexerAssumption ==
  /\ {Window, Chunk, FastChunk, LiveWindow, MaxAnchors, MaxHead, MaxReorgs, MaxFailures} \subseteq Nat
  /\ Window < Chunk
  /\ FastChunk = 0 \/ Window < FastChunk

VARIABLES
  chain,     \* the blocks: [branch, logged]
  reorgs,    \* the reorganisations so far, which number the branches
  deep,      \* whether one of them went below the window
  tooDeep,   \* whether one replaced more indexed blocks below it than a tick compares
  overtaken, \* whether one came between a tick's comparison and its read
  rows,      \* the indexed blocks: [number, branch]
  cursor,    \* last_block of indexer_cursor
  at,        \* where the tick is
  head,      \* what the tick read as the head
  from,      \* the first block of its range
  anchors,   \* the indexed blocks it has yet to compare
  batch,     \* the indexed blocks of its range, as it read them
  to,        \* the last block of its range
  failures   \* the ticks that failed

depths == <<deep, tooDeep, overtaken>>
chainVars == <<chain, reorgs, depths>>
tables == <<rows, cursor>>
tick == <<at, head, from, anchors, batch, to>>
indexerVars == <<chainVars, tables, tick, failures>>

Block == [branch : 0 .. MaxReorgs, logged : BOOLEAN]
Row == [number : Nat, branch : 0 .. MaxReorgs]

\* What the tables would be if they mirrored the chain's blocks in a range.
Logs(first, last) ==
  {[number |-> n, branch |-> chain[n].branch] :
     n \in {k \in first .. last : k \in DOMAIN chain /\ chain[k].logged}}

Canonical == Logs(1, Len(chain))

\* Mutant: no overlap with what was read before.
WindowFromCursor == cursor + 1

WindowFrom == IF cursor + 1 - Window < 1 THEN 1 ELSE cursor + 1 - Window

\* readRecentBlocks: the most recent indexed blocks below a block.
Recent(before) ==
  {r \in rows : /\ r.number < before
                /\ Cardinality({s \in rows : r.number < s.number /\ s.number < before})
                     < MaxAnchors}

IndexerInit ==
  /\ chain = <<>> /\ reorgs = 0
  /\ deep = FALSE /\ tooDeep = FALSE /\ overtaken = FALSE
  /\ rows = {} /\ cursor = 0
  /\ at = "idle" /\ head = 0 /\ from = 0 /\ anchors = {} /\ batch = {} /\ to = 0
  /\ failures = 0

-----------------------------------------------------------------------------
(* The chain.                                                              *)

Mine ==
  /\ Len(chain) < MaxHead
  /\ \E logged \in BOOLEAN : chain' = Append(chain, [branch |-> reorgs, logged |-> logged])
  /\ UNCHANGED <<reorgs, depths, tables, tick, failures>>

\* What a reorganisation is to the tick it meets; nothing depends on it but
\* the properties.  The indexed blocks it replaces below the window are those
\* of the tables and of a batch that was read and is not yet written.
IndexedAbove(fork) ==
  LET window == IF at = "batch" /\ to + 1 - Window > WindowFrom THEN to + 1 - Window
                ELSE WindowFrom
  IN {r.number : r \in {s \in rows \cup batch : fork < s.number /\ s.number < window}}

\* The anchors are compared, and the range that is about to be read begins
\* above an indexed block that is replaced now.
Overtakes(fork) ==
  /\ at = "anchors" /\ anchors = {}
  /\ \E r \in rows : fork < r.number /\ r.number < from

\* The blocks above a fork are mined again, at any moment and at any depth.
Reorganise ==
  /\ reorgs < MaxReorgs
  /\ \E fork \in 0 .. Len(chain) - 1 : \E logged \in SUBSET (fork + 1 .. Len(chain)) :
       /\ chain' = [n \in DOMAIN chain |->
                      IF n <= fork THEN chain[n]
                      ELSE [branch |-> reorgs + 1, logged |-> n \in logged]]
       /\ deep' = (deep \/ fork < Len(chain) - Window)
       /\ tooDeep' = (tooDeep \/ Cardinality(IndexedAbove(fork)) > MaxAnchors)
       /\ overtaken' = (overtaken \/ Overtakes(fork))
  /\ reorgs' = reorgs + 1
  /\ UNCHANGED <<tables, tick, failures>>

-----------------------------------------------------------------------------
(* runTick.                                                                *)

TickBegins ==
  /\ at = "idle"
  /\ at' = "anchors"
  /\ head' = Len(chain)
  /\ from' = WindowFrom
  /\ anchors' = Recent(WindowFrom)
  /\ UNCHANGED <<chainVars, tables, batch, to, failures>>

IsNext(anchor) == anchor \in anchors /\ \A a \in anchors : a.number <= anchor.number

\* Mutant: a block is known by its number, not by its hash.
StillThereByNumber(anchor) == chain[anchor.number].logged

StillThere(anchor) == anchor \in Logs(anchor.number, anchor.number)

\* The walk ends at the first anchor the chain still has.
AnchorStands ==
  /\ at = "anchors"
  /\ \E anchor \in anchors : IsNext(anchor) /\ StillThere(anchor)
  /\ anchors' = {}
  /\ UNCHANGED <<chainVars, tables, at, head, from, batch, to, failures>>

AnchorDiverges ==
  /\ at = "anchors"
  /\ \E anchor \in anchors :
       /\ IsNext(anchor) /\ ~StillThere(anchor)
       /\ from' = anchor.number
       /\ anchors' = anchors \ {anchor}
  /\ UNCHANGED <<chainVars, tables, at, head, batch, to, failures>>

Least(a, b) == IF a < b THEN a ELSE b

\* chunkBlocks: what the archive offers up to the edge of the live window,
\* while it answers, or the configured chunk.
ChunkSizes ==
  LET remaining == head - LiveWindow - from + 1
  IN {Chunk} \cup
       (IF FastChunk = 0 \/ remaining < Chunk \/ from > head - LiveWindow THEN {}
        ELSE {Least(FastChunk, remaining)})

ToBlock(chunk) == Least(head, from + chunk - 1)

\* An empty range: the tick is over and has written nothing.
NothingToRead ==
  /\ at = "anchors" /\ anchors = {}
  /\ \E chunk \in ChunkSizes : ToBlock(chunk) < from
  /\ at' = "idle" /\ head' = 0 /\ from' = 0
  /\ UNCHANGED <<chainVars, tables, anchors, batch, to, failures>>

ReadLogs ==
  /\ at = "anchors" /\ anchors = {}
  /\ \E chunk \in ChunkSizes :
       /\ ToBlock(chunk) >= from
       /\ to' = ToBlock(chunk)
       /\ batch' = Logs(from, ToBlock(chunk))
  /\ at' = "batch"
  /\ UNCHANGED <<chainVars, tables, head, from, anchors, failures>>

\* Mutant: the cursor moves to the head, though only a chunk was read.
ApplyBatchReachingHead ==
  /\ at = "batch"
  /\ rows' = {r \in rows : r.number < from \/ to < r.number} \cup batch
  /\ cursor' = head
  /\ at' = "idle" /\ head' = 0 /\ from' = 0 /\ batch' = {} /\ to' = 0
  /\ UNCHANGED <<chainVars, anchors, failures>>

\* applyBatch: delete the range, write it, move the cursor.
ApplyBatch ==
  /\ at = "batch"
  /\ rows' = {r \in rows : r.number < from \/ to < r.number} \cup batch
  /\ cursor' = to
  /\ at' = "idle" /\ head' = 0 /\ from' = 0 /\ batch' = {} /\ to' = 0
  /\ UNCHANGED <<chainVars, anchors, failures>>

\* A read that throws, a batch that rolls back, a process that stops: what
\* the tick had read is gone, and the loop starts another.
TickFails ==
  /\ at # "idle"
  /\ failures < MaxFailures
  /\ failures' = failures + 1
  /\ at' = "idle" /\ head' = 0 /\ from' = 0 /\ anchors' = {} /\ batch' = {} /\ to' = 0
  /\ UNCHANGED <<chainVars, tables>>

Tick ==
  \/ TickBegins \/ AnchorStands \/ AnchorDiverges
  \/ NothingToRead \/ ReadLogs \/ ApplyBatch

IndexerNext == Mine \/ Reorganise \/ Tick \/ TickFails

IndexerSpec == IndexerInit /\ [][IndexerNext]_indexerVars

\* The loop of service.ts never ends: a tick that can go on does, and after
\* it the next one begins.  The chain is under no obligation.
FairIndexerSpec == IndexerSpec /\ WF_indexerVars(Tick)

-----------------------------------------------------------------------------
(* What the registry is used for.                                          *)

\* What was indexed of a block that no reorganisation has replaced stays
\* there, whatever is rewritten around it, whichever ticks fail, and at
\* every moment: the rows below the cursor are not only right in the end.
UntouchedRowsStand ==
  \A n \in 1 .. cursor :
    chain[n].branch = 0 =>
      {r \in rows : r.number = n} = Logs(n, n)

\* Once the chain is quiet, the tables hold no row of an abandoned branch,
\* unless a reorganisation replaced more indexed blocks below the window than
\* a tick compares, or came after the comparison of a tick and before its read.
StaleRowsGo == <>[](tooDeep \/ overtaken \/ rows \subseteq Canonical)

\* indexer.ts:104-106: "a reorganisation deeper than eight log-bearing blocks
\* is still corrected, one anchor deeper per tick, rather than missed".
DeepIsCorrected == <>[](overtaken \/ rows \subseteq Canonical)

\* indexer.ts:195-196: "Anything deeper than the window is caught here, before
\* the range is fixed", for what a tick does compare.
DeepIsCaught == <>[](tooDeep \/ rows \subseteq Canonical)

\* Once the chain is quiet the cursor is at its head, and if every
\* reorganisation stayed within the window the tables are its logs, neither
\* more nor less.
RowsConverge == <>[](cursor = Len(chain) /\ (deep \/ rows = Canonical))
=============================================================================
