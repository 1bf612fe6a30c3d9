------------------------------- MODULE Keeper -------------------------------
(***************************************************************************)
(* The delinquency keeper and the CRE workflow that drives it.  The keeper *)
(* (apps/keeper) serves GET /overdue and POST /tick: both read the feed of *)
(* deliveries for candidates and judge them at one block, and a tick then  *)
(* simulates, sends and waits for one mark after the other.  The workflow  *)
(* (apps/cre-keeper) reads, chooses the marks of a tick and posts them.    *)
(* Requests run beside each other, and beside the Agents who settle and    *)
(* whoever else marks.                                                     *)
(*                                                                         *)
(* Time is what it does to the tabs: those that are open and unmarked      *)
(* stand in the order of their window ends, and the first of them are past *)
(* theirs.                                                                 *)
(***************************************************************************)
EXTENDS Naturals, Sequences, SequencesExt

CONSTANTS
  Tabs,
  Ticks,        \* the ticks the keeper can be at; also their bound
  MaxMarks,     \* maxMarksPerTick
  MaxFailures   \* bound on the reads, sends and posts that fail

ASSUME KeeperAssumption ==
  /\ MaxMarks \in Nat \ {0} /\ MaxFailures \in Nat
  /\ "overdue" \notin Ticks

VARIABLES
  line,        \* the open and unmarked tabs, by the end of their window
  due,         \* how many of them are past it
  marked,      \* the delinquent tabs
  listed,      \* the tabs the feed has a delivery of
  tooLong,     \* whether the feed has more pages than the keeper walks
  phase,       \* where each request to the keeper is
  about,       \* the tabs it asks about, and found in the feed once it walked it
  todo,        \* the tabs it judged overdue and has yet to mark
  overtaken,   \* ticks whose tab was settled or marked since its simulation
  run,         \* where the workflow is
  body,        \* the marks it asks for
  posted,      \* the tick that serves it
  cached,      \* the posts whose answer the capability still holds
  failures

bookVars == <<line, due, marked>>
feedVars == <<listed, tooLong>>
requestVars == <<phase, about, todo>>
runVars == <<run, body, posted, cached>>
keeperVars == <<bookVars, feedVars, requestVars, overtaken, runVars, failures>>

Requests == {"overdue"} \cup Ticks

KeeperInit ==
  /\ line = <<>> /\ due = 0 /\ marked = {}
  /\ listed = {} /\ tooLong = FALSE
  /\ phase = [r \in Requests |-> "idle"]
  /\ about = [r \in Requests |-> {}]
  /\ todo = [r \in Requests |-> <<>>]
  /\ overtaken = {}
  /\ run = "idle" /\ body = <<>> /\ posted = "overdue" /\ cached = {}
  /\ failures = 0

Overdue(t) == \E i \in 1 .. due : line[i] = t

-----------------------------------------------------------------------------
(* The book, as far as marks go: TabBook has the whole of it.              *)

\* A tab is settled or marked, under the eyes of the ticks that are at it.
Leaves(t) ==
  /\ \E i \in DOMAIN line :
       /\ line[i] = t
       /\ line' = RemoveAt(line, i)
       /\ due' = IF i <= due THEN due - 1 ELSE due
  /\ overtaken' = overtaken \cup
       {k \in Ticks : phase[k] \in {"sending", "sent"} /\ Head(todo[k]) = t}

\* The first delivery since the tab was closed puts it at its window's end.
TabOpens(t) ==
  /\ t \notin marked \cup ToSet(line)
  /\ \E i \in due + 1 .. Len(line) + 1 : line' = InsertAt(line, i, t)
  /\ UNCHANGED <<due, marked, feedVars, requestVars, overtaken, runVars, failures>>

WindowCloses ==
  /\ due < Len(line)
  /\ due' = due + 1
  /\ UNCHANGED <<line, marked, feedVars, requestVars, overtaken, runVars, failures>>

TabSettled(t) ==
  /\ \/ t \in ToSet(line) /\ Leaves(t) /\ UNCHANGED marked
     \/ t \in marked /\ marked' = marked \ {t} /\ UNCHANGED <<line, due, overtaken>>
  /\ UNCHANGED <<feedVars, requestVars, runVars, failures>>

\* markDelinquent takes anybody.
MarkedBeside(t) ==
  /\ Overdue(t)
  /\ Leaves(t)
  /\ marked' = marked \cup {t}
  /\ UNCHANGED <<feedVars, requestVars, runVars, failures>>

\* The registry lists the deliveries of the tab.
FeedLists(t) ==
  /\ t \in ToSet(line) \ listed
  /\ listed' = listed \cup {t}
  /\ UNCHANGED <<bookVars, tooLong, requestVars, overtaken, runVars, failures>>

\* Every delivery ever recorded has a row: one day there are too many.
FeedGrows ==
  /\ ~tooLong
  /\ tooLong' = TRUE
  /\ UNCHANGED <<bookVars, listed, requestVars, overtaken, runVars, failures>>

-----------------------------------------------------------------------------
(* The keeper: readOverdue, and runTick after it.                          *)

Enter(r, to) == phase' = [phase EXCEPT ![r] = to]

\* A request that ends with an error; the workflow's run ends with it.
Fails(r) ==
  /\ Enter(r, "idle")
  /\ about' = [about EXCEPT ![r] = {}]
  /\ run' = IF (r = "overdue" /\ run = "reading") \/ (run = "waiting" /\ posted = r)
              THEN "idle" ELSE run
  /\ UNCHANGED <<todo, body, posted, cached>>

\* walkDeliveryFeed reads every page, or fails.
WalkFeed(r) ==
  /\ phase[r] = "walking"
  /\ IF tooLong
       THEN Fails(r)
       ELSE /\ about' = [about EXCEPT ![r] = @ \cap listed]
            /\ Enter(r, "judging")
            /\ UNCHANGED <<todo, runVars>>
  /\ UNCHANGED <<bookVars, feedVars, overtaken, failures>>

\* readOverdueTabs: every candidate at one block, by window end.
Judge(r) ==
  /\ phase[r] = "judging"
  /\ todo' = [todo EXCEPT ![r] =
        SelectSeq(SubSeq(line, 1, due), LAMBDA t : t \in about[r])]
  /\ about' = [about EXCEPT ![r] = {}]
  /\ Enter(r, IF r = "overdue" THEN "answered" ELSE "marking")
  /\ UNCHANGED <<bookVars, feedVars, overtaken, runVars, failures>>

NextTab(k) == todo' = [todo EXCEPT ![k] = Tail(@)] /\ Enter(k, "marking")

\* Mutant: the verdict of the tick is not looked at again.
MarkableOnceJudged(t) == TRUE

\* What the simulation of a mark at the latest block says.
Markable(t) == Overdue(t)

Simulate(k) ==
  /\ phase[k] = "marking" /\ todo[k] # <<>>
  /\ IF Markable(Head(todo[k]))
       THEN Enter(k, "sending") /\ UNCHANGED todo
       ELSE NextTab(k)
  /\ overtaken' = overtaken \ {k}
  /\ UNCHANGED <<about, bookVars, feedVars, runVars, failures>>

Send(k) ==
  /\ phase[k] = "sending"
  /\ Enter(k, "sent")
  /\ UNCHANGED <<about, todo, bookVars, feedVars, overtaken, runVars, failures>>

\* The mark is mined: it takes effect or reverts.
MarkMined(k) ==
  /\ phase[k] = "sent"
  /\ LET t == Head(todo[k]) IN
       IF Overdue(t)
         THEN Leaves(t) /\ marked' = marked \cup {t}
         ELSE UNCHANGED <<bookVars, overtaken>>
  /\ NextTab(k)
  /\ UNCHANGED <<about, feedVars, runVars, failures>>

\* The answer of a tick, whatever became of its marks, and what the
\* capability keeps of it if the workflow is still there.
TickAnswers(k) ==
  /\ phase[k] = "marking" /\ todo[k] = <<>>
  /\ phase' = [phase EXCEPT ![k] = "idle"]
  /\ overtaken' = overtaken \ {k}
  /\ IF run = "waiting" /\ posted = k
       THEN run' = "idle" /\ cached' = cached \cup {body}
       ELSE UNCHANGED <<run, cached>>
  /\ UNCHANGED <<about, todo, body, posted, bookVars, feedVars, failures>>

RequestStep(r) ==
  \/ WalkFeed(r) \/ Judge(r)
  \/ r \in Ticks /\ (Simulate(r) \/ Send(r) \/ MarkMined(r) \/ TickAnswers(r))

\* A read of a request fails, and the request with it.
ReadFails(r) ==
  /\ phase[r] \in {"walking", "judging"}
  /\ Fails(r)
  /\ UNCHANGED <<bookVars, feedVars, overtaken>>

\* A simulation or a send fails, and the tick goes on with the next tab.
MarkFails(k) ==
  /\ phase[k] = "sending" \/ (phase[k] = "marking" /\ todo[k] # <<>>)
  /\ NextTab(k)
  /\ UNCHANGED <<about, bookVars, feedVars, overtaken, runVars>>

\* tab-keeper once, by an operator: all that is overdue.
OperatorTicks(k) ==
  /\ phase[k] = "idle"
  /\ Enter(k, "walking")
  /\ about' = [about EXCEPT ![k] = Tabs]
  /\ UNCHANGED <<todo, bookVars, feedVars, overtaken, runVars, failures>>

-----------------------------------------------------------------------------
(* The workflow: runDelinquencyTick on every trigger.                      *)

Trigger ==
  /\ run = "idle" /\ phase["overdue"] = "idle"
  /\ run' = "reading"
  /\ Enter("overdue", "walking")
  /\ about' = [about EXCEPT !["overdue"] = Tabs]
  /\ UNCHANGED <<todo, body, posted, cached>>

FirstOf(tabs) == SubSeq(tabs, 1, IF Len(tabs) < MaxMarks THEN Len(tabs) ELSE MaxMarks)

\* Mutant: the tabs that became overdue last come first.
DecideMarksNewest(tabs) == FirstOf(Reverse(tabs))

\* decideMarks: the oldest windows, as many as a tick may ask for.
DecideMarks(tabs) == FirstOf(tabs)

Decide ==
  /\ run = "reading" /\ phase["overdue"] = "answered"
  /\ Enter("overdue", "idle")
  /\ todo' = [todo EXCEPT !["overdue"] = <<>>]
  /\ body' = DecideMarks(todo["overdue"])
  /\ run' = IF body' = <<>> THEN "idle" ELSE "posting"
  /\ UNCHANGED <<about, posted, cached>>

\* An equal post not long ago is answered with its answer.
AnsweredFromCache ==
  /\ run = "posting" /\ body \in cached
  /\ run' = "idle"
  /\ UNCHANGED <<requestVars, body, posted, cached>>

PostTick ==
  /\ run = "posting" /\ body \notin cached
  /\ \E k \in Ticks :
       /\ phase[k] = "idle"
       /\ Enter(k, "walking")
       /\ about' = [about EXCEPT ![k] = ToSet(body)]
       /\ posted' = k
  /\ run' = "waiting"
  /\ UNCHANGED <<todo, body, cached>>

\* requestTimeout: the run fails, and the tick goes on without it.
PostTimesOut ==
  /\ run = "waiting"
  /\ run' = "idle"
  /\ UNCHANGED <<requestVars, body, posted, cached>>

RunStep ==
  /\ Trigger \/ Decide \/ AnsweredFromCache \/ PostTick \/ PostTimesOut
  /\ UNCHANGED <<bookVars, feedVars, overtaken, failures>>

\* The secret cannot be had, or the post does not arrive.
PostFails ==
  /\ run = "posting"
  /\ run' = "idle"
  /\ UNCHANGED <<bookVars, feedVars, requestVars, overtaken, body, posted, cached>>

CacheExpires ==
  /\ \E b \in cached : cached' = cached \ {b}
  /\ UNCHANGED <<bookVars, feedVars, requestVars, overtaken, run, body, posted, failures>>

-----------------------------------------------------------------------------
\* The keeper's process stops.  What it sent may still be mined, as if
\* somebody else had sent it.
KeeperRestarts ==
  /\ phase' = [r \in Requests |-> "idle"]
  /\ about' = [r \in Requests |-> {}]
  /\ todo' = [r \in Requests |-> <<>>]
  /\ overtaken' = {}
  /\ run' = IF run \in {"reading", "waiting"} THEN "idle" ELSE run
  /\ UNCHANGED <<bookVars, feedVars, body, posted, cached>>

Failure ==
  /\ failures < MaxFailures
  /\ failures' = failures + 1
  /\ \/ \E r \in Requests : ReadFails(r)
     \/ \E k \in Ticks : MarkFails(k)
     \/ PostFails \/ KeeperRestarts

KeeperNext ==
  \/ \E t \in Tabs : TabOpens(t) \/ TabSettled(t) \/ MarkedBeside(t) \/ FeedLists(t)
  \/ WindowCloses \/ FeedGrows
  \/ \E r \in Requests : RequestStep(r)
  \/ \E k \in Ticks : OperatorTicks(k)
  \/ RunStep \/ CacheExpires \/ Failure

KeeperSpec == KeeperInit /\ [][KeeperNext]_keeperVars

\* The trigger comes again and again, every request goes on, the registry
\* catches up, what is sent is mined and no answer is held for ever.  The
\* Agents and the operator owe nothing, and failures end.
FairKeeperSpec ==
  /\ KeeperSpec
  /\ \A r \in Requests : WF_keeperVars(RequestStep(r))
  /\ \A t \in Tabs : WF_keeperVars(FeedLists(t))
  /\ WF_keeperVars(RunStep)
  /\ WF_keeperVars(CacheExpires)

-----------------------------------------------------------------------------
\* Every overdue tab is marked or settled in the end, however few marks a
\* tick may ask for and whatever becomes overdue beside it, while the feed
\* is short enough to be walked.
OverdueIsMarked ==
  \A t \in Tabs : Overdue(t) ~> ~Overdue(t) \/ tooLong

\* A mark reverts, and spends gas for nothing, only when its tab was settled
\* or marked after it was simulated, never for a verdict that was already
\* wrong when the mark was sent.
RevertsOnlyWhenOvertaken ==
  [][\A k \in Ticks :
       MarkMined(k) /\ ~Overdue(Head(todo[k])) => k \in overtaken]_keeperVars
=============================================================================
