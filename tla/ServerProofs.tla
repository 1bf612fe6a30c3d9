---------------------------- MODULE ServerProofs ----------------------------
(***************************************************************************)
(* What TLAPS proves of the servers that read the chain, for every value of *)
(* the constants.  Of the keeper: a mark is only ever wasted on a tab that *)
(* was settled or marked after its simulation.  Of the gateway's history: no *)
(* record twice, and a gateway that reads the chain alone misses none and is *)
(* refused for none.                                                       *)
(***************************************************************************)
EXTENDS Keeper, HistorySource, FiniteSetTheorems, SequenceTheorems, TLAPS

-----------------------------------------------------------------------------
(* The keeper.                                                             *)

Phases == {"idle", "walking", "judging", "answered", "marking", "sending", "sent"}

LineOK ==
  /\ line \in Seq(Tabs)
  /\ due \in 0 .. Len(line)
  /\ \A i, j \in DOMAIN line : line[i] = line[j] => i = j

\* A tick that simulated its mark and has yet to see it mined.
AtMark(k) == phase[k] \in {"sending", "sent"}

RequestsOK ==
  /\ phase \in [Requests -> Phases]
  /\ todo = [r \in Requests |-> todo[r]]
  /\ overtaken \subseteq Ticks

\* The inductive invariant: no tab stands twice in the line, so that taking one
\* out of it takes no other out, and the tab of a tick between simulation and
\* receipt is overdue, unless something took it away.
KeeperInv ==
  /\ LineOK
  /\ RequestsOK
  /\ \A k \in Ticks : AtMark(k) => Overdue(Head(todo[k])) \/ k \in overtaken

-----------------------------------------------------------------------------
(* The line.                                                               *)

\* A sequence without its i-th element has the others, moved up.
LEMMA Removed ==
  ASSUME NEW S, NEW s \in Seq(S), NEW i \in DOMAIN s
  PROVE  /\ RemoveAt(s, i) \in Seq(S)
         /\ Len(RemoveAt(s, i)) = Len(s) - 1
         /\ \A j \in 1 .. Len(s) - 1 :
              RemoveAt(s, i)[j] = IF j < i THEN s[j] ELSE s[j + 1]
<1> DEFINE a == SubSeq(s, 1, i - 1)
           b == SubSeq(s, i + 1, Len(s))
<1>1. Len(s) \in Nat /\ i \in 1 .. Len(s)
  OBVIOUS
<1>2. /\ a \in Seq(S) /\ Len(a) = i - 1
      /\ \A j \in 1 .. i - 1 : a[j] = s[j]
  <2>1. \A j \in 1 .. i - 1 : s[j] \in S
    BY <1>1
  <2> QED BY <1>1, <2>1, SubSeqProperties
<1>3. /\ b \in Seq(S) /\ Len(b) = Len(s) - i
      /\ \A j \in 1 .. Len(s) - i : b[j] = s[i + j]
  <2>1. \A j \in i + 1 .. Len(s) : s[j] \in S
    BY <1>1
  <2> QED BY <1>1, <2>1, SubSeqProperties
<1> HIDE DEF a, b
<1>4. /\ a \o b \in Seq(S)
      /\ Len(a \o b) = Len(s) - 1
      /\ \A j \in 1 .. Len(s) - 1 : (a \o b)[j] = IF j <= i - 1 THEN a[j] ELSE b[j - (i - 1)]
  <2>1. /\ a \o b \in Seq(S)
        /\ Len(a \o b) = Len(a) + Len(b)
        /\ \A j \in 1 .. Len(a) + Len(b) :
             (a \o b)[j] = IF j <= Len(a) THEN a[j] ELSE b[j - Len(a)]
    BY <1>2, <1>3, ConcatProperties, Zenon
  <2>2. Len(a) = i - 1 /\ Len(a) + Len(b) = Len(s) - 1
    BY <1>1, <1>2, <1>3
  <2> QED BY <2>1, <2>2
<1>5. \A j \in 1 .. Len(s) - 1 : (a \o b)[j] = IF j < i THEN s[j] ELSE s[j + 1]
  <2> SUFFICES ASSUME NEW j \in 1 .. Len(s) - 1
               PROVE  (a \o b)[j] = IF j < i THEN s[j] ELSE s[j + 1]
    OBVIOUS
  <2>1. CASE j < i
    BY <1>1, <1>2, <1>4, <2>1
  <2>2. CASE ~(j < i)
    <3>1. j - (i - 1) \in 1 .. Len(s) - i /\ i + (j - (i - 1)) = j + 1
      BY <1>1, <2>2
    <3>2. (a \o b)[j] = b[j - (i - 1)]
      BY <1>1, <1>4, <2>2
    <3>3. b[j - (i - 1)] = s[j + 1]
      BY <1>3, <3>1
    <3> QED BY <2>2, <3>2, <3>3
  <2> QED BY <2>1, <2>2
<1> QED BY <1>4, <1>5 DEF RemoveAt, a, b

\* A sequence with an element put in at i has it there, and the others.
LEMMA Inserted ==
  ASSUME NEW S, NEW s \in Seq(S), NEW e \in S, NEW i \in 1 .. Len(s) + 1
  PROVE  /\ InsertAt(s, i, e) \in Seq(S)
         /\ Len(InsertAt(s, i, e)) = Len(s) + 1
         /\ \A j \in 1 .. Len(s) + 1 :
              InsertAt(s, i, e)[j] = IF j < i THEN s[j] ELSE IF j = i THEN e ELSE s[j - 1]
<1> DEFINE a == SubSeq(s, 1, i - 1)
           b == SubSeq(s, i, Len(s))
<1>1. Len(s) \in Nat
  OBVIOUS
<1>2. /\ a \in Seq(S) /\ Len(a) = i - 1
      /\ \A j \in 1 .. i - 1 : a[j] = s[j]
  <2>1. \A j \in 1 .. i - 1 : s[j] \in S
    BY <1>1
  <2> QED BY <1>1, <2>1, SubSeqProperties
<1>3. /\ b \in Seq(S) /\ Len(b) = Len(s) - i + 1
      /\ \A j \in 1 .. Len(s) - i + 1 : b[j] = s[i + j - 1]
  <2>1. \A j \in i .. Len(s) : s[j] \in S
    BY <1>1
  <2> QED BY <1>1, <2>1, SubSeqProperties
<1> HIDE DEF a, b
<1> DEFINE c == a \o <<e>>
<1>4. /\ c \in Seq(S) /\ Len(c) = i
      /\ \A j \in 1 .. i : c[j] = IF j <= i - 1 THEN a[j] ELSE e
  BY <1>1, <1>2
<1> HIDE DEF c
<1>5. /\ c \o b \in Seq(S)
      /\ Len(c \o b) = Len(s) + 1
      /\ \A j \in 1 .. Len(s) + 1 : (c \o b)[j] = IF j <= i THEN c[j] ELSE b[j - i]
  <2>1. Len(c) + Len(b) = Len(s) + 1
    BY <1>1, <1>3, <1>4
  <2>2. /\ c \o b \in Seq(S)
        /\ Len(c \o b) = Len(c) + Len(b)
        /\ \A j \in 1 .. Len(c) + Len(b) :
             (c \o b)[j] = IF j <= Len(c) THEN c[j] ELSE b[j - Len(c)]
    BY <1>3, <1>4, ConcatProperties
  <2> QED BY <1>4, <2>1, <2>2
<1>6. \A j \in 1 .. Len(s) + 1 :
        (c \o b)[j] = IF j < i THEN s[j] ELSE IF j = i THEN e ELSE s[j - 1]
  <2> SUFFICES ASSUME NEW j \in 1 .. Len(s) + 1
               PROVE  (c \o b)[j] = IF j < i THEN s[j] ELSE IF j = i THEN e ELSE s[j - 1]
    OBVIOUS
  <2>1. CASE j <= i
    BY <1>1, <1>2, <1>4, <1>5, <2>1
  <2>2. CASE ~(j <= i)
    <3>1. j - i \in 1 .. Len(s) - i + 1 /\ i + (j - i) - 1 = j - 1
      BY <1>1, <2>2
    <3>2. (c \o b)[j] = b[j - i]
      BY <1>1, <1>5, <2>2
    <3>3. b[j - i] = s[j - 1]
      BY <1>3, <3>1
    <3> QED BY <1>1, <2>2, <3>2, <3>3
  <2> QED BY <2>1, <2>2
<1> QED BY <1>5, <1>6 DEF InsertAt, a, b, c

\* When a tab leaves, all others that are overdue stay so.
LEMMA LeavesSound ==
  ASSUME LineOK, NEW t, Leaves(t)
  PROVE  LineOK' /\ \A u : Overdue(u) /\ u # t => Overdue(u)'
<1>1. PICK i \in DOMAIN line :
        line[i] = t /\ line' = RemoveAt(line, i) /\ due' = IF i <= due THEN due - 1 ELSE due
  BY DEF Leaves
<1>2. Len(line) \in Nat /\ i \in 1 .. Len(line) /\ due \in 0 .. Len(line) /\ line \in Seq(Tabs)
  BY DEF LineOK
<1>3. /\ line' \in Seq(Tabs) /\ Len(line') = Len(line) - 1
      /\ \A j \in 1 .. Len(line) - 1 : line'[j] = IF j < i THEN line[j] ELSE line[j + 1]
  BY <1>1, <1>2, Removed
<1>4. due' \in 0 .. Len(line')
  BY <1>1, <1>2, <1>3
<1>5. ASSUME NEW j \in DOMAIN line', NEW k \in DOMAIN line', line'[j] = line'[k]
      PROVE  j = k
  <2> DEFINE From(n) == IF n < i THEN n ELSE n + 1
  <2>1. j \in 1 .. Len(line) - 1 /\ k \in 1 .. Len(line) - 1
    BY <1>3
  <2>2. line'[j] = line[From(j)] /\ line'[k] = line[From(k)]
    BY <1>3, <2>1
  <2>3. From(j) \in DOMAIN line /\ From(k) \in DOMAIN line
    BY <1>2, <2>1
  <2>4. From(j) = From(k)
    BY <1>5, <2>2, <2>3 DEF LineOK
  <2> QED BY <1>2, <2>1, <2>4
<1>6. ASSUME NEW u, Overdue(u), u # t
      PROVE  Overdue(u)'
  <2>1. PICK j \in 1 .. due : line[j] = u
    BY <1>6 DEF Overdue
  <2>2. j # i
    BY <1>1, <1>6, <2>1
  <2>3. CASE j < i
    <3>1. j \in 1 .. due' /\ j \in 1 .. Len(line) - 1
      BY <1>1, <1>2, <2>1, <2>3
    <3>2. line'[j] = u
      BY <1>3, <2>1, <2>3, <3>1
    <3> QED BY <3>1, <3>2 DEF Overdue
  <2>4. CASE j > i
    <3>1. j - 1 \in 1 .. due' /\ j - 1 \in 1 .. Len(line) - 1 /\ ~(j - 1 < i)
      BY <1>1, <1>2, <2>1, <2>4
    <3>2. line'[j - 1] = u
      BY <1>2, <1>3, <2>1, <3>1
    <3> QED BY <3>1, <3>2 DEF Overdue
  <2> QED BY <1>2, <2>1, <2>2, <2>3, <2>4
<1> QED BY <1>3, <1>4, <1>5, <1>6 DEF LineOK

\* A tab that opens takes its place behind those that are overdue.
LEMMA OpensSound ==
  ASSUME LineOK, NEW t \in Tabs, TabOpens(t)
  PROVE  LineOK' /\ \A u : Overdue(u) => Overdue(u)'
<1>1. PICK i \in due + 1 .. Len(line) + 1 : line' = InsertAt(line, i, t)
  BY DEF TabOpens
<1>2. /\ Len(line) \in Nat /\ due \in 0 .. Len(line) /\ i \in 1 .. Len(line) + 1
      /\ line \in Seq(Tabs)
  BY DEF LineOK
<1>3. /\ line' \in Seq(Tabs) /\ Len(line') = Len(line) + 1
      /\ \A j \in 1 .. Len(line) + 1 :
           line'[j] = IF j < i THEN line[j] ELSE IF j = i THEN t ELSE line[j - 1]
  <2> DEFINE more == InsertAt(line, i, t)
  <2>1. /\ more \in Seq(Tabs) /\ Len(more) = Len(line) + 1
        /\ \A j \in 1 .. Len(line) + 1 :
             more[j] = IF j < i THEN line[j] ELSE IF j = i THEN t ELSE line[j - 1]
    BY <1>2, Inserted
  <2> QED BY <1>1, <2>1
<1>4. due' = due /\ \A j \in 1 .. Len(line) : line[j] # t
  BY DEF TabOpens, ToSet
<1>5. ASSUME NEW j \in DOMAIN line', NEW k \in DOMAIN line', line'[j] = line'[k]
      PROVE  j = k
  <2>1. j \in 1 .. Len(line) + 1 /\ k \in 1 .. Len(line) + 1
    BY <1>3
  <2>2. ASSUME NEW m \in 1 .. Len(line) + 1, m # i
        PROVE  line'[m] # t /\ line'[i] = t
    <3>1. line'[m] = IF m < i THEN line[m] ELSE line[m - 1]
      BY <1>3, <2>2
    <3>2. IF m < i THEN m \in 1 .. Len(line) ELSE m - 1 \in 1 .. Len(line)
      BY <1>2, <2>2
    <3> QED BY <1>2, <1>3, <1>4, <3>1, <3>2
  <2>4. CASE j = i \/ k = i
    BY <1>5, <2>1, <2>2, <2>4
  <2>3. CASE j # i /\ k # i
    <3> DEFINE From(n) == IF n < i THEN n ELSE n - 1
    <3>1. line'[j] = line[From(j)] /\ line'[k] = line[From(k)]
      BY <1>3, <2>1, <2>3
    <3>2. From(j) \in DOMAIN line /\ From(k) \in DOMAIN line
      BY <1>2, <2>1, <2>3
    <3>3. From(j) = From(k)
      BY <1>5, <3>1, <3>2 DEF LineOK
    <3> QED BY <1>2, <2>1, <2>3, <3>3
  <2> QED BY <2>3, <2>4
<1>6. ASSUME NEW u, Overdue(u)
      PROVE  Overdue(u)'
  <2>1. PICK j \in 1 .. due : line[j] = u
    BY <1>6 DEF Overdue
  <2>2. j \in 1 .. Len(line) + 1 /\ j < i
    BY <1>2, <2>1
  <2> QED BY <1>3, <1>4, <2>1, <2>2 DEF Overdue
<1>7. due' \in 0 .. Len(line')
  BY <1>2, <1>3, <1>4
<1> QED BY <1>3, <1>5, <1>6, <1>7 DEF LineOK

-----------------------------------------------------------------------------
(* The requests.                                                           *)

\* A step keeps the invariant when it takes no tick to its mark, lets none go on
\* unnoticed, and tells the ticks at a tab when it takes the tab away.
LEMMA InvKept ==
  ASSUME KeeperInv, LineOK', RequestsOK',
         \A k \in Ticks : AtMark(k)' =>
           AtMark(k) /\ todo'[k] = todo[k] /\ (k \in overtaken => k \in overtaken'),
         \A k \in Ticks : AtMark(k)' /\ Overdue(Head(todo[k])) =>
           Overdue(Head(todo[k]))' \/ k \in overtaken'
  PROVE  KeeperInv'
<1> SUFFICES ASSUME NEW k \in Ticks, AtMark(k)'
             PROVE  Overdue(Head(todo[k]))' \/ k \in overtaken'
  BY DEF KeeperInv
<1>1. AtMark(k) /\ todo'[k] = todo[k]
  OBVIOUS
<1>2. CASE k \in overtaken
  BY <1>2
<1>3. CASE k \notin overtaken
  <2>1. Overdue(Head(todo[k]))
    BY <1>1, <1>3 DEF KeeperInv
  <2> QED BY <2>1
<1> QED BY <1>2, <1>3

\* A step that leaves the line alone and moves one request, not to its mark.
LEMMA OneMoves ==
  ASSUME KeeperInv, NEW r \in Requests, NEW stage \in Phases \ {"sending", "sent"},
         Enter(r, stage), UNCHANGED <<line, due>>,
         todo' = [q \in Requests |-> todo'[q]],
         \A q \in Requests \ {r} : todo'[q] = todo[q],
         overtaken' \in {overtaken, overtaken \ {r}}
  PROVE  KeeperInv'
<1>1. phase' = [phase EXCEPT ![r] = stage] /\ phase \in [Requests -> Phases]
  BY DEF KeeperInv, RequestsOK, Enter
<1>2. LineOK' /\ RequestsOK'
  BY <1>1 DEF KeeperInv, LineOK, RequestsOK
<1>3. ASSUME NEW k \in Ticks, AtMark(k)'
      PROVE  k # r /\ AtMark(k) /\ todo'[k] = todo[k] /\ (k \in overtaken => k \in overtaken')
  BY <1>1, <1>3 DEF AtMark, Requests
<1>4. \A u : Overdue(u) => Overdue(u)'
  BY DEF Overdue
<1> QED BY <1>2, <1>3, <1>4, InvKept

-----------------------------------------------------------------------------
(* The steps.                                                              *)

LEMMA InitKeeperInv == KeeperAssumption /\ KeeperInit => KeeperInv
<1> SUFFICES ASSUME KeeperInit PROVE KeeperInv
  OBVIOUS
<1>1. line \in Seq(Tabs) /\ Len(line) = 0
  BY DEF KeeperInit
<1>2. LineOK
  BY <1>1 DEF KeeperInit, LineOK
<1>3. RequestsOK
  BY DEF KeeperInit, RequestsOK, Phases
<1>4. ASSUME NEW k \in Ticks PROVE ~AtMark(k)
  BY DEF KeeperInit, AtMark, Requests
<1> QED BY <1>2, <1>3, <1>4 DEF KeeperInv

\* What the Agents, and whoever marks beside the keeper, do to a tab.
LEMMA BookStep ==
  ASSUME KeeperInv, NEW t \in Tabs, TabOpens(t) \/ TabSettled(t) \/ MarkedBeside(t)
  PROVE  KeeperInv'
<1>1. phase' = phase /\ todo' = todo
  BY DEF TabOpens, TabSettled, MarkedBeside, requestVars
<1>2. ASSUME Leaves(t)
      PROVE  KeeperInv'
  <2>1. LineOK' /\ \A u : Overdue(u) /\ u # t => Overdue(u)'
    BY <1>2, LeavesSound DEF KeeperInv
  <2>2. overtaken' = overtaken \cup {k \in Ticks : AtMark(k) /\ Head(todo[k]) = t}
    BY <1>2 DEF Leaves, AtMark
  <2>3. RequestsOK'
    BY <1>1, <2>2 DEF KeeperInv, RequestsOK
  <2>4. \A k \in Ticks : AtMark(k)' =>
          AtMark(k) /\ todo'[k] = todo[k] /\ (k \in overtaken => k \in overtaken')
    BY <1>1, <2>2 DEF AtMark
  <2>5. \A k \in Ticks : AtMark(k)' /\ Overdue(Head(todo[k])) =>
          Overdue(Head(todo[k]))' \/ k \in overtaken'
    BY <2>1, <2>2, <2>4
  <2> QED BY <2>1, <2>3, <2>4, <2>5, InvKept
<1>3. ASSUME overtaken' = overtaken, LineOK', \A u : Overdue(u) => Overdue(u)'
      PROVE  KeeperInv'
  <2>1. RequestsOK'
    BY <1>1, <1>3 DEF KeeperInv, RequestsOK
  <2>2. \A k \in Ticks : AtMark(k)' => AtMark(k) /\ todo'[k] = todo[k]
    BY <1>1 DEF AtMark
  <2> QED BY <1>3, <2>1, <2>2, InvKept
<1>4. CASE TabOpens(t)
  <2>1. overtaken' = overtaken
    BY <1>4 DEF TabOpens
  <2> QED BY <1>3, <1>4, <2>1, OpensSound DEF KeeperInv
<1>5. CASE TabSettled(t)
  <2>1. CASE Leaves(t)
    BY <1>2, <2>1
  <2>2. CASE UNCHANGED <<line, due, overtaken>>
    BY <1>3, <2>2 DEF KeeperInv, LineOK, Overdue
  <2> QED BY <1>5, <2>1, <2>2 DEF TabSettled
<1>6. CASE MarkedBeside(t)
  BY <1>2, <1>6 DEF MarkedBeside
<1> QED BY <1>4, <1>5, <1>6

\* What a request does at the keeper, to its answer.
LEMMA RequestInv ==
  ASSUME KeeperAssumption, KeeperInv, NEW r \in Requests, RequestStep(r)
  PROVE  KeeperInv'
<1> DEFINE Others == \A q \in Requests \ {r} : todo'[q] = todo[q]
<1>1. todo = [q \in Requests |-> todo[q]] /\ RequestsOK
  BY DEF KeeperInv, RequestsOK
<1>2. ASSUME NEW stage \in {"idle", "walking", "judging", "answered", "marking"}, Enter(r, stage),
             UNCHANGED <<line, due>>, todo' = [q \in Requests |-> todo'[q]], Others,
             overtaken' \in {overtaken, overtaken \ {r}}
      PROVE  KeeperInv'
  BY <1>2, OneMoves DEF Phases
<1>3. CASE WalkFeed(r)
  <2>1. UNCHANGED <<line, due, todo, overtaken>> /\ (Enter(r, "idle") \/ Enter(r, "judging"))
    BY <1>3 DEF WalkFeed, Fails, bookVars
  <2> QED BY <1>1, <1>2, <2>1
<1>4. CASE Judge(r)
  <2>1. UNCHANGED <<line, due, overtaken>> /\ (Enter(r, "answered") \/ Enter(r, "marking"))
    BY <1>4 DEF Judge, bookVars
  <2>2. todo' = [q \in Requests |-> todo'[q]] /\ Others
    BY <1>1, <1>4 DEF Judge
  <2> QED BY <1>2, <2>1, <2>2
<1>5. ASSUME r \in Ticks, NextTab(r)
      PROVE  Enter(r, "marking") /\ todo' = [q \in Requests |-> todo'[q]] /\ Others
  BY <1>1, <1>5 DEF NextTab
<1>6. CASE r \in Ticks /\ Simulate(r)
  <2>1. UNCHANGED <<line, due>> /\ overtaken' = overtaken \ {r}
    BY <1>6 DEF Simulate, bookVars
  <2>2. CASE NextTab(r)
    BY <1>2, <1>5, <1>6, <2>1, <2>2
  <2>3. CASE Overdue(Head(todo[r])) /\ Enter(r, "sending") /\ UNCHANGED todo
    <3>1. phase' = [phase EXCEPT ![r] = "sending"]
      BY <2>3 DEF Enter
    <3>2. LineOK' /\ RequestsOK'
      BY <1>1, <2>1, <2>3, <3>1 DEF KeeperInv, LineOK, RequestsOK, Phases
    <3>3. ASSUME NEW k \in Ticks, AtMark(k)'
          PROVE  (Overdue(Head(todo[k])) \/ k \in overtaken)'
      <4>1. CASE k = r
        BY <2>1, <2>3, <4>1 DEF Overdue
      <4>2. CASE k # r
        <5>1. AtMark(k)
          BY <1>1, <3>1, <3>3, <4>2 DEF AtMark, Requests, RequestsOK
        <5> QED BY <2>1, <2>3, <4>2, <5>1 DEF KeeperInv, Overdue
      <4> QED BY <4>1, <4>2
    <3> QED BY <3>2, <3>3 DEF KeeperInv
  <2> QED BY <1>6, <2>2, <2>3 DEF Simulate, Markable
<1>7. CASE r \in Ticks /\ Send(r)
  <2>1. UNCHANGED <<line, due, todo, overtaken>> /\ phase' = [phase EXCEPT ![r] = "sent"]
        /\ phase[r] = "sending"
    BY <1>7 DEF Send, bookVars, Enter
  <2>2. LineOK' /\ RequestsOK'
    BY <1>1, <2>1 DEF KeeperInv, LineOK, RequestsOK, Phases
  <2>3. \A k \in Ticks : AtMark(k)' => AtMark(k)
    BY <1>1, <2>1 DEF AtMark, Requests, RequestsOK
  <2>4. \A u : Overdue(u) => Overdue(u)'
    BY <2>1 DEF Overdue
  <2> QED BY <2>1, <2>2, <2>3, <2>4, InvKept
<1>8. CASE r \in Ticks /\ MarkMined(r)
  <2> DEFINE t == Head(todo[r])
  <2>1. NextTab(r)
    BY <1>8 DEF MarkMined
  <2>2. Enter(r, "marking") /\ todo' = [q \in Requests |-> todo'[q]] /\ Others
    BY <1>5, <1>8, <2>1
  <2>3. CASE Leaves(t)
    <3>1. LineOK' /\ \A u : Overdue(u) /\ u # t => Overdue(u)'
      BY <2>3, LeavesSound DEF KeeperInv
    <3>2. overtaken' = overtaken \cup {k \in Ticks : AtMark(k) /\ Head(todo[k]) = t}
      BY <2>3 DEF Leaves, AtMark
    <3>3. phase' = [phase EXCEPT ![r] = "marking"]
      BY <2>2 DEF Enter
    <3>4. RequestsOK'
      BY <1>1, <2>2, <3>2, <3>3 DEF RequestsOK, Phases
    <3>5. \A k \in Ticks : AtMark(k)' => AtMark(k) /\ k # r
      BY <1>1, <3>3 DEF AtMark, Requests, RequestsOK
    <3>6. \A k \in Ticks : AtMark(k)' =>
            AtMark(k) /\ todo'[k] = todo[k] /\ (k \in overtaken => k \in overtaken')
      BY <2>2, <3>2, <3>5 DEF Requests
    <3>7. ASSUME NEW k \in Ticks, AtMark(k)', Overdue(Head(todo[k]))
          PROVE  Overdue(Head(todo[k]))' \/ k \in overtaken'
      <4>1. AtMark(k) /\ todo'[k] = todo[k]
        BY <3>6, <3>7
      <4>2. CASE Head(todo[k]) = t
        BY <3>2, <4>1, <4>2
      <4>3. CASE Head(todo[k]) # t
        BY <3>1, <3>7, <4>1, <4>3 DEF Overdue
      <4> QED BY <4>2, <4>3
    <3> QED BY <3>1, <3>4, <3>6, <3>7, InvKept
  <2>4. CASE UNCHANGED <<bookVars, overtaken>>
    BY <1>2, <2>2, <2>4 DEF bookVars
  <2> QED BY <1>8, <2>3, <2>4 DEF MarkMined
<1>9. CASE r \in Ticks /\ TickAnswers(r)
  <2>1. UNCHANGED <<line, due, todo>> /\ Enter(r, "idle") /\ overtaken' = overtaken \ {r}
    BY <1>9 DEF TickAnswers, bookVars, Enter
  <2> QED BY <1>1, <1>2, <2>1
<1> QED BY <1>3, <1>4, <1>6, <1>7, <1>8, <1>9 DEF RequestStep

\* What the operator and the workflow start, and what fails.
LEMMA OutsideInv ==
  ASSUME KeeperAssumption, KeeperInv,
         (\E k \in Ticks : OperatorTicks(k)) \/ RunStep \/ CacheExpires \/ Failure
  PROVE  KeeperInv'
<1>1. todo = [q \in Requests |-> todo[q]] /\ RequestsOK /\ LineOK
  BY DEF KeeperInv, RequestsOK
<1>2. ASSUME NEW r \in Requests,
             NEW stage \in {"idle", "walking", "judging", "answered", "marking"}, Enter(r, stage),
             UNCHANGED <<line, due, overtaken>>, todo' = [q \in Requests |-> todo'[q]],
             \A q \in Requests \ {r} : todo'[q] = todo[q]
      PROVE  KeeperInv'
  BY <1>2, OneMoves DEF Phases
<1>3. ASSUME UNCHANGED <<line, due, overtaken, phase, todo>>
      PROVE  KeeperInv'
  BY <1>1, <1>3 DEF KeeperInv, LineOK, RequestsOK, AtMark, Overdue
<1>4. ASSUME NEW k \in Ticks, OperatorTicks(k)
      PROVE  KeeperInv'
  BY <1>1, <1>2, <1>4 DEF OperatorTicks, bookVars, Requests
<1>5. CASE RunStep
  <2>1. UNCHANGED <<line, due, overtaken>> /\ "overdue" \in Requests
    BY <1>5 DEF RunStep, bookVars, Requests
  <2>2. CASE Trigger
    BY <1>1, <1>2, <2>1, <2>2 DEF Trigger
  <2>3. CASE Decide
    <3>1. todo' = [todo EXCEPT !["overdue"] = <<>>] /\ Enter("overdue", "idle")
      BY <2>3 DEF Decide
    <3>2. todo' = [q \in Requests |-> todo'[q]] /\ \A q \in Requests \ {"overdue"} : todo'[q] = todo[q]
      BY <1>1, <3>1
    <3> QED BY <1>2, <2>1, <3>1, <3>2
  <2>4. CASE AnsweredFromCache \/ PostTimesOut
    BY <1>3, <2>1, <2>4 DEF AnsweredFromCache, PostTimesOut, requestVars
  <2>5. CASE PostTick
    <3>1. PICK k \in Ticks : Enter(k, "walking")
      BY <2>5 DEF PostTick
    <3> QED BY <1>1, <1>2, <2>1, <2>5, <3>1 DEF PostTick, Requests
  <2> QED BY <1>5, <2>2, <2>3, <2>4, <2>5 DEF RunStep
<1>6. CASE CacheExpires
  BY <1>3, <1>6 DEF CacheExpires, bookVars, requestVars
<1>7. CASE Failure
  <2>1. ASSUME NEW r \in Requests, ReadFails(r)
        PROVE  KeeperInv'
    BY <1>1, <1>2, <2>1 DEF ReadFails, Fails, bookVars
  <2>2. ASSUME NEW k \in Ticks, MarkFails(k)
        PROVE  KeeperInv'
    <3>1. Enter(k, "marking") /\ todo' = [todo EXCEPT ![k] = Tail(@)]
          /\ UNCHANGED <<line, due, overtaken>> /\ k \in Requests
      BY <2>2 DEF MarkFails, NextTab, bookVars, Requests
    <3>2. todo' = [q \in Requests |-> todo'[q]] /\ \A q \in Requests \ {k} : todo'[q] = todo[q]
      BY <1>1, <3>1
    <3> QED BY <1>2, <3>1, <3>2
  <2>3. CASE PostFails
    BY <1>3, <2>3 DEF PostFails, bookVars, requestVars
  <2>4. CASE KeeperRestarts
    <3>1. /\ line' = line /\ due' = due /\ overtaken' = {}
          /\ phase' = [r \in Requests |-> "idle"] /\ todo' = [r \in Requests |-> <<>>]
      BY <2>4 DEF KeeperRestarts, bookVars
    <3>2. LineOK' /\ RequestsOK'
      BY <1>1, <3>1 DEF LineOK, RequestsOK, Phases
    <3>3. \A k \in Ticks : ~AtMark(k)'
      BY <3>1 DEF AtMark, Requests
    <3> QED BY <3>2, <3>3 DEF KeeperInv
  <2> QED BY <1>7, <2>1, <2>2, <2>3, <2>4 DEF Failure
<1> QED BY <1>4, <1>5, <1>6, <1>7

LEMMA StepKeeperInv ==
  ASSUME KeeperAssumption, KeeperInv, [KeeperNext]_keeperVars
  PROVE  KeeperInv'
<1>1. CASE UNCHANGED keeperVars
  <2>1. UNCHANGED <<line, due, overtaken, phase, todo>>
    BY <1>1 DEF keeperVars, bookVars, requestVars
  <2> QED BY <2>1 DEF KeeperInv, LineOK, RequestsOK, AtMark, Overdue
<1>2. ASSUME NEW t \in Tabs,
             TabOpens(t) \/ TabSettled(t) \/ MarkedBeside(t)
      PROVE  KeeperInv'
  BY <1>2, BookStep
<1>3. CASE WindowCloses
  <2>1. line' = line /\ due' = due + 1 /\ due < Len(line) /\ UNCHANGED <<overtaken, phase, todo>>
    BY <1>3 DEF WindowCloses, requestVars
  <2>2. Len(line) \in Nat /\ due \in 0 .. Len(line)
    BY DEF KeeperInv, LineOK
  <2>3. LineOK' /\ RequestsOK'
    BY <2>1, <2>2 DEF KeeperInv, LineOK, RequestsOK
  <2>4. \A u : Overdue(u) => Overdue(u)'
    BY <2>1, <2>2 DEF Overdue
  <2>5. \A k \in Ticks : AtMark(k)' => AtMark(k)
    BY <2>1 DEF AtMark
  <2> QED BY <2>1, <2>3, <2>4, <2>5, InvKept
<1>4. ASSUME NEW t \in Tabs, FeedLists(t) \/ FeedGrows
      PROVE  UNCHANGED <<line, due, overtaken, phase, todo>>
  BY <1>4 DEF FeedLists, FeedGrows, bookVars, requestVars
<1>5. ASSUME UNCHANGED <<line, due, overtaken, phase, todo>>
      PROVE  KeeperInv'
  BY <1>5 DEF KeeperInv, LineOK, RequestsOK, AtMark, Overdue
<1>6. CASE FeedGrows
  BY <1>5, <1>6 DEF FeedGrows, bookVars, requestVars
<1> QED BY <1>1, <1>2, <1>3, <1>4, <1>5, <1>6, RequestInv, OutsideInv DEF KeeperNext

-----------------------------------------------------------------------------
\* The keeper's transactions are never wasted on a verdict that was wrong when
\* they were sent: a mark that reverts is one whose tab left the line between
\* the simulation of simulateContract and the receipt.
THEOREM WastedOnlyWhenOvertaken == KeeperSpec => RevertsOnlyWhenOvertaken
<1>1. KeeperInit => KeeperInv
  BY KeeperAssumption, InitKeeperInv
<1>2. KeeperInv /\ [KeeperNext]_keeperVars => KeeperInv'
  BY KeeperAssumption, StepKeeperInv
<1>3. KeeperInv => [\A k \in Ticks :
        MarkMined(k) /\ ~Overdue(Head(todo[k])) => k \in overtaken]_keeperVars
  BY DEF KeeperInv, MarkMined, AtMark
<1> QED BY <1>1, <1>2, <1>3, PTL DEF KeeperSpec, RevertsOnlyWhenOvertaken

-----------------------------------------------------------------------------
(* Orders of positions.  Induction is by the least counterexample: a set   *)
(* of naturals that is not empty has a least element.                      *)

Increasing(s) == \A i, j \in DOMAIN s : i < j => s[i] < s[j]

LEMMA Least ==
  ASSUME NEW T \in SUBSET Nat, T # {}
  PROVE  \E x \in T : \A y \in T : x <= y
<1>1. PICK x \in T : \A y \in T : <<y, x>> \notin OpToRel(<, Nat)
  BY WFMin, NatLessThanWellFounded
<1>2. ASSUME NEW y \in T PROVE x <= y
  <2>1. ~(y < x) BY <1>1 DEF OpToRel
  <2> QED BY <2>1
<1> QED BY <1>2

\* An increasing enumeration of I by the first naturals.
Enumerates(s, n, I) ==
  s \in [1 .. n -> I] /\ Increasing(s) /\ \A k \in I : \E i \in 1 .. n : s[i] = k

LEMMA Enumerable ==
  ASSUME NEW N \in Nat
  PROVE  \A I \in SUBSET (1 .. N) : \E n \in Nat : \E s : Enumerates(s, n, I)
<1> DEFINE Some(I) == \E n \in Nat : \E s : Enumerates(s, n, I)
           Bad == {m \in Nat : \E I \in SUBSET (1 .. m) : ~Some(I)}
<1>1. SUFFICES ASSUME Bad # {} PROVE FALSE
  OBVIOUS
<1>2. PICK m \in Bad : \A y \in Bad : m <= y
  <2> HIDE DEF Bad
  <2>1. Bad \in SUBSET Nat BY DEF Bad
  <2> QED BY <1>1, <2>1, Least
<1>3. PICK I \in SUBSET (1 .. m) : ~Some(I)
  BY <1>2
<1>4. m # 0
  <2>1. SUFFICES ASSUME m = 0 PROVE FALSE
    OBVIOUS
  <2>2. I = {} BY <2>1
  <2>3. Enumerates(<<>>, 0, I) BY <2>2 DEF Enumerates, Increasing
  <2> QED BY <1>3, <2>3
<1>5. m \in Nat /\ m - 1 \in Nat
  BY <1>2, <1>4
<1>6. \A J \in SUBSET (1 .. m - 1) : Some(J)
  <2>1. m - 1 \notin Bad
    <3> HIDE DEF Bad
    <3> QED BY <1>2, <1>5
  <2> QED BY <1>5, <2>1
<1>7. PICK n \in Nat : \E s : Enumerates(s, n, I \ {m})
  <2>1. I \ {m} \in SUBSET (1 .. m - 1) BY <1>5
  <2> QED BY <1>6, <2>1
<1>8. CASE m \notin I
  <2>1. I \ {m} = I BY <1>8
  <2> QED BY <1>3, <1>7, <2>1
<1>9. CASE m \in I
  <2>0. PICK s : Enumerates(s, n, I \ {m})
    BY <1>7
  <2> DEFINE t == [i \in 1 .. n + 1 |-> IF i <= n THEN s[i] ELSE m]
  <2>1. /\ s \in [1 .. n -> I \ {m}] /\ \A i, j \in 1 .. n : i < j => s[i] < s[j]
        /\ \A k \in I \ {m} : \E i \in 1 .. n : s[i] = k
    BY <2>0 DEF Enumerates, Increasing
  <2>2. \A i \in 1 .. n : s[i] \in I /\ s[i] \in 1 .. m /\ s[i] < m
    <3> SUFFICES ASSUME NEW i \in 1 .. n
                 PROVE  s[i] \in I /\ s[i] \in 1 .. m /\ s[i] < m
      OBVIOUS
    <3>1. s[i] \in I \ {m} BY <2>1
    <3>2. s[i] \in 1 .. m BY <1>3, <3>1
    <3> QED BY <1>5, <3>1, <3>2
  <2>3. t \in [1 .. n + 1 -> I]
    BY <1>9, <2>2
  <2>4. Increasing(t)
    BY <1>2, <2>1, <2>2 DEF Increasing
  <2>5. ASSUME NEW k \in I PROVE \E i \in 1 .. n + 1 : t[i] = k
    <3>1. CASE k = m
      <4>1. n + 1 \in 1 .. n + 1 /\ t[n + 1] = k BY <3>1
      <4> QED BY <4>1
    <3>2. CASE k # m
      <4>1. PICK i \in 1 .. n : s[i] = k BY <2>1, <3>2
      <4>2. i \in 1 .. n + 1 /\ t[i] = k BY <4>1
      <4> QED BY <4>2
    <3> QED BY <3>1, <3>2
  <2>6. Enumerates(t, n + 1, I) /\ n + 1 \in Nat
    <3> HIDE DEF t
    <3> QED BY <2>3, <2>4, <2>5 DEF Enumerates
  <2> HIDE DEF t
  <2> QED BY <1>3, <2>6
<1> QED BY <1>8, <1>9

\* An enumeration is a bijection, and as long as the set is large.
LEMMA EnumerationCounts ==
  ASSUME NEW I \in SUBSET Nat, NEW n \in Nat, NEW s, Enumerates(s, n, I)
  PROVE  s \in Bijection(1 .. n, I) /\ Cardinality(I) = n
<1>1. /\ s \in [1 .. n -> I] /\ \A i, j \in 1 .. n : i < j => s[i] < s[j]
      /\ \A k \in I : \E i \in 1 .. n : s[i] = k
  BY DEF Enumerates, Increasing
<1>2. \A i, j \in 1 .. n : s[i] = s[j] => i = j
  <2> SUFFICES ASSUME NEW i \in 1 .. n, NEW j \in 1 .. n, s[i] = s[j], i # j PROVE FALSE
    OBVIOUS
  <2>1. s[i] \in Nat /\ s[j] \in Nat BY <1>1
  <2>2. i < j \/ j < i OBVIOUS
  <2> QED BY <1>1, <2>1, <2>2
<1>3. s \in Bijection(1 .. n, I)
  BY <1>1, <1>2 DEF Bijection, Injection, Surjection, IsInjective
<1> QED BY <1>3, FS_CountingElements DEF ExistsBijection

\* What Ordered returns.
LEMMA OrderedOK ==
  ASSUME NEW N \in Nat, NEW I \in SUBSET (1 .. N)
  PROVE  /\ Ordered(I) \in Seq(I)
         /\ Increasing(Ordered(I))
         /\ Range(Ordered(I)) = I
         /\ Len(Ordered(I)) = Cardinality(I)
<1>0. PICK n \in Nat : \E s : Enumerates(s, n, I)
  BY Enumerable
<1>1. PICK s : Enumerates(s, n, I)
  BY <1>0
<1>2. I \in SUBSET Nat
  OBVIOUS
<1>3. s \in Bijection(1 .. n, I) /\ Cardinality(I) = n
  BY <1>1, <1>2, EnumerationCounts
<1>4. \E t \in Bijection(1 .. Cardinality(I), I) : Increasing(t)
  BY <1>1, <1>3 DEF Enumerates
<1>5. Ordered(I) \in Bijection(1 .. n, I) /\ Increasing(Ordered(I))
  BY <1>3, <1>4 DEF Ordered, Increasing
<1>6. /\ Ordered(I) \in [1 .. n -> I]
      /\ \A k \in I : \E i \in 1 .. n : Ordered(I)[i] = k
  BY <1>5 DEF Bijection, Injection, Surjection
<1>7. Ordered(I) \in Seq(I) /\ Len(Ordered(I)) = n
  BY <1>6
<1>8. Range(Ordered(I)) = I
  BY <1>6 DEF Range
<1> QED BY <1>3, <1>5, <1>7, <1>8

\* What SortedByCount returns, of records none of which is there twice.
LEMMA SortedOK ==
  ASSUME NEW N \in Nat, NEW s \in Seq(1 .. N),
         \A i, j \in DOMAIN s : s[i] = s[j] => i = j
  PROVE  /\ SortedByCount(s) \in Seq(1 .. N)
         /\ Increasing(SortedByCount(s))
         /\ Range(SortedByCount(s)) = Range(s)
<1> DEFINE I == Range(s)
           o == Ordered(I)
           Sorts(p) == \A i, j \in DOMAIN s : i < j => s[p[i]] <= s[p[j]]
<1>1. /\ Len(s) \in Nat /\ DOMAIN s = 1 .. Len(s) /\ s \in [1 .. Len(s) -> 1 .. N]
      /\ I \in SUBSET (1 .. N) /\ s \in [1 .. Len(s) -> I]
      /\ \A k \in I : \E i \in 1 .. Len(s) : s[i] = k
  BY DEF Range
<1>2. Cardinality(I) = Len(s)
  <2>1. s \in Bijection(1 .. Len(s), I)
    <3> HIDE DEF I
    <3> QED BY <1>1 DEF Bijection, Injection, Surjection, IsInjective
  <2> HIDE DEF I
  <2> QED BY <1>1, <2>1, FS_CountingElements DEF ExistsBijection
<1>3. o \in Seq(I) /\ Increasing(o) /\ Range(o) = I /\ Len(o) = Len(s)
  <2> HIDE DEF I
  <2> QED BY <1>1, <1>2, OrderedOK
<1>4. /\ DOMAIN o = 1 .. Len(s) /\ \A i \in 1 .. Len(s) : o[i] \in I /\ o[i] \in Nat
      /\ \A k \in I : \E i \in 1 .. Len(s) : o[i] = k
  <2> HIDE DEF I
  <2>1. /\ DOMAIN o = 1 .. Len(s) /\ \A i \in 1 .. Len(s) : o[i] \in I
    BY <1>1, <1>3
  <2>2. \A k \in I : \E i \in 1 .. Len(s) : o[i] = k
    BY <1>3, <2>1 DEF Range
  <2>3. ASSUME NEW i \in 1 .. Len(s) PROVE o[i] \in Nat
    <3>1. o[i] \in 1 .. N BY <1>1, <2>1
    <3> QED BY <3>1
  <2> QED BY <2>1, <2>2, <2>3
<1> HIDE DEF I, o
<1>5. \E p \in Bijection(DOMAIN s, DOMAIN s) : Sorts(p)
  <2> DEFINE q == [i \in 1 .. Len(s) |-> CHOOSE j \in 1 .. Len(s) : s[j] = o[i]]
  <2>1. q \in [1 .. Len(s) -> 1 .. Len(s)] /\ \A i \in 1 .. Len(s) : s[q[i]] = o[i]
    BY <1>1, <1>4
  <2> HIDE DEF q
  <2>2. \A i, j \in 1 .. Len(s) : i < j => o[i] < o[j]
    BY <1>3, <1>4 DEF Increasing
  <2>3. Sorts(q)
    <3> SUFFICES ASSUME NEW i \in 1 .. Len(s), NEW j \in 1 .. Len(s), i < j
                 PROVE  s[q[i]] <= s[q[j]]
      BY <1>1
    <3> QED BY <1>4, <2>1, <2>2
  <2>4. ASSUME NEW i \in 1 .. Len(s), NEW j \in 1 .. Len(s), q[i] = q[j] PROVE i = j
    <3>1. o[i] = o[j] /\ o[i] \in Nat BY <1>4, <2>1, <2>4
    <3>2. i < j \/ j < i \/ i = j OBVIOUS
    <3> QED BY <2>2, <3>1, <3>2
  <2>5. ASSUME NEW k \in 1 .. Len(s) PROVE \E i \in 1 .. Len(s) : q[i] = k
    <3>1. PICK i \in 1 .. Len(s) : o[i] = s[k] BY <1>1, <1>4
    <3>2. s[q[i]] = s[k] /\ q[i] \in 1 .. Len(s) BY <2>1, <3>1
    <3> QED BY <1>1, <3>2
  <2>6. q \in Bijection(1 .. Len(s), 1 .. Len(s))
    BY <2>1, <2>4, <2>5 DEF Bijection, Injection, Surjection, IsInjective
  <2> QED BY <1>1, <2>3, <2>6
<1>6. PICK p \in Bijection(DOMAIN s, DOMAIN s) :
        Sorts(p) /\ SortedByCount(s) = [i \in DOMAIN s |-> s[p[i]]]
  <2> DEFINE r == CHOOSE p \in Bijection(DOMAIN s, DOMAIN s) : Sorts(p)
  <2>1. r \in Bijection(DOMAIN s, DOMAIN s) /\ Sorts(r)
    BY <1>5
  <2>2. SortedByCount(s) = [i \in DOMAIN s |-> s[r[i]]]
    BY DEF SortedByCount
  <2> HIDE DEF r
  <2> QED BY <2>1, <2>2
<1>7. /\ p \in [1 .. Len(s) -> 1 .. Len(s)]
      /\ \A i, j \in 1 .. Len(s) : p[i] = p[j] => i = j
      /\ \A k \in 1 .. Len(s) : \E i \in 1 .. Len(s) : p[i] = k
  BY <1>1, <1>6 DEF Bijection, Injection, Surjection, IsInjective
<1> DEFINE t == SortedByCount(s)
<1>8. t = [i \in 1 .. Len(s) |-> s[p[i]]]
  BY <1>1, <1>6
<1> HIDE DEF t
<1>9. t \in Seq(1 .. N) /\ DOMAIN t = 1 .. Len(s)
  <2>1. \A i \in 1 .. Len(s) : s[p[i]] \in 1 .. N
    BY <1>1, <1>7
  <2> QED BY <1>1, <1>8, <2>1
<1>10. Increasing(t)
  <2> SUFFICES ASSUME NEW i \in 1 .. Len(s), NEW j \in 1 .. Len(s), i < j PROVE t[i] < t[j]
    BY <1>9 DEF Increasing
  <2>1. s[p[i]] <= s[p[j]]
    BY <1>1, <1>6
  <2>2. p[i] # p[j] /\ p[i] \in 1 .. Len(s) /\ p[j] \in 1 .. Len(s)
    <3>1. i # j BY <1>1
    <3> QED BY <1>7, <3>1
  <2>3. s[p[i]] # s[p[j]] /\ s[p[i]] \in 1 .. N /\ s[p[j]] \in 1 .. N
    BY <1>1, <2>2
  <2> QED BY <1>8, <2>1, <2>3
<1>11. Range(t) = I
  <2>1. ASSUME NEW k \in Range(t) PROVE k \in I
    <3>1. PICK i \in 1 .. Len(s) : k = t[i] BY <1>9 DEF Range
    <3> QED BY <1>1, <1>7, <1>8, <3>1
  <2>2. ASSUME NEW k \in I PROVE k \in Range(t)
    <3>1. PICK j \in 1 .. Len(s) : s[j] = k BY <1>1
    <3>2. PICK i \in 1 .. Len(s) : p[i] = j BY <1>7
    <3>3. t[i] = k BY <1>8, <3>1, <3>2
    <3> QED BY <1>9, <3>3 DEF Range
  <2> QED BY <2>1, <2>2
<1> QED BY <1>9, <1>10, <1>11 DEF t, I

\* What is in a sequence is of the set it is a sequence of.
LEMMA RangeInSet ==
  ASSUME NEW S, NEW s \in Seq(S)
  PROVE  Range(s) \in SUBSET S
<1>1. DOMAIN s = 1 .. Len(s) /\ \A i \in 1 .. Len(s) : s[i] \in S
  OBVIOUS
<1> QED BY <1>1 DEF Range

LEMMA SeqWidens ==
  ASSUME NEW S, NEW T, S \subseteq T, NEW s \in Seq(S)
  PROVE  s \in Seq(T)
<1>1. Len(s) \in Nat /\ s \in [1 .. Len(s) -> S]
  OBVIOUS
<1>2. s \in [1 .. Len(s) -> T]
  BY <1>1
<1> QED BY <1>1, <1>2

\* Records in order are told apart by where they stand.
LEMMA IncreasingInjective ==
  ASSUME NEW n \in Nat, NEW s \in Seq(1 .. n), Increasing(s)
  PROVE  \A i, j \in 1 .. Len(s) : s[i] = s[j] => i = j
<1>1. DOMAIN s = 1 .. Len(s) /\ \A k \in 1 .. Len(s) : s[k] \in 1 .. n
  OBVIOUS
<1> SUFFICES ASSUME NEW i \in 1 .. Len(s), NEW j \in 1 .. Len(s), s[i] = s[j], i # j
             PROVE  FALSE
  OBVIOUS
<1>2. s[i] \in Int
  BY <1>1
<1>3. s[i] < s[j] \/ s[j] < s[i]
  <2>1. i < j \/ j < i OBVIOUS
  <2> QED BY <1>1, <2>1 DEF Increasing
<1> QED BY <1>2, <1>3

\* The first m positions in order are a history that lacks none.
LEMMA IncreasingFills ==
  ASSUME NEW m \in Nat, NEW s \in Seq(1 .. m), Increasing(s), 1 .. m \subseteq Range(s)
  PROVE  Len(s) = m /\ \A i \in DOMAIN s : s[i] = i
<1>1. /\ Len(s) \in Nat /\ DOMAIN s = 1 .. Len(s) /\ \A i \in 1 .. Len(s) : s[i] \in 1 .. m
      /\ \A i, j \in 1 .. Len(s) : i < j => s[i] < s[j]
  BY DEF Increasing
<1>0. \A k \in 1 .. m : \E i \in 1 .. Len(s) : s[i] = k
  BY <1>1 DEF Range
<1> DEFINE Off == {i \in 1 .. Len(s) : s[i] # i}
<1>2. ASSUME Off # {} PROVE FALSE
  <2>1. PICK i \in Off : \A j \in Off : i <= j
    <3>1. Off \in SUBSET Nat OBVIOUS
    <3> HIDE DEF Off
    <3> QED BY <1>2, <3>1, Least
  <2>2. i \in 1 .. Len(s) /\ s[i] # i /\ \A j \in 1 .. Len(s) : j < i => s[j] = j
    BY <1>1, <2>1
  <2> HIDE DEF Off
  <2>3. s[i] > i
    <3>1. CASE i = 1 BY <1>1, <2>2, <3>1
    <3>2. CASE i # 1
      <4>1. i - 1 \in 1 .. Len(s) /\ i - 1 < i BY <1>1, <2>2, <3>2
      <4>2. s[i - 1] = i - 1 /\ s[i - 1] < s[i] BY <1>1, <2>2, <4>1
      <4> QED BY <1>1, <2>2, <4>2
    <3> QED BY <3>1, <3>2
  <2>4. i \in 1 .. m
    BY <1>1, <2>2, <2>3
  <2>5. PICK j \in 1 .. Len(s) : s[j] = i
    BY <1>0, <2>4
  <2>6. j < i \/ j = i \/ i < j
    BY <1>1, <2>2
  <2> QED BY <1>1, <2>2, <2>3, <2>5, <2>6
<1>3. \A i \in 1 .. Len(s) : s[i] = i
  BY <1>2
<1>4. m <= Len(s)
  <2>1. CASE m = 0 BY <1>1, <2>1
  <2>2. CASE m # 0
    <3>1. PICK i \in 1 .. Len(s) : s[i] = m BY <1>0, <2>2
    <3> QED BY <1>1, <1>3, <3>1
  <2> QED BY <2>1, <2>2
<1>5. Len(s) <= m
  <2>1. CASE Len(s) = 0 BY <2>1
  <2>2. CASE Len(s) # 0
    <3>1. Len(s) \in 1 .. Len(s) BY <1>1, <2>2
    <3>2. s[Len(s)] = Len(s) /\ s[Len(s)] \in 1 .. m BY <1>1, <1>3, <3>1
    <3> QED BY <3>2
  <2> QED BY <2>1, <2>2
<1>6. Len(s) = m
  <2>1. Len(s) \in Nat BY <1>1
  <2> QED BY <1>4, <1>5, <2>1
<1> QED BY <1>1, <1>3, <1>6

-----------------------------------------------------------------------------
(* The records a gateway has, with a registry or without one.              *)

Stages == {"idle", "counted", "head", "registry", "horizon", "base", "verify",
           "accepted", "refused", "failed"}

\* Records of a history of n, in order and none twice.
Records(s, n) == s \in Seq(1 .. n) /\ Increasing(s)

\* What is held, of a history of n in the blocks up to h.
Entry(e, n, h) ==
  e # Nothing => Records(e.records, n) /\ e.completeTo \in 0 .. h

ChainOK ==
  /\ head \in Nat /\ indexedTo \in 0 .. head
  /\ recordedIn \in Seq(1 .. head) /\ Len(recordedIn) <= MaxRecords
  /\ \A i, j \in DOMAIN recordedIn : i < j => recordedIn[i] <= recordedIn[j]

CallsOK ==
  /\ pc \in [Calls -> Stages]
  /\ count \in [Calls -> 0 .. Len(recordedIn)]
  /\ to \in [Calls -> 0 .. head]
  /\ asked \in [Calls -> 0 .. indexedTo]
  /\ DOMAIN have = Calls /\ DOMAIN base = Calls /\ DOMAIN answer = Calls

RecordsOK ==
  /\ Entry(held, Len(recordedIn), head)
  /\ \A c \in Calls :
       /\ Entry(have[c], Len(recordedIn), head)
       /\ Entry(base[c], Len(recordedIn), head)
       /\ Records(answer[c], Len(recordedIn))

HistoryInv == ChainOK /\ CallsOK /\ RecordsOK

LEMMA EntriesKept ==
  ASSUME NEW n \in Nat, NEW m \in Nat, n <= m, NEW h \in Nat, NEW g \in Nat, h <= g
  PROVE  /\ \A s : Records(s, n) => Records(s, m)
         /\ \A e : Entry(e, n, h) => Entry(e, m, g)
<1>1. ASSUME NEW s, Records(s, n) PROVE Records(s, m)
  <2>1. Len(s) \in Nat /\ s \in [1 .. Len(s) -> 1 .. n] BY <1>1 DEF Records
  <2>2. s \in [1 .. Len(s) -> 1 .. m] BY <2>1
  <2>3. s \in Seq(1 .. m) BY <2>1, <2>2
  <2> QED BY <1>1, <2>3 DEF Records
<1>2. ASSUME NEW e, Entry(e, n, h) PROVE Entry(e, m, g)
  BY <1>1, <1>2 DEF Entry
<1> QED BY <1>1, <1>2

LEMMA NoRecords == ASSUME NEW n PROVE Records(<<>>, n)
  BY DEF Records, Increasing

LEMMA RecordsInOK ==
  ASSUME ChainOK, NEW from \in Int, NEW upTo \in Int
  PROVE  /\ Records(RecordsIn(from, upTo), Len(recordedIn))
         /\ Range(RecordsIn(from, upTo)) =
              {k \in DOMAIN recordedIn : recordedIn[k] \in from .. upTo}
<1> DEFINE n == Len(recordedIn)
           I == {k \in DOMAIN recordedIn : recordedIn[k] \in from .. upTo}
<1>1. n \in Nat /\ DOMAIN recordedIn = 1 .. n
  BY DEF ChainOK
<1>2. I \in SUBSET (1 .. n)
  BY <1>1
<1> HIDE DEF I
<1>3. Ordered(I) \in Seq(I) /\ Increasing(Ordered(I)) /\ Range(Ordered(I)) = I
  BY <1>1, <1>2, OrderedOK
<1>4. Ordered(I) \in Seq(1 .. n)
  BY <1>2, <1>3, SeqWidens
<1> QED BY <1>3, <1>4 DEF RecordsIn, Records, I

\* A scan adds what the blocks it reads hold, and nothing twice.
LEMMA ScannedOK ==
  ASSUME ChainOK, NEW e, Entry(e, Len(recordedIn), head), NEW upTo \in 0 .. head
  PROVE  LET known == IF e = Nothing THEN <<>> ELSE e.records
             scan == Scanned(e, upTo)
         IN  /\ Entry(scan, Len(recordedIn), head)
             /\ Records(scan.records, Len(recordedIn))
             /\ Range(scan.records) =
                  Range(known) \cup
                  {k \in DOMAIN recordedIn : recordedIn[k] \in ScanFrom(e) .. upTo}
<1> DEFINE n == Len(recordedIn)
           known == IF e = Nothing THEN <<>> ELSE e.records
           logs == RecordsIn(ScanFrom(e), upTo)
           new == NewRecords(known, logs)
           all == known \o new
<1>1. n \in Nat /\ head \in Nat /\ ScanFrom(e) \in Int /\ upTo \in Int
  BY DEF ChainOK, Entry, ScanFrom
<1>2. known \in Seq(1 .. n) /\ Increasing(known)
  BY NoRecords DEF Entry, Records
<1>3. /\ logs \in Seq(1 .. n)
      /\ Range(logs) = {k \in DOMAIN recordedIn : recordedIn[k] \in ScanFrom(e) .. upTo}
  <2> HIDE DEF n
  <2> QED BY <1>1, RecordsInOK DEF Records, n
<1> HIDE DEF n, known, logs
<1>4. /\ new \in Seq(1 .. n) /\ Increasing(new) /\ Range(new) = Range(logs) \ Range(known)
  <2> DEFINE I == Range(logs) \ Range(known)
  <2>1. I \in SUBSET (1 .. n)
    BY <1>3, RangeInSet
  <2> HIDE DEF I
  <2>2. Ordered(I) \in Seq(I) /\ Increasing(Ordered(I)) /\ Range(Ordered(I)) = I
    BY <1>1, <2>1, OrderedOK
  <2>3. Ordered(I) \in Seq(1 .. n)
    BY <2>1, <2>2, SeqWidens
  <2> QED BY <2>2, <2>3 DEF NewRecords, I
<1> HIDE DEF new
<1>5. /\ Len(known) \in Nat /\ Len(new) \in Nat
      /\ DOMAIN known = 1 .. Len(known) /\ DOMAIN new = 1 .. Len(new)
      /\ all \in Seq(1 .. n) /\ DOMAIN all = 1 .. Len(known) + Len(new)
      /\ \A i \in 1 .. Len(known) : all[i] = known[i]
      /\ \A i \in 1 .. Len(new) : all[Len(known) + i] = new[i]
  BY <1>2, <1>4
<1>6. \A i \in DOMAIN all : \/ i \in 1 .. Len(known) /\ all[i] = known[i]
                            \/ /\ i - Len(known) \in 1 .. Len(new)
                               /\ all[i] = new[i - Len(known)]
  BY <1>5
<1> HIDE DEF all
<1>7. Range(all) = Range(known) \cup Range(new)
  <2>1. ASSUME NEW k \in Range(all) PROVE k \in Range(known) \cup Range(new)
    BY <1>5, <1>6 DEF Range
  <2>2. ASSUME NEW k \in Range(known) PROVE k \in Range(all)
    <3>1. PICK i \in 1 .. Len(known) : known[i] = k BY <1>5 DEF Range
    <3>2. i \in DOMAIN all /\ all[i] = k BY <1>5, <3>1
    <3> QED BY <3>2 DEF Range
  <2>3. ASSUME NEW k \in Range(new) PROVE k \in Range(all)
    <3>1. PICK i \in 1 .. Len(new) : new[i] = k BY <1>5 DEF Range
    <3>2. Len(known) + i \in DOMAIN all /\ all[Len(known) + i] = k BY <1>5, <3>1
    <3> QED BY <3>2 DEF Range
  <2> QED BY <2>1, <2>2, <2>3
<1>8. ASSUME NEW i \in DOMAIN all, NEW j \in DOMAIN all, all[i] = all[j] PROVE i = j
  <2>1. \A a, b \in 1 .. Len(known) : known[a] = known[b] => a = b
    BY <1>1, <1>2, IncreasingInjective
  <2>2. \A a, b \in 1 .. Len(new) : new[a] = new[b] => a = b
    BY <1>1, <1>4, IncreasingInjective
  <2>3. \A a \in 1 .. Len(known), b \in 1 .. Len(new) : known[a] # new[b]
    <3> SUFFICES ASSUME NEW a \in 1 .. Len(known), NEW b \in 1 .. Len(new), known[a] = new[b]
                 PROVE  FALSE
      OBVIOUS
    <3>1. known[a] \in Range(known) /\ new[b] \in Range(new) BY <1>5 DEF Range
    <3> QED BY <1>4, <3>1
  <2>4. i \in Int /\ j \in Int /\ Len(known) \in Int
    BY <1>5
  <2>5. CASE i \in 1 .. Len(known) /\ j \in 1 .. Len(known)
    BY <1>5, <1>8, <2>1, <2>5
  <2>6. CASE i \notin 1 .. Len(known) /\ j \notin 1 .. Len(known)
    <3>1. i - Len(known) = j - Len(known) BY <1>6, <1>8, <2>2, <2>6
    <3> QED BY <2>4, <3>1
  <2>7. CASE i \in 1 .. Len(known) /\ j \notin 1 .. Len(known)
    BY <1>5, <1>6, <1>8, <2>3, <2>7
  <2>8. CASE i \notin 1 .. Len(known) /\ j \in 1 .. Len(known)
    BY <1>5, <1>6, <1>8, <2>3, <2>8
  <2> QED BY <2>5, <2>6, <2>7, <2>8
<1>9. /\ SortedByCount(all) \in Seq(1 .. n) /\ Increasing(SortedByCount(all))
      /\ Range(SortedByCount(all)) = Range(all)
  BY <1>1, <1>5, <1>8, SortedOK
<1>10. /\ Scanned(e, upTo).records = SortedByCount(all)
       /\ Scanned(e, upTo).completeTo =
            IF e = Nothing THEN upTo ELSE Later(upTo, e.completeTo)
  BY DEF Scanned, all, new, logs, known
<1>11. Scanned(e, upTo).completeTo \in 0 .. head
  BY <1>1, <1>10 DEF Entry, Later
<1>12. Range(known) \cup Range(new) =
         Range(known) \cup {k \in DOMAIN recordedIn : recordedIn[k] \in ScanFrom(e) .. upTo}
  BY <1>3, <1>4
<1> QED BY <1>7, <1>9, <1>10, <1>11, <1>12 DEF Entry, Records, known, n

-----------------------------------------------------------------------------
(* The invariant of a gateway with or without a registry.                  *)

LEMMA HistoryInitOK == HistoryInit => HistoryInv
<1> SUFFICES ASSUME HistoryInit PROVE HistoryInv
  OBVIOUS
<1>1. ChainOK
  BY HistoryAssumption DEF HistoryInit, ChainOK
<1>2. CallsOK
  BY DEF HistoryInit, CallsOK, Stages
<1>3. RecordsOK
  BY NoRecords DEF HistoryInit, RecordsOK, Entry
<1> QED BY <1>1, <1>2, <1>3 DEF HistoryInv

\* A step of a call changes what that call knows, and what is held.
CallMoves(c) ==
  /\ UNCHANGED chainVars /\ indexedTo' = indexedTo
  /\ CallsOK'
  /\ Entry(held', Len(recordedIn), head)
  /\ Entry(have'[c], Len(recordedIn), head)
  /\ Entry(base'[c], Len(recordedIn), head)
  /\ Records(answer'[c], Len(recordedIn))
  /\ \A d \in Calls \ {c} : have'[d] = have[d] /\ base'[d] = base[d] /\ answer'[d] = answer[d]

LEMMA CallMovesOK ==
  ASSUME HistoryInv, NEW c \in Calls, CallMoves(c)
  PROVE  HistoryInv'
<1>1. ChainOK'
  BY DEF HistoryInv, ChainOK, CallMoves, chainVars
<1>2. RecordsOK'
  <2>1. recordedIn' = recordedIn /\ head' = head
    BY DEF CallMoves, chainVars
  <2>2. ASSUME NEW d \in Calls
        PROVE  /\ Entry(have'[d], Len(recordedIn), head)
               /\ Entry(base'[d], Len(recordedIn), head)
               /\ Records(answer'[d], Len(recordedIn))
    <3>1. CASE d = c BY <3>1 DEF CallMoves
    <3>2. CASE d # c BY <3>2 DEF CallMoves, HistoryInv, RecordsOK
    <3> QED BY <3>1, <3>2
  <2>3. Entry(held', Len(recordedIn), head)
    BY DEF CallMoves
  <2> QED BY <2>1, <2>2, <2>3 DEF RecordsOK
<1> QED BY <1>1, <1>2 DEF HistoryInv, CallMoves

LEMMA HistoryStepMoves ==
  ASSUME HistoryInv, NEW c \in Calls, HistoryStep(c)
  PROVE  CallMoves(c)
<1>0. /\ CallsOK
      /\ Entry(held, Len(recordedIn), head)
      /\ \A d \in Calls :
           /\ Entry(have[d], Len(recordedIn), head)
           /\ Entry(base[d], Len(recordedIn), head)
           /\ Records(answer[d], Len(recordedIn))
      /\ Len(recordedIn) \in Nat /\ head \in Nat /\ indexedTo \in 0 .. head
  BY DEF HistoryInv, RecordsOK, ChainOK
<1>1. CASE ReadCount(c)
  BY <1>0, <1>1 DEF ReadCount, CallMoves, CallsOK, Stages, chainVars
<1>2. CASE AnswerFromHeld(c)
  <2>1. PICK s : Records(s, Len(recordedIn)) /\ Answer(c, s)
    <3>1. CASE Answer(c, <<>>) BY <3>1, NoRecords
    <3>2. CASE held # Nothing /\ Answer(c, held.records) BY <1>0, <3>2 DEF Entry
    <3> QED BY <1>2, <3>1, <3>2 DEF AnswerFromHeld
  <2>2. UNCHANGED <<chainVars, indexedTo, held, count, have, to, asked, base, quiet>>
    BY <1>2 DEF AnswerFromHeld
  <2> QED BY <1>0, <2>1, <2>2 DEF Answer, CallMoves, CallsOK, Stages, chainVars
<1>3. CASE MustCatchUp(c)
  BY <1>0, <1>3 DEF MustCatchUp, CallMoves, CallsOK, Stages, chainVars
<1>4. CASE ReadHead(c)
  BY <1>0, <1>4 DEF ReadHead, CallMoves, CallsOK, Stages, chainVars
<1>5. CASE RegistryReads(c)
  BY <1>0, <1>5 DEF RegistryReads, CallMoves, CallsOK, Stages, chainVars
<1>6. CASE RegistryAnswers(c)
  <2>1. /\ pc' = [pc EXCEPT ![c] = "base"]
        /\ UNCHANGED <<chainVars, indexedTo, held, count, have, to, asked, answer, quiet>>
    BY <1>6 DEF RegistryAnswers
  <2>2. /\ Entry(base'[c], Len(recordedIn), head) /\ DOMAIN base' = Calls
        /\ \A d \in Calls \ {c} : base'[d] = base[d]
    <3>1. CASE UNCHANGED base BY <1>0, <3>1 DEF CallsOK
    <3>2. CASE \E rowsTo, horizon \in {asked[c], indexedTo} :
                 base' = [base EXCEPT ![c] = [records |-> RecordsIn(0, rowsTo),
                                              completeTo |-> horizon]]
      <4>1. PICK rowsTo, horizon \in {asked[c], indexedTo} :
              base' = [base EXCEPT ![c] = [records |-> RecordsIn(0, rowsTo),
                                           completeTo |-> horizon]]
        BY <3>2
      <4>2. rowsTo \in Int /\ horizon \in 0 .. head
        BY <1>0 DEF CallsOK
      <4>3. Records(RecordsIn(0, rowsTo), Len(recordedIn))
        BY <4>2, RecordsInOK DEF HistoryInv
      <4> QED BY <1>0, <4>1, <4>2, <4>3 DEF Entry, CallsOK
    <3> QED BY <1>6, <3>1, <3>2 DEF RegistryAnswers
  <2> QED BY <1>0, <2>1, <2>2 DEF CallMoves, CallsOK, Stages, chainVars
<1>7. CASE AnswerFromBase(c)
  <2>1. /\ Records(base[c].records, Len(recordedIn)) /\ Answer(c, base[c].records)
        /\ held' = [records |-> base[c].records,
                    completeTo |-> Later(base[c].completeTo, to[c])]
        /\ base[c].completeTo \in 0 .. head /\ to[c] \in 0 .. head
        /\ UNCHANGED <<chainVars, indexedTo, count, have, to, asked, base, quiet>>
    BY <1>0, <1>7 DEF AnswerFromBase, BaseIsComplete, Entry, CallsOK
  <2>2. Entry(held', Len(recordedIn), head)
    BY <2>1 DEF Entry, Later
  <2> QED BY <1>0, <2>1, <2>2 DEF Answer, CallMoves, CallsOK, Stages, chainVars
<1>8. CASE AnswerFromScan(c)
  <2>1. /\ held' = Scanned(base[c], to[c]) /\ Answer(c, Scanned(base[c], to[c]).records)
        /\ to[c] \in 0 .. head
        /\ UNCHANGED <<chainVars, indexedTo, count, have, to, asked, base, quiet>>
    BY <1>0, <1>8 DEF AnswerFromScan, CallsOK
  <2>2. /\ Entry(Scanned(base[c], to[c]), Len(recordedIn), head)
        /\ Records(Scanned(base[c], to[c]).records, Len(recordedIn))
    BY <1>0, <2>1, ScannedOK DEF HistoryInv
  <2> QED BY <1>0, <2>1, <2>2 DEF Answer, CallMoves, CallsOK, Stages, chainVars
<1>9. CASE HistoryReadFails(c)
  BY <1>0, <1>9 DEF HistoryReadFails, CallMoves, CallsOK, Stages, chainVars
<1>10. CASE Verify(c)
  BY <1>0, <1>10 DEF Verify, CallMoves, CallsOK, Stages, chainVars
<1>11. CASE Finish(c)
  <2>1. Entry(Nothing, Len(recordedIn), head)
    BY DEF Entry
  <2> QED BY <1>0, <1>11, <2>1, NoRecords DEF Finish, End, CallMoves, CallsOK, Stages, chainVars
<1> QED BY <1>1, <1>2, <1>3, <1>4, <1>5, <1>6, <1>7, <1>8, <1>9, <1>10, <1>11 DEF HistoryStep

\* What a block leaves of the records there were.
LEMMA MineKeeps ==
  ASSUME ChainOK, Mine
  PROVE  /\ ChainOK' /\ head' = head + 1 /\ Len(recordedIn) <= Len(recordedIn')
         /\ \A k \in DOMAIN recordedIn : k \in DOMAIN recordedIn' /\ recordedIn'[k] = recordedIn[k]
         /\ \A k \in DOMAIN recordedIn' : k \notin DOMAIN recordedIn => recordedIn'[k] = head + 1
<1>1. /\ head \in Nat /\ indexedTo \in 0 .. head /\ Len(recordedIn) \in Nat
      /\ DOMAIN recordedIn = 1 .. Len(recordedIn) /\ Len(recordedIn) <= MaxRecords
      /\ \A i \in 1 .. Len(recordedIn) : recordedIn[i] \in 1 .. head
      /\ recordedIn \in Seq(1 .. head)
      /\ \A i, j \in 1 .. Len(recordedIn) : i < j => recordedIn[i] <= recordedIn[j]
  BY DEF ChainOK
<1>2. head' = head + 1 /\ indexedTo' = indexedTo
  BY DEF Mine
<1>3. CASE recordedIn' = recordedIn
  <2>1. recordedIn \in Seq(1 .. head + 1)
    <3>1. 1 .. head \subseteq 1 .. head + 1 BY <1>1
    <3> QED BY <1>1, <3>1, SeqWidens
  <2> QED BY <1>1, <1>2, <1>3, <2>1 DEF ChainOK
<1>4. CASE \E n \in Len(recordedIn) + 1 .. MaxRecords :
             recordedIn' = [k \in 1 .. n |->
                              IF k <= Len(recordedIn) THEN recordedIn[k] ELSE head + 1]
  <2>1. PICK n \in Len(recordedIn) + 1 .. MaxRecords :
          recordedIn' = [k \in 1 .. n |->
                           IF k <= Len(recordedIn) THEN recordedIn[k] ELSE head + 1]
    BY <1>4
  <2>2. n \in Nat /\ n > Len(recordedIn) /\ n <= MaxRecords /\ MaxRecords \in Nat
    BY <1>1, HistoryAssumption
  <2>3. recordedIn' \in Seq(1 .. head + 1) /\ Len(recordedIn') = n /\ DOMAIN recordedIn' = 1 .. n
    BY <1>1, <2>1, <2>2
  <2>4. /\ \A k \in 1 .. Len(recordedIn) : k \in 1 .. n /\ recordedIn'[k] = recordedIn[k]
        /\ \A k \in 1 .. n : k \notin 1 .. Len(recordedIn) => recordedIn'[k] = head + 1
    BY <1>1, <2>1, <2>2
  <2>5. ASSUME NEW i \in 1 .. n, NEW j \in 1 .. n, i < j
        PROVE  recordedIn'[i] <= recordedIn'[j]
    <3>1. CASE j \in 1 .. Len(recordedIn)
      <4>1. i \in 1 .. Len(recordedIn) BY <1>1, <2>5, <3>1
      <4> QED BY <1>1, <2>4, <2>5, <3>1, <4>1
    <3>2. CASE j \notin 1 .. Len(recordedIn)
      BY <1>1, <2>4, <3>2, SMTT(30)
    <3> QED BY <3>1, <3>2
  <2>6. ChainOK'
    BY <1>1, <1>2, <2>2, <2>3, <2>5 DEF ChainOK
  <2> QED BY <1>1, <1>2, <2>2, <2>3, <2>4, <2>6
<1> QED BY <1>3, <1>4 DEF Mine

LEMMA HistoryNextOK ==
  ASSUME HistoryInv, [HistoryNext]_historyVars
  PROVE  HistoryInv'
<1>1. CASE \E c \in Calls : HistoryStep(c)
  BY <1>1, HistoryStepMoves, CallMovesOK
<1>2. CASE Restart
  <2>1. ChainOK' /\ UNCHANGED <<chainVars, indexedTo>>
    BY <1>2 DEF Restart, chainVars, HistoryInv, ChainOK
  <2>2. CallsOK'
    BY <1>2, <2>1 DEF Restart, End, chainVars, HistoryInv, ChainOK, CallsOK, Stages
  <2>3. RecordsOK'
    BY <1>2, NoRecords DEF Restart, End, RecordsOK, Entry
  <2> QED BY <2>1, <2>2, <2>3 DEF HistoryInv
<1>3. CASE Mine
  <2>1. /\ ChainOK' /\ head' = head + 1 /\ Len(recordedIn) <= Len(recordedIn')
        /\ head \in Nat /\ Len(recordedIn) \in Nat /\ Len(recordedIn') \in Nat
    BY <1>3, MineKeeps DEF HistoryInv, ChainOK
  <2>2. UNCHANGED <<indexedTo, held, callVars>>
    BY <1>3 DEF Mine
  <2>3. CallsOK'
    BY <2>1, <2>2 DEF callVars, HistoryInv, CallsOK
  <2>4. /\ \A s : Records(s, Len(recordedIn)) => Records(s, Len(recordedIn'))
        /\ \A e : Entry(e, Len(recordedIn), head) => Entry(e, Len(recordedIn'), head')
    BY <2>1, EntriesKept
  <2>5. RecordsOK'
    BY <2>2, <2>4 DEF callVars, HistoryInv, RecordsOK
  <2> QED BY <2>1, <2>3, <2>5 DEF HistoryInv
<1>4. CASE Index
  <2>1. UNCHANGED <<chainVars, held, callVars>> /\ indexedTo' = indexedTo + 1 /\ indexedTo < head
    BY <1>4 DEF Index
  <2>2. ChainOK'
    BY <2>1 DEF chainVars, HistoryInv, ChainOK
  <2>3. CallsOK'
    BY <2>1 DEF chainVars, callVars, HistoryInv, ChainOK, CallsOK
  <2>4. RecordsOK'
    BY <2>1 DEF chainVars, callVars, HistoryInv, RecordsOK
  <2> QED BY <2>2, <2>3, <2>4 DEF HistoryInv
<1>5. CASE UNCHANGED historyVars
  BY <1>5 DEF historyVars, chainVars, callVars, HistoryInv, ChainOK, CallsOK, RecordsOK
<1> QED BY <1>1, <1>2, <1>3, <1>4, <1>5 DEF HistoryNext

\* No history that is returned carries a record twice, or out of order, whatever
\* the registry's rows and its horizon were.
THEOREM RecordsOnce == HistorySpec => []NoRecordTwice
<1>1. HistoryInv => NoRecordTwice
  BY DEF HistoryInv, RecordsOK, Records, Increasing, NoRecordTwice
<1> QED BY <1>1, HistoryInitOK, HistoryNextOK, PTL DEF HistorySpec

-----------------------------------------------------------------------------
(* A gateway that reads the chain alone.                                   *)

\* The history up to some record, and none left out.
Prefix(s) == \A i \in DOMAIN s : s[i] = i

\* What is held is the history up to the block it is complete to.
Complete(e, blocks) ==
  e # Nothing =>
    /\ Prefix(e.records)
    /\ \A k \in DOMAIN blocks : blocks[k] <= e.completeTo <=> k <= Len(e.records)

\* What a call knows that reads the chain alone.
Alone(c) ==
  /\ Complete(have[c], recordedIn)
  /\ pc[c] \notin {"registry", "horizon"}
  /\ pc[c] \in {"head", "base"} /\ have[c] # Nothing => Len(have[c].records) # count[c]
  /\ pc[c] = "base" =>
       /\ base[c] = have[c]
       /\ \A k \in DOMAIN recordedIn : k <= count[c] => recordedIn[k] <= to[c]
  /\ pc[c] \in {"counted", "head", "base"} /\ quiet[c] => count[c] = Len(recordedIn)
  /\ pc[c] = "verify" /\ quiet[c] => Prefix(answer[c]) /\ Len(answer[c]) = Len(recordedIn)
  /\ pc[c] = "refused" => ~quiet[c] \/ Len(recordedIn) > MaxHistory

AloneInv == hasRegistry \/ (Complete(held, recordedIn) /\ \A c \in Calls : Alone(c))

CompleteInv == HistoryInv /\ AloneInv

\* The records up to a block are the first of the history.
LEMMA RecordsUpTo ==
  ASSUME ChainOK, NEW b \in Int
  PROVE  \E m \in 0 .. Len(recordedIn) :
           {k \in DOMAIN recordedIn : recordedIn[k] <= b} = 1 .. m
<1> DEFINE n == Len(recordedIn)
           T == {k \in 1 .. n + 1 : k = n + 1 \/ recordedIn[k] > b}
<1>1. /\ n \in Nat /\ DOMAIN recordedIn = 1 .. n /\ \A k \in 1 .. n : recordedIn[k] \in Int
      /\ \A i, j \in 1 .. n : i < j => recordedIn[i] <= recordedIn[j]
  BY DEF ChainOK
<1> HIDE DEF n
<1>2. PICK x \in T : \A y \in T : x <= y
  <2>1. T \in SUBSET Nat /\ n + 1 \in T
    BY <1>1
  <2> HIDE DEF T
  <2> QED BY <2>1, Least
<1>3. x \in 1 .. n + 1 /\ (x = n + 1 \/ recordedIn[x] > b)
  BY <1>2
<1>4. ASSUME NEW k \in 1 .. n PROVE recordedIn[k] <= b <=> k <= x - 1
  <2>1. CASE k < x
    <3>1. k \notin T BY <1>1, <1>2, <1>3, <2>1
    <3> QED BY <1>1, <1>3, <2>1, <3>1
  <2>2. CASE ~(k < x)
    <3>1. x \in 1 .. n /\ recordedIn[x] > b BY <1>1, <1>3, <2>2
    <3>2. recordedIn[x] <= recordedIn[k] BY <1>1, <2>2, <3>1
    <3> QED BY <1>1, <2>2, <3>1, <3>2
  <2> QED BY <2>1, <2>2
<1> HIDE DEF T
<1>5. x - 1 \in 0 .. n /\ {k \in 1 .. n : recordedIn[k] <= b} = 1 .. x - 1
  BY <1>1, <1>3, <1>4
<1> QED BY <1>1, <1>5 DEF n

\* A history up to a block, and what a scan adds from there, is the history up
\* to the block of the scan.
LEMMA ScanCompletes ==
  ASSUME ChainOK, NEW e, Entry(e, Len(recordedIn), head), Complete(e, recordedIn),
         NEW upTo \in 0 .. head
  PROVE  LET scan == Scanned(e, upTo)
         IN  /\ Prefix(scan.records)
             /\ upTo <= scan.completeTo
             /\ \A k \in DOMAIN recordedIn :
                  recordedIn[k] <= scan.completeTo <=> k <= Len(scan.records)
<1> DEFINE scan == Scanned(e, upTo)
           known == IF e = Nothing THEN <<>> ELSE e.records
           last == scan.completeTo
           new == {k \in DOMAIN recordedIn : recordedIn[k] \in ScanFrom(e) .. upTo}
<1>1. /\ DOMAIN recordedIn = 1 .. Len(recordedIn) /\ Len(recordedIn) \in Nat /\ head \in Nat
      /\ \A k \in DOMAIN recordedIn : recordedIn[k] \in 1 .. head
  BY DEF ChainOK
<1>2. Records(scan.records, Len(recordedIn)) /\ Range(scan.records) = Range(known) \cup new
  BY ScannedOK
<1>3. last = IF e = Nothing THEN upTo ELSE Later(upTo, e.completeTo)
  BY DEF Scanned
<1>4. last \in Int /\ upTo <= last
  BY <1>1, <1>3 DEF Later, Entry
<1>5. Range(known) = IF e = Nothing THEN {}
                     ELSE {k \in DOMAIN recordedIn : recordedIn[k] <= e.completeTo}
  <2>1. CASE e = Nothing
    BY <2>1 DEF Range
  <2>2. CASE e # Nothing
    <3>1. /\ known = e.records /\ Len(known) \in Nat /\ DOMAIN known = 1 .. Len(known)
          /\ \A i \in 1 .. Len(known) : known[i] = i /\ known[i] \in 1 .. Len(recordedIn)
      BY <2>2 DEF Complete, Entry, Records, Prefix
    <3> HIDE DEF known
    <3>2. Range(known) = 1 .. Len(known) /\ 1 .. Len(known) \subseteq 1 .. Len(recordedIn)
      BY <3>1 DEF Range
    <3>3. \A k \in DOMAIN recordedIn : recordedIn[k] <= e.completeTo <=> k <= Len(known)
      BY <2>2, <3>1 DEF Complete
    <3>4. {k \in DOMAIN recordedIn : recordedIn[k] <= e.completeTo} = 1 .. Len(known)
      BY <1>1, <3>1, <3>2, <3>3
    <3> QED BY <2>2, <3>2, <3>4
  <2> QED BY <2>1, <2>2
<1>6. Range(known) \cup new = {k \in DOMAIN recordedIn : recordedIn[k] <= last}
  <2> HIDE DEF known, last, scan
  <2>1. CASE e = Nothing
    <3>1. \A k \in DOMAIN recordedIn : recordedIn[k] \in ScanFrom(e) .. upTo <=> recordedIn[k] <= last
      BY <1>1, <1>3, <2>1 DEF ScanFrom
    <3> QED BY <1>5, <2>1, <3>1
  <2>2. CASE e # Nothing
    <3>1. e.completeTo \in 0 .. head BY <2>2 DEF Entry
    <3>2. \A k \in DOMAIN recordedIn :
            recordedIn[k] <= last <=>
              recordedIn[k] <= e.completeTo \/ recordedIn[k] \in ScanFrom(e) .. upTo
      BY <1>1, <1>3, <2>2, <3>1 DEF ScanFrom, Later
    <3> QED BY <1>5, <2>2, <3>2
  <2> QED BY <2>1, <2>2
<1>7. PICK m \in 0 .. Len(recordedIn) : {k \in DOMAIN recordedIn : recordedIn[k] <= last} = 1 .. m
  BY <1>4, RecordsUpTo
<1> HIDE DEF scan, known, last, new
<1>8. scan.records \in Seq(1 .. m)
  <2>1. Range(scan.records) = 1 .. m /\ scan.records \in Seq(1 .. Len(recordedIn))
    BY <1>2, <1>6, <1>7 DEF Records
  <2>2. Len(scan.records) \in Nat /\ DOMAIN scan.records = 1 .. Len(scan.records)
        /\ scan.records = [i \in 1 .. Len(scan.records) |-> scan.records[i]]
    BY <2>1
  <2>3. \A i \in 1 .. Len(scan.records) : scan.records[i] \in 1 .. m
    BY <2>1, <2>2 DEF Range
  <2> QED BY <2>2, <2>3
<1>9. Len(scan.records) = m /\ Prefix(scan.records)
  <2>1. m \in Nat /\ Increasing(scan.records) /\ 1 .. m \subseteq Range(scan.records)
    BY <1>1, <1>2, <1>6, <1>7 DEF Records
  <2> QED BY <1>8, <2>1, IncreasingFills DEF Prefix
<1>10. \A k \in DOMAIN recordedIn : recordedIn[k] <= last <=> k <= m
  BY <1>1, <1>7
<1> QED BY <1>4, <1>9, <1>10 DEF scan, last

\* What is held stays complete when the history grows, for a block that comes is
\* after every block that was read.
LEMMA CompleteKept ==
  ASSUME ChainOK, Mine, NEW e, Entry(e, Len(recordedIn), head), Complete(e, recordedIn)
  PROVE  Complete(e, recordedIn')
<1> SUFFICES ASSUME e # Nothing, NEW k \in DOMAIN recordedIn'
             PROVE  recordedIn'[k] <= e.completeTo <=> k <= Len(e.records)
  BY DEF Complete
<1>1. /\ e.completeTo \in 0 .. head /\ e.records \in Seq(1 .. Len(recordedIn))
      /\ Prefix(e.records) /\ head \in Nat /\ Len(recordedIn) \in Nat
      /\ DOMAIN recordedIn = 1 .. Len(recordedIn)
  BY DEF Entry, Records, Complete, ChainOK
<1>2. Len(e.records) <= Len(recordedIn)
  <2>1. CASE Len(e.records) = 0 BY <1>1, <2>1
  <2>2. CASE Len(e.records) # 0
    <3>1. /\ Len(e.records) \in Nat /\ Len(e.records) \in DOMAIN e.records
          /\ e.records[Len(e.records)] \in 1 .. Len(recordedIn)
      BY <1>1, <2>2
    <3> QED BY <1>1, <3>1 DEF Prefix
  <2> QED BY <2>1, <2>2
<1>3. /\ k \in DOMAIN recordedIn => recordedIn'[k] = recordedIn[k]
      /\ k \notin DOMAIN recordedIn => recordedIn'[k] = head + 1
      /\ k \in Nat /\ k >= 1
  <2>1. DOMAIN recordedIn' \subseteq Nat \ {0}
    BY MineKeeps DEF ChainOK
  <2> QED BY <2>1, MineKeeps
<1>4. CASE k \in DOMAIN recordedIn
  BY <1>3, <1>4 DEF Complete
<1>5. CASE k \notin DOMAIN recordedIn
  <2>1. k > Len(recordedIn) BY <1>1, <1>3, <1>5
  <2>2. Len(e.records) \in Nat BY <1>1
  <2> QED BY <1>1, <1>2, <1>3, <1>5, <2>1, <2>2
<1> QED BY <1>4, <1>5

\* A step of a call leaves the others as they are.
LEMMA OthersKept ==
  ASSUME CallsOK, NEW c \in Calls, HistoryStep(c), NEW d \in Calls \ {c}
  PROVE  /\ pc'[d] = pc[d] /\ count'[d] = count[d] /\ have'[d] = have[d] /\ to'[d] = to[d]
         /\ base'[d] = base[d] /\ answer'[d] = answer[d]
         /\ (quiet'[d] <=> quiet[d])
         /\ UNCHANGED recordedIn
<1>0. /\ DOMAIN pc = Calls /\ DOMAIN count = Calls /\ DOMAIN have = Calls /\ DOMAIN to = Calls
      /\ DOMAIN base = Calls /\ DOMAIN answer = Calls
  BY DEF CallsOK
<1>1. CASE ReadCount(c) BY <1>0, <1>1 DEF ReadCount, chainVars
<1>2. CASE AnswerFromHeld(c) BY <1>0, <1>2 DEF AnswerFromHeld, Answer, chainVars
<1>3. CASE MustCatchUp(c) BY <1>0, <1>3 DEF MustCatchUp, chainVars
<1>4. CASE ReadHead(c) BY <1>0, <1>4 DEF ReadHead, chainVars
<1>5. CASE RegistryReads(c) BY <1>0, <1>5 DEF RegistryReads, chainVars
<1>6. CASE RegistryAnswers(c) BY <1>0, <1>6 DEF RegistryAnswers, chainVars
<1>7. CASE AnswerFromBase(c) BY <1>0, <1>7 DEF AnswerFromBase, Answer, chainVars
<1>8. CASE AnswerFromScan(c) BY <1>0, <1>8 DEF AnswerFromScan, Answer, chainVars
<1>9. CASE HistoryReadFails(c) BY <1>0, <1>9 DEF HistoryReadFails, chainVars
<1>10. CASE Verify(c) BY <1>0, <1>10 DEF Verify, chainVars
<1>11. CASE Finish(c) BY <1>0, <1>11 DEF Finish, End, chainVars
<1> QED BY <1>1, <1>2, <1>3, <1>4, <1>5, <1>6, <1>7, <1>8, <1>9, <1>10, <1>11 DEF HistoryStep

LEMMA AloneStep ==
  ASSUME HistoryInv, ~hasRegistry, Complete(held, recordedIn), NEW c \in Calls, Alone(c),
         HistoryStep(c)
  PROVE  Complete(held', recordedIn) /\ Alone(c)'
<1>0. /\ DOMAIN pc = Calls /\ DOMAIN count = Calls /\ DOMAIN have = Calls /\ DOMAIN to = Calls
      /\ DOMAIN base = Calls /\ DOMAIN answer = Calls
      /\ Len(recordedIn) \in Nat /\ DOMAIN recordedIn = 1 .. Len(recordedIn)
      /\ count[c] \in 0 .. Len(recordedIn) /\ to[c] \in 0 .. head
      /\ \A k \in DOMAIN recordedIn : recordedIn[k] \in 1 .. head
      /\ ChainOK /\ head \in Nat
  BY DEF HistoryInv, ChainOK, CallsOK
<1>1. CASE ReadCount(c)
  BY <1>0, <1>1 DEF ReadCount, Alone, chainVars
<1>2. CASE AnswerFromHeld(c)
  <2>1. /\ UNCHANGED <<recordedIn, held, have, quiet>> /\ pc[c] = "counted"
        /\ pc' = [pc EXCEPT ![c] = "verify"]
    BY <1>2 DEF AnswerFromHeld, Answer, chainVars
  <2>2. Prefix(answer'[c]) /\ Len(answer'[c]) = count[c]
    <3>1. CASE count[c] = 0 /\ Answer(c, <<>>)
      BY <1>0, <3>1 DEF Answer, Prefix
    <3>2. CASE held # Nothing /\ Len(held.records) = count[c] /\ Answer(c, held.records)
      BY <1>0, <3>2 DEF Answer, Complete
    <3> QED BY <1>2, <3>1, <3>2 DEF AnswerFromHeld
  <2>3. quiet[c] => count[c] = Len(recordedIn)
    BY <2>1 DEF Alone
  <2>4. pc'[c] = "verify" /\ have'[c] = have[c] /\ recordedIn' = recordedIn
        /\ (quiet'[c] <=> quiet[c])
    BY <1>0, <2>1
  <2> QED BY <2>1, <2>2, <2>3, <2>4 DEF Alone
<1>3. CASE MustCatchUp(c)
  <2>1. /\ UNCHANGED <<recordedIn, held, quiet, count>> /\ pc[c] = "counted"
        /\ pc'[c] = "head" /\ have'[c] = held
        /\ held # Nothing => Len(held.records) # count[c]
    BY <1>0, <1>3 DEF MustCatchUp, chainVars
  <2> QED BY <2>1 DEF Alone
<1>4. CASE ReadHead(c)
  <2>1. /\ UNCHANGED <<recordedIn, held, quiet, count, have>> /\ pc[c] = "head"
        /\ pc'[c] = "base" /\ base'[c] = have[c] /\ to'[c] = head
    BY <1>0, <1>4 DEF ReadHead, AsksRegistry, chainVars
  <2>2. \A k \in DOMAIN recordedIn : recordedIn[k] <= to'[c]
    BY <1>0, <2>1
  <2> QED BY <2>1, <2>2 DEF Alone
<1>5. ~RegistryReads(c) /\ ~RegistryAnswers(c)
  BY DEF Alone, RegistryReads, RegistryAnswers
<1>6. ~AnswerFromBase(c)
  BY DEF Alone, AnswerFromBase, BaseIsComplete
<1>7. CASE AnswerFromScan(c)
  <2>1. /\ UNCHANGED <<recordedIn, quiet, count, have>> /\ pc[c] = "base"
        /\ pc'[c] = "verify" /\ held' = Scanned(base[c], to[c])
        /\ answer'[c] = Scanned(base[c], to[c]).records
    BY <1>0, <1>7 DEF AnswerFromScan, Answer, chainVars
  <2>2. /\ base[c] = have[c]
        /\ quiet[c] => count[c] = Len(recordedIn)
        /\ \A k \in DOMAIN recordedIn : k <= count[c] => recordedIn[k] <= to[c]
        /\ Complete(base[c], recordedIn)
    BY <2>1 DEF Alone
  <2>3. Entry(base[c], Len(recordedIn), head)
    BY DEF HistoryInv, RecordsOK
  <2> DEFINE scan == Scanned(base[c], to[c])
  <2>4. /\ Prefix(scan.records) /\ to[c] <= scan.completeTo
        /\ \A k \in DOMAIN recordedIn :
             recordedIn[k] <= scan.completeTo <=> k <= Len(scan.records)
    BY <1>0, <2>2, <2>3, ScanCompletes
  <2>5. /\ scan.records \in Seq(1 .. Len(recordedIn)) /\ Len(scan.records) \in Nat
        /\ scan.completeTo \in Int
    <3>1. scan.records \in Seq(1 .. Len(recordedIn))
      BY <1>0, <2>3, ScannedOK DEF Records
    <3>2. scan.completeTo \in Int
      BY <1>0, <2>3 DEF Scanned, Entry, Later
    <3> QED BY <3>1, <3>2
  <2> HIDE DEF scan
  <2>6. quiet[c] => Len(scan.records) = Len(recordedIn)
    <3> SUFFICES ASSUME quiet[c] PROVE Len(scan.records) = Len(recordedIn)
      OBVIOUS
    <3>1. CASE Len(recordedIn) = 0
      <4>1. Len(scan.records) # 0 => scan.records[1] \in 1 .. 0
        BY <2>5, <3>1
      <4> QED BY <3>1, <4>1
    <3>2. CASE Len(recordedIn) # 0
      <4>1. Len(recordedIn) \in DOMAIN recordedIn
        BY <1>0, <3>2
      <4>2. recordedIn[Len(recordedIn)] <= to[c]
        <5>1. count[c] = Len(recordedIn) BY <2>2
        <5> QED BY <1>0, <2>2, <4>1, <5>1
      <4>3. recordedIn[Len(recordedIn)] <= scan.completeTo
        BY <1>0, <2>4, <2>5, <4>1, <4>2
      <4>4. Len(recordedIn) <= Len(scan.records)
        BY <2>4, <4>1, <4>3
      <4>5. /\ Len(scan.records) \in DOMAIN scan.records
            /\ scan.records[Len(scan.records)] \in 1 .. Len(recordedIn)
        BY <1>0, <2>5, <3>2, <4>4
      <4>6. Len(scan.records) <= Len(recordedIn)
        BY <1>0, <2>4, <4>5 DEF Prefix
      <4> QED BY <1>0, <2>5, <4>4, <4>6
    <3> QED BY <3>1, <3>2
  <2>7. Complete(held', recordedIn)
    BY <2>1, <2>4 DEF Complete, scan
  <2>8. answer'[c] = scan.records
    BY <2>1 DEF scan
  <2> QED BY <2>1, <2>4, <2>6, <2>7, <2>8 DEF Alone
<1>8. CASE HistoryReadFails(c)
  BY <1>0, <1>8 DEF HistoryReadFails, Alone, chainVars
<1>9. CASE Verify(c)
  <2>1. /\ UNCHANGED <<recordedIn, held, have, quiet>> /\ pc[c] = "verify"
        /\ pc'[c] = IF Folds(answer[c]) THEN "accepted" ELSE "refused"
    BY <1>0, <1>9 DEF Verify, chainVars
  <2>2. quiet[c] => Prefix(answer[c]) /\ Len(answer[c]) = Len(recordedIn)
    BY <2>1 DEF Alone
  <2>3. pc'[c] = "refused" => ~quiet[c] \/ Len(recordedIn) > MaxHistory
    <3>1. MaxHistory \in Nat BY HistoryAssumption
    <3> QED BY <1>0, <2>1, <2>2, <3>1 DEF Folds, Prefix
  <2> QED BY <2>1, <2>3 DEF Alone
<1>10. CASE Finish(c)
  BY <1>0, <1>10 DEF Finish, End, Alone, Complete, chainVars
<1> QED BY <1>1, <1>2, <1>3, <1>4, <1>5, <1>6, <1>7, <1>8, <1>9, <1>10 DEF HistoryStep

LEMMA AloneNext ==
  ASSUME CompleteInv, [HistoryNext]_historyVars
  PROVE  AloneInv'
<1>0. hasRegistry' = hasRegistry
  BY DEF HistoryNext, historyVars
<1>1. SUFFICES ASSUME ~hasRegistry
               PROVE  Complete(held', recordedIn') /\ \A d \in Calls : Alone(d)'
  BY <1>0 DEF AloneInv
<1>2. /\ HistoryInv /\ ChainOK /\ CallsOK /\ Complete(held, recordedIn)
      /\ \A d \in Calls : Alone(d)
  BY <1>1 DEF CompleteInv, AloneInv, HistoryInv
<1>3. ASSUME NEW c \in Calls, HistoryStep(c)
      PROVE  Complete(held', recordedIn') /\ \A d \in Calls : Alone(d)'
  <2>1. Complete(held', recordedIn) /\ Alone(c)'
    BY <1>1, <1>2, <1>3, AloneStep
  <2>2. ASSUME NEW d \in Calls \ {c} PROVE Alone(d)'
    BY <1>2, <1>3, <2>2, OthersKept DEF Alone
  <2>3. recordedIn' = recordedIn
    BY <1>3 DEF HistoryStep, ReadCount, AnswerFromHeld, MustCatchUp, ReadHead, RegistryReads,
                RegistryAnswers, AnswerFromBase, AnswerFromScan, HistoryReadFails, Verify, Finish,
                chainVars
  <2> QED BY <2>1, <2>2, <2>3
<1>4. CASE Restart
  BY <1>4 DEF Restart, End, Complete, Alone, chainVars
<1>5. CASE Mine
  <2>1. UNCHANGED <<held, callVars>>
    BY <1>5 DEF Mine
  <2>2. Complete(held', recordedIn')
    BY <1>2, <1>5, <2>1, CompleteKept DEF HistoryInv, RecordsOK
  <2>3. ASSUME NEW d \in Calls PROVE Alone(d)'
    <3>1. Complete(have[d], recordedIn')
      BY <1>2, <1>5, CompleteKept DEF HistoryInv, RecordsOK, Alone
    <3>2. /\ pc' = pc /\ count' = count /\ have' = have /\ to' = to /\ base' = base
          /\ answer' = answer
      BY <2>1 DEF callVars
    <3>3. CASE UNCHANGED <<recordedIn, quiet>>
      BY <1>2, <3>1, <3>2, <3>3 DEF Alone
    <3>4. CASE quiet' = [c \in Calls |-> pc[c] = "idle"]
      <4>1. quiet'[d] => pc[d] = "idle"
        BY <3>4
      <4>2. \A k \in DOMAIN recordedIn' :
              k <= count[d] => k \in DOMAIN recordedIn /\ recordedIn'[k] = recordedIn[k]
        <5>1. /\ count[d] \in 0 .. Len(recordedIn) /\ DOMAIN recordedIn = 1 .. Len(recordedIn)
              /\ Len(recordedIn) \in Nat
          BY <1>2 DEF CallsOK, ChainOK
        <5>2. DOMAIN recordedIn' \subseteq Nat \ {0}
          BY <1>2, <1>5, MineKeeps DEF ChainOK
        <5>3. \A k \in DOMAIN recordedIn : recordedIn'[k] = recordedIn[k]
          BY <1>2, <1>5, MineKeeps
        <5> QED BY <5>1, <5>2, <5>3
      <4> QED BY <1>2, <3>1, <3>2, <4>1, <4>2 DEF Alone
    <3> QED BY <1>5, <3>3, <3>4 DEF Mine
  <2> QED BY <2>2, <2>3
<1>6. CASE Index
  BY <1>2, <1>6 DEF Index, Alone, chainVars, callVars
<1>7. CASE UNCHANGED historyVars
  BY <1>2, <1>7 DEF Alone, historyVars, chainVars, callVars
<1> QED BY <1>3, <1>4, <1>5, <1>6, <1>7 DEF HistoryNext

LEMMA CompleteInit == HistoryInit => CompleteInv
  BY HistoryInitOK DEF HistoryInit, CompleteInv, AloneInv, Complete, Alone

LEMMA CompleteStep == CompleteInv /\ [HistoryNext]_historyVars => CompleteInv'
  BY HistoryNextOK, AloneNext DEF CompleteInv

\* A gateway that reads the chain alone lacks no record up to the block it has
\* seen the history to.
THEOREM ChainComplete == HistorySpec => []ChainIsComplete
<1>1. ASSUME CompleteInv PROVE ChainIsComplete
  <2> SUFFICES ASSUME ~hasRegistry, held # Nothing, NEW k \in DOMAIN recordedIn,
                      recordedIn[k] <= held.completeTo
               PROVE  \E i \in DOMAIN held.records : held.records[i] = k
    BY DEF ChainIsComplete, HeldIsComplete
  <2>1. /\ Prefix(held.records) /\ k <= Len(held.records)
        /\ held.records \in Seq(1 .. Len(recordedIn)) /\ k \in 1 .. Len(recordedIn)
    BY <1>1 DEF CompleteInv, AloneInv, Complete, HistoryInv, RecordsOK, Entry, Records, ChainOK
  <2>2. k \in DOMAIN held.records
    BY <2>1
  <2> QED BY <2>1, <2>2 DEF Prefix
<1> QED BY <1>1, CompleteInit, CompleteStep, PTL DEF HistorySpec

\* A call of a gateway that reads the chain alone, during which no Settlement
\* lands, is not refused for the history it built.
THEOREM QuietAccepted == HistorySpec => []QuietIsAccepted
<1>1. CompleteInv => QuietIsAccepted
  BY DEF CompleteInv, AloneInv, Alone, QuietIsAccepted
<1> QED BY <1>1, CompleteInit, CompleteStep, PTL DEF HistorySpec
=============================================================================
