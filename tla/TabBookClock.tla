---------------------------- MODULE TabBookClock ----------------------------
(***************************************************************************)
(* TabBook with the age of every debt: openSince[t] has, for every base    *)
(* unit open on t, the time of the delivery that opened it, oldest first.  *)
(* A settlement pays the oldest debts first.  The variable is of the model *)
(* alone: the contract keeps one time for a tab.                           *)
(***************************************************************************)
EXTENDS TabBook

VARIABLE openSince

Aged(t) ==
  LET more == tabs'[t].open - tabs[t].open
  IN  IF more >= 0 THEN openSince[t] \o [i \in 1 .. more |-> now]
      ELSE SubSeq(openSince[t], 1 - more, Len(openSince[t]))

ClockInit == Init /\ openSince = [t \in Tabs |-> <<>>]

\* Only the clock moves between the calls.
ClockNext ==
  /\ BookStep \/ Tick
  /\ openSince' = [t \in Tabs |-> Aged(t)]

ClockSpec == ClockInit /\ [][ClockNext]_<<vars, openSince>>

\* The clock of a tab is never later than its oldest unsettled delivery: no
\* order of deliveries and part payments gives a debt more than its window.
ClockNeverLate ==
  \A t \in Tabs : tabs[t].open > 0 => tabs[t].oldestUnsettledAt <= Head(openSince[t])
=============================================================================
