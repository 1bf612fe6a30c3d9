--------------------------- MODULE MCTabBookClock ---------------------------
(***************************************************************************)
(* TabBookClock on the small instances of MCTabBook.                       *)
(***************************************************************************)
EXTENDS MCTabBook, TabBookClock

MCClockSpec == MCInit /\ ClockSpec
=============================================================================
