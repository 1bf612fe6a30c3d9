-------------------------- MODULE MCHistorySource --------------------------
(***************************************************************************)
(* The gateway's history on a small instance: two concurrent calls.        *)
(***************************************************************************)
EXTENDS HistorySource, TLC

CONSTANTS c1, c2

\* The index stands still while the registry answers.
CalmSpec ==
  HistoryInit /\
    [][HistoryNext /\ (indexedTo' # indexedTo => \A c \in Calls : pc[c] # "horizon")]_historyVars

Symmetry == Permutations(Calls)
=============================================================================
