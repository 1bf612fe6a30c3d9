------------------------------ MODULE UnitSums ------------------------------
(***************************************************************************)
(* Sums of amounts as numbers of elements.  The sum of the amounts f[s]    *)
(* over s in S is the number of base units in UnitsIn(S, f), where the     *)
(* units of s are numbered from 1 to f[s].  The provers can reason about   *)
(* this form of a sum, and not about a fold.                               *)
(***************************************************************************)
EXTENDS Naturals, FiniteSets

UnitsIn(S, f) == UNION {{s} \X (1 .. f[s]) : s \in S}

SumOf(S, f) == Cardinality(UnitsIn(S, f))
=============================================================================
