------------------------------- MODULE Erc20 -------------------------------
(***************************************************************************)
(* The tokens, as the contracts use them: a transfer moves the amount or   *)
(* undoes the whole call.  An allowance that is missing is one more reason *)
(* to undo it, which is no step, so allowances are left out.               *)
(***************************************************************************)
EXTENDS Integers

VARIABLE balances \* of every holder in every Asset

\* safeTransferFrom and safeTransfer
Transfer(from, to, asset, amount) ==
  /\ balances[<<from, asset>>] >= amount
  /\ balances' = [balances EXCEPT ![<<from, asset>>] = @ - amount, ![<<to, asset>>] = @ + amount]
=============================================================================
