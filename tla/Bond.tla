-------------------------------- MODULE Bond --------------------------------
(***************************************************************************)
(* packages/contracts/src/Bond.sol: the escrow of the stakes of Services.  *)
(* A ledger has what was ever staked and what was ever withdrawn; the      *)
(* tokens are ERC-20 balances, and a transfer that fails undoes the call.  *)
(***************************************************************************)
EXTENDS Erc20

CONSTANTS
  Accounts, Assets,
  Escrow,    \* the Bond contract as a holder of tokens
  MaxAmount, \* type(uint128).max
  Amounts    \* what the callers choose from

VARIABLES staked, withdrawn \* _ledgers

bondVars == <<staked, withdrawn, balances>>

Parties == Accounts \X Assets
\* _free
Free(k) == staked[k] - withdrawn[k]

\* deposit and depositFor
Deposit(payer, account, asset, amount) ==
  /\ amount # 0
  /\ staked[<<account, asset>>] + amount <= MaxAmount
  /\ staked' = [staked EXCEPT ![<<account, asset>>] = @ + amount]
  /\ Transfer(payer, Escrow, asset, amount)
  /\ UNCHANGED withdrawn

\* Mutant: what is asked for is paid out, not what is free.
ReleasedUncapped(k, amount) == amount

Released(k, amount) == IF amount > Free(k) THEN Free(k) ELSE amount

Withdraw(account, asset, amount) ==
  LET k == <<account, asset>>
  IN  /\ amount # 0
      /\ Free(k) # 0
      /\ withdrawn[k] + Released(k, amount) <= MaxAmount
      /\ withdrawn' = [withdrawn EXCEPT ![k] = @ + Released(k, amount)]
      /\ Transfer(Escrow, account, asset, Released(k, amount))
      /\ UNCHANGED staked

BondNext ==
  \/ \E payer, account \in Accounts, asset \in Assets, amount \in Amounts :
       Deposit(payer, account, asset, amount)
  \/ \E account \in Accounts, asset \in Assets, amount \in Amounts :
       Withdraw(account, asset, amount)
=============================================================================
