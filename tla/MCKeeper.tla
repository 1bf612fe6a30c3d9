----------------------------- MODULE MCKeeper -----------------------------
(* An instance of Keeper: more tabs than a tick of the workflow may mark,  *)
(* and failures to spoil more than one run.                                *)
EXTENDS Keeper
=============================================================================
