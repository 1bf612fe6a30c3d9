----------------------------- MODULE MCIndexer -----------------------------
(***************************************************************************)
(* The indexer on a short chain.                                           *)
(***************************************************************************)
EXTENDS Indexer
=============================================================================
