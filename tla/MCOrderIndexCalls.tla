-------------------------- MODULE MCOrderIndexCalls -------------------------
(* The hash functions of MCOrderIndex for the index and its calls together. *)
EXTENDS MCOrderIndex, RecallingIndex
=============================================================================
