----------------------------- MODULE MCSpoolTxn -----------------------------
(* TLC instance of SpoolTxn: one transaction at a time.                     *)
EXTENDS SpoolTxn, TLC

Symmetry == Permutations(Block)
=============================================================================
