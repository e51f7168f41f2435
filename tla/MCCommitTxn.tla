---------------------------- MODULE MCCommitTxn -----------------------------
(* TLC instances of CommitTxn. Files are interchangeable.                   *)
EXTENDS CommitTxn, TLC

Symmetry == Permutations(File)
=============================================================================
