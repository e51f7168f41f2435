---------------------------- MODULE MCLegacyTree ----------------------------
(* TLC instances of LegacyTree.                                             *)
EXTENDS LegacyTree
=============================================================================
