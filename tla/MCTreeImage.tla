---------------------------- MODULE MCTreeImage -----------------------------
(* TLC instances of TreeImage: three levels of small pages, two levels of   *)
(* larger ones.                                                             *)
EXTENDS TreeImage
=============================================================================
