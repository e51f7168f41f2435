----------------------------- MODULE MCAllocMap -----------------------------
(* TLC instance of AllocMap: three regions whose map pages differ.          *)
EXTENDS AllocMap
=============================================================================
