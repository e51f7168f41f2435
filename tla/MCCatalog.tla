----------------------------- MODULE MCCatalog ------------------------------
(* TLC instances of Catalog.                                                *)
EXTENDS Catalog

\* Storage on which nothing fails, and storage on which anything may.
CleanOrFaulty == {{}, {"read", "direct"}}
=============================================================================
