----------------------------- MODULE MCExporter -----------------------------
(* TLC instances of Exporter.                                               *)
EXTENDS Exporter
=============================================================================
