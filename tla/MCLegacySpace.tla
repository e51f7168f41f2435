--------------------------- MODULE MCLegacySpace ----------------------------
(* TLC instance of LegacySpace: a file Create made, whose block and tree    *)
(* page lie well past its IBFileEOF.                                        *)
EXTENDS LegacySpace

Created == <<8, 9>>
=============================================================================
