-------------------------------- MODULE Walk --------------------------------
(***************************************************************************)
(* The loops of writer/v2 that follow links until there is nothing new:    *)
(* contains and depthOf go up by parents, deleteLocked goes down by rows,  *)
(* the export plan does the same with references. The links are a function *)
(* from each known node to the set of nodes it leads to.                   *)
(***************************************************************************)
EXTENDS Integers, FiniteSets

\* The nodes of L and those one link further.
Onward(links, L) == L \cup UNION {links[y] : y \in L \cap DOMAIN links}

\* What k rounds of the loop have met, for every k.
Layers(links, x) ==
  LET met[k \in Nat] == IF k = 0 THEN {x} ELSE Onward(links, met[k - 1])
  IN  met

\* What the loop has met in the end: a round for every known node is enough.
Reach(links, x) == Layers(links, x)[Cardinality(DOMAIN links)]
=============================================================================
