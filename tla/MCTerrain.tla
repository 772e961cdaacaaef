----------------------------- MODULE MCTerrain ------------------------------
(* Terrain on small instances. *)
EXTENDS Terrain

\* The root, two children of it, and below each child a chain.
Tree == [l \in Locs |-> IF l = 1 THEN 0 ELSE IF l <= 3 THEN 1 ELSE l - 2]
=============================================================================
