---------------------------- MODULE MCTileLoader ----------------------------
(* TileLoader on small instances. *)
EXTENDS TileLoader

\* A location with voxels and one that the terrain does not reach.
MCChunk == [l \in Locs |-> IF l = 1 THEN "solid" ELSE "none"]

\* A location with voxels and one with a plateau of them.
MCPlateau == [l \in Locs |-> IF l = 1 THEN "solid" ELSE "flat"]

\* The ground of the first location is that of the second, or encloses it.
MCAbove == [l \in Locs |-> 1..l]
=============================================================================
