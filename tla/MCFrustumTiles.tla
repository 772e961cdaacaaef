--------------------------- MODULE MCFrustumTiles ---------------------------
(* FrustumTiles on a binary tree of four levels, numbered as a heap. *)
EXTENDS FrustumTiles

MCParent == [l \in Locs |-> l \div 2]
MCAbove[l \in Locs] == IF l = Root THEN {} ELSE MCAbove[l \div 2] \cup {l \div 2}
MCLevel[l \in Locs] == IF l = Root THEN 0 ELSE MCLevel[l \div 2] + 1
=============================================================================
