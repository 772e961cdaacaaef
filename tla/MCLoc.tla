------------------------------- MODULE MCLoc --------------------------------
(* The algebra of Loc over all pairs of locations down to level Depth. *)
EXTENDS Loc, FiniteSets

CONSTANT Depth      \* the deepest level

ASSUME DepthAssumption == Depth \in Nat

LocsTo == UNION {[x: 0..(Pow2[l] - 1), y: 0..(Pow2[l] - 1), z: 0..(Pow2[l] - 1), l: {l}] :
                 l \in 0..Depth}
Cells == (0..(Pow2[Depth] - 1)) \X (0..(Pow2[Depth] - 1)) \X (0..(Pow2[Depth] - 1))

VARIABLES up, down

Init == up \in LocsTo /\ down \in LocsTo

\* Parent() one level at a time.
Climb == up.l > 0 /\ up' = Parent(up) /\ UNCHANGED down

\* GetChildren() one level at a time.
Descend == down.l < Depth /\ down' \in GetChildren(down) /\ UNCHANGED up

Next == Climb \/ Descend
Spec == Init /\ [][Next]_<<up, down>>

\* The two orders are fit for std::map and std::sort, and a request for a location
\* comes after the request for its parent.
OrdersFit == OrdersAreStrict(up, down) /\ ParentComesFirst(up)

\* The children of a location are its eight sub-cells: they have it as parent and
\* their boxes partition its box.
ChildrenPartition ==
    /\ ChildrenHaveParent(up, down)
    /\ up.l < Depth =>
         \A p \in Cells :
           Covers(up, Depth, p) <=>
             Cardinality({c \in GetChildren(up) : Covers(c, Depth, p)}) = 1

\* GetLocal and GetChild are inverse, and ParentAtLevel finds the location that
\* contains this one.
LocalRoundTrip ==
    down.l <= up.l =>
      /\ GetChild(down, GetLocal(up, down)) = up
      /\ LET p == ParentAtLevel(up, down.l)
         IN \A i \in 1..3 :
              /\ Low(p, Depth)[i] <= Low(up, Depth)[i]
              /\ Low(up, Depth)[i] + Extent(up, Depth) <= Low(p, Depth)[i] + Extent(p, Depth)

\* Navigation in the octree: children are the sub-cells, and going down by local
\* coordinates or up by levels ends at the cell it should.
NavigationFits == ChildrenPartition /\ LocalRoundTrip

\* In the level database terrain and voxel chunks are kept apart, except that the
\* root has one key for both.
KeysApart == KeysMeetOnlyAtRoot(up, down)
=============================================================================
