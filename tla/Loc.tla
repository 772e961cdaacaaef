-------------------------------- MODULE Loc ---------------------------------
(***************************************************************************)
(* Octree locations (core/Loc.h) and the database keys made from them      *)
(* (core/Level.cpp).  The shifts of the code act on the non-negative       *)
(* coordinates of locations below the root, where FrustumTiles starts.     *)
(***************************************************************************)
EXTENDS Integers

Loc(x, y, z, l) == [x |-> x, y |-> y, z |-> z, l |-> l]

\* Locations that the octree reaches, of any level.
AllLocs == [x: Nat, y: Nat, z: Nat, l: Nat]

\* 1 << d, by doubling.
Pow2[d \in Nat] == IF d = 0 THEN 1 ELSE 2 * Pow2[d - 1]

Parent(a) == Loc(a.x \div 2, a.y \div 2, a.z \div 2, a.l - 1)

ParentAtLevel(a, l) ==
    LET d == a.l - l
    IN Loc(a.x \div Pow2[d], a.y \div Pow2[d], a.z \div Pow2[d], l)

\* Mutant of GetChildren: the x halves overlap.
GetChildrenOverlap(a) ==
    {Loc(2 * a.x + i, 2 * a.y + j, 2 * a.z + k, a.l + 1) : i \in {0}, j \in 0..1, k \in 0..1}

GetChildren(a) ==
    {Loc(2 * a.x + i, 2 * a.y + j, 2 * a.z + k, a.l + 1) : i \in 0..1, j \in 0..1, k \in 0..1}

GetLocal(a, p) ==
    LET d == a.l - p.l
    IN Loc(a.x - p.x * Pow2[d], a.y - p.y * Pow2[d], a.z - p.z * Pow2[d], d)

\* Mutant of GetChild: shifted by the parent's level.
GetChildShiftedByParent(p, c) ==
    Loc(p.x * Pow2[p.l] + c.x, p.y * Pow2[p.l] + c.y, p.z * Pow2[p.l] + c.z, p.l + c.l)

GetChild(p, c) ==
    Loc(p.x * Pow2[c.l] + c.x, p.y * Pow2[c.l] + c.y, p.z * Pow2[c.l] + c.z, p.l + c.l)

\* Mutant of Precedes: x is compared before y, and z not at all.
PrecedesWithoutZ(a, b) ==
    IF a.x # b.x THEN a.x < b.x
    ELSE IF a.y # b.y THEN a.y < b.y
    ELSE a.l < b.l

\* The free operator <, by which std::map and std::set order locations.
Precedes(a, b) ==
    IF a.y # b.y THEN a.y < b.y
    ELSE IF a.x # b.x THEN a.x < b.x
    ELSE IF a.l # b.l THEN a.l < b.l
    ELSE a.z < b.z

\* The member operator <, by which std::sort orders the selected locations.
SortsBefore(a, b) ==
    IF a.l # b.l THEN a.l < b.l
    ELSE IF a.x # b.x THEN a.x < b.x
    ELSE IF a.y # b.y THEN a.y < b.y
    ELSE a.z < b.z

\* GetBBox, in units of the cells of level `fine`, from the corner of the world:
\* the low corner and the extent.
Low(a, fine) ==
    <<a.x * Pow2[fine - a.l], a.y * Pow2[fine - a.l], a.z * Pow2[fine - a.l]>>
Extent(a, fine) == Pow2[fine - a.l]
Covers(a, fine, p) ==
    \A i \in 1..3 : Low(a, fine)[i] <= p[i] /\ p[i] < Low(a, fine)[i] + Extent(a, fine)

\* Mutant of TerrainKey: the level is not negated.
TerrainKeyPlain(a) == a

\* Keys: an OctTile's chunk under the location itself, a TerrainTile's under the
\* location at height 0 with its level negated.
OctKey(a) == a
Ground(a) == [a EXCEPT !.y = 0]
TerrainKey(a) == [a EXCEPT !.l = -a.l]

-----------------------------------------------------------------------------
(* Properties of a pair of locations.                                      *)

\* std::map needs a strict order in which only equal locations are equivalent;
\* std::sort needs one too, though not the same.
OrdersAreStrict(a, b) ==
    /\ ~(Precedes(a, b) /\ Precedes(b, a)) /\ ~(SortsBefore(a, b) /\ SortsBefore(b, a))
    /\ (a # b) <=> (Precedes(a, b) \/ Precedes(b, a))
    /\ (a # b) <=> (SortsBefore(a, b) \/ SortsBefore(b, a))

\* TerrainTileSelection::Update walks m_requestTiles in the order of std::set and
\* needs the parent of a location to come before it.
ParentComesFirst(a) == a.l > 0 => Precedes(Parent(a), a)

\* b is one of the children of a exactly if a is b's parent.
ChildrenHaveParent(a, b) == b \in GetChildren(a) <=> (b.l > 0 /\ Parent(b) = a)

\* A terrain chunk and a voxel chunk share a key only at the root.
KeysMeetOnlyAtRoot(a, b) == TerrainKey(Ground(a)) = OctKey(b) => a.l = 0 /\ b.l = 0
=============================================================================
