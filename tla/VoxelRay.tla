------------------------------ MODULE VoxelRay ------------------------------
(***************************************************************************)
(* OctTile::Intersect and FindHit (core/OctTile.cpp): the walk from voxel  *)
(* to voxel along a segment through the cube of a tile, for the cube that  *)
(* World::Update draws around the voxel in the middle of the screen.       *)
(*                                                                         *)
(* FindHit has three copies of its loop, one per driving axis.  They       *)
(* differ in the names of the axes only, so that here one action stands    *)
(* for the three, and p1, p2 are the entries of p at the two other axes.   *)
(***************************************************************************)
EXTENDS Integers

CONSTANTS
    Tsz,        \* TerrainTile::SquarePtsCt
    Solids,     \* the solid voxels of the tile: the values of data
    Reach       \* how far outside the cube rounding may leave an end point

Axes == {"x", "y", "z"}
Cells == [Axes -> 0..(Tsz - 1)]

ASSUME RayAssumption ==
    Tsz \in Nat \ {0} /\ Reach \in Nat /\ Solids \subseteq SUBSET Cells

VARIABLES
    pc,         \* "idle", "walk", "hit", "miss" or "done"
    solid,      \* the voxels with data[] > 0
    from,       \* R(pt1)
    to,         \* R(pt2)
    cur,        \* x1, y1, z1
    p,          \* the decision variables p1, p2
    found       \* what Intersect returned

vars == <<pc, solid, from, to, cur, p, found>>

\* Mutant of R: clamped from below only.
ROpen(v) == IF v < 0 THEN 0 ELSE v

\* The macro R.
R(v) == IF v < 0 THEN 0 ELSE IF v >= Tsz THEN Tsz - 1 ELSE v

Abs(v) == IF v < 0 THEN -v ELSE v
Delta(a) == Abs(to[a] - from[a])                \* dx, dy, dz
Dir(a) == IF to[a] > from[a] THEN 1 ELSE -1     \* xs, ys, zs

\* Mutant of Drive: the x axis drives unless y is longer, whatever z is.
DriveWithoutZ == IF Delta("x") >= Delta("y") THEN "x" ELSE "y"

\* The driving axis.
Drive ==
    IF Delta("x") >= Delta("y") /\ Delta("x") >= Delta("z") THEN "x"
    ELSE IF Delta("y") >= Delta("x") /\ Delta("y") >= Delta("z") THEN "y"
    ELSE "z"

\* The number of steps of the walk.
Length == Delta(Drive)

Origin == [a \in Axes |-> 0]

Init ==
    /\ pc = "idle"
    /\ solid \in Solids
    /\ from = Origin /\ to = Origin /\ cur = Origin /\ p = Origin
    /\ found = FALSE

\* Intersect calls FindHit for the segment from pt1 to pt2; the voxel in which it
\* starts is tested first, then the decision variables are set.
Call(pt1, pt2) ==
    /\ from' = [a \in Axes |-> R(pt1[a])]
    /\ to' = [a \in Axes |-> R(pt2[a])]
    /\ cur' = from'
    /\ p' = [a \in Axes |-> 2 * Delta(a)' - Length']
    /\ pc' = IF cur' \in solid THEN "hit" ELSE "walk"
    /\ UNCHANGED <<solid, found>>

\* Whether an axis takes a step in this iteration.
Moves(a) == a = Drive \/ p[a] >= 0

\* Mutant of Step: only the last voxel is tested.
StepLastOnly ==
    /\ pc = "walk" /\ cur[Drive] # to[Drive]
    /\ cur' = [a \in Axes |-> IF Moves(a) THEN cur[a] + Dir(a) ELSE cur[a]]
    /\ p' = [a \in Axes |-> p[a] + 2 * Delta(a) - (IF Moves(a) THEN 2 * Length ELSE 0)]
    /\ pc' = IF cur' \in solid /\ cur'[Drive] = to[Drive] THEN "hit" ELSE "walk"
    /\ UNCHANGED <<solid, from, to, found>>

\* One iteration of the loop of the driving axis.
Step ==
    /\ pc = "walk" /\ cur[Drive] # to[Drive]
    /\ cur' = [a \in Axes |-> IF Moves(a) THEN cur[a] + Dir(a) ELSE cur[a]]
    /\ p' = [a \in Axes |-> p[a] + 2 * Delta(a) - (IF Moves(a) THEN 2 * Length ELSE 0)]
    /\ pc' = IF cur' \in solid THEN "hit" ELSE "walk"
    /\ UNCHANGED <<solid, from, to, found>>

\* The end of the loop: Vec3i(-1, -1, -1).
Miss ==
    /\ pc = "walk" /\ cur[Drive] = to[Drive]
    /\ pc' = "miss"
    /\ UNCHANGED <<solid, from, to, cur, p, found>>

\* Mutant of Return: the second plane of voxels is taken for a miss too.
ReturnInner ==
    /\ pc \in {"hit", "miss"}
    /\ found' = (pc = "hit" /\ cur["x"] > 1)
    /\ pc' = "done"
    /\ UNCHANGED <<solid, from, to, cur, p>>

\* Intersect: if (hitpt[0] > 0) return true.
Return ==
    /\ pc \in {"hit", "miss"}
    /\ found' = (pc = "hit" /\ cur["x"] > 0)
    /\ pc' = "done"
    /\ UNCHANGED <<solid, from, to, cur, p>>

Next ==
    \/ pc = "idle" /\ \E pt1, pt2 \in [Axes -> (-Reach)..(Tsz - 1 + Reach)] : Call(pt1, pt2)
    \/ Step \/ Miss \/ Return

Spec == Init /\ [][Next]_vars

-----------------------------------------------------------------------------
(* Properties.                                                             *)

\* Steps along the driving axis, and moves along any axis, that lead to cell c.
Steps(c) == Abs(c[Drive] - from[Drive])
Moved(c, a) == Abs(c[a] - from[a])

\* Twice the distance of c from the segment along axis a, times Length.
Error(c, a) == Abs(2 * Length * Moved(c, a) - 2 * Delta(a) * Steps(c))

\* Every data[] that FindHit reads is inside the cube: the walk stays between its
\* clamped end points on every axis, and a cell of the walk is in the cube.
StaysBetween ==
    /\ cur \in Cells
    /\ \A a \in Axes : \/ from[a] <= cur[a] /\ cur[a] <= to[a]
                       \/ to[a] <= cur[a] /\ cur[a] <= from[a]

\* The walk is the digital segment: on no axis is a visited voxel further than
\* half a voxel from the segment, and a walk that hits nothing ends at its end.
FollowsSegment ==
    /\ \A a \in Axes : Error(cur, a) <= Length
    /\ pc = "miss" => cur = to

\* The voxels whose distance from the segment is below half a voxel on all axes.
OnSegment == {c \in Cells :
                \A a \in Axes :
                  /\ Error(c, a) < Length \/ Length = 0
                  /\ \/ from[a] <= c[a] /\ c[a] <= to[a]
                     \/ to[a] <= c[a] /\ c[a] <= from[a]}

\* No solid voxel is passed: none lies on the segment before the voxel reached,
\* and a hit is solid.
NothingPassed ==
    /\ pc \in {"walk", "miss"} => ~(\E c \in solid \cap OnSegment : Steps(c) <= Steps(cur))
    /\ pc = "hit" => cur \in solid /\ ~(\E c \in solid \cap OnSegment : Steps(c) < Steps(cur))

\* Intersect fails although a solid voxel lies on the segment only if the first
\* one hit is at x = 0: `hitpt[0] > 0' takes it for a miss.
MissedOnlyAtEdge ==
    pc = "done" /\ ~found /\ solid \cap OnSegment # {} => cur \in solid /\ cur["x"] = 0
=============================================================================
