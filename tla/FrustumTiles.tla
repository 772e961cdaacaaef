---------------------------- MODULE FrustumTiles ----------------------------
(***************************************************************************)
(* FrustumTiles (core/OctTileSelection.cpp): which tiles of the octree the *)
(* camera needs, chosen once a frame by the recursion of GetLocsInView.    *)
(*                                                                         *)
(* The recursion visits a location at most once, so that its stack is kept *)
(* by location: `call` says how far the call for each one is.  What the    *)
(* floating-point tests answer - a box outside the frustum, a target level *)
(* of detail - is chosen when the call asks, within what geometry allows:  *)
(*   - the box of the camera's cell and of every cell around it is met by  *)
(*     the player's bounds and has a corner behind the camera;             *)
(*   - a cell with a corner behind the camera lies in a parent with one.   *)
(***************************************************************************)
EXTENDS Integers

CONSTANTS
    Locs,       \* the locations of the octree, numbered in the order of GetChildren
    Root,       \* Loc(0, 0, 0, 0)
    Parent,     \* Loc::Parent, with 0 above the root
    Above,      \* the proper ancestors of each location
    Level,      \* m_l
    MaxTarget   \* bound on the level of detail that TargetLodForLoc asks for

None == 0

ASSUME TreeAssumption ==
    /\ Locs \subseteq Nat \ {None} /\ Root \in Locs
    /\ Parent \in [Locs -> Locs \cup {None}]
    /\ \A l \in Locs : Parent[l] = None <=> l = Root
    /\ Level \in [Locs -> Nat] /\ Level[Root] = 0
    /\ \A l \in Locs \ {Root} : Level[l] = Level[Parent[l]] + 1
ASSUME AboveAssumption ==
    /\ Above \in [Locs -> SUBSET Locs]
    /\ Above[Root] = {}
    /\ \A l \in Locs \ {Root} : Above[l] = Above[Parent[l]] \cup {Parent[l]}
    /\ \A l \in Locs \ {Root} : Root \in Above[l]
    /\ \A l \in Locs : l \notin Above[l]
    /\ \A l \in Locs : \A a \in Above[l] :
          Above[a] \subseteq Above[l] /\ \E c \in Above[l] \cup {l} : Parent[c] = a
ASSUME TargetAssumption == MaxTarget \in Nat

Finest == {l \in Locs : \A k \in Locs : Level[k] <= Level[l]}
MaxLods == {Level[l] : l \in Locs \ {Root}}     \* the keys 1 to 9 set it

VARIABLES
    call,       \* GetLocsInView(l): "no" call yet, none needed ("skip"), "open",
                \*   or returned "true" or "false"
    cur,        \* the location of the innermost open call
    behind,     \* the open calls whose targetLod is negative
    locs,       \* the locations selected so far
    maxlod,     \* g_maxTileLod
    camera      \* the finest cell that holds the camera; None outside the octree

vars == <<call, cur, behind, locs, maxlod, camera>>

Children(l) == {c \in Locs : Parent[c] = l}
Called(l) == call[l] \in {"open", "true", "false"}
Around(l) == camera # None /\ (l = camera \/ l \in Above[camera])
Done == cur = None /\ call[Root] # "no"

TypeOK ==
    /\ call \in [Locs -> {"no", "skip", "open", "true", "false"}]
    /\ cur \in Locs \cup {None}
    /\ behind \in SUBSET Locs
    /\ locs \in SUBSET Locs
    /\ maxlod \in MaxLods
    /\ camera \in Finest \cup {None}

-----------------------------------------------------------------------------
Init ==
    /\ call = [l \in Locs |-> "no"] /\ cur = None /\ behind = {} /\ locs = {}
    /\ maxlod \in MaxLods /\ camera \in Finest \cup {None}

\* FrustumTiles::Get of the next frame: the camera moves, a key sets g_maxTileLod.
Get ==
    /\ Done
    /\ call' = [l \in Locs |-> "no"] /\ cur' = None /\ behind' = {} /\ locs' = {}
    /\ maxlod' \in MaxLods /\ camera' \in Finest \cup {None}

\* behindCamera of the call for c: true for the root.
BehindCamera(c) == cur = None \/ cur \in behind

\* What TargetLodForLoc may answer.
Targets(c) ==
    IF Around(c) THEN {-1} ELSE (IF BehindCamera(c) THEN {-1} ELSE {}) \cup 0..MaxTarget

\* The early returns of GetLocsInView: without the location ...
Culled(c, target) == target >= 0 /\ BehindCamera(c) /\ Level[c] > target

\* Mutant of Taken: behind the camera nothing is selected.
TakenAhead(c, target) == target >= 0 /\ Level[c] >= target

\* ... and with it.
Taken(c, target) ==
    \/ target >= 0 /\ Level[c] >= target
    \/ target < 0 /\ Level[c] = maxlod

\* The next location that GetLocsInView is to be called for, if it is in view.
Upcoming(c) ==
    /\ call[c] = "no" /\ Parent[c] = cur
    /\ \A k \in Children(cur) : call[k] = "no" => c <= k

\* The box of c may be outside the frustum (Contains) and not meet the player.
Outside(c) == ~Around(c)

Skip(c) ==
    /\ c # Root /\ Upcoming(c) /\ Outside(c)
    /\ call' = [call EXCEPT ![c] = "skip"]
    /\ UNCHANGED <<cur, behind, locs, maxlod, camera>>

\* A call that returns at once: selected, culled, or at maxlod and too coarse.
CallLeaf(c, target) ==
    /\ Upcoming(c)
    /\ \/ /\ ~Culled(c, target) /\ Taken(c, target)
          /\ call' = [call EXCEPT ![c] = "true"] /\ locs' = locs \cup {c}
       \/ /\ Culled(c, target) \/ (~Taken(c, target) /\ Level[c] >= maxlod)
          /\ call' = [call EXCEPT ![c] = "false"] /\ UNCHANGED locs
    /\ UNCHANGED <<cur, behind, maxlod, camera>>

\* A call that goes on to the children.
Descend(c, target) ==
    /\ Upcoming(c)
    /\ ~Culled(c, target) /\ ~Taken(c, target) /\ Level[c] < maxlod
    /\ call' = [call EXCEPT ![c] = "open"] /\ cur' = c
    /\ behind' = IF target < 0 THEN behind \cup {c} ELSE behind
    /\ UNCHANGED <<locs, maxlod, camera>>

HasChildren == \E c \in Children(cur) : call[c] = "true"

\* Mutant of FillLocs: the children without a tile of their own are left out.
FillLocsNone == {}

\* Mutant of FillLocs: all children in view are added.
FillLocsAll == {c \in Children(cur) : Called(c)}

FillLocs == {c \in Children(cur) : call[c] = "false"}

\* The end of the loop: what the children in view lack is filled with the children
\* themselves, unless none of them has anything: then the parent will be.
Return ==
    /\ cur # None /\ \A c \in Children(cur) : call[c] # "no"
    /\ call' = [call EXCEPT ![cur] = IF HasChildren THEN "true" ELSE "false"]
    /\ locs' = IF HasChildren THEN locs \cup FillLocs ELSE locs
    /\ cur' = Parent[cur]
    /\ behind' = behind \ {cur}
    /\ UNCHANGED <<maxlod, camera>>

Next ==
    \/ Get \/ Return
    \/ \E c \in Locs :
         \/ Skip(c)
         \/ \E target \in Targets(c) : CallLeaf(c, target) \/ Descend(c, target)

Spec == Init /\ [][Next]_vars

-----------------------------------------------------------------------------
(* Properties.                                                             *)

\* No selected tile lies inside another, so that no part of the landscape is
\* loaded and drawn twice, whatever the levels of detail asked for.
SelectedDisjoint == \A a, b \in locs : a \notin Above[b]

Covered(l) == l \in locs \/ \E a \in Above[l] : a \in locs

\* A location at which the recursion ended in view.
Ends(l) == Called(l) /\ \A c \in Children(l) : ~Called(c)

\* The selection has no holes: once Get has selected anything, every location in
\* view at which the recursion ended is covered by a selected tile, also one that
\* was culled or whose target is finer than g_maxTileLod.
NoHoles == Done /\ locs # {} => \A l \in Locs : Ends(l) => Covered(l)

\* With the camera inside the octree the view is never blank: the camera's own cell
\* is selected at the finest level, which gravity and ground height rely on.
CameraCellSelected ==
    Done /\ camera # None => \E l \in locs : Around(l) /\ Level[l] = maxlod
=============================================================================
