------------------------------ MODULE Terrain -------------------------------
(***************************************************************************)
(* TerrainTileSelection (core/TerrainTileSelection.cpp) and the life of a  *)
(* TerrainTile (core/TerrainTile.cpp): height fields computed on the GPU,  *)
(* coarse before fine, a tile over several frames.                         *)
(*                                                                         *)
(* RequestTile runs on the loader thread; it finds a tile in m_tiles, or   *)
(* reads it from the level database, or enters it and its missing          *)
(* ancestors in m_requestTiles.  Update runs on the main thread once a     *)
(* frame; it evicts tiles beyond a limit, creates the requested ones whose *)
(* parent exists and advances the ones under construction, of which one    *)
(* per frame may start its GPU work.  Neither takes a lock.                *)
(*                                                                         *)
(* The frame numbers that Build compares are kept as the number of frames  *)
(* still to go.                                                            *)
(***************************************************************************)
EXTENDS Integers, FiniteSets, FiniteSetsExt

CONSTANTS
    Locs,           \* ground locations, numbered in the order of std::set<Loc>
    Parent,         \* Loc::Parent, with 0 above the root
    Objs,           \* addresses of TerrainTiles
    MaxTiles,       \* 100: Update evicts above this size of m_tiles
    EvictCount,     \* 20: and this many
    ReadLatency,    \* frames that bgfx::readTexture may ask for, at most
    CountMod        \* size of sNumTiles' type

ASSUME LocsAssumption == IsFiniteSet(Locs) /\ Locs \subseteq Nat \ {0}
ASSUME ParentAssumption ==
    Parent \in [Locs -> Locs \cup {0}] /\ \A l \in Locs : Parent[l] < l
ASSUME ObjsAssumption == Objs \subseteq Nat \ {0}
ASSUME BoundsAssumption ==
    /\ MaxTiles \in Nat /\ EvictCount \in 1..(MaxTiles + 1)
    /\ ReadLatency \in Nat \ {0} /\ CountMod \in Nat \ {0}

None == 0

VARIABLES
    tpc,        \* where Update is: "idle" between two calls of it
    tiles,      \* m_tiles
    numTiles,   \* sNumTiles
    requests,   \* m_requestTiles
    building,   \* m_buildingTiles
    cursor,     \* the last location that Update's first loop created
    todo,       \* the tiles that Update's second loop has yet to visit
    next,       \* nextBuildingTiles
    gpu,        \* ctx.m_numGpuCalcs # 0
    tile,       \* the members of each TerrainTile
    db,         \* the height fields in the level database
    unsaved,    \* history: locations whose heights could not be written
    asked,      \* history: locations RequestTile was called with
    fault       \* unsynchronised access broke a container

update == <<cursor, todo, next, gpu>>
vars == <<tpc, tiles, numTiles, requests, building, update, tile, db, unsaved, asked, fault>>

TerrainTile == [loc: Locs \cup {0}, step: {-1, 0, 1, 2}, due: 0..ReadLatency,
                ready: BOOLEAN, parent: Objs \cup {None}]

Unbuilt(l, p) == [loc |-> l, step |-> 0, due |-> 0, ready |-> FALSE, parent |-> p]

\* Mutant of Restored: a tile read from the database is not marked ready.
RestoredUnready(l) == Unbuilt(l, None)

Restored(l) == [loc |-> l, step |-> -1, due |-> 0, ready |-> TRUE, parent |-> None]
Blank == Unbuilt(0, None)

Listed(l) == tiles[l] # None
Size == Cardinality({l \in Locs : Listed(l)})

\* shared_ptr counts: the containers, and the parent a tile waits for.
Rooted(t, b) == ({t[l] : l \in Locs} \cup b) \ {None}
Alive(base, tl) == base \cup ({tl[o].parent : o \in base} \ {None})
Release(base, tl) ==
    tile' = [o \in Objs |-> IF o \in Alive(base, tl) THEN tl[o] ELSE Blank]

InUse == Alive(Rooted(tiles, building \cup next \cup todo), tile)
Fresh(o) == o \in Objs \ InUse /\ \A p \in Objs \ InUse : o <= p

\* Ancestors, the location itself included.
Up[l \in Locs] == {l} \cup IF Parent[l] = 0 THEN {} ELSE Up[Parent[l]]

\* RequestTile(l) would answer true.
Available(l) == IF Listed(l) THEN tile[tiles[l]].ready ELSE l \in db

TypeOK ==
    /\ tpc \in {"idle", "visit", "build"}
    /\ tiles \in [Locs -> Objs \cup {None}]
    /\ numTiles \in 0..(CountMod - 1)
    /\ requests \in SUBSET Locs
    /\ building \in SUBSET Objs
    /\ cursor \in Locs \cup {0}
    /\ todo \in SUBSET Objs
    /\ next \in SUBSET Objs
    /\ gpu \in BOOLEAN
    /\ tile \in [Objs -> TerrainTile]
    /\ db \in SUBSET Locs
    /\ unsaved \in SUBSET Locs
    /\ asked \in SUBSET Locs
    /\ fault \in BOOLEAN

-----------------------------------------------------------------------------
Init ==
    /\ tpc = "idle"
    /\ tiles = [l \in Locs |-> None] /\ numTiles = 0
    /\ requests = {} /\ building = {}
    /\ cursor = 0 /\ todo = {} /\ next = {} /\ gpu = FALSE
    /\ tile = [o \in Objs |-> Blank]
    /\ db = {} /\ unsaved = {} /\ asked = {} /\ fault = FALSE

\* Mutant of RequestTile: the ancestors are not requested.
RequestTileNoParents(l) ==
    /\ requests' = IF Listed(l) THEN requests ELSE requests \cup {l}
    /\ asked' = asked \cup {l}
    /\ UNCHANGED <<tpc, tiles, numTiles, building, update, tile, db, unsaved, fault>>

\* RequestTile, with its recursion: the walk up the ancestors ends at one that
\* is in m_tiles, or at one that the database has and that is put in m_tiles
\* (uncounted); all below it are requested.
RequestTile(l) ==
    /\ LET known == {a \in Up[l] : Listed(a) \/ a \in db}
           top   == IF known = {} THEN 0 ELSE Max(known)
       IN /\ requests' = requests \cup {a \in Up[l] : a > top}
          /\ IF top # 0 /\ ~Listed(top)
             THEN \E o \in Objs :
                    /\ Fresh(o)
                    /\ tiles' = [tiles EXCEPT ![top] = o]
                    /\ tile' = [tile EXCEPT ![o] = Restored(top)]
             ELSE UNCHANGED <<tiles, tile>>
    /\ asked' = asked \cup {l}
    /\ UNCHANGED <<tpc, numTiles, building, update, db, unsaved, fault>>

\* The same call in the middle of Update: without a lock both threads search and
\* change m_tiles and m_requestTiles.
RequestTileRace(l) ==
    /\ tpc # "idle"
    /\ fault' = TRUE
    /\ UNCHANGED <<tpc, tiles, numTiles, requests, building, update, tile, db, unsaved, asked>>

-----------------------------------------------------------------------------
\* Mutant of Crowded: tiles are evicted already at the limit.
CrowdedAtLimit == Size >= MaxTiles

Crowded == Size > MaxTiles

\* A new frame has a fresh DrawContext.  If m_tiles is too large, EvictCount of
\* its tiles go: no use of a tile is ever recorded, so any may come first.
BeginUpdate ==
    /\ tpc = "idle"
    /\ tpc' = "visit"
    /\ cursor' = 0 /\ next' = {} /\ gpu' = FALSE
    /\ IF Crowded
       THEN \E E \in SUBSET {l \in Locs : Listed(l)} :
              /\ Cardinality(E) = EvictCount
              /\ tiles' = [l \in Locs |-> IF l \in E THEN None ELSE tiles[l]]
              /\ numTiles' = (numTiles - EvictCount) % CountMod
              /\ Release(Rooted(tiles', building), tile)
       ELSE UNCHANGED <<tiles, numTiles, tile>>
    /\ UNCHANGED <<requests, building, todo, db, unsaved, asked, fault>>

\* Mutant of ParentReady: nobody waits for the parent.
ParentReadyAlways(t) == TRUE

\* TerrainTile::Build with `late` frames until the read-back is due.
ParentReady(t) == t.parent = None \/ tile[t.parent].ready

Build(t, late) ==
    CASE ~ParentReady(t)               -> t
      [] ParentReady(t) /\ t.step = 0  -> IF gpu THEN t ELSE [t EXCEPT !.step = 1, !.due = 1]
      [] ParentReady(t) /\ t.step = 1  -> IF t.due > 0 THEN t
                                          ELSE [t EXCEPT !.step = 2, !.due = late]
      [] ParentReady(t) /\ t.step = 2  -> IF t.due > 0 THEN t
                                          ELSE [t EXCEPT !.step = -1, !.ready = TRUE,
                                                         !.parent = None]

\* Mutant of Dispatched: m_numGpuCalcs is not counted up.
DispatchedFree(old, new) == FALSE

Dispatched(old, new) == old.step = 0 /\ new.step = 1

\* Mutant of Creatable: m_tiles is not searched for the location.
CreatableRelisted ==
    {l \in requests : l > cursor /\ (Parent[l] # 0 => Listed(Parent[l]))}

\* The first loop: create the requested tile and try to build it.
Creatable ==
    {l \in requests : l > cursor /\ ~Listed(l) /\ (Parent[l] # 0 => Listed(Parent[l]))}

Visit(l) ==
    /\ tpc = "visit" /\ l \in Creatable /\ \A k \in Creatable : l <= k
    /\ cursor' = l
    /\ \E o \in Objs :
         LET t   == Unbuilt(l, IF Parent[l] = 0 THEN None ELSE tiles[Parent[l]])
             new == Build(t, 1)
         IN /\ Fresh(o)
            /\ tile' = [tile EXCEPT ![o] = new]
            /\ gpu' = (gpu \/ Dispatched(t, new))
            /\ tiles' = [tiles EXCEPT ![l] = o]
            /\ next' = next \cup {o}
    /\ numTiles' = (numTiles + 1) % CountMod
    /\ UNCHANGED <<tpc, requests, building, todo, db, unsaved, asked, fault>>

EndVisit ==
    /\ tpc = "visit" /\ Creatable = {}
    /\ tpc' = "build"
    /\ todo' = building
    /\ UNCHANGED <<tiles, numTiles, requests, building, cursor, next, gpu, tile, db,
                   unsaved, asked, fault>>

\* Mutant of SaveHeights: the heights are not written.
SaveHeightsNot(new) == UNCHANGED <<db, unsaved>>

\* WriteTerrainChunk of a tile that has become ready; Put may fail, unnoticed.
SaveHeights(new) ==
    \/ new.ready /\ db' = db \cup {new.loc} /\ unsaved' = unsaved \ {new.loc}
    \/ new.ready /\ UNCHANGED db /\ unsaved' = unsaved \cup {new.loc}
    \/ ~new.ready /\ UNCHANGED <<db, unsaved>>

\* Mutant of Kept: a tile that has to wait is not kept.
KeptAdvanced(old, new) == ~new.ready /\ new # old

\* Build returned false.
Kept(old, new) == ~new.ready

\* The second loop, in the order of addresses: any.
BuildTile(o) ==
    /\ tpc = "build" /\ o \in todo
    /\ todo' = todo \ {o}
    /\ \E late \in 1..ReadLatency :
         LET new == Build(tile[o], late)
         IN /\ gpu' = (gpu \/ Dispatched(tile[o], new))
            /\ next' = IF Kept(tile[o], new) THEN next \cup {o} ELSE next
            /\ SaveHeights(new)
            /\ Release(Rooted(tiles, building \cup next), [tile EXCEPT ![o] = new])
    /\ UNCHANGED <<tpc, tiles, numTiles, requests, building, cursor, asked, fault>>

\* The swap, and bgfx::frame().
Elapsed(t) == [t EXCEPT !.due = IF @ = 0 THEN 0 ELSE @ - 1]

EndUpdate ==
    /\ tpc = "build" /\ todo = {}
    /\ tpc' = "idle"
    /\ building' = next /\ next' = {} /\ cursor' = 0 /\ gpu' = FALSE
    /\ Release(Rooted(tiles, next), [o \in Objs |-> Elapsed(tile[o])])
    /\ UNCHANGED <<tiles, numTiles, requests, todo, db, unsaved, asked, fault>>

\* A paused frame: Update is not called.
PausedFrame ==
    /\ tpc = "idle" /\ \E o \in Objs : tile[o].due > 0
    /\ tile' = [o \in Objs |-> Elapsed(tile[o])]
    /\ UNCHANGED <<tpc, tiles, numTiles, requests, building, update, db, unsaved, asked, fault>>

\* The next run of the program finds the database as this one left it.
Restart ==
    /\ tpc' = "idle"
    /\ tiles' = [l \in Locs |-> None] /\ numTiles' = 0
    /\ requests' = {} /\ building' = {}
    /\ cursor' = 0 /\ todo' = {} /\ next' = {} /\ gpu' = FALSE
    /\ tile' = [o \in Objs |-> Blank]
    /\ asked' = {} /\ fault' = FALSE
    /\ UNCHANGED <<db, unsaved>>

Update ==
    \/ BeginUpdate \/ EndVisit \/ EndUpdate
    \/ \E l \in Locs : Visit(l)
    \/ \E o \in Objs : BuildTile(o)

Run ==
    /\ ~fault
    /\ \/ Update \/ PausedFrame
       \/ \E l \in Locs : RequestTile(l) \/ RequestTileRace(l)

Next == Run \/ Restart
Spec == Init /\ [][Next]_vars

\* One run of the program, whose frames keep coming.
FairSpec == Init /\ [][Run]_vars /\ WF_vars(~fault /\ Update)

-----------------------------------------------------------------------------
(* Properties.                                                             *)

Objects == {o \in Objs : tile[o].loc # 0}

\* A tile in m_tiles that is not ready is under construction: no path through
\* Update - eviction, a parent that is not ready, a spent GPU budget - loses the
\* only reference by which it would ever be finished.
UnreadyIsBuilding ==
    \A l \in Locs : Listed(l) /\ ~tile[tiles[l]].ready =>
      tiles[l] \in (IF tpc = "build" THEN todo ELSE building) \cup next

\* GPU work on a tile starts only when the heights of its parent are complete and
\* have been written, so that a crash leaves a child without its parent only if
\* that write failed.
ParentsFirst ==
    \A o \in Objects : tile[o].step # 0 \/ tile[o].ready =>
      Parent[tile[o].loc] \in db \cup unsaved \cup {0}

\* Build's budget: over all tiles, listed, evicted or just created, at most one
\* starts its GPU work in a frame.
OneDispatchPerFrame == Cardinality({o \in Objects : tile[o].step = 1 /\ tile[o].due = 1}) <= 1

\* A tile that can be used is in the database unless its write failed: of the
\* failure nobody is told, and the tile is used all the same.
ReadyIsStored == \A o \in Objects : tile[o].ready => tile[o].loc \in db \cup unsaved

\* As long as m_tiles never outgrows its limit, each location has one TerrainTile:
\* no two objects compute, and later write, the same heights.
OneTilePerLoc ==
    Cardinality(Locs) <= MaxTiles =>
      \A o, p \in Objects : tile[o].loc = tile[p].loc => o = p

\* RequestTile goes back on a true answer only when Update has evicted the tile and
\* its first loop, which never asks the database, creates it anew, or when a tile
\* whose write had failed is evicted or the program ends: its heights are gone.
LostOnlyByRebuild ==
    [][\A l \in Locs : Available(l) /\ ~Available(l)' =>
          \/ tpc = "visit" /\ l \in requests /\ ~Listed(l) /\ l \in db
          \/ l \in unsaved \ db /\ ~Listed(l)']_vars

\* Below the limit, the selection is the service that the tile loader assumes.
Service == INSTANCE TerrainService WITH
    Above <- Up, available <- {l \in Locs : Available(l)}
ImplementsService == Service!ServiceSpec

\* Below the limit every request is served, however many frames its ancestors,
\* the GPU budget and the read-backs take, and in whatever order tiles are built.
RequestsServed == \A l \in Locs : (l \in asked) ~> (Available(l) \/ fault)
=============================================================================
