----------------------------- MODULE TileLoader -----------------------------
(***************************************************************************)
(* The octree tile set of a mapbg World and the background thread that     *)
(* loads it: OctTileSelection (core/OctTileSelection.cpp) and the part of  *)
(* OctTile (core/OctTile.cpp) that the two threads share.                  *)
(*                                                                         *)
(* Two threads run.  The main thread executes one frame after another:     *)
(* OctTileSelection::Update picks the tiles the camera needs, creates the  *)
(* missing ones, hands the unfinished ones to the loader and retires the   *)
(* ones that left the view; AddTilesToGroup and OctTile::Draw then show    *)
(* them.  The loader thread sleeps on m_cv, pops tiles off m_loaderTiles   *)
(* and runs OctTile::BackgroundLoad on each.  A step of the model is a     *)
(* maximal piece of code that touches the shared state once.               *)
(*                                                                         *)
(* Only m_mtx protects m_loaderTiles, and only on the main thread's side:  *)
(* the loader's lock_guard is an unnamed temporary, released before the    *)
(* vector is read.  Unsynchronised access is a choice over its outcomes;   *)
(* the outcomes that end the process set `fault`.                          *)
(*                                                                         *)
(* TerrainTileSelection is the service TerrainService: `terrain` are the   *)
(* tiles for which RequestTile answers true, `requested` the tiles it was  *)
(* asked for in this run of the program.  Above its limit of tiles the     *)
(* selection is no such service: it takes answers back (TerrainLost).      *)
(*                                                                         *)
(* Level keeps voxel chunks and terrain chunks under keys that differ in   *)
(* the sign of the level, so at the root, level 0, the two share a key:    *)
(* each overwrites the other, and a hit may return the wrong kind.         *)
(***************************************************************************)
EXTENDS Integers, FiniteSets, SequencesExt

CONSTANTS
    Locs,       \* tile locations, numbered in the order of Loc's member <
    Root,       \* the location of level 0, or 0 if it is not in Locs
    Views,      \* the selections FrustumTiles::Get may make
    Objs,       \* addresses of OctTiles, numbered in the order they are reused
    Above,      \* the tiles that get terrain with a tile: those on the same or on
                \*   a larger piece of ground
    Chunk       \* the voxel data that the terrain gives each location:
                \*   "none"  terrain and tile do not meet: no data at all
                \*   "air"   data without a solid voxel
                \*   "solid" data with a solid voxel
                \*   "flat"  data with 256 or more solid voxels in one run

ASSUME LocsAssumption == Locs \subseteq Nat \ {0} /\ IsFiniteSet(Locs)
ASSUME ViewsAssumption == Views \subseteq SUBSET Locs
ASSUME ObjsAssumption == Objs \subseteq Nat \ {0}
ASSUME AboveAssumption == Above \in [Locs -> SUBSET Locs] /\ \A l \in Locs : l \in Above[l]
ASSUME ChunkAssumption == Chunk \in [Locs -> {"none", "air", "solid", "flat"}]
ASSUME RootAssumption == Root \in Locs \cup {0}

None == 0       \* the null pointer

VARIABLES
    mpc,        \* where the main thread is
    paused,     \* isPaused
    todo,       \* locations the running loop of Update has yet to visit
    old,        \* Update's oldTiles
    active,     \* m_activeTiles
    tiles,      \* m_tiles
    numTiles,   \* sNumTiles
    batch,      \* Update's local loaderTiles
    queue,      \* m_loaderTiles
    group,      \* the OctTiles that m_worldGroup holds
    exit,       \* m_exit
    lpc,        \* where the loader thread is
    cur,        \* the loader's local `tile`
    strval,     \* BackgroundLoad's local strval: what GetOctChunk returned
    heap,       \* the OctTiles that exist
    obj,        \* their members
    octDb,      \* what the level database has under the keys of voxel chunks
    requested,  \* locations handed to RequestTile
    terrain,    \* locations for which RequestTile answers true
    swapped,    \* history: m_loaderTiles was swapped since the loader's size()
    fault       \* how the process died, or "no"

Service == INSTANCE TerrainService WITH asked <- requested, available <- terrain

app     == <<paused, group, exit>>
sel     == <<active, tiles, numTiles>>
locals  == <<todo, old, batch>>
mem     == <<heap, obj>>
level   == <<octDb, requested, terrain>>
main    == <<mpc, app, sel, locals>>
own     == <<cur, strval>>
loader  == <<lpc, own>>
vars    == <<main, queue, loader, mem, level, swapped, fault>>

MainPcs == {"ctor", "idle", "collect", "swap", "notify", "retire", "group",
            "show", "exitnotify", "join", "gone"}
LoaderPcs == {"test", "wait", "waiting", "stranded", "size", "size2", "back",
              "pop", "state", "copy", "set3db", "bg1", "set2", "bg2", "put",
              "set3", "hung", "drop", "done"}
Faults == {"no", "queue", "data", "terrain", "memory", "terminate"}

Data == {"none", "torn", "air", "solid", "flat", "heights"}
Tile == [loc: Locs \cup {0}, ready: 0..4, decomm: BOOLEAN, rle: Data,
         vox: BOOLEAN, terr: BOOLEAN]

NewTile(l) == [loc |-> l, ready |-> 0, decomm |-> FALSE, rle |-> "none",
               vox |-> FALSE, terr |-> FALSE]
Blank == NewTile(0)

SetReady(t, state) == [t EXCEPT !.ready = state]
SetRle(t, data) == [t EXCEPT !.rle = data]

TypeOK ==
    /\ mpc \in MainPcs
    /\ lpc \in LoaderPcs
    /\ todo \in SUBSET Locs
    /\ old \in SUBSET Locs
    /\ active \in SUBSET Locs
    /\ paused \in BOOLEAN
    /\ exit \in BOOLEAN
    /\ swapped \in BOOLEAN
    /\ fault \in Faults
    /\ tiles \in [Locs -> Objs \cup {None}]
    /\ numTiles \in Int
    /\ batch \in Seq(Objs)
    /\ queue \in Seq(Objs)
    /\ group \in SUBSET Objs
    /\ heap \in SUBSET Objs
    /\ cur \in Objs \cup {None}
    /\ strval \in Data
    /\ obj \in [Objs -> Tile]
    /\ octDb \in [Locs -> Data \cup {"missing"}]
    /\ requested \in SUBSET Locs
    /\ terrain \in SUBSET Locs

-----------------------------------------------------------------------------
(* shared_ptr counts.  A tile whose last reference a step drops is         *)
(* destroyed in that step; ~OctTile throws, and so terminates the process, *)
(* unless the tile was decommissioned.                                     *)

Held(t, q, b, g, c) ==
    ({t[l] : l \in Locs} \cup Range(q) \cup Range(b) \cup g \cup {c}) \ {None}

Release(newObj, refs) ==
    /\ heap' = heap \cap refs
    /\ obj' = [o \in Objs |-> IF o \in refs THEN newObj[o] ELSE Blank]
    /\ fault' = IF \E o \in heap \ refs : ~newObj[o].decomm
                THEN "terminate" ELSE fault

Has(l) == tiles[l] # None
First(S, l) == l \in S /\ \A k \in S : l <= k

-----------------------------------------------------------------------------
Init ==
    /\ mpc = "ctor" /\ paused = FALSE
    /\ todo = {} /\ old = {} /\ active = {}
    /\ tiles = [l \in Locs |-> None] /\ numTiles = 0
    /\ batch = <<>> /\ queue = <<>> /\ group = {}
    /\ exit \in BOOLEAN             \* the thread starts before m_exit is set
    /\ lpc = "test" /\ cur = None /\ strval = "none"
    /\ heap = {} /\ obj = [o \in Objs |-> Blank]
    /\ requested = {} /\ swapped = FALSE /\ fault = "no"
    /\ octDb = [l \in Locs |-> "missing"] /\ terrain = {}

-----------------------------------------------------------------------------
(* The main thread.                                                        *)

\* The rest of the constructor, once m_loaderThread runs: m_exit(false), and
\* the construction of m_cv, which may forget a loader already parked on it.
Construct ==
    /\ mpc = "ctor"
    /\ mpc' = "idle"
    /\ exit' = FALSE
    /\ lpc' \in IF lpc = "waiting" THEN {"waiting", "stranded"} ELSE {lpc}
    /\ UNCHANGED <<paused, group, sel, locals, queue, own, mem, level, swapped, fault>>

TogglePause ==
    /\ mpc = "idle"
    /\ paused' = ~paused
    /\ UNCHANGED <<mpc, group, exit, sel, locals, queue, loader, mem, level, swapped, fault>>

\* m_worldGroup->Clear(), then the head of OctTileSelection::Update: the camera
\* selects any set of locations.
BeginUpdate(view) ==
    /\ mpc = "idle" /\ ~paused
    /\ mpc' = "collect"
    /\ group' = {}
    /\ old' = active /\ active' = {} /\ todo' = view
    /\ Release(obj, Held(tiles, queue, batch, {}, cur))
    /\ UNCHANGED <<paused, exit, tiles, numTiles, batch, queue, loader, level, swapped>>

\* A paused frame skips Update and AddTilesToGroup.
SkipUpdate ==
    /\ mpc = "idle" /\ paused
    /\ mpc' = "show"
    /\ UNCHANGED <<app, sel, locals, queue, loader, mem, level, swapped, fault>>

\* Mutant of Collect: only a tile just created is queued.
CollectNewOnly(l) ==
    /\ mpc = "collect" /\ First(todo, l)
    /\ todo' = todo \ {l}
    /\ active' = active \cup {l}
    /\ \/ /\ Has(l)
          /\ UNCHANGED <<tiles, numTiles, mem, batch>>
       \/ /\ ~Has(l)
          /\ \E o \in Objs :
                /\ First(Objs \ heap, o)
                /\ heap' = heap \cup {o}
                /\ obj' = [obj EXCEPT ![o] = NewTile(l)]
                /\ tiles' = [tiles EXCEPT ![l] = o]
                /\ batch' = Append(batch, o)
          /\ numTiles' = numTiles + 1
    /\ UNCHANGED <<mpc, app, old, queue, loader, level, swapped, fault>>

\* One iteration of the loop over locs: find or create the tile, and queue it
\* for the loader if it is not finished.
Collect(l) ==
    /\ mpc = "collect" /\ First(todo, l)
    /\ todo' = todo \ {l}
    /\ active' = active \cup {l}
    /\ \/ /\ Has(l)
          /\ batch' = IF obj[tiles[l]].ready < 3 THEN Append(batch, tiles[l]) ELSE batch
          /\ UNCHANGED <<tiles, numTiles, mem>>
       \/ /\ ~Has(l)
          /\ \E o \in Objs :
                /\ First(Objs \ heap, o)
                /\ heap' = heap \cup {o}
                /\ obj' = [obj EXCEPT ![o] = NewTile(l)]
                /\ tiles' = [tiles EXCEPT ![l] = o]
                /\ batch' = Append(batch, o)
          /\ numTiles' = numTiles + 1
    /\ UNCHANGED <<mpc, app, old, queue, loader, level, swapped, fault>>

\* m_mtx is taken and std::swap starts.
LockQueue ==
    /\ mpc = "collect" /\ todo = {}
    /\ mpc' = "swap"
    /\ swapped' = TRUE
    /\ UNCHANGED <<app, sel, locals, queue, loader, mem, level, fault>>

\* Mutant of SwapQueue: the new tiles are added to the queue instead.
AppendQueue ==
    /\ mpc = "swap"
    /\ mpc' = "notify"
    /\ queue' = queue \o batch /\ batch' = <<>>
    /\ UNCHANGED <<app, sel, todo, old, loader, mem, level, swapped, fault>>

SwapQueue ==
    /\ mpc = "swap"
    /\ mpc' = "notify"
    /\ queue' = batch /\ batch' = queue
    /\ UNCHANGED <<app, sel, todo, old, loader, mem, level, swapped, fault>>

\* Mutant of Wake: the notification is forgotten.
WakeNobody == UNCHANGED lpc

\* m_cv.notify_one(): wakes the loader if it is parked, and is lost otherwise.
Wake == lpc' = IF lpc = "waiting" THEN "size" ELSE lpc

\* Mutant of Notify: every old tile is retired, also one still in view.
NotifyRetireAll ==
    /\ mpc = "notify"
    /\ mpc' = "retire"
    /\ todo' = old
    /\ Wake
    /\ UNCHANGED <<app, sel, old, batch, queue, own, mem, level, swapped, fault>>

Notify ==
    /\ mpc = "notify"
    /\ mpc' = "retire"
    /\ todo' = old \ active
    /\ Wake
    /\ UNCHANGED <<app, sel, old, batch, queue, own, mem, level, swapped, fault>>

\* Mutant of Decomission: m_isdecommissioned is not set.
DecomissionStateOnly(t) == SetReady(t, 0)

Decomission(t) == [SetReady(t, 0) EXCEPT !.decomm = TRUE]

\* One iteration of the loop over oldTiles, in whatever order its std::set has:
\* decommission, erase.
Retire(l) ==
    /\ mpc = "retire" /\ l \in todo
    /\ todo' = todo \ {l}
    /\ tiles' = [tiles EXCEPT ![l] = None]
    /\ numTiles' = numTiles - 1
    /\ Release([obj EXCEPT ![tiles[l]] = Decomission(@)],
               Held(tiles', queue, batch, group, cur))
    /\ UNCHANGED <<mpc, app, active, old, batch, queue, loader, level, swapped>>

\* Update returns: its locals, the previous queue among them, are destroyed.
EndUpdate ==
    /\ mpc = "retire" /\ todo = {}
    /\ mpc' = "group"
    /\ batch' = <<>> /\ old' = {}
    /\ Release(obj, Held(tiles, queue, <<>>, group, cur))
    /\ UNCHANGED <<app, sel, todo, queue, loader, level, swapped>>

\* m_rledata.size() == 0, read while the loader may be writing the vector.
MayBeEmpty(o) == obj[o].rle \in {"none", "torn"}

AddTilesToGroup ==
    /\ mpc = "group"
    /\ mpc' = "show"
    /\ LET shown == {tiles[l] : l \in active}
       IN \E skip \in SUBSET {o \in shown : MayBeEmpty(o)} :
             /\ {o \in shown : obj[o].rle = "none"} \subseteq skip
             /\ group' = shown \ skip
    /\ UNCHANGED <<paused, exit, sel, locals, queue, loader, mem, level, swapped, fault>>

\* Mutant of Show: every draw counts m_readyState up.
ShowCountsUp ==
    /\ mpc = "show"
    /\ mpc' = "idle"
    /\ obj' = [o \in Objs |-> IF o \in group /\ obj[o].ready >= 3
                              THEN [obj[o] EXCEPT !.ready = @ + 1] ELSE obj[o]]
    /\ UNCHANGED <<app, sel, locals, queue, loader, heap, level, swapped, fault>>

\* The rest of the frame.  TileFromPos with GetGroundPos, and Intersects, copy
\* and decode m_rledata of some tiles; a copy taken while the loader writes it
\* may read storage that was just freed, and heights decoded as runs may be
\* written beyond the end of the voxels.  Then OctTile::Draw of every tile in
\* the group: one of the two depth passes at least does not skip it.
Show ==
    /\ mpc = "show"
    /\ mpc' = "idle"
    /\ fault' \in IF \E l \in Locs : Has(l) /\ obj[tiles[l]].rle \in {"torn", "heights"}
                  THEN {fault, "data"} ELSE {fault}
    /\ obj' = [o \in Objs |-> IF o \in group /\ obj[o].ready = 3
                              THEN SetReady(obj[o], 4) ELSE obj[o]]
    /\ UNCHANGED <<app, sel, locals, queue, loader, heap, level, swapped>>

\* The global Application goes: the Engine's scene and m_worldGroup first, then
\* m_terrainTileSelection, then ~OctTileSelection, which sets m_exit ...
BeginExit ==
    /\ mpc = "idle"
    /\ mpc' = "exitnotify"
    /\ group' = {}
    /\ exit' = TRUE
    /\ Release(obj, Held(tiles, queue, batch, {}, cur))
    /\ UNCHANGED <<paused, sel, locals, queue, loader, level, swapped>>

\* ... notifies ...
ExitNotify ==
    /\ mpc = "exitnotify"
    /\ mpc' = "join"
    /\ Wake
    /\ UNCHANGED <<app, sel, locals, queue, own, mem, level, swapped, fault>>

\* ... and joins; then the members m_loaderTiles and m_tiles are destroyed.
Join ==
    /\ mpc = "join" /\ lpc = "done"
    /\ mpc' = "gone"
    /\ queue' = <<>> /\ active' = {} /\ tiles' = [l \in Locs |-> None]
    /\ Release(obj, Held(tiles', <<>>, batch, group, cur))
    /\ UNCHANGED <<app, numTiles, locals, loader, level, swapped>>

-----------------------------------------------------------------------------
(* The loader thread.                                                      *)

\* Steps of the loader that only move it from one place to the next.
Goto(from, to) ==
    /\ lpc = from
    /\ lpc' = to
    /\ UNCHANGED <<main, queue, own, mem, level, swapped, fault>>

\* while (!pThis->m_exit)
TestExit == Goto("test", IF exit THEN "done" ELSE "wait")

\* m_cv.wait(lk) parks; a later notify, or a spurious wakeup, resumes it.
Park == Goto("wait", "waiting")
SpuriousWakeup == Goto("waiting", "size")

\* What size() > 0 may say: while main is inside std::swap, either vector's.
MayBeNonEmpty == queue # <<>> \/ (mpc = "swap" /\ batch # <<>>)
MayBeDrained  == queue = <<>> \/ (mpc = "swap" /\ batch = <<>>)

\* while (m_loaderTiles.size() > 0), then std::lock_guard(m_mtx), which waits
\* for the holder and lets go at once.
LoopTest ==
    \/ queue # <<>> /\ mpc # "swap" /\ Goto("size", "size2")
    \/ MayBeDrained /\ Goto("size", "test")

\* Mutant of SecondTest: the test is left out.
SecondTestSkipped ==
    /\ lpc = "size2"
    /\ lpc' = "back"
    /\ swapped' = (mpc = "swap")
    /\ UNCHANGED <<main, queue, own, mem, level, fault>>

\* if (m_loaderTiles.size() > 0)
SecondTest ==
    /\ lpc = "size2"
    /\ \/ MayBeNonEmpty /\ lpc' = "back"
       \/ MayBeDrained /\ lpc' = "state"
    /\ swapped' = (mpc = "swap")
    /\ UNCHANGED <<main, queue, own, mem, level, fault>>

QueueUnusable == queue = <<>> \/ mpc = "swap"

\* tile = m_loaderTiles.back()
Back ==
    /\ lpc = "back"
    /\ \/ /\ queue # <<>>
          /\ cur' = Last(queue) /\ lpc' = "pop"
          /\ UNCHANGED fault
       \/ /\ QueueUnusable
          /\ fault' = "queue"
          /\ UNCHANGED <<lpc, cur>>
    /\ UNCHANGED <<main, queue, strval, mem, level, swapped>>

\* m_loaderTiles.pop_back()
Pop ==
    /\ lpc = "pop"
    /\ \/ /\ queue # <<>>
          /\ queue' = Front(queue) /\ lpc' = "state"
          /\ Release(obj, Held(tiles, queue', batch, group, cur))
       \/ /\ QueueUnusable
          /\ fault' = "queue"
          /\ UNCHANGED <<queue, lpc, mem>>
    /\ UNCHANGED <<main, own, level, swapped>>

\* A step of BackgroundLoad that writes members of the tile.
Write(to, t) ==
    /\ lpc' = to
    /\ obj' = [obj EXCEPT ![cur] = t]
    /\ UNCHANGED <<main, queue, own, heap, level, swapped, fault>>

me == obj[cur]

\* A hit of GetOctChunk.
GetOctChunk(t) ==
    /\ lpc' = "copy"
    /\ strval' = octDb[me.loc]
    /\ obj' = [obj EXCEPT ![cur] = SetRle(t, "torn")]
    /\ UNCHANGED <<main, queue, cur, heap, level, swapped, fault>>

\* Mutant of BgStart: a finished tile is loaded again.
BgStartAgain ==
    \/ cur = None /\ Goto("state", "drop")
    \/ /\ lpc = "state" /\ cur # None
       /\ \/ me.ready \in {1, 2} /\ Goto("state", "bg1")
          \/ me.ready \notin {1, 2} /\ Write("bg1", SetReady(me, 1))

\* Mutant of BgStart: state 3 is announced before the data is copied.
BgStartEarly ==
    \/ cur = None /\ Goto("state", "drop")
    \/ /\ lpc = "state" /\ cur # None
       /\ \/ me.ready >= 3 /\ Goto("state", "drop")
          \/ me.ready \in {1, 2} /\ Goto("state", "bg1")
          \/ /\ me.ready = 0 /\ octDb[me.loc] = "missing"
             /\ Write("bg1", SetReady(me, 1))
          \/ /\ me.ready = 0 /\ octDb[me.loc] # "missing"
             /\ GetOctChunk(SetReady(me, 3))

\* Mutant of BgStart: the database is not asked.
BgStartNoLookup ==
    \/ cur = None /\ Goto("state", "drop")
    \/ /\ lpc = "state" /\ cur # None
       /\ \/ me.ready >= 3 /\ Goto("state", "drop")
          \/ me.ready \in {1, 2} /\ Goto("state", "bg1")
          \/ me.ready = 0 /\ Write("bg1", SetReady(me, 1))

\* if (tile != nullptr && tile->GetReadyState() < 3), then the first branch of
\* BackgroundLoad up to the point where GetOctChunk's hit starts to resize
\* m_rledata.
BgStart ==
    \/ cur = None /\ Goto("state", "drop")
    \/ /\ lpc = "state" /\ cur # None
       /\ \/ me.ready >= 3 /\ Goto("state", "drop")
          \/ me.ready \in {1, 2} /\ Goto("state", "bg1")
          \/ /\ me.ready = 0 /\ octDb[me.loc] = "missing"
             /\ Write("bg1", SetReady(me, 1))
          \/ /\ me.ready = 0 /\ octDb[me.loc] # "missing"
             /\ GetOctChunk(SetReady(me, 1))

\* LoadVB makes a VoxCube if m_rledata holds a solid voxel.  Its byte index never
\* gets to the end of a run of 256 or more, and a height field read as runs ends
\* in any of the ways: some mesh or none, no end, or a read beyond the vector.
LoadVB(t, to) ==
    \/ /\ t.rle # "flat" /\ lpc' = to
       /\ \E v \in IF t.rle = "heights" THEN {t.vox, TRUE} ELSE {t.vox \/ t.rle = "solid"} :
             obj' = [obj EXCEPT ![cur] = [t EXCEPT !.vox = v]]
       /\ UNCHANGED fault
    \/ /\ t.rle \in {"flat", "heights"} /\ lpc' = "hung"
       /\ obj' = [obj EXCEPT ![cur] = t]
       /\ UNCHANGED fault
    \/ /\ t.rle = "heights" /\ fault' = "data"
       /\ UNCHANGED <<lpc, obj>>

\* The rest of the first branch: memcpy of strval, and LoadVB.
BgCopy ==
    /\ lpc = "copy"
    /\ LoadVB(SetRle(me, strval), "set3db")
    /\ strval' = "none"
    /\ UNCHANGED <<main, queue, cur, heap, level, swapped>>

\* The endless loop adds a voxel each time round, until there is no memory.
Exhaust ==
    /\ lpc = "hung"
    /\ fault' = "memory"
    /\ UNCHANGED <<main, queue, loader, mem, level, swapped>>

BgReadyDb == lpc = "set3db" /\ Write("bg1", SetReady(me, 3))

\* if (m_readyState == 1): m_terrainTile != nullptr, or RequestTile answers.
BgRequest ==
    /\ lpc = "bg1"
    /\ \/ me.ready # 1 /\ Goto("bg1", "bg2")
       \/ /\ me.ready = 1 /\ (me.terr \/ me.loc \in terrain)
          /\ Write("set2", [me EXCEPT !.terr = TRUE])
       \/ /\ me.ready = 1 /\ ~me.terr /\ me.loc \notin terrain
          /\ lpc' = "bg2"
          /\ Service!Ask(me.loc)
          /\ UNCHANGED <<main, queue, own, mem, octDb, swapped, fault>>

\* The same call once m_terrainTileSelection has been destroyed.
BgRequestGone ==
    /\ lpc = "bg1" /\ me.ready = 1 /\ ~me.terr
    /\ mpc \in {"exitnotify", "join"}
    /\ fault' = "terrain"
    /\ UNCHANGED <<main, queue, loader, mem, level, swapped>>

BgHaveTerrain == lpc = "set2" /\ Write("bg2", SetReady(me, 2))

\* if (m_readyState == 2): LoadTerrainData assigns RleEncode's result to
\* m_rledata, unless terrain and tile do not meet.
BgFill ==
    /\ lpc = "bg2"
    /\ \/ me.ready # 2 /\ Goto("bg2", "drop")
       \/ /\ me.ready = 2
          /\ Write("put", IF Chunk[me.loc] = "none" THEN me ELSE SetRle(me, "torn"))

\* Mutant of Encoded: the chunk is written before m_rledata is assigned.
EncodedEarly == me.rle

\* The end of that assignment, WriteOctChunk of the result, and LoadVB.  Nobody
\* looks at what WriteOctChunk returns: it may have failed.
Encoded == IF me.rle = "torn" THEN Chunk[me.loc] ELSE me.rle

BgPut ==
    /\ lpc = "put"
    /\ LoadVB(SetRle(me, Encoded), "set3")
    /\ octDb' \in {octDb, [octDb EXCEPT ![me.loc] = Encoded]}
    /\ UNCHANGED <<main, queue, own, heap, requested, terrain, swapped>>

BgReady == lpc = "set3" /\ Write("drop", SetReady(me, 3))

\* `tile` goes out of scope.
DropTile ==
    /\ lpc = "drop"
    /\ lpc' = "size" /\ cur' = None
    /\ Release(obj, Held(tiles, queue, batch, group, None))
    /\ UNCHANGED <<main, queue, strval, level, swapped>>

-----------------------------------------------------------------------------
(* The surroundings.                                                       *)

\* TerrainTileSelection::Update, over several frames, builds what was asked for and
\* the terrain above it.  A finished build is written to the database, at the root
\* over the voxel chunk; nobody looks at what WriteTerrainChunk returns.
TerrainBuilt(l) ==
    /\ mpc = "group" /\ l \notin terrain
    /\ Service!Supply(l)
    /\ octDb' \in {octDb} \cup {[octDb EXCEPT ![r] = "heights"] : r \in {l} \cap {Root}}
    /\ UNCHANGED <<main, queue, loader, mem, swapped, fault>>

\* With more than 100 tiles Update drops the least recently used ones and starts
\* again those that were ever asked for: until they are built RequestTile answers
\* false.  A new run does not find the terrain whose WriteTerrainChunk failed.
TerrainLost(l) ==
    /\ l \in terrain
    /\ \/ mpc = "group" /\ \E k \in requested : l \in Above[k]
       \/ mpc = "ctor"
    /\ terrain' = terrain \ {l}
    /\ UNCHANGED <<main, queue, loader, mem, octDb, requested, swapped, fault>>

\* The process ends, dies or is killed at any point; the next run of the program
\* finds the database as this one left it.
Restart ==
    /\ mpc' = "ctor" /\ paused' = FALSE
    /\ todo' = {} /\ old' = {} /\ active' = {}
    /\ tiles' = [l \in Locs |-> None] /\ numTiles' = 0
    /\ batch' = <<>> /\ queue' = <<>> /\ group' = {}
    /\ exit' \in BOOLEAN
    /\ lpc' = "test" /\ cur' = None /\ strval' = "none"
    /\ heap' = {} /\ obj' = [o \in Objs |-> Blank]
    /\ requested' = {} /\ swapped' = FALSE /\ fault' = "no"
    /\ UNCHANGED <<octDb, terrain>>

Frame ==
    \/ \E view \in Views : BeginUpdate(view)
    \/ SkipUpdate \/ LockQueue \/ SwapQueue \/ Notify
    \/ EndUpdate \/ AddTilesToGroup \/ Show
    \/ \E l \in Locs : Collect(l) \/ Retire(l)

Exit == ExitNotify \/ Join

Load ==
    \/ TestExit \/ Park \/ LoopTest \/ SecondTest \/ Back \/ Pop
    \/ BgStart \/ BgCopy \/ BgReadyDb \/ BgRequest \/ BgRequestGone
    \/ BgHaveTerrain \/ BgFill \/ BgPut \/ BgReady \/ DropTile

Running == fault = "no" /\ mpc # "gone"

Run ==
    \/ Running /\ (Construct \/ TogglePause \/ Frame \/ BeginExit \/ Exit)
    \/ Running /\ (Load \/ SpuriousWakeup \/ Exhaust)
    \/ Running /\ \E l \in Locs : TerrainBuilt(l) \/ TerrainLost(l)

Next == Run \/ Restart

Spec == Init /\ [][Next]_vars

\* The window timer keeps frames coming, and the loader is an ordinary thread.
\* Nothing obliges the user to pause or to quit, no wakeup is spurious by right,
\* and no terrain is promised: above its limit the selection may rebuild for ever.
Fairness ==
    /\ WF_vars(Running /\ (Construct \/ Frame \/ Exit))
    /\ WF_vars(Running /\ Load)
    /\ SF_vars(Running /\ LoopTest)       \* m_mtx is free most of every frame

\* One run of the program.
FairSpec == Init /\ [][Run]_vars /\ Fairness

-----------------------------------------------------------------------------
(* Properties.                                                             *)

\* The main thread dereferences m_tiles.find(loc) unchecked for every loc of
\* m_activeTiles, and for every loc of oldTiles that it retires: the tile must
\* be there.  Outside Update nothing else is in m_tiles, and sNumTiles counts it.
TilesTrackActive ==
    Running =>
      /\ \A l \in active : Has(l)
      /\ mpc = "retire" => \A l \in todo : Has(l)
      /\ mpc \notin {"collect", "swap", "notify", "retire"} => {l \in Locs : Has(l)} = active
      /\ numTiles = Cardinality({l \in Locs : Has(l)})

\* A tile that has left m_tiles but is still referenced - by the queue, by the
\* previous queue or by the loader in the middle of BackgroundLoad - has been
\* decommissioned, so whichever thread drops it last, ~OctTile does not throw.
OrphansAreDecommissioned ==
    Running => \A o \in heap : obj[o].decomm \/ \E l \in Locs : tiles[l] = o

\* Once Update has returned, a tile that left m_tiles lives on only in the loader's
\* hands: neither queue keeps it, so the tile set cannot grow behind sNumTiles.
OrphansAreTransient ==
    Running /\ mpc \in {"idle", "group", "show"} =>
      \A o \in heap : o = cur \/ \E l \in Locs : tiles[l] = o

\* ~OctTile throws in no state of a running program: only the destruction of the
\* World, whose tiles nobody decommissions, ends that way.
ThrowsOnlyAtExit == fault = "terminate" => mpc = "gone"

\* What a hit of GetOctChunk may return: the location's chunk and, at the root, the
\* heights of its terrain.
Stored(l) == {Chunk[l]} \cup (IF l = Root THEN {"heights"} ELSE {})

\* A tile the main thread may draw as finished (state 3 or 4) has the data of its
\* location, whole, and a mesh exactly if that data has a solid voxel - whatever
\* the loader was doing when the tile was created, retired or replaced.  The root
\* is the exception: its tile may have taken the terrain's heights for voxels, and
\* have the mesh of a chunk that is none.
FinishedTilesAreWhole ==
    Running => \A l \in Locs :
      Has(l) /\ obj[tiles[l]].ready >= 3 =>
        /\ obj[tiles[l]].loc = l
        /\ obj[tiles[l]].rle \in Stored(l)
        /\ obj[tiles[l]].rle = "solid" => obj[tiles[l]].vox
        /\ l # Root => obj[tiles[l]].vox = (Chunk[l] = "solid")

\* The database has under the key of a voxel chunk what the terrain gives that
\* location - at the root possibly the terrain itself - also when the tile was
\* retired, or the program died, while the loader worked on it.
StoredChunksMatch == \A l \in Locs : octDb[l] \in {"missing"} \cup Stored(l)

\* The other half of the shared key does no harm: when the root's tile asks for
\* terrain, what RequestTile may find under the key is not the tile's own voxel
\* chunk.  Whoever stored that chunk, a later tile of the root takes it as a hit.
RootTerrainIsHeights ==
    Running /\ lpc = "bg1" /\ me.ready = 1 /\ me.loc = Root =>
      octDb[Root] \in {"missing", "heights"}

\* The loader dies on m_loaderTiles only if the main thread swapped the vector
\* after the loader's own size() > 0: the second test covers everything else.
QueueFaultNeedsSwap == fault = "queue" => swapped

\* The state of a tile that stays in use only advances: no late write of the
\* loader takes a tile that is drawn (4) back, and none is loaded twice.
ReadyAdvances ==
    [][\A l \in Locs :
          Has(l) /\ tiles'[l] = tiles[l] =>
            obj'[tiles[l]].ready >= obj[tiles[l]].ready]_vars

\* What ~OctTile demands, `if (!m_isdecommissioned) throw;`: no tile is destroyed
\* before it has been decommissioned, the end of the program included.
TilesDieDecommissioned == fault # "terminate"

\* The loader has ended, is never notified again, or loops in LoadVB.
LoaderLost == lpc \in {"stranded", "done", "hung"}

Resting(S) ==
    ~paused /\ Running /\ mpc \notin {"exitnotify", "join"} /\ (mpc = "idle" => active = S)

\* If the camera comes to rest, the program neither pauses, quits nor dies, and
\* RequestTile from some time on answers for what is in view (Terrain's
\* RequestsServed and ImplementsService: up to 100 terrain tiles it does), then every
\* tile in view ends up finished, although notifications are lost, queues are
\* replaced half-read and pops hit the wrong tile: each frame queues what is
\* missing again.  The exception is a loader lost to the constructor's race or to
\* LoadVB's endless loop.
RestingViewLoads ==
    \A S \in Views :
      <>[]Resting(S) /\ <>[](S \cap requested \subseteq terrain) =>
        \/ <>[](\A l \in S : Has(l) /\ obj[tiles[l]].ready >= 3)
        \/ <>[]LoaderLost

\* ~OctTileSelection returns from join() wherever the loader is when m_exit is
\* set, except in the window between its test of m_exit and its wait, where the
\* notification is lost and nothing repeats it, and unless LoadVB does not end.
ExitJoins ==
    (Running /\ mpc = "exitnotify" /\ lpc \notin {"wait", "stranded"}) ~>
      (mpc = "gone" \/ fault # "no" \/ lpc = "hung")
=============================================================================
