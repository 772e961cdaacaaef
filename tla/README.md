# A verification project for mapbg

mapbg shows an endless voxel landscape: heights are computed on the GPU, turned
into voxels tile by tile on a background thread, stored in a leveldb database
and drawn by the main thread.  This directory holds TLA+ models of the parts of
`src/core` that carry this logic, TLC configurations for small instances, and
proofs that TLAPS checks for every instance.

## The system

| Component | State | Operations | Talks to |
|---|---|---|---|
| `OctTileSelection` | `m_tiles`, `m_activeTiles`, `m_loaderTiles`, `m_exit`, the loader thread | `Update`, `LoaderThread`, `AddTilesToGroup`, `Intersects`, destructor | `OctTile`; main thread and loader share the queue under `m_mtx` (in part) and `m_cv` |
| `OctTile` | `m_readyState` 0-4, `m_rledata`, `m_rawdata`, `m_voxelinst`, `m_terrainTile`, `m_isdecommissioned` | `BackgroundLoad` (loader), `Draw`, `Decomission`, `GetGroundPos`, `Intersect` (main thread) | `Level`, `TerrainTileSelection::RequestTile` |
| `TerrainTileSelection` | `m_tiles`, `m_requestTiles`, `m_buildingTiles` | `RequestTile` (loader), `Update` (main thread), no lock | `TerrainTile`, `Level` |
| `TerrainTile` | `m_buildStep`, `m_buildFrame`, `m_dataready`, `m_parent`, heights | `Build`, once a frame until ready | bgfx, `Level` |
| `Loc` | level and coordinates of an octree cell | parent, children, local coordinates, two orders, box | everyone |
| `Level` | the leveldb database | get and put of terrain chunks, voxel chunks, camera | loader and main thread |
| `FrustumTiles` | none (`g_maxTileLod`) | which locations the camera needs | `OctTileSelection::Update` |
| `World`, `Application`, window procedure | velocity, modes, touch, `keystate`, frame counter | one frame; keys and touches; start and end | all |
| `UIManager` | `m_buttonDown`, `sButtonStates` | touches; on-screen buttons become key-downs and key-ups once a frame | `World` |
| `Engine` | `m_camera`, `m_debugCamera`, `m_debugCam` | `ViewCam`, `DrawCam`, `SetDbgCam`; drawing | `World`, `FrustumTiles` |
| `Hud`, `SceneItem`, `Mesh`, `Frustum` | scene | drawing | bgfx, imgui |

What is hard about it: two threads share the tile objects with almost no
locking; notifications can be lost; a tile can be retired, or the program end,
while the loader works on it; the terrain pyramid is built over many frames under
a GPU budget and read-back latency while tiles are evicted; results written to
the database are trusted by the next run, failed writes are not noticed, and at the
root of the octree terrain and voxels are kept under one key; the
camera is driven by two sources of keys whose key-ups may be lost, through modes that
redirect them; and run-length counts, byte indices and error terms have edges.  `PROJECT.json` lists each of these hazards at its line
with the properties aimed at it.

## The modules

* **`TileLoader`** — `OctTileSelection` and `OctTile`'s life.  A step is the
  longest piece of code of one thread that touches shared state once.  `mpc` is
  the main thread (a frame: `BeginUpdate`, `Collect` per location, `LockQueue`,
  `SwapQueue`, `Notify`, `Retire` per tile, `EndUpdate`, `AddTilesToGroup`,
  `Show`; or `BeginExit`, `ExitNotify`, `Join`), `lpc` the loader (`TestExit`,
  `Park`, `LoopTest`, `SecondTest`, `Back`, `Pop`, the `Bg...` steps of
  `BackgroundLoad`, `DropTile`).  `heap` and `Release` are the `shared_ptr`
  counts: the step that drops the last reference runs `~OctTile`.  The loader's
  `std::lock_guard(pThis->m_mtx);` is a temporary, so its tests and pops are
  unlocked; undefined outcomes are choices, and those that end the process set
  `fault`.  The constructor starts the thread before `m_exit` is initialised
  (`Construct`); `Restart` keeps the database only, and a write to it (`BgPut`) may
  fail unnoticed.  `octDb` is what the database has under the keys of voxel chunks.
  At the location `Root` (level 0; `Root = 0` if it is not among the locations) the
  terrain has the same key: `TerrainBuilt` may write `"heights"` there, `GetOctChunk`
  returns whichever is there (`strval` is the loader's copy), and what `LoadVB` and the
  main thread make of heights read as runs is a choice that includes a fault.
  `LoadVB` does not end on a chunk with a run of 256 solid voxels (`"flat"`): the loader
  is then `"hung"` until memory is exhausted (`Exhaust`).  Terrain is asked for and
  supplied as `TerrainService` says (`BgRequest`, `TerrainBuilt`; a tile gets terrain with
  every tile whose ground is on its own or below it, `Above`), and may be taken back
  (`TerrainLost`): above 100 tiles `TerrainTileSelection::Update` evicts 20 in every
  frame and computes them again.  The set of locations in view is an input: `FrustumTiles`
  shows what it is like.  `Retire` visits the old tiles in any order.
* **`Terrain`** — `TerrainTileSelection` and `TerrainTile`.  `RequestTile` may
  happen between any two steps of `Update`, which are the eviction, one `Visit` per
  request in the order of `std::set`, and one `BuildTile` per tile under
  construction in any order (the set is ordered by address).  `RequestTileRace`
  is its insertion into either container, of a request or of a tile found in the
  database, during one of the main thread's loops.  Frame numbers are kept
  as frames still to go (`due`).  `SaveHeights` may fail; the history variable
  `unsaved` remembers which locations' heights were lost that way.
* **`TerrainService`** — what the terrain selection promises as long as its tiles fit
  under its limit: a granted request stays granted, and terrain appears only for what
  was asked for.  `Terrain` implements it there (`ImplementsService`, by
  `INSTANCE ... WITH`); `TileLoader` takes its steps from it and adds the loss of
  terrain above the limit.
* **`VoxelChunk`** — from heights to voxels and back: `LoadTerrainData`,
  `RleEncode`, `RleDecode`, `LoadVB`, `GetGroundPos`, loop by loop.  A byte has
  `Base` values, so that the limits 0x80, 0x7FFF and 0x100 are met by a small cube.
  `Half` (0x80) is at least 2: with bytes of one bit the longest run would be shorter
  than a byte counts to, and the byte index of `LoadVB` could not overflow.
* **`VoxelRay`** — `Intersect` and `FindHit`, the walk of a ray through a tile.
* **`RawCache`** — the voxels that a ray cast decodes and leaves in the tile
  (`m_rawdata`), over the tiles that `OctTileSelection::Intersects` tries in its order.
  The loader fills `m_rledata` between `StartRle` and `EndRle`; a ray cast in between
  decodes a torn copy.  A frame of the main thread is `Update`, `AddTilesToGroup`,
  `Intersects` and two `DrawPass`es over the group, which count the draws since the
  last use and free the voxels.  A paused frame (`PausedFrame`) leaves out the first two:
  the ray cast and the loader go on, and the group stays as it was.
* **`FrustumTiles`** — `Get` and the recursion `GetLocsInView`.  The stack is kept by
  location (`call`, `cur`, `behind`); `CallLeaf`, `Descend`, `Skip` and `Return` are
  the ways a call, or a child of one, can go.  The floating-point tests (`Contains`,
  `TargetLodForLoc`) are choices, limited only by this: the cells around the camera
  meet the player's bounds and have a corner behind the camera, and a box with such
  a corner lies in a parent with one.
* **`World`** — the way of a key, a touch or a frame from the window procedure
  through `UIManager` and `World` to the cameras of `Engine` and to the camera record in
  the database.  A step is a window message or a whole frame (`Draw`).  `keystate` and
  `buttons` are the two sources of key-downs; a lost key-up is one that does not
  happen.  Poses are opaque: a drag or a move leads to any pose, but a camera
  without velocity stays.  `SaveCamera` may fail (at most `MaxFails` times in a row),
  and `Restart` keeps the record.  `seen` and `age` are a history: what the frame
  showed that saved last, and how long ago that was.
* **`Loc`** — the algebra of locations and of database keys.

`MC...` modules and `.cfg` files are the instances; `MCLoc` also has the specification
that climbs and descends the octree.  `TileLoaderProofs`, `TerrainProofs`,
`VoxelChunkProofs`, `VoxelRayProofs`, `FrustumTilesProofs`, `WorldProofs`,
`RawCacheProofs` and `LocProofs` hold the theorems.  Operators marked "Mutant
of" are plausible mistakes in the operator that follows them; each property is
known to fail for one of them.

## The runs

| Run | Instance | Shows |
|---|---|---|
| `main` | 2 locations (the root, with voxels; one the terrain does not reach, on a part of the root's ground), views {2} and {1, 2}, 3 tile objects; 6.0 million states | the safety properties of the two threads, and what the key shared at the root does to them |
| `live` | a location with voxels and one with a run of 256, views {1} and {1, 2} | `RestingViewLoads`, `ExitJoins` |
| `throw` | 1 location | a violation: see below |
| `evict` | 2 nested locations, limit 1, eviction of 1, 4 objects, read-back latency up to 2; 0.8 million states | the terrain pyramid under eviction, races, failed writes and restarts |
| `service` | a tree of 4 locations below the limit, the database empty at first | refinement of `TerrainService`, one tile per location, every request served |
| `chunk` | all fields of heights {below, in layer 0, in layer 2} over a 3x3x3 tile, 2-bit bytes | both readers of a chunk see the terrain |
| `ray` | all segments of a 4x4x4 cube and 1 voxel around it, 4 scenes | the walk is the digital segment |
| `loc` | all pairs of locations of levels 0 to 2 | orders, tree navigation, keys |
| `frustum` | a binary tree of 4 levels, targets up to one level below it; 0.5 million states | the selected tiles neither overlap nor leave holes, and include the camera's cell |
| `input` | one axis (two keys, two on-screen buttons), modes, drags, 2 poses | velocity, frozen view, coming to rest |
| `restart` | 3 poses, a save every 3rd frame, up to two failed saves in a row, any restart; 0.8 million states | what a restart brings back |
| `rawcache` | 2 tiles, limit 3, pauses | the decoded voxels of a tile in use and of one left alone |

Why the bounds are enough.  `main`: two locations give a tile that stays while
another is retired and comes back; three objects give both locations a tile and
leave one for the tile the loader still holds, so that a location can have a
dying and a new tile at once.  When no object is free a location cannot be
collected; a larger `Objs` only lets more retired tiles coexist, and
`OrphansAreTransient` shows that at most the loader's one is left when `Update`
returns.  The tile that is retired and comes back is the root's, so that it is loaded
before and after either writer of its key.  `evict`: limit 1 with two locations evicts
a parent under its child and a child under construction.  `chunk`: 27 voxels exceed the longest run (7), a row
of solid voxels can have 9, so that runs below, at and above every limit occur.
`frustum`: the recursion depends on its children only through whether one returned
true and which returned false, so two children show every mixture; four levels let a
fill happen two levels above a culled cell, and a target finer than the finest level
occurs.  `input`: the axes are independent and each has the same code; a second pose
tells a moved camera from one that stayed.  `restart`: a period of 3
lets a restart come right at a save, right after it and right before the next one, and two
failures in a row let the record be three saves old.  `rawcache`: the limit exceeds the two draws of a
frame, as 60 does.  The proofs lift these bounds for all safety properties.

What the less obvious results say:

* `QueueFaultNeedsSwap`, `RestingViewLoads`: the unguarded pop can crash, but only
  if the main thread swaps the queue between the loader's second test and its
  pop; every other loss (a notification, a popped wrong tile) is repaired by the
  next frame, which queues all unfinished tiles again.  `RestingViewLoads` has premises
  that the code does not always meet: the terrain asked for in view must come and stay,
  which `RequestsServed` and `ImplementsService` show of the selection below its limit
  only; above it a view at rest may starve.  And it excepts a loader that the
  constructor's race has stranded or ended, or that hangs in `LoadVB`.
* `ExitJoins`: `join()` in the destructor hangs in exactly one window, when the
  loader has tested `m_exit` and not yet begun to wait; the property excludes that
  window (and the loader stranded by the constructor's race) by name, so that the
  hang is delimited and not ruled out.  A `LoadVB` that does not end keeps `join()`
  waiting too.
* `FinishedTilesAreWhole`, `StoredChunksMatch`: below the root, what is stored and what is
  drawn is the location's own.  At the root the chunk under the voxel key may be the
  heights of the root's terrain, and the root's tile may finish with them, with a mesh
  or without.  `RootTerrainIsHeights`: the reverse does no harm.  A root tile asks for
  terrain only after it found nothing under the key, and whenever it asks again
  nobody has stored voxels there since.  The terrain selection may well read the voxel
  chunk as the heights of the root for a tile below it, but computes levels 1 to 4 from
  noise and not from their parent (`TerrainTile.cpp:187`).
* `LostOnlyByRebuild`: above the limit of tiles the terrain selection takes
  back an answer, because `m_requestTiles` is never cleared and `Update` computes
  an evicted tile again without asking the database.
* `LoadVBEnds`, `DrawnIsExact`: `LoadVB` ends if and only if no run of solid voxels
  reaches 256, because its index is a byte.  A flat row of a tile is such a run.
* `MissedOnlyAtEdge`: `Intersect` drops hits in the plane x = 0 and no others.
* `ReadyIsStored`, `StoredChunksMatch`: a failed write costs the next run the time to
  compute the chunk again and nothing else.  `ReadyIsStored` says that the write was made,
  not that the heights had arrived when they were read.
* `OneTilePerLoc`, `ImplementsService`, `RequestsServed` hold below the limit of tiles, and
  the run starts from an empty database.  Above the limit a location may have several tiles.
* `NoHoles` has the premise that something was selected: if every target in view is
  finer than `g_maxTileLod` the root returns false and nothing is drawn.
  `CameraCellSelected` shows that this cannot happen while the camera is in the octree.
* `VelocityWithinHeld`, `ComesToRest`: although a key-up of one key stops the axis while
  the other is still held, the velocity is never more than what is held, and no push
  outlives its keys.  What is held is what `keystate` says: after a key-up lost to another
  window the camera goes on until the key is pressed and released again.
* `InspectFreezesView` is about inspect mode only.  A drag that starts in inspect mode
  and goes on after it turns the view to the debug camera's direction, because
  `m_initCamDir` was taken from the other camera.
* `TornIsDropped` needs its conditions: a tile without voxels to draw, or any tile
  while boxes are shown, keeps its decoded voxels until it is retired, and a tile that
  was loaded in a pause is not in the group and keeps them as long as the pause.  As
  long as the ray stays on a tile a torn copy is used as it is; no property excludes it.

### Defects of the code

The models follow the code, so where it is wrong a property states what is left.  These
are the places, all found while modelling:

| Defect | Line | Stated in |
|---|---|---|
| `~OctTile` throws at the end of the program | `OctTile.cpp:452` | `TilesDieDecommissioned` (violated), `ThrowsOnlyAtExit` |
| the root's voxels and terrain share a key | `Level.cpp:60` | `KeysApart`, `FinishedTilesAreWhole`, `StoredChunksMatch` |
| `LoadVB` does not end on a run of 256 solid voxels | `OctTile.cpp:196` | `LoadVBEnds`, `RestingViewLoads`, `ExitJoins` |
| hits at x = 0 are dropped | `OctTile.cpp:433` | `MissedOnlyAtEdge` |
| the queue is popped without the lock | `OctTileSelection.cpp:260` | `QueueFaultNeedsSwap` |
| a lost notification leaves `join()` waiting | `OctTileSelection.cpp:519` | `ExitJoins` |
| the thread starts before `m_exit` and `m_cv` exist | `OctTileSelection.h:25` | `RestingViewLoads` |
| evicted terrain is computed again in the same call | `TerrainTileSelection.cpp:84` | `LostOnlyByRebuild`, `OneTilePerLoc` |

Only the first contradicts something that the code itself says, and is a finding (run
`throw`): `~OctTile` throws for a tile that was not decommissioned (`OctTile.cpp:452`), yet
`~OctTileSelection` (`OctTileSelection.cpp:516-521`) never decommissions the tiles still in
`m_tiles`: closing the program with any tile in view ends in `std::terminate`.
`ThrowsOnlyAtExit` shows that it happens nowhere else.

### Fairness

Liveness is stated for one run of the program (no `Restart`).  In `TileLoader`
the window's timer keeps frames coming and the loader is an ordinary thread: weak
fairness of each thread as a whole.  Strong fairness of `LoopTest` stands for
the mutex, which the main thread holds for one swap per frame.  Nothing is assumed of
terrain: that it comes is a premise of `RestingViewLoads`.  Nothing obliges
the user to pause, resume or quit, and spurious wakeups are never assumed.
`Terrain` needs weak fairness of `Update`, `VoxelChunk` of the single thread that runs
its loops.  `World` assumes weak fairness of `Draw` (the window's timer), and nothing of
the user: `ComesToRest` has released keys as its premise.  `RawCache` assumes
weak fairness of the main thread, and strong fairness of drawing each tile of the group:
`Draw` skips a tile in the far pass if it is near and in the near pass if it is far, never
in both.  A tile that is not in the group, as in a pause, is not drawn.  Database writes are never assumed to succeed.

## The proofs

All proofs are checked by `tlapm` from nothing.  Every invariant and every action
property that a run checks but `RootTerrainIsHeights`, and the refinement, has a theorem
that states it for all values of the constants; the violated property of run `throw` and
liveness have none.

**`TileLoaderProofs`**: for all sets of locations, views and objects and all data,
the root among them or not, every safety property of run `main` but
`RootTerrainIsHeights`: `TypeCorrect`, `OrphansSafe`, `ThrowsAtExit`,
`DataCorrect`, `ChunksMatch`, `StatesAdvance`, `LookupsSucceed`, `QueueFaults`, `NoLeak`.
Assumptions: locations are a finite set of positive numbers (the order of `Loc`'s
member `<`), objects are positive numbers, views are sets of locations, `Chunk`
gives each location its data, `Root` is a location or 0.  None of the properties is inductive.  The
invariant has these parts, each proved on top of the ones before:

* `MemInv`: types; the heap is exactly what the containers and the loader refer
  to; what the program counters say about locals; where each object's `loc`
  points, so that no two locations share a tile;
* `PlacesInv`: which locations have a tile at each point of `Update`, and that
  `sNumTiles` counts them;
* `QueuesInv` and `QueueInv`: what the two queues may hold, and what the
  loader's own test still guarantees as long as no swap intervenes;
* `OrphanInv`: a tile outside `m_tiles` is decommissioned;
* `DataInv`: what state, data and mesh of each tile, and the loader's copy of a chunk, are at
  each point of `BackgroundLoad`, also for a tile that `Decomission` has put back to
  state 0 under the loader's hands.  `LoadVBStep` says once what `LoadVB` leaves, whether it
  ends, hangs or dies, and the invariant is stated with `Stored`, what the database may
  have: the chunk, and at the root also heights.

**`TerrainProofs`**: for every tree of locations, any limit, eviction and latency and any
number of objects: `TerrainTyped`, `UnreadyTilesAreBuilt`, `ParentsComeFirst`,
`DispatchBudget`, `ReadyTilesAreStored`, `AnswersAreKept`.  Assumptions: locations are
positive numbers in the order of `std::set`, each with a parent that comes before it
(`LocProofs` shows this of the code's order) or none.  `IInv` joins, to the types,

* `PlaceInv`: which of `Update`'s lists hold what at each point of it;
* `StoreInv`: the database, with the heights whose write failed, is closed under
  `Parent`.  Without it `RequestTile` could find a child in the database whose parent
  was never computed, and `ParentsFirst` would not survive a restart;
* `CoherentInv`: how step, due frame, ready flag and parent of one tile go together;
* `ParentInv`: a tile waits for a tile of the location above it, also after that tile
  was evicted from `m_tiles`;
* `WorkInv`: the tiles under construction are exactly the unfinished ones, listed or not.
  `UnreadyIsBuilding` speaks of the listed ones only and is not inductive: an evicted
  parent that nobody lists is still needed by its child;
* `ListInv` and `GpuInv`: entries of `m_tiles` are of their location; a budget that is not
  spent means that no tile has started in this frame.

If the locations fit under the limit (the assumption of `OneTilePerLoc`, and an
explicit hypothesis of the refinement) nothing is evicted, and two more invariants hold:
every object is listed (`ListedInv`), and what is requested, listed or stored in one run
was asked for or lies above what was (`WantedInv`).  They give `TilesAreUnique` and
`SelectionImplementsService`: each step of the selection is a step of
`TerrainService` or changes nothing that it sees.

**`VoxelChunkProofs`**: for every size of tile, every field of heights and bytes of any
width: `ChunkTyped`, `ReadersAreSafe`, `DrawnAreTheSolid`, `GroundIsFound`.  `RleEncode`,
`RleDecode` and `LoadVB` are three loops over one sequence of bytes that nobody
parses as a whole.  The invariant says that there is a map from the bytes where a run
begins to the offset where it begins in the cube (`Packs`), that each run is in the cube, has
one value and is as long as it could be (`GoodRun`); the encoder extends the map by a
run, and each reader stands at a byte of it (`ReadInv`, `DrawInv`, `DecodeInv`).  That runs
are maximal is what makes a run of 256 solid voxels visible to `LoadVB` as one: it gives the
"only if" of `DrawnIsExact`.  `IInv` quantifies over all such maps and is
therefore proved without a run of its own; the properties it implies are run.

**`VoxelRayProofs`**: for every cube, every segment and every set of voxels:
`WalkStaysInCube`, `WalkFollowsSegment`, `NoVoxelPassed`, `MissesAtEdge`.  With length D, extent E
of an axis, S steps and M moves, the decision variable is
`2*E*(S+1) - D - 2*D*M` and lies in `2*E-2*D .. 2*E`; this gives the half-voxel
bound, hence M <= E (the walk never leaves the cube) and M = E at the end, and
that a voxel strictly closer than half is the one visited.

**`FrustumTilesProofs`**: for every octree (any tree with levels and ancestors, given
by `TreeAssumption` and `AboveAssumption`) and whatever the geometry answers:
`TilesDisjoint`, `ViewCovered`, `CameraCovered`.  A selection is judged when the
recursion is over, so the invariant `Walk` says what holds in its middle: the open
calls are the path to `cur` (`OpenIsPath`), nothing below an unseen location has
been called (`UnseenBelow`), every selected tile has returned and all its ancestors are
open or returned true (`SelectedReturned`, `AboveSelected`), which excludes that it is
filled in later above its own descendants; below a call that returned true everything
that ended is covered (`FilledBelow`, `TrueHasTile`); and the cells around the camera
are neither skipped nor return false (`CameraInv`).

**`WorldProofs`**: for all axes, poses and periods: `VelocityFollowsKeys` from `VelInv`,
the bound for both sources of keys with the type of the velocity, with a lemma for each
way a key or a set of buttons changes; `ViewFrozen` from `ModeInv`, that `m_debugCam`
follows `m_inspectmode`, in the record also; `WorldTyped`; and `RestoresRecent` from `AgeInv`:
the record is what the frame of the last save showed, and that frame is at most `Period`
frames old for each failed save and as many more as the counter says have passed since the last
attempt.  A frame makes it one older and the time to the next save one shorter.

**`RawCacheProofs`**: for any tiles and any limit: `NotFreedInUse` and `RawCacheTyped`, from
`CastInv`: since the ray cast of a frame a tile has been drawn less often than there
have been passes, and a counter at its maximum means that the voxels are gone.

**`LocProofs`**: for locations of every level: both orders are strict, total and
transitive, parents precede children, `Parent` and `GetChildren` are inverse,
terrain and voxel keys meet at the root only, the boxes of the eight children partition the
parent's (`BoxesPartition`), `GetLocal` and `GetChild` are inverse (`LocalInverse`) and
`ParentAtLevel` finds the enclosing cell (`AncestorEncloses`).  With `StaysInside` (no
step leaves the octree) these are the invariants of run `loc` at every depth:
`OrdersAlwaysFit`, `NavigationAlwaysFits`, `KeysAlwaysApart`.

Induction.  The provers cannot use the induction theorems of the library, so facts about
all levels, ancestors or powers of two are proved from the smallest counterexample: the set of
counterexamples, if not empty, has a least element (`Least`, `Smallest`, from the
well-foundedness of `<`).  The recursive functions `Up` and `Pow2` are shown to satisfy
their defining equations by exhibiting a function that does (`UpDef`, `Pow2Def`).

Only model-checked: `RootTerrainIsHeights`, and liveness (`RestingViewLoads`, `ExitJoins`, `RequestsServed`,
`LoadVBEnds`, `ComesToRest`, `TornIsDropped`), since fairness is out of the prover's reach.

## Not modelled

* What floating-point geometry computes: `Contains`, `TargetLodForLoc`, `GetLocDistance`,
  camera poses, boxes met by rays.  The models choose its results; the control that
  depends on them is modelled.
* Drawing (`Hud`, `SceneItem`, `Mesh`, `Frustum`, most of `Engine`), shaders, and what the
  erosion on the GPU computes.
* `UIButton` and the capture of touches by controls: no control is ever added.
  `ConvexHull.cpp` is called by nothing and `Physics.cpp` is not built.
* In `Terrain`, that the voxel chunk of the root may overwrite its heights: the store is
  that of the terrain alone.  `TileLoader` models the shared key from the side of the
  voxels.
* A database that does not open (`Level.cpp:54`), its compression, and a failing read:
  `Get` has one answer for "not there" and "failed", which the models treat as the first.
* The iOS entry point and the set-up of bgfx.

The program's own code is some 5,000 of the repository's 200,000 lines; the rest is
vendored (imgui with its fonts, gmtl, leveldb, zlib, SimplexNoise) and is used here as
external services, so that the lines mapped in `PROJECT.json` are a small share of
all lines and a large one of the program's logic.  `PROJECT.json` gives the
status of every component.

## Plan

Done, in this order: `TileLoader`, its proofs, `Terrain` with `TerrainService`,
`Loc`, `VoxelChunk`, `VoxelRay`, their proofs; failing writes in `TileLoader` and
`Terrain`; `FrustumTiles`, `World` and `RawCache` with proofs; the proofs of `Terrain`
and its refinement, of `VoxelChunk`, of the octree at every depth and of the restored
camera; the key that the root's chunks share, the end of `LoadVB` and the loss of terrain in
`TileLoader`, pauses in `RawCache`.  Next:

1. The safety parts of the liveness arguments: what remains to be done never grows
   (a measure for `RequestsServed` and `LoadVBEnds`) as action properties.
2. `RawCache`: what a torn copy can be, for any number of tiles and ray casts.
