-------------------------- MODULE TileLoaderProofs --------------------------
(***************************************************************************)
(* Proofs about module TileLoader, for every set of locations, views and   *)
(* objects.                                                                *)
(***************************************************************************)
EXTENDS TileLoader, FiniteSetTheorems, TLAPS

-----------------------------------------------------------------------------
(* The inductive invariant.                                                *)

\* Where the loader works on a tile, and where its local `tile` does not exist.
Loading == {"copy", "set3db", "bg1", "set2", "bg2", "put", "set3", "hung"}
Waiting == {"test", "wait", "waiting", "stranded", "size", "size2", "back", "done"}

\* The tiles that exist are exactly the ones that somebody holds a reference to.
HeapIsHeld == heap = Held(tiles, queue, batch, group, cur)

\* Each thread's local state fits the place the thread is at.
ThreadsInv ==
    /\ lpc \in Loading => cur # None
    /\ lpc \in Waiting => cur = None
    /\ mpc \in {"collect", "swap", "notify", "retire", "group"} => group = {}

\* A tile knows the location that m_tiles keeps it under.
LocationsInv ==
    /\ \A o \in heap : obj[o].loc \in Locs
    /\ \A l \in Locs : Has(l) => obj[tiles[l]].loc = l

MemInv == TypeOK /\ HeapIsHeld /\ ThreadsInv /\ LocationsInv

\* A tile with members t has the data and the mesh of its location.
Whole(t) ==
    /\ t.rle \in Stored(t.loc)
    /\ t.rle = "solid" => t.vox
    /\ t.loc # Root => t.vox = (Chunk[t.loc] = "solid")

\* The loader is the only writer of a tile's data, and never leaves it half
\* written; what GetOctChunk returned is right, though at the root not always voxels.
DataInv ==
    /\ \A o \in heap :
         /\ obj[o].rle \in {"none", "torn"} \cup Stored(obj[o].loc)
         /\ obj[o].rle = "torn" => o = cur /\ lpc \in {"copy", "put"}
         /\ obj[o].vox => Chunk[obj[o].loc] = "solid" \/ obj[o].loc = Root
         /\ obj[o].ready >= 3 => Whole(obj[o])
    /\ lpc = "put" => IF Chunk[obj[cur].loc] = "none"
                      THEN obj[cur].rle \in Stored(obj[cur].loc)
                      ELSE obj[cur].rle = "torn"
    /\ lpc \in {"set3db", "set3"} => Whole(obj[cur])
    /\ lpc \in {"copy", "set3db", "set2"} => obj[cur].ready \in {0, 1}
    /\ lpc \in {"put", "set3"} => obj[cur].ready \in {0, 2}
    /\ lpc = "copy" /\ fault = "no" => strval \in Stored(obj[cur].loc)

\* Which locations m_tiles has at each place of Update, and what the queues and
\* the scene refer to.
HasSet == {l \in Locs : Has(l)}
ActiveTiles == {tiles[l] : l \in active}

PlacesInv ==
    /\ mpc \in {"collect", "swap", "notify"} => HasSet = old \cup active
    /\ mpc = "retire" => HasSet = active \cup todo /\ active \cap todo = {}
    /\ mpc \notin {"collect", "swap", "notify", "retire"} => HasSet = active
    /\ mpc # "gone" => numTiles = Cardinality(HasSet)

QueuesInv ==
    /\ mpc \in {"collect", "swap"} => Range(batch) \subseteq ActiveTiles
    /\ mpc \in {"notify", "retire", "group", "show", "idle"} => Range(queue) \subseteq ActiveTiles
    /\ mpc \in {"group", "show", "idle"} => batch = <<>>
    /\ mpc \in {"show", "idle"} => group \subseteq ActiveTiles
    /\ mpc = "ctor" => queue = <<>> /\ batch = <<>> /\ group = {}

QueueInv == lpc \in {"back", "pop"} /\ ~swapped => queue # <<>> /\ mpc # "swap"

OrphanInv == mpc # "gone" => \A o \in heap : obj[o].decomm \/ \E l \in Locs : tiles[l] = o

-----------------------------------------------------------------------------
(* Sequences and tiles.                                                    *)

\* A new tile, and the blank that stands for no tile, are tiles.
LEMMA NewTileType ==
  ASSUME NEW l \in Locs \cup {0}
  PROVE  NewTile(l) \in Tile /\ NewTile(l).loc = l
  BY DEF NewTile, Tile, Data

\* The fields of a tile.
LEMMA TileFields ==
  ASSUME NEW t \in Tile
  PROVE  /\ t.loc \in Locs \cup {0} /\ t.ready \in 0..4 /\ t.decomm \in BOOLEAN
         /\ t.rle \in Data /\ t.vox \in BOOLEAN /\ t.terr \in BOOLEAN
  BY DEF Tile

\* Assignments to members of a tile.
LEMMA ReadyWrite ==
  ASSUME NEW t \in Tile, NEW r \in 0..4
  PROVE  /\ SetReady(t, r) \in Tile
         /\ SetReady(t, r).ready = r
         /\ SetReady(t, r).loc = t.loc
         /\ SetReady(t, r).decomm = t.decomm
         /\ SetReady(t, r).rle = t.rle
         /\ SetReady(t, r).vox = t.vox
  BY DEF SetReady, Tile

\* m_rledata = d.
LEMMA RleWrite ==
  ASSUME NEW t \in Tile, NEW d \in Data
  PROVE  /\ SetRle(t, d) \in Tile
         /\ SetRle(t, d).ready = t.ready
         /\ SetRle(t, d).loc = t.loc
         /\ SetRle(t, d).decomm = t.decomm
         /\ SetRle(t, d).rle = d
         /\ SetRle(t, d).vox = t.vox
  BY DEF SetRle, Tile

\* m_terrainTile is set.
LEMMA TerrainWrite ==
  ASSUME NEW t \in Tile
  PROVE  /\ [t EXCEPT !.terr = TRUE] \in Tile
         /\ [t EXCEPT !.terr = TRUE].ready = t.ready
         /\ [t EXCEPT !.terr = TRUE].loc = t.loc
         /\ [t EXCEPT !.terr = TRUE].decomm = t.decomm
         /\ [t EXCEPT !.terr = TRUE].rle = t.rle
         /\ [t EXCEPT !.terr = TRUE].vox = t.vox
  BY DEF Tile

\* OctTile::Decomission.
LEMMA DecomissionWrite ==
  ASSUME NEW t \in Tile
  PROVE  /\ Decomission(t) \in Tile
         /\ Decomission(t).ready = 0
         /\ Decomission(t).loc = t.loc
         /\ Decomission(t).decomm
         /\ Decomission(t).rle = t.rle
         /\ Decomission(t).vox = t.vox
  <1>1. \A u \in Tile : /\ [u EXCEPT !.decomm = TRUE] \in Tile
                        /\ [u EXCEPT !.decomm = TRUE].ready = u.ready
                        /\ [u EXCEPT !.decomm = TRUE].loc = u.loc
                        /\ [u EXCEPT !.decomm = TRUE].decomm
                        /\ [u EXCEPT !.decomm = TRUE].rle = u.rle
                        /\ [u EXCEPT !.decomm = TRUE].vox = u.vox
    BY DEF Tile
  <1> QED
    BY <1>1, ReadyWrite DEF Decomission

\* What LoadVB makes of the loader's tile: members t, for data d, where it ends.
Meshed(t, d, ended) ==
    /\ t.loc = me.loc /\ t.ready = me.ready /\ t.decomm = me.decomm /\ t.rle = d
    /\ t.vox => me.vox \/ d \in {"solid", "heights"}
    /\ ended /\ d # "heights" => t.vox = (me.vox \/ d = "solid")

\* A step with LoadVB.
VBStep(d, to) ==
    \/ fault' = "data" /\ UNCHANGED <<lpc, obj>>
    \/ /\ fault' = fault /\ lpc' \in {to, "hung"}
       /\ \E t \in Tile : Meshed(t, d, lpc' = to) /\ obj' = [obj EXCEPT ![cur] = t]

\* OctTile::LoadVB, whichever way it goes.
LEMMA LoadVBStep ==
  ASSUME me \in Tile, NEW d \in Data, NEW to \in {"set3db", "set3"}, LoadVB(SetRle(me, d), to)
  PROVE  VBStep(d, to)
  <1> DEFINE u == SetRle(me, d)
  <1>1. /\ u \in Tile /\ u.rle = d /\ u.loc = me.loc /\ u.ready = me.ready
        /\ u.decomm = me.decomm /\ u.vox = me.vox
    BY RleWrite
  <1>2. me.vox \in BOOLEAN
    BY TileFields
  <1> HIDE DEF u
  <1>3. \A v \in BOOLEAN : /\ [u EXCEPT !.vox = v] \in Tile
                          /\ [u EXCEPT !.vox = v].loc = u.loc
                          /\ [u EXCEPT !.vox = v].ready = u.ready
                          /\ [u EXCEPT !.vox = v].decomm = u.decomm
                          /\ [u EXCEPT !.vox = v].rle = u.rle
                          /\ [u EXCEPT !.vox = v].vox = v
    BY <1>1 DEF Tile
  <1>4. CASE /\ u.rle # "flat" /\ lpc' = to /\ UNCHANGED fault
             /\ \E v \in IF u.rle = "heights" THEN {u.vox, TRUE} ELSE {u.vox \/ u.rle = "solid"} :
                   obj' = [obj EXCEPT ![cur] = [u EXCEPT !.vox = v]]
    <2>1. PICK v \in IF u.rle = "heights" THEN {u.vox, TRUE} ELSE {u.vox \/ u.rle = "solid"} :
                   obj' = [obj EXCEPT ![cur] = [u EXCEPT !.vox = v]]
      BY <1>4
    <2>2. v \in BOOLEAN /\ (v => u.vox \/ d \in {"solid", "heights"})
      BY <1>1, <1>2, <2>1
    <2>3. d # "heights" => v = (u.vox \/ d = "solid")
      BY <1>1, <2>1
    <2> DEFINE t == [u EXCEPT !.vox = v]
    <2>4. /\ t \in Tile /\ t.loc = u.loc /\ t.ready = u.ready /\ t.decomm = u.decomm
          /\ t.rle = u.rle /\ t.vox = v
      BY <1>3, <2>2
    <2>5. obj' = [obj EXCEPT ![cur] = t]
      BY <2>1
    <2> HIDE DEF t
    <2>6. Meshed(t, d, lpc' = to)
      BY <1>1, <2>2, <2>3, <2>4 DEF Meshed
    <2> QED
      BY <1>4, <2>4, <2>5, <2>6 DEF VBStep
  <1>5. CASE lpc' = "hung" /\ obj' = [obj EXCEPT ![cur] = u] /\ UNCHANGED fault
    <2>1. Meshed(u, d, lpc' = to)
      BY <1>1, <1>5 DEF Meshed
    <2> QED
      BY <1>1, <1>5, <2>1 DEF VBStep
  <1>6. CASE fault' = "data" /\ UNCHANGED <<lpc, obj>>
    BY <1>6 DEF VBStep
  <1> QED
    BY <1>4, <1>5, <1>6 DEF LoadVB, u

\* A step of BackgroundLoad that writes members of the loader's tile, and keeps
\* its location, preserves MemInv.
LEMMA WriteMem ==
  ASSUME MemInv, NEW to \in Loading \cup {"drop"}, NEW t \in Tile, Write(to, t),
         lpc \in Loading \cup {"state"}, cur # None, t.loc = obj[cur].loc
  PROVE  MemInv'
  <1> USE DEF Write, MemInv, main, app, sel, locals, loader, own, mem, level
  <1>1. cur \in Objs /\ obj' = [obj EXCEPT ![cur] = t] /\ obj \in [Objs -> Tile]
    BY DEF TypeOK
  <1>2. /\ obj' \in [Objs -> Tile]
        /\ \A o \in Objs : obj'[o].loc = obj[o].loc
        /\ obj'[cur] = t
    BY <1>1
  <1>3. TypeOK'
    BY <1>2 DEF TypeOK, Loading, LoaderPcs
  <1>4. HeapIsHeld'
    BY DEF HeapIsHeld, Held
  <1>5. ThreadsInv'
    BY <1>1, <1>2 DEF ThreadsInv, Loading, Waiting
  <1>6. LocationsInv'
    BY <1>2 DEF LocationsInv, Has, TypeOK
  <1> QED
    BY <1>3, <1>4, <1>5, <1>6

\* So does a step that also writes strval and the database.
LEMMA TileMem ==
  ASSUME MemInv, cur # None, NEW t \in Tile, t.loc = obj[cur].loc,
         lpc' \in Loading, obj' = [obj EXCEPT ![cur] = t], strval' \in Data,
         octDb' \in [Locs -> Data \cup {"missing"}],
         UNCHANGED <<main, queue, cur, heap, requested, terrain, swapped, fault>>
  PROVE  MemInv'
  <1> USE DEF MemInv, main, app, sel, locals
  <1>1. cur \in Objs /\ obj \in [Objs -> Tile]
    BY DEF TypeOK
  <1>2. obj' \in [Objs -> Tile] /\ \A o \in Objs : obj'[o].loc = obj[o].loc
    BY <1>1
  <1>3. TypeOK'
    BY <1>2 DEF TypeOK, Loading, LoaderPcs
  <1>4. HeapIsHeld'
    BY DEF HeapIsHeld, Held
  <1>5. ThreadsInv'
    BY <1>1, <1>2 DEF ThreadsInv, Loading, Waiting
  <1>6. LocationsInv'
    BY <1>2 DEF LocationsInv, Has, TypeOK
  <1> QED
    BY <1>3, <1>4, <1>5, <1>6

\* And one that stops in LoadVB.
LEMMA StopMem ==
  ASSUME MemInv, fault' \in Faults, strval' \in Data,
         octDb' \in [Locs -> Data \cup {"missing"}],
         UNCHANGED <<main, queue, lpc, cur, mem, requested, swapped>>,
         terrain' \in SUBSET Locs
  PROVE  MemInv'
  <1> USE DEF MemInv, main, app, sel, locals, mem
  <1>1. TypeOK'
    BY DEF TypeOK
  <1>2. HeapIsHeld'
    BY DEF HeapIsHeld, Held
  <1>3. ThreadsInv' /\ LocationsInv'
    BY DEF ThreadsInv, LocationsInv, Has
  <1> QED
    BY <1>1, <1>2, <1>3

\* And one with LoadVB.
LEMMA VBMem ==
  ASSUME MemInv, cur # None, NEW d, NEW to \in {"set3db", "set3"}, VBStep(d, to),
         strval' \in Data, octDb' \in [Locs -> Data \cup {"missing"}],
         UNCHANGED <<main, queue, cur, heap, requested, terrain, swapped>>
  PROVE  MemInv'
  <1>1. CASE fault' = "data" /\ UNCHANGED <<lpc, obj>>
    <2>1. fault' \in Faults /\ terrain' \in SUBSET Locs /\ UNCHANGED mem
      BY <1>1 DEF Faults, MemInv, TypeOK, mem
    <2> QED
      BY <1>1, <2>1, StopMem
  <1>2. CASE /\ fault' = fault /\ lpc' \in {to, "hung"}
             /\ \E t \in Tile : Meshed(t, d, lpc' = to) /\ obj' = [obj EXCEPT ![cur] = t]
    <2>1. PICK t \in Tile : Meshed(t, d, lpc' = to) /\ obj' = [obj EXCEPT ![cur] = t]
      BY <1>2
    <2>2. t.loc = obj[cur].loc /\ lpc' \in Loading
      BY <1>2, <2>1 DEF Meshed, me, Loading
    <2> QED
      BY <1>2, <2>1, <2>2, TileMem
  <1> QED
    BY <1>1, <1>2 DEF VBStep

\* So does a step of the loader that only moves it to the next place.
LEMMA GotoMem ==
  ASSUME MemInv, NEW from, NEW to \in LoaderPcs, Goto(from, to),
         to \in Loading => cur # None, to \in Waiting => cur = None
  PROVE  MemInv'
  <1> USE DEF Goto, MemInv, main, app, sel, locals, loader, own, mem, level
  <1>1. TypeOK'
    BY DEF TypeOK
  <1>2. HeapIsHeld'
    BY DEF HeapIsHeld, Held
  <1>3. ThreadsInv' /\ LocationsInv'
    BY DEF ThreadsInv, LocationsInv, Has
  <1> QED
    BY <1>1, <1>2, <1>3

\* The elements of an empty queue, of a queue after push_back, and after pop_back.
LEMMA EmptyRange == Range(<<>>) = {}
  BY DEF Range

\* push_back adds one element.
LEMMA AppendRange ==
  ASSUME NEW S, NEW s \in Seq(S), NEW e \in S
  PROVE  /\ Append(s, e) \in Seq(S)
         /\ Range(Append(s, e)) = Range(s) \cup {e}
  <1>1. /\ Len(s) \in Nat /\ DOMAIN s = 1..Len(s)
        /\ Append(s, e) \in Seq(S) /\ DOMAIN Append(s, e) = 1..(Len(s) + 1)
        /\ Append(s, e)[Len(s) + 1] = e
        /\ \A i \in 1..Len(s) : Append(s, e)[i] = s[i]
    OBVIOUS
  <1>2. \A i \in 1..(Len(s) + 1) : i \in 1..Len(s) \/ i = Len(s) + 1
    BY <1>1
  <1>3. Len(s) + 1 \in 1..(Len(s) + 1) /\ 1..Len(s) \subseteq 1..(Len(s) + 1)
    BY <1>1
  <1>4. ASSUME NEW x \in Range(Append(s, e)) PROVE x \in Range(s) \cup {e}
    <2>1. PICK i \in 1..(Len(s) + 1) : x = Append(s, e)[i]
      BY <1>1 DEF Range
    <2>2. i = Len(s) + 1 \/ (i \in DOMAIN s /\ x = s[i])
      BY <1>1, <1>2, <2>1
    <2> QED
      BY <1>1, <2>1, <2>2 DEF Range
  <1>5. ASSUME NEW x \in Range(s) PROVE x \in Range(Append(s, e))
    <2>1. PICK i \in 1..Len(s) : x = s[i]
      BY <1>1 DEF Range
    <2>2. i \in DOMAIN Append(s, e) /\ x = Append(s, e)[i]
      BY <1>1, <1>3, <2>1
    <2> QED
      BY <2>2 DEF Range
  <1>6. e \in Range(Append(s, e))
    <2>1. Len(s) + 1 \in DOMAIN Append(s, e) /\ e = Append(s, e)[Len(s) + 1]
      BY <1>1, <1>3
    <2> QED
      BY <2>1 DEF Range
  <1> QED
    BY <1>1, <1>4, <1>5, <1>6

\* back() is an element, and pop_back() adds none.
LEMMA LastFront ==
  ASSUME NEW S, NEW s \in Seq(S), s # <<>>
  PROVE  /\ Last(s) \in Range(s) /\ Last(s) \in S
         /\ Front(s) \in Seq(S)
         /\ Range(Front(s)) \subseteq Range(s)
  BY DEF Range, Last, Front

\* A step that drops references, and changes nothing but the references and, by
\* newObj, members other than the location.
LEMMA ReleaseMem ==
  ASSUME MemInv, NEW newObj \in [Objs -> Tile],
         \A o \in Objs : newObj[o].loc = obj[o].loc,
         NEW refs \in SUBSET heap, Release(newObj, refs)
  PROVE  /\ obj' \in [Objs -> Tile] /\ heap' = refs /\ fault' \in Faults
         /\ \A o \in refs : obj'[o] = newObj[o] /\ obj'[o].loc = obj[o].loc
  <1>1. Blank \in Tile
    BY NewTileType DEF Blank
  <1>2. heap \subseteq Objs /\ fault \in Faults
    BY DEF MemInv, TypeOK
  <1> QED
    BY <1>1, <1>2 DEF Release, Faults

\* Every step of the loader thread preserves MemInv.
LEMMA LoadMem == MemInv /\ Running /\ Load => MemInv'
  <1> SUFFICES ASSUME MemInv, Load PROVE MemInv'
    OBVIOUS
  <1> USE ObjsAssumption, ChunkAssumption
  <1>0. /\ TypeOK /\ HeapIsHeld /\ ThreadsInv /\ LocationsInv
        /\ obj \in [Objs -> Tile] /\ cur \in Objs \cup {None} /\ heap \subseteq Objs
        /\ cur # None => cur \in heap /\ me \in Tile /\ me.loc \in Locs
    BY DEF MemInv, TypeOK, HeapIsHeld, Held, LocationsInv, me
  <1>1. CASE TestExit
    BY <1>0, <1>1, GotoMem DEF TestExit, Goto, ThreadsInv, Waiting, Loading, LoaderPcs
  <1>2. CASE Park
    BY <1>0, <1>2, GotoMem DEF Park, Goto, ThreadsInv, Waiting, Loading, LoaderPcs
  <1>3. CASE LoopTest
    <2>1. CASE Goto("size", "size2")
      BY <1>0, <2>1, GotoMem DEF Goto, ThreadsInv, Waiting, Loading, LoaderPcs
    <2>2. CASE Goto("size", "test")
      BY <1>0, <2>2, GotoMem DEF Goto, ThreadsInv, Waiting, Loading, LoaderPcs
    <2> QED
      BY <1>3, <2>1, <2>2 DEF LoopTest
  <1>4. CASE SecondTest
    <2> USE <1>0, <1>4 DEF SecondTest, main, app, sel, locals, own, mem, level
    <2>1. TypeOK'
      BY DEF TypeOK, LoaderPcs
    <2>2. HeapIsHeld'
      BY DEF HeapIsHeld, Held
    <2>3. ThreadsInv' /\ LocationsInv'
      BY DEF ThreadsInv, LocationsInv, Has, Waiting, Loading
    <2> QED
      BY <2>1, <2>2, <2>3 DEF MemInv
  <1>5. CASE Back
    <2> USE <1>0, <1>5 DEF Back, main, app, sel, locals, loader, own, mem, level
    <2>1. CASE queue # <<>> /\ cur' = Last(queue) /\ lpc' = "pop" /\ UNCHANGED fault
      <3>1. cur = None /\ cur' \in Range(queue) /\ cur' \in Objs
        BY <2>1, LastFront DEF ThreadsInv, Waiting, TypeOK
      <3>2. TypeOK'
        BY <2>1, <3>1 DEF TypeOK, LoaderPcs
      <3>3. HeapIsHeld'
        BY <3>1 DEF HeapIsHeld, Held, None
      <3>4. ThreadsInv' /\ LocationsInv'
        BY <2>1 DEF ThreadsInv, LocationsInv, Has, Waiting, Loading
      <3> QED
        BY <3>2, <3>3, <3>4 DEF MemInv
    <2>2. CASE fault' = "queue" /\ UNCHANGED loader
      <3>1. TypeOK'
        BY <2>2 DEF TypeOK, Faults
      <3>2. HeapIsHeld'
        BY <2>2 DEF HeapIsHeld, Held
      <3>3. ThreadsInv' /\ LocationsInv'
        BY <2>2 DEF ThreadsInv, LocationsInv, Has
      <3> QED
        BY <3>1, <3>2, <3>3 DEF MemInv
    <2> QED
      BY <2>1, <2>2
  <1>6. CASE Pop
    <2> USE <1>0, <1>6 DEF Pop, main, app, sel, locals, own, mem, level
    <2>1. CASE /\ queue # <<>> /\ queue' = Front(queue) /\ lpc' = "state"
               /\ Release(obj, Held(tiles, queue', batch, group, cur))
      <3>1. Range(queue') \subseteq Range(queue) /\ queue' \in Seq(Objs)
        BY <2>1, LastFront DEF TypeOK
      <3>2. Held(tiles, queue', batch, group, cur) \subseteq heap
        BY <3>1 DEF HeapIsHeld, Held
      <3>3. /\ obj' \in [Objs -> Tile] /\ fault' \in Faults
            /\ heap' = Held(tiles, queue', batch, group, cur)
            /\ \A o \in heap' : obj'[o].loc = obj[o].loc
        BY <2>1, <3>2, ReleaseMem
      <3>4. TypeOK'
        BY <2>1, <3>1, <3>2, <3>3 DEF TypeOK, LoaderPcs
      <3>5. HeapIsHeld'
        BY <3>3 DEF HeapIsHeld, Held
      <3>6. ThreadsInv'
        BY <2>1 DEF ThreadsInv, Waiting, Loading
      <3>7. LocationsInv'
        BY <3>2, <3>3 DEF LocationsInv, Has, Held, HeapIsHeld
      <3> QED
        BY <3>4, <3>5, <3>6, <3>7 DEF MemInv
    <2>2. CASE fault' = "queue" /\ UNCHANGED <<queue, lpc, mem>>
      <3>1. TypeOK'
        BY <2>2 DEF TypeOK, Faults
      <3>2. HeapIsHeld'
        BY <2>2 DEF HeapIsHeld, Held
      <3>3. ThreadsInv' /\ LocationsInv'
        BY <2>2 DEF ThreadsInv, LocationsInv, Has
      <3> QED
        BY <3>1, <3>2, <3>3 DEF MemInv
    <2> QED
      BY <2>1, <2>2
  <1>7. CASE BgStart
    <2>1. CASE cur = None /\ Goto("state", "drop")
      BY <2>1, GotoMem DEF Waiting, Loading, LoaderPcs
    <2>2. CASE cur # None /\ Goto("state", "drop")
      BY <2>2, GotoMem DEF Waiting, Loading, LoaderPcs
    <2>3. CASE cur # None /\ Goto("state", "bg1")
      BY <2>3, GotoMem DEF Waiting, Loading, LoaderPcs
    <2>4. CASE lpc = "state" /\ cur # None /\ Write("bg1", SetReady(me, 1))
      <3>1. SetReady(me, 1) \in Tile /\ SetReady(me, 1).loc = obj[cur].loc
        BY <1>0, <2>4, ReadyWrite DEF me
      <3> QED
        BY <2>4, <3>1, WriteMem DEF Loading
    <2>5. CASE /\ lpc = "state" /\ cur # None /\ octDb[me.loc] # "missing"
               /\ GetOctChunk(SetReady(me, 1))
      <3> DEFINE t == SetRle(SetReady(me, 1), "torn")
      <3>1. t \in Tile /\ t.loc = obj[cur].loc
        BY <1>0, <2>5, ReadyWrite, RleWrite DEF me, Data
      <3>2. /\ lpc' = "copy" /\ strval' = octDb[me.loc] /\ obj' = [obj EXCEPT ![cur] = t]
            /\ UNCHANGED <<main, queue, cur, heap, level, swapped, fault>>
        BY <2>5 DEF GetOctChunk
      <3> HIDE DEF t
      <3>3. strval' \in Data /\ octDb' \in [Locs -> Data \cup {"missing"}]
        BY <1>0, <2>5, <3>2 DEF TypeOK, level
      <3>4. lpc' \in Loading /\ UNCHANGED <<main, queue, cur, heap, requested, terrain, swapped, fault>>
        BY <3>2 DEF Loading, level
      <3> QED
        BY <2>5, <3>1, <3>2, <3>3, <3>4, TileMem
    <2> QED
      BY <1>7, <2>1, <2>2, <2>3, <2>4, <2>5 DEF BgStart
  <1>8. CASE BgCopy
    <2>1. lpc = "copy" /\ cur # None /\ strval \in Data
      BY <1>0, <1>8 DEF BgCopy, ThreadsInv, Loading, TypeOK
    <2>2. /\ strval' \in Data /\ octDb' \in [Locs -> Data \cup {"missing"}]
          /\ UNCHANGED <<main, queue, cur, heap, requested, terrain, swapped>>
      BY <1>0, <1>8 DEF BgCopy, Data, level, TypeOK
    <2>3. VBStep(strval, "set3db")
      BY <1>0, <1>8, <2>1, LoadVBStep DEF BgCopy
    <2> QED
      BY <1>0, <2>1, <2>2, <2>3, VBMem
  <1>9. CASE BgReadyDb
    <2>1. lpc = "set3db" /\ cur # None
      BY <1>0, <1>9 DEF BgReadyDb, ThreadsInv, Loading
    <2>2. SetReady(me, 3) \in Tile /\ SetReady(me, 3).loc = obj[cur].loc
      BY <1>0, <2>1, ReadyWrite DEF me
    <2> QED
      BY <1>9, <2>1, <2>2, WriteMem DEF BgReadyDb, Loading
  <1>10. CASE BgRequest
    <2>1. lpc = "bg1" /\ cur # None
      BY <1>0, <1>10 DEF BgRequest, ThreadsInv, Loading
    <2>2. CASE Goto("bg1", "bg2")
      BY <2>1, <2>2, GotoMem DEF Waiting, Loading, LoaderPcs
    <2>3. CASE Write("set2", [me EXCEPT !.terr = TRUE])
      <3>1. [me EXCEPT !.terr = TRUE] \in Tile /\ [me EXCEPT !.terr = TRUE].loc = obj[cur].loc
        BY <1>0, <2>1, TerrainWrite DEF me
      <3> QED
        BY <2>1, <2>3, <3>1, WriteMem DEF Loading
    <2>4. CASE /\ lpc' = "bg2" /\ requested' = requested \cup {me.loc}
               /\ UNCHANGED <<main, queue, own, mem, octDb, terrain, swapped, fault>>
      <3> USE <1>0, <2>1, <2>4 DEF main, app, sel, locals, own, mem
      <3>1. TypeOK'
        BY DEF TypeOK, LoaderPcs
      <3>2. HeapIsHeld'
        BY DEF HeapIsHeld, Held
      <3>3. ThreadsInv' /\ LocationsInv'
        BY DEF ThreadsInv, LocationsInv, Has, Waiting, Loading
      <3> QED
        BY <3>1, <3>2, <3>3 DEF MemInv
    <2> QED
      BY <1>10, <2>2, <2>3, <2>4 DEF BgRequest, Service!Ask
  <1>11. CASE BgRequestGone
    <2> USE <1>0, <1>11 DEF BgRequestGone, main, app, sel, locals, loader, own, mem, level
    <2>1. TypeOK'
      BY DEF TypeOK, Faults
    <2>2. HeapIsHeld'
      BY DEF HeapIsHeld, Held
    <2>3. ThreadsInv' /\ LocationsInv'
      BY DEF ThreadsInv, LocationsInv, Has
    <2> QED
      BY <2>1, <2>2, <2>3 DEF MemInv
  <1>12. CASE BgHaveTerrain
    <2>1. lpc = "set2" /\ cur # None
      BY <1>0, <1>12 DEF BgHaveTerrain, ThreadsInv, Loading
    <2>2. SetReady(me, 2) \in Tile /\ SetReady(me, 2).loc = obj[cur].loc
      BY <1>0, <2>1, ReadyWrite DEF me
    <2> QED
      BY <1>12, <2>1, <2>2, WriteMem DEF BgHaveTerrain, Loading
  <1>13. CASE BgFill
    <2>1. lpc = "bg2" /\ cur # None
      BY <1>0, <1>13 DEF BgFill, ThreadsInv, Loading
    <2>2. CASE Goto("bg2", "drop")
      BY <2>1, <2>2, GotoMem DEF Waiting, Loading, LoaderPcs
    <2>3. CASE Write("put", me)
      BY <1>0, <2>1, <2>3, WriteMem DEF Loading, me
    <2>4. CASE Write("put", SetRle(me, "torn"))
      <3>1. SetRle(me, "torn") \in Tile /\ SetRle(me, "torn").loc = obj[cur].loc
        BY <1>0, <2>1, RleWrite DEF me, Data
      <3> QED
        BY <2>1, <2>4, <3>1, WriteMem DEF Loading
    <2> QED
      BY <1>13, <2>2, <2>3, <2>4 DEF BgFill
  <1>14. CASE BgPut
    <2>1. lpc = "put" /\ cur # None /\ cur \in Objs /\ cur \in heap
      BY <1>0, <1>14 DEF BgPut, ThreadsInv, Loading
    <2>2. Encoded \in Data
      BY <1>0, <2>1, TileFields DEF Encoded, Data
    <2>3. /\ strval' \in Data /\ octDb' \in [Locs -> Data \cup {"missing"}]
          /\ UNCHANGED <<main, queue, cur, heap, requested, terrain, swapped>>
      BY <1>0, <1>14, <2>2 DEF BgPut, own, TypeOK
    <2>4. VBStep(Encoded, "set3")
      BY <1>0, <1>14, <2>1, <2>2, LoadVBStep DEF BgPut
    <2> QED
      BY <1>0, <2>1, <2>3, <2>4, VBMem
  <1>15. CASE BgReady
    <2>1. lpc = "set3" /\ cur # None
      BY <1>0, <1>15 DEF BgReady, ThreadsInv, Loading
    <2>2. SetReady(me, 3) \in Tile /\ SetReady(me, 3).loc = obj[cur].loc
      BY <1>0, <2>1, ReadyWrite DEF me
    <2> QED
      BY <1>15, <2>1, <2>2, WriteMem DEF BgReady, Loading
  <1>16. CASE DropTile
    <2> USE <1>0, <1>16 DEF DropTile, main, app, sel, locals, own, level
    <2>1. Held(tiles, queue, batch, group, None) \subseteq heap
      BY DEF HeapIsHeld, Held
    <2>2. /\ obj' \in [Objs -> Tile] /\ fault' \in Faults
          /\ heap' = Held(tiles, queue, batch, group, None)
          /\ \A o \in heap' : obj'[o].loc = obj[o].loc
      BY <2>1, ReleaseMem
    <2>3. TypeOK'
      BY <2>1, <2>2 DEF TypeOK, LoaderPcs
    <2>4. HeapIsHeld'
      BY <2>2 DEF HeapIsHeld, Held
    <2>5. ThreadsInv'
      BY DEF ThreadsInv, Waiting, Loading
    <2>6. LocationsInv'
      BY <2>1, <2>2 DEF LocationsInv, Has, Held, HeapIsHeld
    <2> QED
      BY <2>3, <2>4, <2>5, <2>6 DEF MemInv
  <1> QED
    BY <1>1, <1>2, <1>3, <1>4, <1>5, <1>6, <1>7, <1>8, <1>9, <1>10, <1>11, <1>12,
       <1>13, <1>14, <1>15, <1>16 DEF Load

\* Every step of the main thread and of its surroundings preserves MemInv.
LEMMA MainMem ==
  ASSUME MemInv, PlacesInv, Running,
         \/ Construct \/ TogglePause \/ Frame \/ BeginExit \/ Exit
         \/ SpuriousWakeup \/ Exhaust
         \/ \E l \in Locs : TerrainBuilt(l) \/ TerrainLost(l)
  PROVE  MemInv'
  <1> USE DEF app, sel, locals, loader, own, mem, level, main
  <1>0. /\ TypeOK /\ HeapIsHeld /\ ThreadsInv /\ LocationsInv
        /\ obj \in [Objs -> Tile] /\ cur \in Objs \cup {None} /\ heap \subseteq Objs
    BY DEF MemInv, TypeOK
  <1>1. CASE Construct
    <2> USE <1>0, <1>1 DEF Construct
    <2>0. lpc' \in {lpc, "stranded"} /\ (lpc' = "stranded" => lpc = "waiting" \/ lpc' = lpc)
      OBVIOUS
    <2>1. TypeOK'
      BY <2>0 DEF TypeOK, MainPcs, LoaderPcs
    <2>2. HeapIsHeld'
      BY DEF HeapIsHeld, Held
    <2>3. ThreadsInv' /\ LocationsInv'
      BY <2>0 DEF ThreadsInv, LocationsInv, Has, Waiting, Loading
    <2> QED
      BY <2>1, <2>2, <2>3 DEF MemInv
  <1>2. CASE TogglePause \/ SkipUpdate \/ LockQueue
    <2> USE <1>0, <1>2 DEF TogglePause, SkipUpdate, LockQueue
    <2>1. TypeOK'
      BY DEF TypeOK, MainPcs
    <2>2. HeapIsHeld'
      <3>1. UNCHANGED <<tiles, queue, batch, group, cur, heap>>
        OBVIOUS
      <3> QED
        BY <3>1 DEF HeapIsHeld, Held
    <2>3. ThreadsInv' /\ LocationsInv'
      BY DEF ThreadsInv, LocationsInv, Has
    <2> QED
      BY <2>1, <2>2, <2>3 DEF MemInv
  <1>3. CASE SwapQueue
    <2> USE <1>0, <1>3 DEF SwapQueue
    <2>1. TypeOK'
      BY DEF TypeOK, MainPcs
    <2>2. HeapIsHeld'
      <3>1. UNCHANGED <<tiles, group, cur, heap>> /\ queue' = batch /\ batch' = queue
        OBVIOUS
      <3> QED
        BY <1>0, <3>1 DEF HeapIsHeld, Held
    <2>3. ThreadsInv' /\ LocationsInv'
      BY DEF ThreadsInv, LocationsInv, Has
    <2> QED
      BY <2>1, <2>2, <2>3 DEF MemInv
  <1>4. CASE Notify \/ ExitNotify
    <2> USE <1>0, <1>4 DEF Notify, ExitNotify, Wake
    <2>1. TypeOK'
      BY DEF TypeOK, MainPcs, LoaderPcs
    <2>2. HeapIsHeld'
      <3>1. UNCHANGED <<tiles, queue, batch, group, cur, heap>>
        OBVIOUS
      <3> QED
        BY <3>1 DEF HeapIsHeld, Held
    <2>3. ThreadsInv' /\ LocationsInv'
      BY DEF ThreadsInv, LocationsInv, Has, Waiting, Loading
    <2> QED
      BY <2>1, <2>2, <2>3 DEF MemInv
  <1>5. CASE \E view \in Views : BeginUpdate(view)
    <2> USE <1>0 DEF BeginUpdate
    <2>0. PICK view \in Views : BeginUpdate(view)
      BY <1>5
    <2>1. Held(tiles, queue, batch, {}, cur) \subseteq heap
      BY DEF HeapIsHeld, Held
    <2>2. /\ obj' \in [Objs -> Tile] /\ fault' \in Faults
          /\ heap' = Held(tiles, queue, batch, {}, cur)
          /\ \A o \in heap' : obj'[o].loc = obj[o].loc
      BY <2>0, <2>1, ReleaseMem
    <2>3. TypeOK'
      BY <2>0, <2>1, <2>2, ViewsAssumption DEF TypeOK, MainPcs
    <2>4. HeapIsHeld'
      BY <2>0, <2>2 DEF HeapIsHeld, Held
    <2>5. lpc \in Loading => cur \in heap'
      BY <2>2, <1>0 DEF ThreadsInv, Held
    <2>6. ThreadsInv'
      BY <2>0, <2>2, <2>5 DEF ThreadsInv, Loading
    <2>7. LocationsInv'
      BY <2>0, <2>1, <2>2 DEF LocationsInv, Has, Held, HeapIsHeld
    <2> QED
      BY <2>3, <2>4, <2>6, <2>7 DEF MemInv
  <1>6. CASE EndUpdate
    <2> USE <1>0, <1>6 DEF EndUpdate
    <2>1. Held(tiles, queue, <<>>, group, cur) \subseteq heap
      BY EmptyRange DEF HeapIsHeld, Held
    <2>2. /\ obj' \in [Objs -> Tile] /\ fault' \in Faults
          /\ heap' = Held(tiles, queue, <<>>, group, cur)
          /\ \A o \in heap' : obj'[o].loc = obj[o].loc
      BY <2>1, ReleaseMem
    <2>3. TypeOK'
      BY <2>1, <2>2 DEF TypeOK, MainPcs
    <2>4. HeapIsHeld'
      BY <2>2 DEF HeapIsHeld, Held
    <2>5. lpc \in Loading => cur \in heap'
      BY <2>2, <1>0 DEF ThreadsInv, Held
    <2>6. ThreadsInv'
      BY <2>2, <2>5 DEF ThreadsInv, Loading
    <2>7. LocationsInv'
      BY <2>1, <2>2 DEF LocationsInv, Has, Held, HeapIsHeld
    <2> QED
      BY <2>3, <2>4, <2>6, <2>7 DEF MemInv
  <1>7. CASE AddTilesToGroup
    <2> USE <1>0, <1>7
    <2>1. /\ group' \subseteq {tiles[l] : l \in active}
          /\ mpc' = "show" /\ mpc = "group"
          /\ UNCHANGED <<paused, exit, sel, locals, queue, loader, mem, level, swapped, fault>>
      BY DEF AddTilesToGroup
    <2>2. \A l \in active : l \in Locs /\ Has(l)
      BY <2>1 DEF PlacesInv, HasSet
    <2>3. group' \subseteq {tiles[l] : l \in Locs} \ {None} /\ group = {}
      BY <2>1, <2>2 DEF Has, ThreadsInv
    <2>4. group' \in SUBSET Objs
      BY <2>3 DEF TypeOK
    <2>5. TypeOK'
      BY <2>1, <2>4 DEF TypeOK, MainPcs
    <2>6. HeapIsHeld'
      BY <2>1, <2>3 DEF HeapIsHeld, Held
    <2>7. ThreadsInv' /\ LocationsInv'
      BY <2>1 DEF ThreadsInv, LocationsInv, Has
    <2> QED
      BY <2>5, <2>6, <2>7 DEF MemInv
  <1>8. CASE Show
    <2> USE <1>0, <1>8 DEF Show
    <2>1. /\ obj' \in [Objs -> Tile]
          /\ \A o \in Objs : obj'[o].loc = obj[o].loc
      BY ReadyWrite
    <2>2. TypeOK'
      BY <2>1 DEF TypeOK, MainPcs, Faults
    <2>3. HeapIsHeld'
      BY DEF HeapIsHeld, Held
    <2>4. ThreadsInv'
      BY <2>1 DEF ThreadsInv, Loading
    <2>5. LocationsInv'
      BY <2>1 DEF LocationsInv, Has, TypeOK
    <2> QED
      BY <2>2, <2>3, <2>4, <2>5 DEF MemInv
  <1>9. CASE BeginExit
    <2> USE <1>0, <1>9 DEF BeginExit
    <2>1. Held(tiles, queue, batch, {}, cur) \subseteq heap
      BY DEF HeapIsHeld, Held
    <2>2. /\ obj' \in [Objs -> Tile] /\ fault' \in Faults
          /\ heap' = Held(tiles, queue, batch, {}, cur)
          /\ \A o \in heap' : obj'[o].loc = obj[o].loc
      BY <2>1, ReleaseMem
    <2>3. TypeOK'
      BY <2>1, <2>2 DEF TypeOK, MainPcs
    <2>4. HeapIsHeld'
      BY <2>2 DEF HeapIsHeld, Held
    <2>5. lpc \in Loading => cur \in heap'
      BY <2>2 DEF ThreadsInv, Held
    <2>6. ThreadsInv'
      BY <2>2, <2>5 DEF ThreadsInv, Loading
    <2>7. LocationsInv'
      BY <2>1, <2>2 DEF LocationsInv, Has, Held, HeapIsHeld
    <2> QED
      BY <2>3, <2>4, <2>6, <2>7 DEF MemInv
  <1>10. CASE Join
    <2> USE <1>0, <1>10 DEF Join
    <2>1. Held(tiles', <<>>, batch, group, cur) \subseteq heap
      BY EmptyRange DEF HeapIsHeld, Held
    <2>2. /\ obj' \in [Objs -> Tile] /\ fault' \in Faults
          /\ heap' = Held(tiles', <<>>, batch, group, cur)
          /\ \A o \in heap' : obj'[o].loc = obj[o].loc
      BY <2>1, ReleaseMem
    <2>3. TypeOK'
      BY <2>1, <2>2 DEF TypeOK, MainPcs
    <2>4. HeapIsHeld'
      BY <2>2 DEF HeapIsHeld, Held
    <2>5. ThreadsInv'
      BY <2>2 DEF ThreadsInv, Loading, Waiting
    <2>6. LocationsInv'
      BY <2>1, <2>2 DEF LocationsInv, Has
    <2> QED
      BY <2>3, <2>4, <2>5, <2>6 DEF MemInv
  <1>11. CASE \E l \in Locs : Collect(l)
    <2>0. PICK l \in Locs : Collect(l)
      BY <1>11
    <2>1. CASE Has(l)
      <3> USE <1>0, <2>0, <2>1 DEF Collect
      <3>1. /\ UNCHANGED <<tiles, numTiles, mem>> /\ tiles[l] \in Objs
            /\ batch' = Append(batch, tiles[l]) \/ batch' = batch
            /\ UNCHANGED <<mpc, app, old, queue, loader, level, swapped, fault>>
            /\ todo' = todo \ {l} /\ active' = active \cup {l}
        BY DEF Has, TypeOK
      <3>2. batch' \in Seq(Objs) /\ Range(batch') \in {Range(batch), Range(batch) \cup {tiles[l]}}
        <4>1. batch \in Seq(Objs)
          BY DEF TypeOK
        <4>2. CASE batch' = batch
          BY <4>1, <4>2
        <4>3. CASE batch' = Append(batch, tiles[l])
          BY <3>1, <4>1, <4>3, AppendRange
        <4> QED
          BY <3>1, <4>2, <4>3
      <3>3. TypeOK'
        BY <3>1, <3>2 DEF TypeOK
      <3>4. HeapIsHeld'
        BY <3>1, <3>2 DEF HeapIsHeld, Held
      <3>5. ThreadsInv' /\ LocationsInv'
        BY <3>1 DEF ThreadsInv, LocationsInv, Has
      <3> QED
        BY <3>3, <3>4, <3>5 DEF MemInv
    <2>2. CASE ~Has(l)
      <3> USE <1>0, <2>0, <2>2 DEF Collect
      <3>1. PICK o \in Objs \ heap :
                /\ heap' = heap \cup {o}
                /\ obj' = [obj EXCEPT ![o] = NewTile(l)]
                /\ tiles' = [tiles EXCEPT ![l] = o]
                /\ batch' = Append(batch, o)
        BY DEF First
      <3>2. /\ numTiles' = numTiles + 1 /\ tiles[l] = None
            /\ UNCHANGED <<mpc, app, old, queue, loader, level, swapped, fault>>
            /\ todo' = todo \ {l} /\ active' = active \cup {l}
        BY DEF Has
      <3>3. batch' \in Seq(Objs) /\ Range(batch') = Range(batch) \cup {o}
        BY <3>1, AppendRange DEF TypeOK
      <3>4. NewTile(l) \in Tile /\ NewTile(l).loc = l
        BY NewTileType
      <3>5. tiles \in [Locs -> Objs \cup {None}] /\ tiles' \in [Locs -> Objs \cup {None}]
        BY <3>1 DEF TypeOK
      <3>6. TypeOK'
        BY <3>1, <3>2, <3>3, <3>4, <3>5 DEF TypeOK
      <3>7. HeapIsHeld'
        <4>1. {tiles'[k] : k \in Locs} \ {None} = ({tiles[k] : k \in Locs} \ {None}) \cup {o}
          BY <3>1, <3>2, <3>5, ObjsAssumption DEF None
        <4> QED
          BY <3>1, <3>2, <3>3, <4>1 DEF HeapIsHeld, Held, None
      <3>8. ThreadsInv'
        <4>1. cur # None => cur \in heap
          BY DEF HeapIsHeld, Held
        <4> QED
          BY <3>1, <3>2, <4>1 DEF ThreadsInv, Loading
      <3>9. LocationsInv'
        <4>1. \A k \in Locs : Has(k) => tiles[k] \in heap
          BY DEF HeapIsHeld, Held, Has
        <4> QED
          BY <3>1, <3>2, <3>4, <3>5, <4>1 DEF LocationsInv, Has
      <3> QED
        BY <3>6, <3>7, <3>8, <3>9 DEF MemInv
    <2> QED
      BY <2>1, <2>2
  <1>12. CASE \E l \in Locs : Retire(l)
    <2> USE <1>0 DEF Retire
    <2>0. PICK l \in Locs : Retire(l)
      BY <1>12
    <2> DEFINE newObj == [obj EXCEPT ![tiles[l]] = Decomission(@)]
    <2>1. newObj \in [Objs -> Tile] /\ \A o \in Objs : newObj[o].loc = obj[o].loc
      BY DecomissionWrite
    <2>2. Release(newObj, Held(tiles', queue, batch, group, cur))
      BY <2>0
    <2> HIDE DEF newObj
    <2>3. tiles' \in [Locs -> Objs \cup {None}]
      BY <2>0 DEF TypeOK
    <2>4. Held(tiles', queue, batch, group, cur) \subseteq heap
      BY <2>0 DEF HeapIsHeld, Held, TypeOK
    <2>5. /\ obj' \in [Objs -> Tile] /\ fault' \in Faults
          /\ heap' = Held(tiles', queue, batch, group, cur)
          /\ \A o \in heap' : obj'[o].loc = obj[o].loc
      BY <2>1, <2>2, <2>4, ReleaseMem
    <2>6. TypeOK'
      <3>1. todo' \in SUBSET Locs /\ numTiles' \in Int
        BY <2>0 DEF TypeOK
      <3>2. UNCHANGED <<mpc, paused, group, exit, active, old, batch, queue, lpc, cur, strval, octDb,
                        requested, terrain, swapped>>
        BY <2>0
      <3> HIDE DEF Retire
      <3> QED
        BY <2>3, <2>4, <2>5, <3>1, <3>2 DEF TypeOK
    <2>7. HeapIsHeld'
      BY <2>0, <2>5 DEF HeapIsHeld, Held
    <2>8. lpc \in Loading => cur \in heap'
      BY <2>5 DEF ThreadsInv, Held
    <2>9. ThreadsInv'
      BY <2>0, <2>5, <2>8 DEF ThreadsInv, Loading
    <2>10. \A k \in Locs : Has(k)' => tiles'[k] \in heap' /\ tiles'[k] = tiles[k]
      BY <2>0, <2>5 DEF Held, Has, TypeOK
    <2>11. LocationsInv'
      BY <2>4, <2>5, <2>10 DEF LocationsInv, Has
    <2> QED
      BY <2>6, <2>7, <2>9, <2>11 DEF MemInv
  <1>13. CASE SpuriousWakeup
    BY <1>0, <1>13, GotoMem DEF SpuriousWakeup, Goto, ThreadsInv, Waiting, Loading, LoaderPcs
  <1>14. CASE \E l \in Locs : TerrainBuilt(l)
    <2>0. PICK l \in Locs : TerrainBuilt(l)
      BY <1>14
    <2>1. octDb' \in [Locs -> Data \cup {"missing"}]
      BY <1>0, <2>0 DEF TerrainBuilt, TypeOK, Data
    <2>2. terrain' \in SUBSET Locs /\ fault' \in Faults /\ strval' \in Data
      BY <1>0, <2>0 DEF TerrainBuilt, Service!Supply, TypeOK
    <2> QED
      BY <2>0, <2>1, <2>2, StopMem DEF TerrainBuilt, Service!Supply
  <1>15. CASE Exhaust \/ \E l \in Locs : TerrainLost(l)
    <2>1. /\ octDb' \in [Locs -> Data \cup {"missing"}] /\ strval' \in Data
          /\ terrain' \in SUBSET Locs /\ fault' \in Faults
          /\ UNCHANGED <<main, queue, lpc, cur, mem, requested, swapped>>
      BY <1>0, <1>15 DEF Exhaust, TerrainLost, TypeOK, Faults
    <2> QED
      BY <2>1, StopMem
  <1> QED
    BY <1>1, <1>2, <1>3, <1>4, <1>5, <1>6, <1>7, <1>8, <1>9, <1>10, <1>11, <1>12,
       <1>13, <1>14, <1>15 DEF Frame, Exit

\* A new run of the program starts in an initial state, but for the database.
LEMMA RestartMem ==
  ASSUME MemInv, Restart
  PROVE  MemInv'
  <1> USE DEF Restart
  <1>1. Blank \in Tile
    BY NewTileType DEF Blank
  <1>2. /\ obj' \in [Objs -> Tile] /\ tiles' \in [Locs -> {None}]
        /\ queue' = <<>> /\ batch' = <<>> /\ queue' \in Seq(Objs) /\ batch' \in Seq(Objs)
    BY <1>1
  <1>3. TypeOK'
    <2>1. /\ mpc' \in MainPcs /\ lpc' \in LoaderPcs /\ fault' \in Faults /\ strval' \in Data
          /\ paused' \in BOOLEAN /\ exit' \in BOOLEAN /\ swapped' \in BOOLEAN
      BY DEF MainPcs, LoaderPcs, Faults, Data
    <2>2. /\ octDb' \in [Locs -> Data \cup {"missing"}] /\ terrain' \in SUBSET Locs
          /\ tiles' \in [Locs -> Objs \cup {None}] /\ numTiles' \in Int
      BY <1>2 DEF MemInv, TypeOK
    <2> QED
      BY <1>2, <2>1, <2>2 DEF TypeOK
  <1>4. HeapIsHeld'
    BY <1>2, EmptyRange DEF HeapIsHeld, Held
  <1>5. ThreadsInv' /\ LocationsInv'
    BY <1>2 DEF ThreadsInv, LocationsInv, Has, Loading
  <1> QED
    BY <1>3, <1>4, <1>5 DEF MemInv

\* The constructor's state satisfies the invariant.
LEMMA InitMem == Init => MemInv /\ PlacesInv
  <1> SUFFICES ASSUME Init PROVE MemInv /\ PlacesInv
    OBVIOUS
  <1> USE DEF Init
  <1>1. Blank \in Tile
    BY NewTileType DEF Blank
  <1>2. obj \in [Objs -> Tile] /\ tiles \in [Locs -> {None}]
    BY <1>1
  <1>3. TypeOK
    <2>1. /\ mpc \in MainPcs /\ lpc \in LoaderPcs /\ fault \in Faults /\ strval \in Data
          /\ paused \in BOOLEAN /\ exit \in BOOLEAN /\ swapped \in BOOLEAN
      BY DEF MainPcs, LoaderPcs, Faults, Data
    <2>2. /\ octDb \in [Locs -> Data \cup {"missing"}] /\ terrain \in SUBSET Locs
          /\ tiles \in [Locs -> Objs \cup {None}] /\ numTiles \in Int
          /\ queue \in Seq(Objs) /\ batch \in Seq(Objs)
      BY <1>2
    <2> QED
      BY <1>2, <2>1, <2>2 DEF TypeOK
  <1>4. HeapIsHeld
    BY <1>2, EmptyRange DEF HeapIsHeld, Held
  <1>5. ThreadsInv /\ LocationsInv
    BY <1>2 DEF ThreadsInv, LocationsInv, Has, Loading
  <1>6. HasSet = {}
    BY <1>2 DEF HasSet, Has
  <1>7. PlacesInv
    BY <1>6, FS_EmptySet DEF PlacesInv
  <1> QED
    BY <1>3, <1>4, <1>5, <1>7 DEF MemInv

\* m_tiles has at each place of Update the locations that PlacesInv says.
LEMMA PlacesNext == MemInv /\ PlacesInv /\ [Next]_vars => PlacesInv'
  <1> SUFFICES ASSUME MemInv, PlacesInv, [Next]_vars PROVE PlacesInv'
    OBVIOUS
  <1>0. /\ TypeOK /\ tiles \in [Locs -> Objs \cup {None}] /\ HasSet \subseteq Locs
        /\ todo \subseteq Locs /\ old \subseteq Locs /\ active \subseteq Locs
        /\ None \notin Objs
    BY ObjsAssumption DEF MemInv, TypeOK, HasSet, None
  <1>f. IsFiniteSet(HasSet) /\ Cardinality(HasSet) \in Nat
    BY <1>0, LocsAssumption, FS_Subset, FS_CardinalityType
  <1>1. CASE UNCHANGED <<tiles, active, numTiles>> /\ mpc' = mpc /\ UNCHANGED <<old, todo>>
    BY <1>1 DEF PlacesInv, HasSet, Has
  <1>2. CASE Construct \/ SkipUpdate \/ AddTilesToGroup \/ Show \/ BeginExit \/ ExitNotify
    <2>1. /\ UNCHANGED <<tiles, active, numTiles>>
          /\ mpc \in {"ctor", "idle", "group", "show", "exitnotify"}
          /\ mpc' \in {"idle", "show", "exitnotify", "join"}
      BY <1>2 DEF Construct, SkipUpdate, AddTilesToGroup, Show, BeginExit, ExitNotify, sel
    <2>2. HasSet' = HasSet
      BY <2>1 DEF HasSet, Has
    <2> QED
      BY <2>1, <2>2 DEF PlacesInv
  <1>3. CASE LockQueue \/ SwapQueue
    <2>1. /\ UNCHANGED <<tiles, active, numTiles, old>>
          /\ mpc \in {"collect", "swap"} /\ mpc' \in {"swap", "notify"}
      BY <1>3 DEF LockQueue, SwapQueue, sel, locals
    <2>2. HasSet' = HasSet
      BY <2>1 DEF HasSet, Has
    <2> QED
      BY <2>1, <2>2 DEF PlacesInv
  <1>4. CASE \E view \in Views : BeginUpdate(view)
    <2>1. /\ UNCHANGED <<tiles, numTiles>> /\ old' = active /\ active' = {}
          /\ mpc = "idle" /\ mpc' = "collect"
      BY <1>4 DEF BeginUpdate
    <2>2. HasSet' = HasSet
      BY <2>1 DEF HasSet, Has
    <2> QED
      BY <2>1, <2>2 DEF PlacesInv
  <1>5. CASE \E l \in Locs : Collect(l)
    <2>0. PICK l \in Locs : Collect(l)
      BY <1>5
    <2>1. mpc = "collect" /\ mpc' = mpc /\ old' = old /\ active' = active \cup {l}
      BY <2>0 DEF Collect
    <2>2. CASE Has(l)
      <3>1. UNCHANGED <<tiles, numTiles>>
        BY <2>0, <2>2 DEF Collect
      <3>2. HasSet' = HasSet /\ l \in HasSet
        BY <2>2, <3>1 DEF HasSet, Has
      <3> QED
        BY <2>1, <3>1, <3>2 DEF PlacesInv
    <2>3. CASE ~Has(l)
      <3>1. PICK o \in Objs : tiles' = [tiles EXCEPT ![l] = o]
        BY <2>0, <2>3 DEF Collect
      <3>2. HasSet' = HasSet \cup {l} /\ l \notin HasSet
        BY <1>0, <2>3, <3>1 DEF HasSet, Has
      <3>3. Cardinality(HasSet') = Cardinality(HasSet) + 1
        BY <1>f, <3>2, FS_AddElement
      <3>4. numTiles' = numTiles + 1
        BY <2>0, <2>3 DEF Collect
      <3> QED
        BY <2>1, <3>2, <3>3, <3>4 DEF PlacesInv
    <2> QED
      BY <2>2, <2>3
  <1>6. CASE Notify
    <2>1. /\ UNCHANGED <<tiles, numTiles, active>> /\ todo' = old \ active
          /\ mpc = "notify" /\ mpc' = "retire"
      BY <1>6 DEF Notify, sel
    <2>2. HasSet' = HasSet
      BY <2>1 DEF HasSet, Has
    <2> QED
      BY <2>1, <2>2 DEF PlacesInv
  <1>7. CASE \E l \in Locs : Retire(l)
    <2>0. PICK l \in Locs : Retire(l)
      BY <1>7
    <2>1. /\ mpc = "retire" /\ mpc' = mpc /\ l \in todo /\ todo' = todo \ {l}
          /\ tiles' = [tiles EXCEPT ![l] = None] /\ numTiles' = numTiles - 1
          /\ active' = active
      BY <2>0 DEF Retire
    <2>2. HasSet' = HasSet \ {l} /\ l \in HasSet
      BY <1>0, <2>1 DEF HasSet, Has, PlacesInv
    <2>3. Cardinality(HasSet') = Cardinality(HasSet) - 1
      BY <1>f, <2>2, FS_RemoveElement
    <2> QED
      BY <2>1, <2>2, <2>3 DEF PlacesInv
  <1>8. CASE EndUpdate
    <2>1. /\ UNCHANGED <<tiles, numTiles, active>> /\ todo = {}
          /\ mpc = "retire" /\ mpc' = "group"
      BY <1>8 DEF EndUpdate, sel
    <2>2. HasSet' = HasSet
      BY <2>1 DEF HasSet, Has
    <2> QED
      BY <2>1, <2>2 DEF PlacesInv
  <1>9. CASE Join
    <2>1. tiles' = [l \in Locs |-> None] /\ active' = {} /\ mpc' = "gone"
      BY <1>9 DEF Join
    <2>2. HasSet' = {}
      BY <2>1 DEF HasSet, Has
    <2> QED
      BY <2>1, <2>2 DEF PlacesInv
  <1>10. CASE Restart
    <2>1. tiles' = [l \in Locs |-> None] /\ active' = {} /\ mpc' = "ctor" /\ numTiles' = 0
      BY <1>10 DEF Restart
    <2>2. HasSet' = {}
      BY <2>1 DEF HasSet, Has
    <2> QED
      BY <2>1, <2>2, FS_EmptySet DEF PlacesInv
  <1>11. CASE \/ TogglePause \/ Load \/ SpuriousWakeup \/ Exhaust \/ UNCHANGED vars
              \/ \E l \in Locs : TerrainBuilt(l) \/ TerrainLost(l)
    <2>1. UNCHANGED <<mpc, sel, locals>>
      BY <1>11 DEF TogglePause, Load, SpuriousWakeup, Exhaust, TerrainBuilt, TerrainLost, vars, main, TestExit, Park,
           LoopTest, SecondTest, Back, Pop, BgStart, BgCopy, BgReadyDb, BgRequest,
           BgRequestGone, BgHaveTerrain, BgFill, BgPut, BgReady, DropTile, GetOctChunk, Goto, Write
    <2> QED
      BY <1>1, <2>1 DEF sel, locals
  <1> QED
    BY <1>2, <1>3, <1>4, <1>5, <1>6, <1>7, <1>8, <1>9, <1>10, <1>11
       DEF Next, Run, Frame, Exit

\* MemInv and PlacesInv are inductive together.
LEMMA MemNext == MemInv /\ PlacesInv /\ [Next]_vars => (MemInv /\ PlacesInv)'
  <1> SUFFICES ASSUME MemInv, PlacesInv, [Next]_vars PROVE MemInv'
    BY PlacesNext
  <1>1. CASE UNCHANGED vars
    <2> USE <1>1 DEF vars, main, app, sel, locals, loader, own, mem, level, MemInv
    <2>1. TypeOK'
      BY DEF TypeOK
    <2>2. HeapIsHeld'
      BY DEF HeapIsHeld, Held
    <2>3. ThreadsInv' /\ LocationsInv'
      BY DEF ThreadsInv, LocationsInv, Has
    <2> QED
      BY <2>1, <2>2, <2>3
  <1>2. CASE Restart
    BY <1>2, RestartMem
  <1>3. CASE Run
    BY <1>3, LoadMem, MainMem DEF Run
  <1> QED
    BY <1>1, <1>2, <1>3 DEF Next

\* Type correctness of the two threads and of what they share: every reference is
\* to a tile that exists, so no step reads members of a destroyed OctTile.
THEOREM TypeCorrect == Spec => []TypeOK
  <1>1. MemInv => TypeOK
    BY DEF MemInv
  <1> QED
    BY <1>1, InitMem, MemNext, PTL DEF Spec

-----------------------------------------------------------------------------
(* What a step of the main thread, or of the surroundings, does to tiles.  *)

\* It keeps the data of a tile that survives, and takes its state back only when
\* the tile leaves m_tiles.
Aged(o) ==
    /\ o \in heap
    /\ obj'[o].loc = obj[o].loc /\ obj'[o].rle = obj[o].rle /\ obj'[o].vox = obj[o].vox
    /\ obj[o].decomm => obj'[o].decomm
    /\ \/ obj'[o].ready = obj[o].ready
       \/ obj'[o].ready = 4 /\ obj[o].ready = 3
       \/ obj'[o].ready = 0 /\ \A l \in Locs : tiles'[l] # o

\* A tile it creates is blank, and in m_tiles.
Born(o) ==
    /\ o \notin heap /\ o # cur
    /\ \E l \in Locs : obj'[o] = NewTile(l) /\ tiles'[l] = o

MainStep ==
    \/ Construct \/ TogglePause \/ Frame \/ BeginExit \/ Exit
    \/ SpuriousWakeup \/ Exhaust
    \/ \E l \in Locs : TerrainBuilt(l) \/ TerrainLost(l)

\* Only the terrain of the root may touch the voxel chunks.
DbStep == octDb' = octDb \/ (Root \in Locs /\ octDb' = [octDb EXCEPT ![Root] = "heights"])

\* Every step of the main thread and of its surroundings ages or creates tiles.
LEMMA MainEffect ==
  ASSUME MemInv, PlacesInv, MainStep
  PROVE  /\ DbStep /\ cur' = cur /\ strval' = strval
         /\ lpc' = lpc \/ (lpc = "waiting" /\ lpc' \in {"size", "stranded"})
         /\ \A o \in heap' : Aged(o) \/ Born(o)
  <1> USE DEF app, sel, locals, loader, own, mem, level, main
  <1>0. /\ TypeOK /\ obj \in [Objs -> Tile] /\ heap \subseteq Objs /\ None \notin Objs
        /\ tiles \in [Locs -> Objs \cup {None}]
        /\ cur # None => cur \in heap
    BY ObjsAssumption DEF MemInv, TypeOK, HeapIsHeld, Held, None
  <1>1. CASE /\ UNCHANGED <<heap, obj, cur, strval>> /\ DbStep
             /\ lpc' = lpc \/ (lpc = "waiting" /\ lpc' \in {"size", "stranded"})
    BY <1>1 DEF Aged
  <1>2. CASE /\ \E refs : Release(obj, refs)
             /\ octDb' = octDb /\ cur' = cur /\ strval' = strval /\ lpc' = lpc
    BY <1>0, <1>2 DEF Aged, Release, DbStep
  <1>3. CASE Construct \/ TogglePause \/ SkipUpdate \/ LockQueue \/ SwapQueue
             \/ AddTilesToGroup \/ SpuriousWakeup \/ Exhaust
    BY <1>1, <1>3 DEF Construct, TogglePause, SkipUpdate, LockQueue, SwapQueue,
       AddTilesToGroup, SpuriousWakeup, Goto, Exhaust, DbStep
  <1>9. CASE \E l \in Locs : TerrainBuilt(l) \/ TerrainLost(l)
    <2>1. DbStep
      BY <1>9, RootAssumption DEF TerrainBuilt, TerrainLost, DbStep
    <2> QED
      BY <1>1, <1>9, <2>1 DEF TerrainBuilt, TerrainLost
  <1>4. CASE Notify \/ ExitNotify
    BY <1>1, <1>4 DEF Notify, ExitNotify, Wake, DbStep
  <1>5. CASE (\E view \in Views : BeginUpdate(view)) \/ EndUpdate \/ BeginExit \/ Join
    BY <1>2, <1>5 DEF BeginUpdate, EndUpdate, BeginExit, Join
  <1>6. CASE Show
    <2>1. \A o \in Objs : Aged(o) \/ o \notin heap
      BY <1>0, <1>6, ReadyWrite DEF Show, Aged
    <2> QED
      BY <1>0, <1>6, <2>1 DEF Show, DbStep
  <1>7. CASE \E l \in Locs : Collect(l)
    <2>0. PICK l \in Locs : Collect(l)
      BY <1>7
    <2>1. CASE Has(l)
      BY <1>1, <2>0, <2>1 DEF Collect, DbStep
    <2>2. CASE ~Has(l)
      <3>1. PICK o \in Objs \ heap :
                /\ heap' = heap \cup {o}
                /\ obj' = [obj EXCEPT ![o] = NewTile(l)]
                /\ tiles' = [tiles EXCEPT ![l] = o]
        BY <2>0, <2>2 DEF Collect, First
      <3>2. Born(o)
        BY <1>0, <3>1 DEF Born
      <3>3. \A p \in heap : Aged(p)
        BY <1>0, <3>1 DEF Aged
      <3> QED
        BY <2>0, <3>1, <3>2, <3>3 DEF Collect, DbStep
    <2> QED
      BY <2>1, <2>2
  <1>8. CASE \E l \in Locs : Retire(l)
    <2>0. PICK l \in Locs : Retire(l)
      BY <1>8
    <2> DEFINE newObj == [obj EXCEPT ![tiles[l]] = Decomission(@)]
    <2>1. /\ Release(newObj, Held(tiles', queue, batch, group, cur))
          /\ tiles' = [tiles EXCEPT ![l] = None]
          /\ DbStep /\ cur' = cur /\ strval' = strval /\ lpc' = lpc
      BY <2>0 DEF Retire, DbStep
    <2>2. \A o \in Objs : o # tiles[l] => newObj[o] = obj[o]
      BY <1>0
    <2>3. tiles[l] # None => newObj[tiles[l]] = Decomission(obj[tiles[l]])
      BY <1>0
    <2> HIDE DEF newObj
    <2>4. \A o \in heap' : o \in heap /\ o \in Objs /\ obj'[o] = newObj[o]
      BY <1>0, <2>1 DEF Release
    <2>5. ASSUME NEW o \in heap' PROVE Aged(o)
      <3>1. CASE o # tiles[l]
        BY <2>2, <2>4, <3>1 DEF Aged
      <3>2. CASE o = tiles[l]
        <4>1. obj[o] \in Tile /\ obj'[o] = Decomission(obj[o]) /\ o # None
          BY <1>0, <2>3, <2>4, <3>2
        <4>2. \A k \in Locs : tiles'[k] # o
          <5>1. \A k \in Locs : tiles[k] = o => k = l
            BY <3>2, <4>1 DEF MemInv, LocationsInv, Has
          <5> QED
            BY <1>0, <2>1, <4>1, <5>1
        <4> QED
          BY <2>4, <4>1, <4>2, DecomissionWrite DEF Aged
      <3> QED
        BY <3>1, <3>2
    <2> QED
      BY <2>1, <2>5
  <1> QED
    BY <1>3, <1>4, <1>5, <1>6, <1>7, <1>8, <1>9 DEF MainStep, Frame, Exit

-----------------------------------------------------------------------------
(* A tile outside m_tiles has been decommissioned.                         *)

\* Dropping references terminates nothing, if m_tiles keeps its tiles or they are
\* decommissioned first.
LEMMA ReleaseOrphan ==
  ASSUME OrphanInv, mpc # "gone", heap \subseteq Objs,
         NEW newObj, NEW refs, Release(newObj, refs),
         \A o \in heap : obj[o].decomm => newObj[o].decomm,
         \A l \in Locs : tiles[l] \in heap =>
           newObj[tiles[l]].decomm \/ (tiles[l] \in refs /\ tiles'[l] = tiles[l])
  PROVE  fault' = fault /\ OrphanInv'
  <1>1. \A o \in heap \ refs : newObj[o].decomm
    BY DEF OrphanInv
  <1>2. fault' = fault
    BY <1>1 DEF Release
  <1>3. \A o \in heap' : o \in heap /\ o \in Objs /\ obj'[o] = newObj[o]
    BY DEF Release
  <1>4. \A o \in heap' : obj'[o].decomm \/ \E l \in Locs : tiles'[l] = o
    BY <1>3 DEF OrphanInv
  <1> QED
    BY <1>2, <1>4 DEF OrphanInv

\* A step that keeps m_tiles and decommissions nothing preserves OrphanInv.
LEMMA KeepOrphan ==
  ASSUME OrphanInv, mpc # "gone",
         \A o \in heap' : o \in heap /\ obj'[o].decomm = obj[o].decomm, tiles' = tiles
  PROVE  OrphanInv'
  <1>1. \A o \in heap' : obj[o].decomm \/ \E l \in Locs : tiles'[l] = o
    BY DEF OrphanInv
  <1>2. \A o \in heap' : obj'[o].decomm \/ \E l \in Locs : tiles'[l] = o
    BY <1>1
  <1> QED
    BY <1>2 DEF OrphanInv

\* A step of the loader leaves m_tiles alone, decommissions nothing, and destroys
\* no tile that m_tiles has.
LEMMA LoadOrphan ==
  ASSUME MemInv, OrphanInv, Running, Load
  PROVE  OrphanInv' /\ fault' # "terminate"
  <1> USE DEF main, app, sel, locals, loader, own, mem, level
  <1>0. /\ TypeOK /\ obj \in [Objs -> Tile] /\ heap \subseteq Objs /\ fault = "no" /\ mpc # "gone"
        /\ cur # None => cur \in heap /\ cur \in Objs /\ me \in Tile
        /\ lpc \in Loading => cur # None
        /\ strval \in Data
    BY DEF MemInv, TypeOK, HeapIsHeld, Held, me, Running, ThreadsInv
  <1>1. CASE UNCHANGED <<heap, obj, tiles, mpc>> /\ fault' \in {fault, "queue", "terrain", "data"}
    BY <1>0, <1>1, KeepOrphan
  <1>2. ASSUME NEW to, NEW t, Write(to, t), cur \in Objs, t.decomm = me.decomm
        PROVE  OrphanInv' /\ fault' # "terminate"
    <2>1. \A o \in heap' : o \in heap /\ obj'[o].decomm = obj[o].decomm
      BY <1>0, <1>2 DEF Write, me
    <2> QED
      BY <1>0, <1>2, <2>1, KeepOrphan DEF Write
  <1>v. ASSUME NEW d, NEW to, VBStep(d, to), cur \in Objs, UNCHANGED <<heap, tiles, mpc>>
        PROVE  OrphanInv' /\ fault' # "terminate"
    <2>1. CASE fault' = "data" /\ UNCHANGED <<lpc, obj>>
      BY <1>1, <1>v, <2>1
    <2>2. CASE fault' = fault /\ \E t \in Tile : t.decomm = me.decomm /\ obj' = [obj EXCEPT ![cur] = t]
      <3>1. \A o \in heap' : o \in heap /\ obj'[o].decomm = obj[o].decomm
        BY <1>0, <1>v, <2>2 DEF me
      <3> QED
        BY <1>0, <1>v, <2>2, <3>1, KeepOrphan
    <2> QED
      BY <1>v, <2>1, <2>2 DEF VBStep, Meshed
  <1>3. CASE TestExit \/ Park \/ LoopTest \/ SecondTest \/ Back \/ BgRequestGone
    BY <1>1, <1>3 DEF TestExit, Park, LoopTest, SecondTest, Back, BgRequestGone, Goto
  <1>4. CASE Pop
    <2>1. CASE Release(obj, Held(tiles, queue', batch, group, cur)) /\ UNCHANGED main
      <3>1. \A l \in Locs : tiles[l] \in heap =>
               tiles[l] \in Held(tiles, queue', batch, group, cur) /\ tiles'[l] = tiles[l]
        BY <1>0, <2>1, ObjsAssumption DEF Held, None
      <3> QED
        BY <1>0, <2>1, <3>1, ReleaseOrphan
    <2> QED
      BY <1>1, <1>4, <2>1 DEF Pop
  <1>5. CASE BgStart
    <2>1. cur # None => /\ SetReady(me, 1).decomm = me.decomm
                        /\ SetRle(SetReady(me, 1), "torn").decomm = me.decomm
      BY <1>0, ReadyWrite, RleWrite DEF Data
    <2>2. CASE cur # None /\ GetOctChunk(SetReady(me, 1))
      <3>1. \A o \in heap' : o \in heap /\ obj'[o].decomm = obj[o].decomm
        BY <1>0, <2>1, <2>2 DEF GetOctChunk, me
      <3> QED
        BY <1>0, <2>2, <3>1, KeepOrphan DEF GetOctChunk
    <2> QED
      BY <1>0, <1>1, <1>2, <1>5, <2>1, <2>2 DEF BgStart, Goto
  <1>6. CASE BgCopy
    <2>1. cur # None
      BY <1>0, <1>6 DEF BgCopy, Loading
    <2>2. VBStep(strval, "set3db") /\ UNCHANGED <<heap, tiles, mpc>>
      BY <1>0, <1>6, <2>1, LoadVBStep DEF BgCopy
    <2> QED
      BY <1>0, <1>v, <2>1, <2>2
  <1>7. CASE BgReadyDb \/ BgReady \/ BgHaveTerrain
    <2>1. cur # None
      BY <1>0, <1>7 DEF BgReadyDb, BgReady, BgHaveTerrain, Loading
    <2>2. SetReady(me, 3).decomm = me.decomm /\ SetReady(me, 2).decomm = me.decomm
      BY <1>0, <2>1, ReadyWrite
    <2> QED
      BY <1>0, <1>2, <1>7, <2>1, <2>2 DEF BgReadyDb, BgReady, BgHaveTerrain
  <1>8. CASE BgRequest
    <2>1. cur # None
      BY <1>0, <1>8 DEF BgRequest, Loading
    <2>2. [me EXCEPT !.terr = TRUE].decomm = me.decomm
      BY <1>0, <2>1, TerrainWrite
    <2> QED
      BY <1>0, <1>1, <1>2, <1>8, <2>1, <2>2 DEF BgRequest, Goto
  <1>9. CASE BgFill
    <2>1. cur # None
      BY <1>0, <1>9 DEF BgFill, Loading
    <2>2. SetRle(me, "torn").decomm = me.decomm
      BY <1>0, <2>1, RleWrite DEF Data
    <2> QED
      BY <1>0, <1>1, <1>2, <1>9, <2>1, <2>2 DEF BgFill, Goto
  <1>10. CASE BgPut
    <2>1. cur # None
      BY <1>0, <1>10 DEF BgPut, Loading
    <2>2. me.loc \in Locs /\ Encoded \in Data
      BY <1>0, <2>1, TileFields, ChunkAssumption DEF Encoded, Data, MemInv, LocationsInv, me
    <2>3. VBStep(Encoded, "set3") /\ UNCHANGED <<heap, tiles, mpc>>
      BY <1>0, <1>10, <2>1, <2>2, LoadVBStep DEF BgPut
    <2> QED
      BY <1>0, <1>v, <2>1, <2>3
  <1>11. CASE DropTile
    <2>1. Release(obj, Held(tiles, queue, batch, group, None)) /\ UNCHANGED main
      BY <1>11 DEF DropTile
    <2>2. \A l \in Locs : tiles[l] \in heap =>
             tiles[l] \in Held(tiles, queue, batch, group, None) /\ tiles'[l] = tiles[l]
      BY <1>0, <2>1, ObjsAssumption DEF Held, None
    <2> QED
      BY <1>0, <2>1, <2>2, ReleaseOrphan
  <1> QED
    BY <1>3, <1>4, <1>5, <1>6, <1>7, <1>8, <1>9, <1>10, <1>11 DEF Load

\* Every step of the main thread preserves OrphanInv, and destroys a tile that was
\* not decommissioned only at the end of the program.
LEMMA MainOrphan ==
  ASSUME MemInv, PlacesInv, OrphanInv, Running, MainStep
  PROVE  OrphanInv' /\ (fault' = "terminate" => mpc' = "gone")
  <1> USE DEF app, sel, locals, loader, own, mem, level, main
  <1>0. /\ TypeOK /\ obj \in [Objs -> Tile] /\ heap \subseteq Objs /\ fault = "no" /\ mpc # "gone"
        /\ tiles \in [Locs -> Objs \cup {None}] /\ None \notin Objs /\ None \notin heap
    BY ObjsAssumption DEF MemInv, TypeOK, Running, None
  <1>1. CASE UNCHANGED <<heap, obj, tiles>> /\ fault' \in {fault, "memory"}
    BY <1>0, <1>1 DEF OrphanInv
  <1>2. ASSUME NEW refs, Release(obj, refs), tiles' = tiles,
               \A l \in Locs : tiles[l] \in heap => tiles[l] \in refs
        PROVE  OrphanInv' /\ fault' # "terminate"
    BY <1>0, <1>2, ReleaseOrphan
  <1>3. CASE \/ Construct \/ TogglePause \/ SkipUpdate \/ LockQueue \/ SwapQueue
             \/ AddTilesToGroup \/ SpuriousWakeup \/ Exhaust
             \/ \E l \in Locs : TerrainBuilt(l) \/ TerrainLost(l)
    BY <1>1, <1>3 DEF Construct, TogglePause, SkipUpdate, LockQueue, SwapQueue,
       AddTilesToGroup, SpuriousWakeup, Exhaust, Goto, TerrainBuilt, TerrainLost
  <1>4. CASE Notify \/ ExitNotify
    BY <1>1, <1>4 DEF Notify, ExitNotify
  <1>5. CASE (\E view \in Views : BeginUpdate(view)) \/ EndUpdate \/ BeginExit
    <2>1. tiles' = tiles /\ \E q, b, g, c : Release(obj, Held(tiles, q, b, g, c))
      BY <1>5 DEF BeginUpdate, EndUpdate, BeginExit
    <2>2. \A q, b, g, c : \A l \in Locs : tiles[l] \in heap => tiles[l] \in Held(tiles, q, b, g, c)
      BY <1>0 DEF Held
    <2> QED
      BY <1>2, <2>1, <2>2
  <1>6. CASE Join
    BY <1>6 DEF Join, OrphanInv
  <1>7. CASE Show
    <2>1. \A o \in heap' : o \in heap /\ obj'[o].decomm = obj[o].decomm
      BY <1>0, <1>7, ReadyWrite DEF Show
    <2>2. tiles' = tiles /\ mpc' # "gone" /\ fault' # "terminate"
      BY <1>0, <1>7 DEF Show
    <2> QED
      BY <1>0, <2>1, <2>2, KeepOrphan
  <1>8. CASE \E l \in Locs : Collect(l)
    <2>1. fault' = fault /\ mpc' = mpc
      BY <1>8 DEF Collect
    <2>2. \A k \in Locs : Has(k) => tiles'[k] = tiles[k]
      BY <1>0, <1>8 DEF Collect, Has
    <2>3. \A o \in heap' : Aged(o) \/ Born(o)
      BY <1>8, MainEffect
    <2>4. \A o \in heap' : obj'[o].decomm \/ \E l \in Locs : tiles'[l] = o
      BY <1>0, <2>2, <2>3 DEF Aged, Born, OrphanInv, Has
    <2> QED
      BY <1>0, <2>1, <2>4 DEF OrphanInv
  <1>9. CASE \E l \in Locs : Retire(l)
    <2>0. PICK l \in Locs : Retire(l)
      BY <1>9
    <2> DEFINE newObj == [obj EXCEPT ![tiles[l]] = Decomission(@)]
               refs == Held(tiles', queue, batch, group, cur)
    <2>1. Release(newObj, refs) /\ tiles' = [tiles EXCEPT ![l] = None]
      BY <2>0 DEF Retire
    <2>2. \A o \in heap : obj[o].decomm => newObj[o].decomm
      BY <1>0, DecomissionWrite
    <2>3. tiles[l] \in heap => newObj[tiles[l]].decomm
      BY <1>0, DecomissionWrite
    <2>4. \A k \in Locs : tiles[k] \in heap /\ k # l => tiles[k] \in refs /\ tiles'[k] = tiles[k]
      BY <1>0, <2>1 DEF Held
    <2> HIDE DEF newObj, refs
    <2> QED
      BY <1>0, <2>1, <2>2, <2>3, <2>4, ReleaseOrphan
  <1> QED
    BY <1>3, <1>4, <1>5, <1>6, <1>7, <1>8, <1>9 DEF MainStep, Frame, Exit

\* OrphanInv and ThrowsOnlyAtExit are preserved.
LEMMA OrphanNext ==
  MemInv /\ PlacesInv /\ OrphanInv /\ ThrowsOnlyAtExit /\ [Next]_vars
    => OrphanInv' /\ ThrowsOnlyAtExit'
  <1> SUFFICES ASSUME MemInv, PlacesInv, OrphanInv, ThrowsOnlyAtExit, [Next]_vars
               PROVE  OrphanInv' /\ ThrowsOnlyAtExit'
    OBVIOUS
  <1>1. CASE UNCHANGED vars
    BY <1>1 DEF vars, main, sel, mem, OrphanInv, ThrowsOnlyAtExit
  <1>2. CASE Restart
    BY <1>2 DEF Restart, OrphanInv, ThrowsOnlyAtExit
  <1>3. CASE Running /\ Load
    BY <1>3, LoadOrphan DEF ThrowsOnlyAtExit
  <1>4. CASE Running /\ MainStep
    BY <1>4, MainOrphan DEF ThrowsOnlyAtExit
  <1> QED
    BY <1>1, <1>2, <1>3, <1>4 DEF Next, Run, MainStep

\* In a running program no tile is destroyed that was not decommissioned, whichever
\* thread drops the last reference: ~OctTile never throws before the program ends.
THEOREM OrphansSafe == Spec => [](OrphansAreDecommissioned /\ ThrowsOnlyAtExit)
  <1>1. Init => OrphanInv /\ ThrowsOnlyAtExit
    BY DEF Init, OrphanInv, ThrowsOnlyAtExit
  <1>2. OrphanInv => OrphansAreDecommissioned
    BY DEF OrphanInv, OrphansAreDecommissioned, Running
  <1> QED
    BY <1>1, <1>2, InitMem, MemNext, OrphanNext, PTL DEF Spec

-----------------------------------------------------------------------------
(* The data of a tile.                                                     *)

\* One tile's part of DataInv, for members t, seen with the loader at lp and its
\* tile c.
Sound(o, t, lp, c) ==
    /\ t.rle \in {"none", "torn"} \cup Stored(t.loc)
    /\ t.rle = "torn" => o = c /\ lp \in {"copy", "put"}
    /\ t.vox => Chunk[t.loc] = "solid" \/ t.loc = Root
    /\ t.ready >= 3 => Whole(t)

\* The loader's own tile at each place of BackgroundLoad.
InHand(t, lp) ==
    /\ lp = "put" => IF Chunk[t.loc] = "none" THEN t.rle \in Stored(t.loc) ELSE t.rle = "torn"
    /\ lp \in {"set3db", "set3"} => Whole(t)
    /\ lp \in {"copy", "set3db", "set2"} => t.ready \in {0, 1}
    /\ lp \in {"put", "set3"} => t.ready \in {0, 2}

\* And the copy of the chunk it has.
InCopy == lpc = "copy" /\ fault = "no" => strval \in Stored(obj[cur].loc)

\* DataInv, split by tile.
LEMMA DataParts ==
  DataInv <=> /\ \A o \in heap : Sound(o, obj[o], lpc, cur)
              /\ InHand(obj[cur], lpc) /\ InCopy
  BY DEF DataInv, Sound, InHand, InCopy

\* What a location's chunk may be.
LEMMA StoredType ==
  ASSUME NEW l \in Locs
  PROVE  /\ Chunk[l] \in Stored(l) /\ Stored(l) \subseteq Data
         /\ "torn" \notin Stored(l) /\ "missing" \notin Stored(l)
         /\ l # Root => Stored(l) = {Chunk[l]}
         /\ l # Root => "heights" \notin Stored(l)
         /\ Chunk[l] # "solid" /\ l # Root => "solid" \notin Stored(l)
  BY ChunkAssumption DEF Stored, Data

\* Every step of the main thread preserves DataInv.
LEMMA MainData ==
  ASSUME MemInv, PlacesInv, DataInv, Running, MainStep, MemInv'
  PROVE  DataInv'
  <1>0. /\ obj \in [Objs -> Tile] /\ heap \subseteq Objs
        /\ lpc \in Loading => cur \in heap
    BY DEF MemInv, TypeOK, ThreadsInv, HeapIsHeld, Held
  <1>1. /\ cur' = cur /\ strval' = strval
        /\ lpc' = lpc \/ (lpc = "waiting" /\ lpc' \in {"size", "stranded"})
        /\ \A o \in heap' : Aged(o) \/ Born(o)
    BY MainEffect
  <1>2. ASSUME NEW o \in heap' PROVE Sound(o, obj'[o], lpc', cur')
    <2>1. CASE Aged(o)
      <3>1. Sound(o, obj[o], lpc, cur) /\ obj[o].loc \in Locs /\ obj[o].ready \in 0..4
        BY <1>0, <2>1, DataParts, TileFields DEF Aged, MemInv, LocationsInv
      <3> QED
        BY <1>0, <1>1, <2>1, <3>1 DEF Aged, Sound, Whole
    <2>2. CASE Born(o)
      BY <1>0, <2>2 DEF Born, Sound, NewTile
    <2> QED
      BY <1>1, <2>1, <2>2
  <1>3. InHand(obj'[cur'], lpc')
    <2>1. CASE lpc \in Loading /\ lpc' = lpc
      <3>1. cur \in heap' /\ cur \in heap
        BY <1>0, <1>1, <2>1 DEF MemInv, HeapIsHeld, Held, ThreadsInv
      <3>2. Aged(cur) /\ InHand(obj[cur], lpc)
        BY <1>1, <3>1, DataParts DEF Born
      <3> QED
        BY <1>1, <2>1, <3>2 DEF Aged, InHand, Whole
    <2>2. CASE lpc' \notin Loading
      BY <2>2 DEF Loading, InHand
    <2> QED
      BY <1>1, <2>1, <2>2 DEF Loading
  <1>4. InCopy'
    <2>1. CASE lpc = "copy" /\ lpc' = lpc
      <3>1. cur \in heap' /\ cur \in heap
        BY <1>0, <1>1, <2>1 DEF MemInv, HeapIsHeld, Held, ThreadsInv, Loading
      <3>2. Aged(cur) /\ InCopy /\ fault = "no"
        BY <1>1, <3>1, DataParts DEF Born, Running
      <3> QED
        BY <1>1, <2>1, <3>2 DEF Aged, InCopy
    <2>2. CASE lpc' # "copy"
      BY <2>2 DEF InCopy
    <2> QED
      BY <1>1, <2>1, <2>2
  <1> QED
    BY <1>2, <1>3, <1>4 DEF DataInv, Sound, InHand, InCopy

\* A step of the loader that writes no member of a tile.
LEMMA QuietData ==
  ASSUME DataInv, lpc \notin {"copy", "put"},
         lpc' \notin {"copy", "set3db", "set2", "put", "set3"},
         \A o \in heap' : o \in heap /\ obj'[o] = obj[o]
  PROVE  DataInv'
  <1>1. \A o \in heap' : Sound(o, obj'[o], lpc', cur')
    BY DataParts DEF Sound
  <1>2. InHand(obj'[cur'], lpc')
    BY DEF InHand
  <1> QED
    BY <1>1, <1>2 DEF DataInv, Sound, InHand

\* One that dies in LoadVB.
LEMMA DeadData ==
  ASSUME DataInv, UNCHANGED <<lpc, cur, mem>>, fault' # "no"
  PROVE  DataInv'
  BY DEF DataInv, mem

\* A step of the loader that writes members of its tile.
LEMMA WriteData ==
  ASSUME MemInv, DataInv, cur \in heap, NEW to, NEW t,
         lpc' = to, obj' = [obj EXCEPT ![cur] = t], cur' = cur, heap' = heap,
         Sound(cur, t, to, cur), InHand(t, to), to = "copy" => strval' \in Stored(t.loc)
  PROVE  DataInv'
  <1>0. cur \in Objs /\ obj \in [Objs -> Tile] /\ heap \subseteq Objs
    BY DEF MemInv, TypeOK
  <1>1. \A o \in heap : Sound(o, obj'[o], lpc', cur')
    BY <1>0, DataParts DEF Sound
  <1>2. InHand(obj'[cur'], lpc')
    BY <1>0
  <1>3. lpc' = "copy" => strval' \in Stored(obj'[cur'].loc)
    BY <1>0
  <1> QED
    BY <1>1, <1>2, <1>3 DEF DataInv, Sound, InHand

\* A step of the loader with LoadVB, on data of the location.
LEMMA VBData ==
  ASSUME MemInv, DataInv, cur \in heap, NEW d \in Stored(me.loc), NEW to, VBStep(d, to),
         \/ lpc = "copy" /\ to = "set3db"
         \/ lpc = "put" /\ to = "set3",
         cur' = cur, heap' = heap
  PROVE  DataInv'
  <1>0. /\ me = obj[cur] /\ me.loc \in Locs /\ Sound(cur, me, lpc, cur) /\ InHand(me, lpc)
        /\ me.vox \in BOOLEAN
    BY DataParts, TileFields DEF me, MemInv, LocationsInv, TypeOK
  <1>1. CASE fault' = "data" /\ UNCHANGED <<lpc, obj>>
    BY <1>1, DeadData DEF mem
  <1>2. CASE /\ fault' = fault /\ lpc' \in {to, "hung"}
             /\ \E t \in Tile : Meshed(t, d, lpc' = to) /\ obj' = [obj EXCEPT ![cur] = t]
    <2>1. PICK t \in Tile : Meshed(t, d, lpc' = to) /\ obj' = [obj EXCEPT ![cur] = t]
      BY <1>2
    <2>2. /\ t.loc = me.loc /\ t.ready = me.ready /\ t.rle = d
          /\ t.vox => me.vox \/ d \in {"solid", "heights"}
          /\ lpc' = to /\ d # "heights" => t.vox = (me.vox \/ d = "solid")
      BY <2>1 DEF Meshed
    <2>3. /\ Chunk[me.loc] \in Stored(me.loc) /\ d # "torn"
          /\ me.loc # Root => d = Chunk[me.loc] /\ d # "heights"
      BY <1>0, StoredType
    <2>4. t.vox => Chunk[t.loc] = "solid" \/ t.loc = Root
      BY <1>0, <2>2, <2>3 DEF Sound
    <2>5. t.loc # Root /\ lpc' = to => t.vox = (Chunk[t.loc] = "solid")
      BY <1>0, <2>2, <2>3 DEF Sound
    <2>6. lpc' = to => Whole(t)
      BY <1>0, <2>2, <2>5 DEF Whole
    <2>7. t.ready \in {0, 1, 2} /\ (to = "set3db" => t.ready \in {0, 1}) /\ (to = "set3" => t.ready \in {0, 2})
      BY <1>0, <2>2 DEF InHand
    <2>8. Sound(cur, t, lpc', cur)
      BY <2>2, <2>3, <2>4, <2>7 DEF Sound
    <2>9. InHand(t, lpc')
      BY <1>2, <2>6, <2>7 DEF InHand
    <2> QED
      BY <1>2, <2>1, <2>8, <2>9, WriteData
  <1> QED
    BY <1>1, <1>2 DEF VBStep

\* Every step of the loader preserves DataInv and what the database holds.
LEMMA LoadData ==
  ASSUME MemInv, DataInv, StoredChunksMatch, Running, Load
  PROVE  DataInv' /\ StoredChunksMatch'
  <1> USE DEF main, app, sel, locals, loader, own, mem, level
  <1>0. /\ obj \in [Objs -> Tile] /\ heap \subseteq Objs
        /\ cur # None => /\ cur \in heap /\ cur \in Objs /\ me \in Tile /\ me = obj[cur]
                         /\ me.loc \in Locs
                         /\ me.ready \in 0..4 /\ me.vox \in BOOLEAN
                         /\ Sound(cur, me, lpc, cur)
        /\ lpc \in Loading => cur # None
        /\ InHand(me, lpc) /\ InCopy /\ fault = "no"
    BY DataParts, TileFields
       DEF Running, MemInv, TypeOK, HeapIsHeld, Held, me, ThreadsInv, LocationsInv
  <1>1. CASE UNCHANGED octDb /\ ~BgPut
    <2>1. StoredChunksMatch'
      BY <1>1 DEF StoredChunksMatch
    <2>2. CASE TestExit \/ Park \/ LoopTest \/ SecondTest
      BY <2>1, <2>2, QuietData DEF TestExit, Park, LoopTest, SecondTest, Goto
    <2>3. CASE Back \/ BgRequestGone
      BY <2>1, <2>3, QuietData DEF Back, BgRequestGone
    <2>4. CASE Pop \/ DropTile
      <3>1. lpc \in {"pop", "drop"} /\ lpc' \in {"pop", "state", "size"}
        BY <2>4 DEF Pop, DropTile
      <3>2. \A o \in heap' : o \in heap /\ obj'[o] = obj[o]
        BY <1>0, <2>4 DEF Pop, DropTile, Release
      <3> QED
        BY <2>1, <3>1, <3>2, QuietData
    <2>5. CASE BgStart
      <3>1. CASE Goto("state", "drop") \/ Goto("state", "bg1")
        BY <2>1, <3>1, QuietData DEF Goto
      <3>2. CASE cur # None /\ me.ready = 0 /\ Write("bg1", SetReady(me, 1)) /\ lpc = "state"
        <4>1. Sound(cur, SetReady(me, 1), "bg1", cur) /\ InHand(SetReady(me, 1), "bg1")
          BY <1>0, <3>2, ReadyWrite DEF Sound, InHand
        <4> QED
          BY <1>0, <2>1, <3>2, <4>1, WriteData DEF Write
      <3>3. CASE /\ cur # None /\ me.ready = 0 /\ lpc = "state" /\ octDb[me.loc] # "missing"
                 /\ GetOctChunk(SetReady(me, 1))
        <4> DEFINE t == SetRle(SetReady(me, 1), "torn")
        <4>1. t.ready = 1 /\ t.rle = "torn" /\ t.vox = me.vox /\ t.loc = me.loc
          BY <1>0, <3>3, ReadyWrite, RleWrite DEF Data
        <4> HIDE DEF t
        <4>2. Sound(cur, t, "copy", cur) /\ InHand(t, "copy")
          BY <1>0, <3>3, <4>1 DEF Sound, InHand
        <4>3. strval' \in Stored(t.loc)
          BY <1>0, <3>3, <4>1 DEF GetOctChunk, StoredChunksMatch
        <4>4. /\ lpc' = "copy" /\ obj' = [obj EXCEPT ![cur] = t] /\ cur' = cur /\ heap' = heap
          BY <3>3 DEF GetOctChunk, t
        <4> QED
          BY <1>0, <2>1, <3>3, <4>2, <4>3, <4>4, WriteData
      <3> QED
        BY <2>5, <3>1, <3>2, <3>3 DEF BgStart
    <2>6. CASE BgCopy
      <3>1. lpc = "copy" /\ cur # None /\ strval \in Stored(me.loc)
        BY <1>0, <2>6 DEF BgCopy, Loading, InCopy
      <3>2. strval \in Data
        BY DEF MemInv, TypeOK
      <3>3. VBStep(strval, "set3db") /\ cur' = cur /\ heap' = heap
        BY <1>0, <2>6, <3>1, <3>2, LoadVBStep DEF BgCopy
      <3> QED
        BY <1>0, <2>1, <3>1, <3>3, VBData
    <2>7. CASE BgReadyDb \/ BgReady
      <3>1. cur # None /\ lpc \in {"set3db", "set3"} /\ lpc' \in {"bg1", "drop"}
        BY <1>0, <2>7 DEF BgReadyDb, BgReady, Loading, Write
      <3>2. Sound(cur, SetReady(me, 3), lpc', cur) /\ InHand(SetReady(me, 3), lpc')
        BY <1>0, <3>1, ReadyWrite DEF Sound, InHand, Whole
      <3> QED
        BY <1>0, <2>1, <2>7, <3>1, <3>2, WriteData DEF BgReadyDb, BgReady, Write
    <2>8. CASE BgRequest
      <3>1. cur # None /\ lpc = "bg1"
        BY <1>0, <2>8 DEF BgRequest, Loading
      <3>2. CASE lpc' = "bg2" /\ UNCHANGED <<heap, obj>>
        BY <2>1, <3>1, <3>2, QuietData
      <3>3. CASE me.ready = 1 /\ Write("set2", [me EXCEPT !.terr = TRUE])
        <4> DEFINE t == [me EXCEPT !.terr = TRUE]
        <4>1. t.ready = 1 /\ t.rle = me.rle /\ t.vox = me.vox /\ t.loc = me.loc
          BY <1>0, <3>1, <3>3, TerrainWrite
        <4> HIDE DEF t
        <4>2. Sound(cur, t, "set2", cur) /\ InHand(t, "set2")
          BY <1>0, <3>1, <4>1 DEF Sound, InHand
        <4> QED
          BY <1>0, <2>1, <3>1, <3>3, <4>2, WriteData DEF Write, t
      <3> QED
        BY <2>8, <3>2, <3>3 DEF BgRequest, Goto
    <2>9. CASE BgHaveTerrain
      <3>1. cur # None /\ lpc = "set2"
        BY <1>0, <2>9 DEF BgHaveTerrain, Loading
      <3>2. Sound(cur, SetReady(me, 2), "bg2", cur) /\ InHand(SetReady(me, 2), "bg2")
        BY <1>0, <3>1, ReadyWrite DEF Sound, InHand
      <3> QED
        BY <1>0, <2>1, <2>9, <3>1, <3>2, WriteData DEF BgHaveTerrain, Write
    <2>10. CASE BgFill
      <3>1. cur # None /\ lpc = "bg2"
        BY <1>0, <2>10 DEF BgFill, Loading
      <3>2. CASE Goto("bg2", "drop")
        BY <2>1, <3>2, QuietData DEF Goto
      <3>3. CASE me.ready = 2 /\ Chunk[me.loc] = "none" /\ Write("put", me)
        <4>1. Sound(cur, me, "put", cur) /\ InHand(me, "put")
          BY <1>0, <3>1, <3>3, StoredType DEF Sound, InHand
        <4> QED
          BY <1>0, <2>1, <3>1, <3>3, <4>1, WriteData DEF Write
      <3>4. CASE me.ready = 2 /\ Chunk[me.loc] # "none" /\ Write("put", SetRle(me, "torn"))
        <4> DEFINE t == SetRle(me, "torn")
        <4>1. t.ready = 2 /\ t.rle = "torn" /\ t.vox = me.vox /\ t.loc = me.loc
          BY <1>0, <3>1, <3>4, RleWrite DEF Data
        <4> HIDE DEF t
        <4>2. Sound(cur, t, "put", cur) /\ InHand(t, "put")
          BY <1>0, <3>1, <3>4, <4>1 DEF Sound, InHand
        <4> QED
          BY <1>0, <2>1, <3>1, <3>4, <4>2, WriteData DEF Write, t
      <3> QED
        BY <2>10, <3>2, <3>3, <3>4 DEF BgFill
    <2> QED
      BY <1>1, <2>2, <2>3, <2>4, <2>5, <2>6, <2>7, <2>8, <2>9, <2>10 DEF Load
  <1>2. CASE BgPut
    <2>1. cur # None /\ lpc = "put"
      BY <1>0, <1>2 DEF BgPut, Loading
    <2>2. Encoded \in Stored(me.loc) /\ Encoded \in Data
      BY <1>0, <2>1, StoredType DEF InHand, Encoded
    <2>3. StoredChunksMatch'
      BY <1>0, <1>2, <2>1, <2>2 DEF BgPut, StoredChunksMatch, MemInv, TypeOK
    <2>4. VBStep(Encoded, "set3") /\ cur' = cur /\ heap' = heap
      BY <1>0, <1>2, <2>1, <2>2, LoadVBStep DEF BgPut
    <2> QED
      BY <1>0, <2>1, <2>2, <2>3, <2>4, VBData
  <1>3. CASE ~BgPut
    <2>1. UNCHANGED octDb
      BY <1>3 DEF Load, TestExit, Park, LoopTest, SecondTest, Back, Pop, BgStart, BgCopy,
         BgReadyDb, BgRequest, BgRequestGone, BgHaveTerrain, BgFill, BgReady, DropTile,
         GetOctChunk, Goto, Write
    <2> QED
      BY <1>1, <1>3, <2>1
  <1> QED
    BY <1>2, <1>3

\* DataInv and StoredChunksMatch are preserved.
LEMMA DataNext ==
  MemInv /\ PlacesInv /\ DataInv /\ StoredChunksMatch /\ [Next]_vars
    => DataInv' /\ StoredChunksMatch'
  <1> SUFFICES ASSUME MemInv, PlacesInv, DataInv, StoredChunksMatch, [Next]_vars
               PROVE  DataInv' /\ StoredChunksMatch'
    OBVIOUS
  <1>1. CASE UNCHANGED vars
    <2>1. UNCHANGED <<heap, obj, lpc, cur, strval, fault, octDb>>
      BY <1>1 DEF vars, loader, own, mem, level
    <2>2. StoredChunksMatch'
      BY <2>1 DEF StoredChunksMatch
    <2> QED
      BY <2>1, <2>2 DEF DataInv
  <1>2. CASE Restart
    <2>1. heap' = {} /\ lpc' = "test" /\ octDb' = octDb
      BY <1>2 DEF Restart
    <2> QED
      BY <2>1 DEF DataInv, StoredChunksMatch
  <1>3. CASE Running /\ Load
    BY <1>3, LoadData
  <1>4. CASE Running /\ MainStep
    <2>1. DataInv'
      BY <1>4, MainData, MemNext
    <2>2. DbStep
      BY <1>4, MainEffect
    <2>3. StoredChunksMatch'
      BY <2>2 DEF DbStep, StoredChunksMatch, Stored, MemInv, TypeOK
    <2> QED
      BY <2>1, <2>3
  <1> QED
    BY <1>1, <1>2, <1>3, <1>4 DEF Next, Run, MainStep

\* ~OctTile ends the program only when the World is destroyed.
THEOREM ThrowsAtExit == Spec => []ThrowsOnlyAtExit
  BY OrphansSafe, PTL

\* What the database holds, and what the main thread draws, is the data of the
\* location - at the root that or the heights of its terrain, which share the key:
\* through retirement, re-creation, lost queues and restarts.
THEOREM DataCorrect == Spec => [](FinishedTilesAreWhole /\ StoredChunksMatch)
  <1>1. Init => DataInv /\ StoredChunksMatch
    BY DEF Init, DataInv, StoredChunksMatch
  <1>2. MemInv /\ DataInv => FinishedTilesAreWhole
    <2> SUFFICES ASSUME MemInv, DataInv, NEW l \in Locs, Has(l), obj[tiles[l]].ready >= 3
                 PROVE  /\ obj[tiles[l]].loc = l
                        /\ obj[tiles[l]].rle \in Stored(l)
                        /\ obj[tiles[l]].rle = "solid" => obj[tiles[l]].vox
                        /\ l # Root => obj[tiles[l]].vox = (Chunk[l] = "solid")
      BY DEF FinishedTilesAreWhole
    <2>1. tiles[l] \in heap /\ obj[tiles[l]].loc = l
      BY DEF MemInv, HeapIsHeld, Held, LocationsInv, Has
    <2> QED
      BY <2>1 DEF DataInv, Whole
  <1> QED
    BY <1>1, <1>2, InitMem, MemNext, DataNext, PTL DEF Spec

\* No chunk in the database is torn or of another location, whichever writes failed;
\* only under the root's key may the terrain of that location be instead.
THEOREM ChunksMatch == Spec => []StoredChunksMatch
  BY DataCorrect, PTL

\* The state of a tile in use never goes back.
THEOREM StatesAdvance == Spec => ReadyAdvances
  <1>1. Init => DataInv /\ StoredChunksMatch
    BY DEF Init, DataInv, StoredChunksMatch
  <1> DEFINE Advances == \A l \in Locs : Has(l) /\ tiles'[l] = tiles[l] =>
                           obj'[tiles[l]].ready >= obj[tiles[l]].ready
  <1>2. MemInv /\ PlacesInv /\ DataInv /\ [Next]_vars => [Advances]_vars
    <2> SUFFICES ASSUME MemInv, PlacesInv, DataInv, Next,
                        NEW l \in Locs, NEW o, o = tiles[l], Has(l), tiles'[l] = tiles[l]
                 PROVE  obj'[o].ready >= obj[o].ready
      OBVIOUS
    <2>0. MemInv'
      BY MemNext
    <2>1. /\ o \in heap /\ o \in heap' /\ o \in Objs /\ obj \in [Objs -> Tile] /\ heap \subseteq Objs
          /\ o # None /\ tiles'[l] = o
      BY <2>0 DEF MemInv, TypeOK, HeapIsHeld, Held, Has
    <2>2. obj[o].ready \in 0..4
      BY <2>1, TileFields
    <2>3. CASE obj'[o] = obj[o]
      BY <2>2, <2>3
    <2>4. CASE MainStep
      <3>1. Aged(o)
        BY <2>1, <2>4, MainEffect DEF Born
      <3> QED
        BY <2>1, <2>2, <3>1 DEF Aged
    <2>5. CASE Restart
      BY <2>1, <2>5 DEF Restart
    <2>6. CASE Load
      <3>0. /\ cur # None => me \in Tile /\ me = obj[cur] /\ cur \in Objs /\ me.ready \in 0..4
            /\ lpc \in Loading => cur # None
            /\ lpc \in {"copy", "set3db", "set2"} => me.ready \in {0, 1}
            /\ lpc \in {"put", "set3"} => me.ready \in {0, 2}
            /\ strval \in Data
            /\ lpc = "put" => Encoded \in Data
        <4>1. cur # None => cur \in heap /\ me \in Tile /\ me = obj[cur] /\ cur \in Objs /\ me.loc \in Locs
          BY DEF MemInv, TypeOK, HeapIsHeld, Held, me, LocationsInv
        <4>2. lpc \in Loading => cur # None
          BY DEF MemInv, ThreadsInv
        <4>3. strval \in Data
          BY DEF MemInv, TypeOK
        <4>4. lpc = "put" => Encoded \in Data
          BY <4>1, <4>2, TileFields, ChunkAssumption DEF Encoded, Loading, Data
        <4> QED
          BY <4>1, <4>2, <4>3, <4>4, TileFields DEF DataInv, me
      <3>1. ASSUME cur # None, \A p \in Objs : p # cur => obj'[p] = obj[p],
                   obj'[cur].ready >= me.ready
            PROVE  obj'[o].ready >= obj[o].ready
        <4>1. CASE o = cur
          BY <3>0, <3>1, <4>1
        <4>2. CASE o # cur
          BY <2>1, <2>2, <3>1, <4>2
        <4> QED
          BY <4>1, <4>2
      <3>v. ASSUME cur # None, NEW d, NEW to, VBStep(d, to)
            PROVE  obj'[o].ready >= obj[o].ready
        <4>1. CASE UNCHANGED obj
          BY <2>3, <4>1
        <4>2. CASE \E t \in Tile : t.ready = me.ready /\ obj' = [obj EXCEPT ![cur] = t]
          BY <2>1, <3>0, <3>1, <3>v, <4>2
        <4> QED
          BY <3>v, <4>1, <4>2 DEF VBStep, Meshed
      <3>2. CASE \/ TestExit \/ Park \/ LoopTest \/ SecondTest \/ Back \/ BgRequestGone
        BY <2>3, <3>2 DEF TestExit, Park, LoopTest, SecondTest, Back, BgRequestGone, Goto, mem
      <3>3. CASE Pop \/ DropTile
        BY <2>1, <2>3, <3>3 DEF Pop, DropTile, Release, mem
      <3>4. CASE BgStart
        <4>1. CASE UNCHANGED obj
          BY <2>3, <4>1
        <4>2. CASE cur # None /\ me.ready = 0 /\ obj' = [obj EXCEPT ![cur] = SetReady(me, 1)]
          BY <2>1, <3>0, <3>1, <4>2, ReadyWrite
        <4>3. CASE /\ cur # None /\ me.ready = 0
                   /\ obj' = [obj EXCEPT ![cur] = SetRle(SetReady(me, 1), "torn")]
          <5>1. SetRle(SetReady(me, 1), "torn").ready = 1
            BY <3>0, <4>3, ReadyWrite, RleWrite DEF Data
          <5> QED
            BY <2>1, <3>0, <3>1, <4>3, <5>1
        <4> QED
          BY <3>4, <4>1, <4>2, <4>3 DEF BgStart, GetOctChunk, Goto, Write, mem
      <3>5. CASE BgCopy
        <4>1. lpc = "copy" /\ cur # None
          BY <3>0, <3>5 DEF BgCopy, Loading
        <4>2. VBStep(strval, "set3db")
          BY <3>0, <3>5, <4>1, LoadVBStep DEF BgCopy
        <4> QED
          BY <3>v, <4>1, <4>2
      <3>6. CASE BgReadyDb \/ BgReady
        <4>1. lpc \in {"set3db", "set3"} /\ cur # None
          BY <3>0, <3>6 DEF BgReadyDb, BgReady, Loading
        <4>2. SetReady(me, 3).ready = 3
          BY <3>0, <4>1, ReadyWrite
        <4> QED
          BY <2>1, <3>0, <3>1, <3>6, <4>1, <4>2 DEF BgReadyDb, BgReady, Write
      <3>7. CASE BgRequest
        <4>1. lpc = "bg1" /\ cur # None
          BY <3>0, <3>7 DEF BgRequest, Loading
        <4>2. [me EXCEPT !.terr = TRUE].ready = me.ready /\ me.ready \in 0..4
          BY <3>0, <4>1, TerrainWrite, TileFields
        <4>3. CASE UNCHANGED obj
          BY <2>3, <4>3
        <4>4. CASE obj' = [obj EXCEPT ![cur] = [me EXCEPT !.terr = TRUE]]
          <5> DEFINE t == [me EXCEPT !.terr = TRUE]
          <5>1. t.ready = me.ready /\ obj' = [obj EXCEPT ![cur] = t]
            BY <4>2, <4>4
          <5> HIDE DEF t
          <5> QED
            BY <2>1, <3>0, <3>1, <4>1, <4>2, <5>1
        <4> QED
          BY <3>7, <4>3, <4>4 DEF BgRequest, Goto, Write, mem
      <3>8. CASE BgHaveTerrain
        <4>1. lpc = "set2" /\ cur # None
          BY <3>0, <3>8 DEF BgHaveTerrain, Loading
        <4>2. SetReady(me, 2).ready = 2
          BY <3>0, <4>1, ReadyWrite
        <4> QED
          BY <2>1, <3>0, <3>1, <3>8, <4>1, <4>2 DEF BgHaveTerrain, Write
      <3>9. CASE BgFill
        <4>1. lpc = "bg2" /\ cur # None
          BY <3>0, <3>9 DEF BgFill, Loading
        <4>2. SetRle(me, "torn").ready = me.ready /\ me.ready \in 0..4
          BY <3>0, <4>1, RleWrite, TileFields DEF Data
        <4>3. CASE UNCHANGED obj
          BY <2>3, <4>3
        <4>4. CASE obj' = [obj EXCEPT ![cur] = IF Chunk[me.loc] = "none" THEN me ELSE SetRle(me, "torn")]
          BY <2>1, <3>0, <3>1, <4>1, <4>2, <4>4
        <4> QED
          BY <3>9, <4>3, <4>4 DEF BgFill, Goto, Write, mem
      <3>10. CASE BgPut
        <4>1. lpc = "put" /\ cur # None
          BY <3>0, <3>10 DEF BgPut, Loading
        <4>2. VBStep(Encoded, "set3")
          BY <3>0, <3>10, <4>1, LoadVBStep DEF BgPut
        <4> QED
          BY <3>v, <4>1, <4>2
      <3> QED
        BY <2>6, <3>2, <3>3, <3>4, <3>5, <3>6, <3>7, <3>8, <3>9, <3>10 DEF Load
    <2> QED
      BY <2>4, <2>5, <2>6 DEF Next, Run, MainStep
  <1> QED
    BY <1>1, <1>2, InitMem, MemNext, DataNext, PTL DEF Spec, ReadyAdvances

-----------------------------------------------------------------------------
(* The queues.                                                             *)

\* The main thread finds in m_tiles every location that it looks up unchecked.
THEOREM LookupsSucceed == Spec => []TilesTrackActive
  <1>1. MemInv /\ PlacesInv => TilesTrackActive
    <2> SUFFICES ASSUME MemInv, PlacesInv, mpc # "gone"
                 PROVE  /\ \A l \in active : Has(l)
                        /\ mpc = "retire" => \A l \in todo : Has(l)
                        /\ mpc \notin {"collect", "swap", "notify", "retire"} => HasSet = active
                        /\ numTiles = Cardinality(HasSet)
      BY DEF TilesTrackActive, Running, HasSet
    <2>1. active \subseteq HasSet
      BY DEF PlacesInv
    <2>2. mpc = "retire" => todo \subseteq HasSet
      BY DEF PlacesInv
    <2> QED
      BY <2>1, <2>2 DEF PlacesInv, HasSet
  <1> QED
    BY <1>1, InitMem, MemNext, PTL DEF Spec

\* QueueInv is inductive, whatever the tiles are.
LEMMA QueueNext ==
  QueueInv /\ QueueFaultNeedsSwap /\ [Next]_vars => QueueInv' /\ QueueFaultNeedsSwap'
  <1> SUFFICES ASSUME QueueInv, QueueFaultNeedsSwap, [Next]_vars
               PROVE  QueueInv' /\ QueueFaultNeedsSwap'
    OBVIOUS
  <1> USE DEF QueueInv, QueueFaultNeedsSwap, main, app, sel, locals, loader, own, mem, level
  <1>1. CASE UNCHANGED vars \/ Restart
    BY <1>1 DEF vars, Restart
  <1>2. CASE Running /\ MainStep
    <2> USE <1>2 DEF Running
    <2>1. CASE LockQueue \/ SwapQueue
      BY <2>1 DEF LockQueue, SwapQueue
    <2>2. CASE Construct \/ Notify \/ ExitNotify \/ SpuriousWakeup
      BY <2>2 DEF Construct, Notify, ExitNotify, SpuriousWakeup, Goto, Wake
    <2>3. CASE \/ TogglePause \/ SkipUpdate \/ AddTilesToGroup \/ Show \/ Exhaust
               \/ \E l \in Locs : TerrainBuilt(l) \/ TerrainLost(l)
      BY <2>3 DEF TogglePause, SkipUpdate, AddTilesToGroup, Show, Exhaust, TerrainBuilt, TerrainLost
    <2>4. CASE (\E view \in Views : BeginUpdate(view)) \/ EndUpdate \/ BeginExit
      BY <2>4 DEF BeginUpdate, EndUpdate, BeginExit, Release
    <2>5. CASE \E l \in Locs : Collect(l) \/ Retire(l)
      BY <2>5 DEF Collect, Retire, Release
    <2>6. CASE Join
      BY <2>6 DEF Join, Release
    <2> QED
      BY <2>1, <2>2, <2>3, <2>4, <2>5, <2>6 DEF MainStep, Frame, Exit
  <1>3. CASE Running /\ Load
    <2> USE <1>3 DEF Running
    <2>1. CASE SecondTest
      BY <2>1 DEF SecondTest, MayBeNonEmpty
    <2>2. CASE Back \/ Pop
      BY <2>2 DEF Back, Pop, QueueUnusable, Release
    <2>3. CASE TestExit \/ Park \/ LoopTest \/ BgStart \/ BgFill
      BY <2>3 DEF TestExit, Park, LoopTest, BgStart, BgFill, GetOctChunk, Goto, Write
    <2>4. CASE BgCopy \/ BgReadyDb \/ BgRequest \/ BgRequestGone \/ BgHaveTerrain
      BY <2>4 DEF BgCopy, LoadVB, BgReadyDb, BgRequest, BgRequestGone, BgHaveTerrain, Goto, Write
    <2>5. CASE BgPut \/ BgReady \/ DropTile
      BY <2>5 DEF BgPut, LoadVB, BgReady, DropTile, Write, Release
    <2> QED
      BY <1>3, <2>1, <2>2, <2>3, <2>4, <2>5 DEF Load
  <1> QED
    BY <1>1, <1>2, <1>3 DEF Next, Run, MainStep

\* The loader's second size() > 0 is what protects back() and pop_back(): they fail
\* only when the main thread swaps the vector under the loader's hands.
THEOREM QueueFaults == Spec => []QueueFaultNeedsSwap
  <1>1. Init => QueueInv /\ QueueFaultNeedsSwap
    BY DEF Init, QueueInv, QueueFaultNeedsSwap
  <1> QED
    BY <1>1, QueueNext, PTL DEF Spec

\* QueuesInv is preserved.
LEMMA QueuesNext ==
  MemInv /\ PlacesInv /\ QueuesInv /\ [Next]_vars => QueuesInv'
  <1> SUFFICES ASSUME MemInv, PlacesInv, QueuesInv, [Next]_vars PROVE QueuesInv'
    OBVIOUS
  <1> USE DEF app, sel, locals, loader, own, mem, level, main
  <1>0. /\ tiles \in [Locs -> Objs \cup {None}] /\ active \subseteq Locs
        /\ queue \in Seq(Objs) /\ batch \in Seq(Objs)
        /\ active \subseteq HasSet
    BY DEF MemInv, TypeOK, PlacesInv
  <1>1. CASE UNCHANGED <<mpc, tiles, active, batch, group>> /\ Range(queue') \subseteq Range(queue)
             /\ (mpc # "ctor" \/ queue' = queue)
    <2>1. ActiveTiles' = ActiveTiles
      BY <1>1 DEF ActiveTiles
    <2> QED
      BY <1>1, <2>1 DEF QueuesInv
  <1>2. CASE \/ UNCHANGED vars \/ TogglePause \/ SpuriousWakeup \/ Exhaust
             \/ \E l \in Locs : TerrainBuilt(l) \/ TerrainLost(l)
    BY <1>1, <1>2 DEF vars, TogglePause, SpuriousWakeup, Exhaust, Goto, TerrainBuilt, TerrainLost
  <1>3. CASE Load
    <2>1. CASE Pop
      <3>1. UNCHANGED main /\ (queue' = queue \/ (queue # <<>> /\ queue' = Front(queue)))
        BY <2>1 DEF Pop
      <3>2. Range(queue') \subseteq Range(queue)
        BY <1>0, <3>1, LastFront
      <3> QED
        BY <1>1, <3>1, <3>2 DEF QueuesInv
    <2>2. CASE ~Pop
      <3>1. UNCHANGED <<main, queue>>
        BY <1>3, <2>2 DEF Load, TestExit, Park, LoopTest, SecondTest, Back, BgStart, BgCopy,
           BgReadyDb, BgRequest, BgRequestGone, BgHaveTerrain, BgFill, BgPut, BgReady,
           DropTile, GetOctChunk, Goto, Write
      <3> QED
        BY <1>1, <3>1
    <2> QED
      BY <2>1, <2>2
  <1>4. CASE Construct \/ SkipUpdate \/ Show \/ LockQueue \/ Notify
    <2>1. /\ UNCHANGED <<tiles, active, batch, group, queue>>
          /\ <<mpc, mpc'>> \in {<<"ctor", "idle">>, <<"idle", "show">>, <<"show", "idle">>,
                                <<"collect", "swap">>, <<"notify", "retire">>}
      BY <1>4 DEF Construct, SkipUpdate, Show, LockQueue, Notify
    <2>2. ActiveTiles' = ActiveTiles
      BY <2>1 DEF ActiveTiles
    <2> QED
      BY <2>1, <2>2, EmptyRange DEF QueuesInv
  <1>5. CASE \E view \in Views : BeginUpdate(view)
    <2>1. mpc = "idle" /\ mpc' = "collect" /\ batch' = batch
      BY <1>5 DEF BeginUpdate
    <2> QED
      BY <2>1, EmptyRange DEF QueuesInv
  <1>6. CASE \E l \in Locs : Collect(l)
    <2>0. PICK l \in Locs : Collect(l)
      BY <1>6
    <2>1. mpc = "collect" /\ mpc' = mpc /\ active' = active \cup {l}
      BY <2>0 DEF Collect
    <2>2. \A k \in active : tiles'[k] = tiles[k]
      BY <1>0, <2>0 DEF Collect, HasSet, Has
    <2>3. batch' = batch \/ (tiles'[l] \in Objs /\ batch' = Append(batch, tiles'[l]))
      BY <1>0, <2>0 DEF Collect, Has
    <2>4. Range(batch') \subseteq Range(batch) \cup {tiles'[l]}
      <3>1. CASE batch' = batch
        BY <3>1
      <3>2. CASE tiles'[l] \in Objs /\ batch' = Append(batch, tiles'[l])
        BY <1>0, <3>2, AppendRange
      <3> QED
        BY <2>3, <3>1, <3>2
    <2>5. ActiveTiles \subseteq ActiveTiles' /\ tiles'[l] \in ActiveTiles'
      BY <2>1, <2>2 DEF ActiveTiles
    <2>6. Range(batch) \subseteq ActiveTiles
      BY <2>1 DEF QueuesInv
    <2> QED
      BY <2>1, <2>4, <2>5, <2>6 DEF QueuesInv
  <1>7. CASE SwapQueue
    <2>1. /\ UNCHANGED <<tiles, active>> /\ queue' = batch
          /\ mpc = "swap" /\ mpc' = "notify"
      BY <1>7 DEF SwapQueue
    <2>2. ActiveTiles' = ActiveTiles
      BY <2>1 DEF ActiveTiles
    <2> QED
      BY <2>1, <2>2 DEF QueuesInv
  <1>8. CASE \E l \in Locs : Retire(l)
    <2>0. PICK l \in Locs : Retire(l)
      BY <1>8
    <2>1. /\ mpc = "retire" /\ mpc' = mpc /\ l \in todo /\ active' = active /\ queue' = queue
          /\ tiles' = [tiles EXCEPT ![l] = None]
      BY <2>0 DEF Retire
    <2>2. \A k \in active : tiles'[k] = tiles[k]
      BY <1>0, <2>1 DEF PlacesInv
    <2>3. ActiveTiles' = ActiveTiles
      BY <2>1, <2>2 DEF ActiveTiles
    <2> QED
      BY <2>1, <2>3 DEF QueuesInv
  <1>9. CASE EndUpdate
    <2>1. /\ UNCHANGED <<tiles, active, queue>> /\ batch' = <<>>
          /\ mpc = "retire" /\ mpc' = "group"
      BY <1>9 DEF EndUpdate
    <2>2. ActiveTiles' = ActiveTiles
      BY <2>1 DEF ActiveTiles
    <2> QED
      BY <2>1, <2>2 DEF QueuesInv
  <1>10. CASE AddTilesToGroup
    <2>1. /\ UNCHANGED <<tiles, active, queue, batch>> /\ group' \subseteq ActiveTiles
          /\ mpc = "group" /\ mpc' = "show"
      BY <1>10 DEF AddTilesToGroup, ActiveTiles
    <2>2. ActiveTiles' = ActiveTiles
      BY <2>1 DEF ActiveTiles
    <2> QED
      BY <2>1, <2>2 DEF QueuesInv
  <1>11. CASE BeginExit \/ ExitNotify \/ Join
    <2>1. mpc' \in {"exitnotify", "join", "gone"}
      BY <1>11 DEF BeginExit, ExitNotify, Join
    <2> QED
      BY <2>1 DEF QueuesInv
  <1>12. CASE Restart
    <2>1. mpc' = "ctor" /\ queue' = <<>> /\ batch' = <<>> /\ group' = {}
      BY <1>12 DEF Restart
    <2> QED
      BY <2>1 DEF QueuesInv
  <1> QED
    BY <1>2, <1>3, <1>4, <1>5, <1>6, <1>7, <1>8, <1>9, <1>10, <1>11, <1>12
       DEF Next, Run, Frame, Exit

\* Between two updates only the loader's hands hold a tile outside m_tiles: what the
\* queues and the scene refer to is in m_tiles.
THEOREM NoLeak == Spec => []OrphansAreTransient
  <1>1. Init => QueuesInv
    BY DEF Init, QueuesInv
  <1>2. MemInv /\ PlacesInv /\ QueuesInv => OrphansAreTransient
    <2> SUFFICES ASSUME MemInv, PlacesInv, QueuesInv, mpc \in {"idle", "group", "show"},
                        NEW o \in heap
                 PROVE  o = cur \/ \E l \in Locs : tiles[l] = o
      BY DEF OrphansAreTransient
    <2>1. /\ Range(queue) \subseteq ActiveTiles /\ Range(batch) = {}
          /\ group \subseteq ActiveTiles
      BY EmptyRange DEF QueuesInv, MemInv, ThreadsInv
    <2>2. active \subseteq Locs
      BY DEF MemInv, TypeOK
    <2> QED
      BY <2>1, <2>2 DEF MemInv, HeapIsHeld, Held, ActiveTiles
  <1> QED
    BY <1>1, <1>2, InitMem, MemNext, QueuesNext, PTL DEF Spec
=============================================================================
