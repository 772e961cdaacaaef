--------------------------- MODULE TerrainProofs ----------------------------
(***************************************************************************)
(* The terrain selection keeps what it promises for any tree of locations, *)
(* any limit of tiles and any latency of the GPU, with evictions, failing  *)
(* writes and restarts.                                                    *)
(***************************************************************************)
EXTENDS Terrain, TLAPS, FiniteSetTheorems, WellFoundedInduction

-----------------------------------------------------------------------------
(* Facts about the operators of the model.                                 *)

\* A nonempty set of naturals has a least element.
LEMMA Least ==
    ASSUME NEW S \in SUBSET Nat, S # {}
    PROVE  \E m \in S : \A n \in S : m <= n
<1> DEFINE R == OpToRel(<, Nat)
<1>1. IsWellFoundedOn(R, Nat)
  BY NatLessThanWellFounded
<1>2. \A x, y \in Nat : <<y, x>> \in R <=> y < x
  BY DEF OpToRel
<1> HIDE DEF R
<1>3. PICK x \in S : \A y \in S : ~(<<y, x>> \in R)
  <2>1. \E x \in S : \A y \in S : ~(<<y, x>> \in R)
    BY <1>1, WFMin
  <2> QED BY <2>1
<1>4. ASSUME NEW n \in S PROVE x <= n
  <2>1. x \in Nat /\ n \in Nat
    OBVIOUS
  <2>2. ~(n < x)
    BY <1>2, <1>3, <2>1
  <2> QED BY <2>1, <2>2
<1> QED BY <1>4

\* Up satisfies the equation that defines it: the sets it asks for are the least
\* ones that hold the location and are closed under Parent.
LEMMA UpDef ==
    Up = [l \in Locs |-> {l} \cup IF Parent[l] = 0 THEN {} ELSE Up[Parent[l]]]
<1> DEFINE Closed(S) == \A s \in S : Parent[s] \in S \cup {0}
           C == [l \in Locs |->
                   {a \in Locs : \A S \in SUBSET Locs : l \in S /\ Closed(S) => a \in S}]
           F(f) == [l \in Locs |-> {l} \cup IF Parent[l] = 0 THEN {} ELSE f[Parent[l]]]
<1>1. ASSUME NEW l \in Locs
      PROVE  C[l] = {l} \cup IF Parent[l] = 0 THEN {} ELSE C[Parent[l]]
  <2> DEFINE U == {l} \cup IF Parent[l] = 0 THEN {} ELSE C[Parent[l]]
  <2>1. Parent[l] \in Locs \cup {0} /\ 0 \notin Locs
    BY ParentAssumption, LocsAssumption
  <2>2. U \subseteq C[l]
    BY <2>1
  <2>3. U \in SUBSET Locs
    BY <2>1
  <2>4. Closed(U)
    <3>1. ASSUME NEW s \in U PROVE Parent[s] \in U \cup {0}
      <4>1. CASE s = l
        BY <2>1, <4>1
      <4>2. CASE s # l
        <5>1. Parent[l] # 0 /\ s \in C[Parent[l]]
          BY <4>2
        <5>2. Parent[s] \in Locs \cup {0}
          BY <2>3, ParentAssumption
        <5>3. Parent[s] # 0 => Parent[s] \in C[Parent[l]]
          BY <2>1, <5>1, <5>2
        <5> QED BY <5>1, <5>3
      <4> QED BY <4>1, <4>2
    <3> QED BY <3>1
  <2>5. C[l] \subseteq U
    BY <2>3, <2>4
  <2> QED BY <2>2, <2>5
<1>2. C = F(C)
  BY <1>1
<1> HIDE DEF C
<1>3. Up = CHOOSE f : f = F(f)
  BY DEF Up
<1> QED BY <1>2, <1>3

\* What lies above a location is a location, and comes before it in the order.
LEMMA UpBelow ==
    ASSUME NEW l \in Locs
    PROVE  l \in Up[l] /\ Up[l] \subseteq Locs /\ \A a \in Up[l] : a <= l
<1> DEFINE Good(k) == Up[k] \subseteq Locs /\ \A a \in Up[k] : a <= k
           B == {k \in Locs : ~Good(k)}
<1>1. Locs \subseteq Nat /\ 0 \notin Locs
  BY LocsAssumption
<1>2. B = {}
  <2>1. SUFFICES ASSUME B # {} PROVE FALSE
    OBVIOUS
  <2>2. PICK m \in B : \A n \in B : m <= n
    BY <1>1, <2>1, Least
  <2>3. m \in Locs /\ m \in Nat /\ Parent[m] \in Locs \cup {0} /\ Parent[m] < m
    BY <1>1, ParentAssumption
  <2>4. Up[m] = {m} \cup IF Parent[m] = 0 THEN {} ELSE Up[Parent[m]]
    BY UpDef
  <2>5. CASE Parent[m] = 0
    <3>1. Up[m] = {m}
      BY <2>4, <2>5
    <3>2. Good(m)
      BY <2>3, <3>1
    <3> QED BY <3>2
  <2>6. CASE Parent[m] # 0
    <3>1. Parent[m] \notin B
      <4> HIDE DEF B
      <4>1. Parent[m] \in Nat
        BY <1>1, <2>3, <2>6
      <4> QED BY <2>2, <2>3, <4>1
    <3>2. Good(Parent[m])
      BY <2>3, <2>6, <3>1
    <3>3. \A a \in Up[m] : a <= m
      <4>1. ASSUME NEW a \in Up[m], a # m PROVE a <= m
        <5>1. a \in Up[Parent[m]]
          BY <2>4, <2>6, <4>1
        <5>2. a \in Nat /\ Parent[m] \in Nat /\ a <= Parent[m]
          BY <1>1, <2>3, <2>6, <3>2, <5>1
        <5> QED BY <2>3, <5>2
      <4> QED BY <2>3, <4>1
    <3> QED BY <2>4, <2>6, <3>2, <3>3
  <2> QED BY <2>5, <2>6
<1>3. l \in Up[l]
  BY UpDef
<1> QED BY <1>2, <1>3

\* The walk of RequestTile ends at the nearest known location, when there is one.
LEMMA MaxKnown ==
    ASSUME NEW l \in Locs, NEW K \in SUBSET Up[l], K # {}
    PROVE  Max(K) \in K
<1> DEFINE D == {l - a : a \in K}
<1>1. K \subseteq Nat /\ l \in Nat /\ \A a \in K : a <= l
  BY UpBelow, LocsAssumption
<1>2. D \in SUBSET Nat /\ D # {}
  BY <1>1
<1>3. PICK d \in D : \A n \in D : d <= n
  BY <1>2, Least
<1>4. PICK x \in K : d = l - x
  OBVIOUS
<1>5. ASSUME NEW y \in K PROVE x >= y
  <2>1. d <= l - y
    BY <1>3
  <2> QED BY <1>1, <1>4, <2>1
<1> QED BY <1>5 DEF Max

-----------------------------------------------------------------------------
(* The inductive invariant.                                                *)

Stored == db \cup unsaved

\* The tiles that are being built.
Work == IF tpc = "build" THEN todo \cup next ELSE building \cup next

\* What the locals of Update hold at each point of it.
PlaceInv ==
    /\ tpc # "build" => todo = {}
    /\ tpc = "idle" => next = {} /\ ~gpu
    /\ todo \subseteq building
    /\ tpc = "visit" => building \cap next = {}
    /\ tpc = "build" => todo \cap next = {}

\* The database, with what could not be written, is closed under Parent.
StoreInv == \A l \in Stored : Parent[l] \in Stored \cup {0}

\* A tile by itself: how its members go together, and what the database knows of
\* its location and of the one above it.
Coherent(t, stored) ==
    /\ t.parent # None => t.loc # 0 /\ ~t.ready
    /\ t.step = 1 => t.due <= 1
    /\ t.loc # 0 =>
         /\ t.ready <=> t.step = -1
         /\ t.ready => t.loc \in stored
         /\ ~t.ready => (t.parent = None <=> Parent[t.loc] = 0)
         /\ t.step # 0 => Parent[t.loc] \in stored \cup {0}

\* A tile that has started its GPU work in this frame.
Starting(t) == t.step = 1 /\ t.due = 1

\* All tiles tl, where m_tiles is list, those under construction are work and the
\* budget of the frame is spent iff busy: a tile waits for a tile of the location
\* above its own, and the unfinished tiles are the ones under construction.
CoherentInv(tl, stored) == \A o \in Objs : Coherent(tl[o], stored)
ParentInv(tl) ==
    \A o \in Objs : tl[o].parent # None => tl[tl[o].parent].loc = Parent[tl[o].loc]
WorkInv(tl, work) == \A o \in Objs : o \in work <=> tl[o].loc # 0 /\ ~tl[o].ready
ListInv(tl, list) == \A l \in Locs : list[l] # None => tl[list[l]].loc = l
GpuInv(tl, busy) ==
    /\ ~busy => \A o \in Objs : ~Starting(tl[o])
    /\ \A o, p \in Objs : Starting(tl[o]) /\ Starting(tl[p]) => o = p

TilesInv(tl, stored, work, list, busy) ==
    /\ CoherentInv(tl, stored)
    /\ ParentInv(tl)
    /\ WorkInv(tl, work)
    /\ ListInv(tl, list)
    /\ GpuInv(tl, busy)

IInv ==
    /\ TypeOK /\ PlaceInv /\ StoreInv
    /\ TilesInv(tile, Stored, Work, tiles, gpu)

-----------------------------------------------------------------------------
(* One tile.                                                               *)

\* The members of an object that is not in use.
LEMMA BlankFacts ==
    /\ Blank \in TerrainTile /\ Blank.loc = 0 /\ Blank.parent = None /\ ~Blank.ready
    /\ ~Starting(Blank)
    /\ \A st : Coherent(Blank, st)
BY BoundsAssumption DEF Blank, Unbuilt, TerrainTile, None, Starting, Coherent

\* The members of a tile read from the database.
LEMMA RestoredFacts ==
    ASSUME NEW l \in Locs
    PROVE  /\ Restored(l) \in TerrainTile
           /\ Restored(l).loc = l /\ Restored(l).step = -1 /\ Restored(l).due = 0
           /\ Restored(l).ready = TRUE /\ Restored(l).parent = None
BY BoundsAssumption DEF Restored, TerrainTile, None

\* The members of a tile that Update has just created.
LEMMA UnbuiltFacts ==
    ASSUME NEW l \in Locs, NEW p \in Objs \cup {None}
    PROVE  /\ Unbuilt(l, p) \in TerrainTile
           /\ Unbuilt(l, p).loc = l /\ Unbuilt(l, p).step = 0 /\ Unbuilt(l, p).due = 0
           /\ Unbuilt(l, p).ready = FALSE /\ Unbuilt(l, p).parent = p
BY BoundsAssumption DEF Unbuilt, TerrainTile, None

\* A frame that ends brings a read-back nearer and changes nothing else.
LEMMA ElapsedFacts ==
    ASSUME NEW t \in TerrainTile
    PROVE  /\ Elapsed(t) \in TerrainTile
           /\ Elapsed(t).loc = t.loc /\ Elapsed(t).step = t.step
           /\ Elapsed(t).ready = t.ready /\ Elapsed(t).parent = t.parent
           /\ Elapsed(t).due = IF t.due = 0 THEN 0 ELSE t.due - 1
BY BoundsAssumption DEF Elapsed, TerrainTile

\* The four outcomes of Build on an unfinished tile.
LEMMA BuildCases ==
    ASSUME NEW t \in TerrainTile, t.step # -1, NEW late \in 1..ReadLatency
    PROVE  LET new == Build(t, late) IN
           \/ new = t
           \/ /\ t.step = 0 /\ ~gpu /\ ParentReady(t)
              /\ new = [t EXCEPT !.step = 1, !.due = 1]
           \/ t.step = 1 /\ t.due = 0 /\ new = [t EXCEPT !.step = 2, !.due = late]
           \/ /\ t.step = 2 /\ t.due = 0
              /\ new = [t EXCEPT !.step = -1, !.ready = TRUE, !.parent = None]
<1>1. t.step \in {0, 1, 2} /\ t.due \in Nat
  BY BoundsAssumption DEF TerrainTile
<1>2. CASE ~ParentReady(t)
  BY <1>2 DEF Build
<1>3. CASE ParentReady(t) /\ t.step = 0
  BY <1>3 DEF Build
<1>4. CASE ParentReady(t) /\ t.step = 1
  BY <1>1, <1>4 DEF Build
<1>5. CASE ParentReady(t) /\ t.step = 2
  BY <1>1, <1>5 DEF Build
<1> QED BY <1>1, <1>2, <1>3, <1>4, <1>5

-----------------------------------------------------------------------------
(* All tiles.                                                              *)

\* Only what nothing refers to is freed.
LEMMA Released ==
    ASSUME NEW base \in SUBSET Objs, NEW tl \in [Objs -> TerrainTile], Release(base, tl)
    PROVE  /\ tile' \in [Objs -> TerrainTile]
           /\ \A o \in Objs : tile'[o] = tl[o] \/ tile'[o] = Blank
           /\ \A o \in base : tile'[o] = tl[o]
           /\ \A o \in base : tl[o].parent # None => tile'[tl[o].parent] = tl[tl[o].parent]
<1>1. \A o \in Objs : tl[o].parent \in Objs \cup {None}
  BY DEF TerrainTile
<1>2. tile' = [o \in Objs |-> IF o \in Alive(base, tl) THEN tl[o] ELSE Blank]
  BY DEF Release
<1>3. \A o \in Objs : tile'[o] = tl[o] \/ tile'[o] = Blank
  BY <1>2
<1>4. \A o \in Objs : tile'[o] \in TerrainTile
  BY <1>3, BlankFacts
<1>5. tile' \in [Objs -> TerrainTile]
  BY <1>2, <1>4
<1>6. \A o \in base : o \in Alive(base, tl)
  BY DEF Alive
<1>7. \A o \in base : tl[o].parent # None => tl[o].parent \in Alive(base, tl)
  BY DEF Alive
<1> QED BY <1>1, <1>2, <1>3, <1>5, <1>6, <1>7

\* The roots of what is alive are objects, and hold what they are made of.
LEMMA RootedObjs ==
    ASSUME TypeOK, NEW t \in [Locs -> Objs \cup {None}], NEW b \in SUBSET Objs
    PROVE  Rooted(t, b) \in SUBSET Objs /\ b \subseteq Rooted(t, b)
           /\ \A l \in Locs : t[l] # None => t[l] \in Rooted(t, b)
BY ObjsAssumption DEF Rooted, None

\* A fresh object is referred to by nothing.
LEMMA FreshUnused ==
    ASSUME IInv, NEW o, Fresh(o)
    PROVE  /\ o \in Objs /\ o # None
           /\ o \notin building \cup next \cup todo
           /\ \A l \in Locs : tiles[l] # o
           /\ \A p \in Objs : tile[p].parent # o
<1> DEFINE base == Rooted(tiles, building \cup next \cup todo)
<1>1. o \in Objs /\ o \notin InUse /\ o # None
  BY ObjsAssumption DEF Fresh, None
<1>2. base \in SUBSET Objs /\ building \cup next \cup todo \subseteq base
      /\ \A l \in Locs : tiles[l] # None => tiles[l] \in base
  BY RootedObjs DEF IInv, TypeOK
<1>3. InUse = base \cup ({tile[p].parent : p \in base} \ {None})
  BY DEF InUse, Alive
<1>4. ASSUME NEW p \in Objs PROVE tile[p].parent # o
  <2>1. SUFFICES ASSUME tile[p].parent = o PROVE FALSE
    OBVIOUS
  <2>2. tile[p].loc # 0 /\ ~tile[p].ready
    BY <1>1, <2>1 DEF IInv, TilesInv, CoherentInv, Coherent
  <2>3. p \in Work
    BY <2>2 DEF IInv, TilesInv, WorkInv
  <2>4. p \in base
    BY <1>2, <2>3 DEF Work
  <2> HIDE DEF base
  <2> QED BY <1>1, <1>3, <2>1, <2>4
<1> HIDE DEF base
<1> QED BY <1>1, <1>2, <1>3, <1>4

\* Freeing tiles disturbs nothing.
LEMMA ReleaseKeeps ==
    ASSUME NEW base \in SUBSET Objs, NEW tl \in [Objs -> TerrainTile], Release(base, tl),
           TilesInv(tl, Stored', Work', tiles', gpu'),
           Work' \subseteq base, \A l \in Locs : tiles'[l] # None => tiles'[l] \in base
    PROVE  tile' \in [Objs -> TerrainTile] /\ TilesInv(tile', Stored', Work', tiles', gpu')
<1>1. /\ tile' \in [Objs -> TerrainTile]
      /\ \A o \in Objs : tile'[o] = tl[o] \/ tile'[o] = Blank
      /\ \A o \in base : tile'[o] = tl[o]
      /\ \A o \in base : tl[o].parent # None => tile'[tl[o].parent] = tl[tl[o].parent]
  BY Released
<1>2. CoherentInv(tile', Stored')
  BY <1>1, BlankFacts DEF TilesInv, CoherentInv
<1>3. ParentInv(tile')
  <2>1. SUFFICES ASSUME NEW o \in Objs, tile'[o].parent # None
                 PROVE  tile'[tile'[o].parent].loc = Parent[tile'[o].loc]
    BY DEF ParentInv
  <2>2. tile'[o] = tl[o]
    BY <1>1, <2>1, BlankFacts
  <2>3. tl[o].loc # 0 /\ ~tl[o].ready
    BY <2>1, <2>2 DEF TilesInv, CoherentInv, Coherent
  <2>4. o \in base
    BY <2>3 DEF TilesInv, WorkInv
  <2> QED BY <1>1, <2>1, <2>2, <2>4 DEF TilesInv, ParentInv
<1>4. WorkInv(tile', Work')
  BY <1>1, BlankFacts DEF TilesInv, WorkInv
<1>5. ListInv(tile', tiles')
  BY <1>1 DEF TilesInv, ListInv
<1>6. GpuInv(tile', gpu')
  BY <1>1, BlankFacts DEF TilesInv, GpuInv
<1> QED BY <1>1, <1>2, <1>3, <1>4, <1>5, <1>6 DEF TilesInv

\* Replacing one tile.
LEMMA ReplaceKeeps ==
    ASSUME IInv, NEW o \in Objs, NEW new \in TerrainTile,
           NEW tm, tm = [tile EXCEPT ![o] = new],
           Stored \subseteq Stored', Coherent(new, Stored'),
           new.parent # None => tm[new.parent].loc = Parent[new.loc],
           \A p \in Objs : tile[p].parent = o => new.loc = tile[o].loc,
           \A p \in Objs : p # o => (p \in Work' <=> p \in Work),
           o \in Work' <=> new.loc # 0 /\ ~new.ready,
           \A l \in Locs : tiles'[l] = tiles[l] \/ tiles'[l] = o,
           \A l \in Locs : tiles'[l] = o => new.loc = l,
           Starting(new) => Starting(tile[o]) \/ ~gpu,
           Starting(new) \/ gpu => gpu'
    PROVE  TilesInv(tm, Stored', Work', tiles', gpu')
<1>0. /\ TilesInv(tile, Stored, Work, tiles, gpu)
      /\ tile \in [Objs -> TerrainTile] /\ tiles \in [Locs -> Objs \cup {None}]
  BY DEF IInv, TypeOK
<1>1. tm[o] = new /\ \A p \in Objs : p # o => tm[p] = tile[p]
  BY <1>0
<1>2. \A p \in Objs : tile[p].parent \in Objs \cup {None}
  BY <1>0 DEF TerrainTile
<1>4. CoherentInv(tm, Stored')
  BY <1>0, <1>1 DEF TilesInv, CoherentInv, Coherent
<1>5. ParentInv(tm)
  <2>1. SUFFICES ASSUME NEW p \in Objs, tm[p].parent # None
                 PROVE  tm[tm[p].parent].loc = Parent[tm[p].loc]
    BY DEF ParentInv
  <2>2. CASE p = o
    BY <1>1, <2>1, <2>2
  <2>3. CASE p # o
    <3>1. tile[tile[p].parent].loc = Parent[tile[p].loc] /\ tile[p].parent \in Objs
      BY <1>0, <1>1, <1>2, <2>1, <2>3 DEF TilesInv, ParentInv
    <3>2. CASE tile[p].parent = o
      BY <1>1, <2>3, <3>1, <3>2
    <3>3. CASE tile[p].parent # o
      BY <1>1, <2>3, <3>1, <3>3
    <3> QED BY <3>2, <3>3
  <2> QED BY <2>2, <2>3
<1>6. WorkInv(tm, Work')
  BY <1>0, <1>1 DEF TilesInv, WorkInv
<1>7. ListInv(tm, tiles')
  <2>1. SUFFICES ASSUME NEW l \in Locs, tiles'[l] # None PROVE tm[tiles'[l]].loc = l
    BY DEF ListInv
  <2>2. CASE tiles'[l] = o
    BY <1>1, <2>2
  <2>3. CASE tiles'[l] # o
    <3>1. tiles'[l] = tiles[l] /\ tile[tiles[l]].loc = l /\ tiles[l] \in Objs
      BY <1>0, <2>1, <2>3 DEF TilesInv, ListInv
    <3> QED BY <1>1, <2>3, <3>1
  <2> QED BY <2>2, <2>3
<1>8. GpuInv(tm, gpu')
  BY <1>0, <1>1 DEF TilesInv, GpuInv
<1> QED BY <1>4, <1>5, <1>6, <1>7, <1>8 DEF TilesInv

\* The end of a frame: no tile that started its GPU work in it counts for the next.
LEMMA ElapsedKeeps ==
    ASSUME IInv, NEW te, te = [o \in Objs |-> Elapsed(tile[o])]
    PROVE  /\ te \in [Objs -> TerrainTile]
           /\ TilesInv(te, Stored, Work, tiles, FALSE)
<1>0. /\ TilesInv(tile, Stored, Work, tiles, gpu)
      /\ tile \in [Objs -> TerrainTile] /\ tiles \in [Locs -> Objs \cup {None}]
  BY DEF IInv, TypeOK
<1>1. \A o \in Objs :
        /\ te[o] \in TerrainTile
        /\ te[o].loc = tile[o].loc /\ te[o].step = tile[o].step
        /\ te[o].ready = tile[o].ready /\ te[o].parent = tile[o].parent
        /\ te[o].due = IF tile[o].due = 0 THEN 0 ELSE tile[o].due - 1
  BY <1>0, ElapsedFacts
<1>2. \A o \in Objs : tile[o].due \in Nat /\ tile[o].parent \in Objs \cup {None}
  BY <1>0, BoundsAssumption DEF TerrainTile
<1>3. te \in [Objs -> TerrainTile]
  BY <1>1
<1>4. CoherentInv(te, Stored)
  BY <1>0, <1>1, <1>2 DEF TilesInv, CoherentInv, Coherent
<1>5. ParentInv(te)
  BY <1>0, <1>1, <1>2 DEF TilesInv, ParentInv
<1>6. WorkInv(te, Work)
  BY <1>0, <1>1 DEF TilesInv, WorkInv
<1>7. ListInv(te, tiles)
  BY <1>0, <1>1 DEF TilesInv, ListInv
<1>8. \A o \in Objs : ~Starting(te[o])
  BY <1>0, <1>1, <1>2 DEF TilesInv, CoherentInv, Coherent, Starting
<1>9. GpuInv(te, FALSE)
  BY <1>8 DEF GpuInv
<1> QED BY <1>3, <1>4, <1>5, <1>6, <1>7, <1>9 DEF TilesInv

-----------------------------------------------------------------------------
(* The steps.                                                              *)

\* What Build makes of an unfinished tile; its heights are written when it is done.
LEMMA BuildKeeps ==
    ASSUME IInv, NEW t \in TerrainTile, t.loc # 0, ~t.ready, Coherent(t, Stored),
           t.parent # None => tile[t.parent].loc = Parent[t.loc], Starting(t) => gpu,
           NEW late \in 1..ReadLatency, NEW new, new = Build(t, late),
           NEW stored, Stored \subseteq stored, new.ready => t.loc \in stored
    PROVE  /\ new \in TerrainTile /\ new.loc = t.loc /\ Coherent(new, stored)
           /\ new.parent = None \/ new.parent = t.parent
           /\ new.ready => t.step = 2
           /\ Starting(new) => new = t \/ ~gpu
           /\ Starting(new) \/ gpu => gpu \/ Dispatched(t, new)
<1>1. /\ t.loc \in Locs /\ t.step \in {-1, 0, 1, 2} /\ t.due \in 0..ReadLatency
      /\ t.parent \in Objs \cup {None} /\ 1 \in 0..ReadLatency
      /\ late \in 0..ReadLatency
  BY BoundsAssumption DEF TerrainTile
<1>2. t.step # -1
  BY DEF Coherent
<1>3. CASE new = t
  BY <1>3, <1>2 DEF Coherent
<1>4. CASE /\ t.step = 0 /\ ~gpu /\ ParentReady(t)
           /\ new = [t EXCEPT !.step = 1, !.due = 1]
  <2>1. Parent[t.loc] \in Stored \cup {0}
    <3>1. CASE t.parent = None
      BY <3>1 DEF Coherent
    <3>2. CASE t.parent # None
      <4>1. t.parent \in Objs /\ tile[t.parent].ready
        BY <1>1, <1>4, <3>2 DEF ParentReady
      <4>2. tile[t.parent].loc = Parent[t.loc] /\ Parent[t.loc] # 0
        BY <3>2 DEF Coherent
      <4>3. Coherent(tile[t.parent], Stored)
        BY <4>1 DEF IInv, TilesInv, CoherentInv
      <4> QED BY <4>1, <4>2, <4>3 DEF Coherent
    <3> QED BY <3>1, <3>2
  <2>2. /\ new \in TerrainTile /\ new.loc = t.loc /\ new.step = 1 /\ new.due = 1
        /\ new.ready = t.ready /\ new.parent = t.parent
    BY <1>1, <1>4 DEF TerrainTile
  <2>3. Coherent(new, stored)
    BY <2>1, <2>2 DEF Coherent
  <2> QED BY <1>4, <2>2, <2>3 DEF Dispatched, Starting
<1>5. CASE t.step = 1 /\ t.due = 0 /\ new = [t EXCEPT !.step = 2, !.due = late]
  <2>1. /\ new \in TerrainTile /\ new.loc = t.loc /\ new.step = 2 /\ new.due = late
        /\ new.ready = t.ready /\ new.parent = t.parent
    BY <1>1, <1>5 DEF TerrainTile
  <2>2. Coherent(new, stored)
    BY <1>5, <2>1 DEF Coherent
  <2> QED BY <2>1, <2>2 DEF Starting
<1>6. CASE /\ t.step = 2 /\ t.due = 0
           /\ new = [t EXCEPT !.step = -1, !.ready = TRUE, !.parent = None]
  <2>1. /\ new \in TerrainTile /\ new.loc = t.loc /\ new.step = -1 /\ new.due = t.due
        /\ new.ready = TRUE /\ new.parent = None
    BY <1>1, <1>6 DEF TerrainTile
  <2>2. Coherent(new, stored)
    BY <1>6, <2>1 DEF Coherent
  <2> QED BY <1>6, <2>1, <2>2 DEF Starting
<1> QED BY <1>2, <1>3, <1>4, <1>5, <1>6, BuildCases

\* The invariant holds when the program starts.
LEMMA InitIInv == Init => IInv
<1>1. SUFFICES ASSUME Init PROVE IInv
  OBVIOUS
<1>2. TypeOK
  <2>1. tile \in [Objs -> TerrainTile] /\ tiles \in [Locs -> Objs \cup {None}]
    BY <1>1, BlankFacts DEF Init
  <2>2. 0 \in 0..(CountMod - 1)
    BY BoundsAssumption
  <2> QED BY <1>1, <2>1, <2>2 DEF Init, TypeOK
<1>3. PlaceInv /\ StoreInv /\ Work = {}
  BY <1>1 DEF Init, PlaceInv, StoreInv, Stored, Work
<1>4. \A o \in Objs : tile[o] = Blank
  BY <1>1 DEF Init
<1>5. TilesInv(tile, Stored, {}, tiles, gpu)
  BY <1>1, <1>4, BlankFacts
     DEF Init, TilesInv, CoherentInv, ParentInv, WorkInv, ListInv, GpuInv
<1> QED BY <1>2, <1>3, <1>5 DEF IInv

\* RequestTile puts at most one tile in m_tiles, restored from the database.
LEMMA RequestTileEffect ==
    ASSUME IInv, NEW l \in Locs, RequestTile(l)
    PROVE  \/ tiles' = tiles /\ tile' = tile
           \/ \E top \in Up[l], o \in Objs :
                /\ top \in Locs /\ top \in db /\ ~Listed(top) /\ Fresh(o)
                /\ tiles' = [tiles EXCEPT ![top] = o]
                /\ tile' = [tile EXCEPT ![o] = Restored(top)]
<1> DEFINE known == {a \in Up[l] : Listed(a) \/ a \in db}
           top == IF known = {} THEN 0 ELSE Max(known)
<1>1. Up[l] \subseteq Locs
  BY UpBelow
<1>2. top # 0 => top \in known
  BY MaxKnown
<1> HIDE DEF top
<1>3. CASE top # 0 /\ ~Listed(top)
  <2>1. PICK o \in Objs : /\ Fresh(o)
                          /\ tiles' = [tiles EXCEPT ![top] = o]
                          /\ tile' = [tile EXCEPT ![o] = Restored(top)]
    BY <1>3 DEF RequestTile, top
  <2> QED BY <1>1, <1>2, <1>3, <2>1
<1>4. CASE ~(top # 0 /\ ~Listed(top))
  BY <1>4 DEF RequestTile, top
<1> QED BY <1>3, <1>4

\* RequestTile, on the loader thread, at any point of Update.
LEMMA RequestTileKeeps == ASSUME IInv, NEW l \in Locs, RequestTile(l) PROVE IInv'
<1>1. Up[l] \subseteq Locs
  BY UpBelow
<1>2. PlaceInv' /\ StoreInv' /\ Work' = Work /\ Stored' = Stored /\ gpu' = gpu
  BY DEF RequestTile, IInv, PlaceInv, StoreInv, Stored, Work, update
<1>3. ASSUME NEW top \in Up[l], NEW o \in Objs,
             top \in Locs, top \in db, ~Listed(top), Fresh(o),
             tiles' = [tiles EXCEPT ![top] = o],
             tile' = [tile EXCEPT ![o] = Restored(top)]
      PROVE  IInv'
  <2>1. 0 \notin Locs
    BY LocsAssumption
  <2>2. /\ o \notin building \cup next \cup todo /\ o # None
        /\ \A k \in Locs : tiles[k] # o
        /\ \A p \in Objs : tile[p].parent # o
    BY <1>3, FreshUnused
  <2> DEFINE new == Restored(top)
  <2>3. /\ new \in TerrainTile /\ new.loc = top /\ new.step = -1 /\ new.due = 0
        /\ new.ready = TRUE /\ new.parent = None /\ tile' = [tile EXCEPT ![o] = new]
    BY <1>3, RestoredFacts
  <2> HIDE DEF new
  <2>4. Coherent(new, Stored) /\ ~Starting(new)
    <3>1. Parent[top] \in Stored \cup {0} /\ top \in Stored
      BY <1>3 DEF IInv, StoreInv, Stored
    <3> QED BY <2>1, <2>3, <3>1 DEF Coherent, Starting
  <2>5. TypeOK'
    <3>1. tiles' \in [Locs -> Objs \cup {None}] /\ tile' \in [Objs -> TerrainTile]
      BY <1>3, <2>3 DEF IInv, TypeOK
    <3> QED BY <1>1, <3>1 DEF RequestTile, IInv, TypeOK, update
  <2>6. TilesInv(tile', Stored', Work', tiles', gpu')
    <3>1. o \notin Work
      BY <2>2 DEF Work
    <3>2. /\ tile \in [Objs -> TerrainTile] /\ tiles \in [Locs -> Objs \cup {None}]
          /\ TilesInv(tile, Stored, Work, tiles, gpu)
      BY DEF IInv, TypeOK
    <3>3. \A k \in Locs : /\ tiles'[k] = tiles[k] \/ tiles'[k] = o
                          /\ tiles'[k] = o => k = top
      BY <1>3, <2>2, <3>2
    <3> QED BY <1>2, <2>2, <2>3, <2>4, <3>1, <3>3, ReplaceKeeps
  <2> QED BY <1>2, <2>5, <2>6 DEF IInv
<1>4. CASE tiles' = tiles /\ tile' = tile
  <2>1. TypeOK'
    BY <1>1, <1>4 DEF RequestTile, IInv, TypeOK, update
  <2> QED BY <1>2, <1>4, <2>1 DEF IInv
<1> QED BY <1>3, <1>4, RequestTileEffect

\* The start of Update, with its eviction.
LEMMA BeginUpdateKeeps == ASSUME IInv, BeginUpdate PROVE IInv'
<1>1. /\ tpc = "idle" /\ next = {} /\ ~gpu /\ todo = {} /\ gpu' = FALSE
      /\ Stored' = Stored /\ Work = building /\ Work' = building
  BY DEF IInv, PlaceInv, BeginUpdate, Stored, Work
<1>2. PlaceInv' /\ StoreInv'
  BY <1>1 DEF IInv, PlaceInv, StoreInv, BeginUpdate, Stored
<1>3. CASE Crowded
  <2>1. PICK E \in SUBSET {l \in Locs : Listed(l)} :
              /\ tiles' = [l \in Locs |-> IF l \in E THEN None ELSE tiles[l]]
              /\ numTiles' = (numTiles - EvictCount) % CountMod
              /\ Release(Rooted(tiles', building), tile)
    BY <1>3 DEF BeginUpdate
  <2> DEFINE base == Rooted(tiles', building)
  <2>2. /\ tile \in [Objs -> TerrainTile] /\ building \in SUBSET Objs
        /\ tiles' \in [Locs -> Objs \cup {None}]
        /\ \A l \in Locs : tiles'[l] # None => tiles'[l] = tiles[l]
    BY <2>1 DEF IInv, TypeOK
  <2>3. /\ base \in SUBSET Objs /\ building \subseteq base
        /\ \A l \in Locs : tiles'[l] # None => tiles'[l] \in base
    BY <2>2, RootedObjs DEF IInv
  <2>4. Release(base, tile)
    BY <2>1
  <2> HIDE DEF base
  <2>5. TilesInv(tile, Stored', Work', tiles', gpu')
    <3>1. ListInv(tile, tiles')
      BY <2>2 DEF IInv, TilesInv, ListInv
    <3>2. GpuInv(tile, gpu')
      BY <1>1 DEF IInv, TilesInv, GpuInv
    <3> QED BY <1>1, <3>1, <3>2 DEF IInv, TilesInv
  <2>6. tile' \in [Objs -> TerrainTile] /\ TilesInv(tile', Stored', Work', tiles', gpu')
    BY <1>1, <2>2, <2>3, <2>4, <2>5, ReleaseKeeps
  <2>7. numTiles' \in 0..(CountMod - 1)
    BY <2>1, BoundsAssumption DEF IInv, TypeOK
  <2>8. TypeOK'
    BY <2>2, <2>6, <2>7 DEF IInv, TypeOK, BeginUpdate
  <2> QED BY <1>2, <2>6, <2>8 DEF IInv
<1>4. CASE ~Crowded
  <2>1. tiles' = tiles /\ tile' = tile /\ numTiles' = numTiles
    BY <1>4 DEF BeginUpdate
  <2>2. TypeOK'
    BY <2>1 DEF IInv, TypeOK, BeginUpdate
  <2>3. TilesInv(tile', Stored', Work', tiles', gpu')
    BY <1>1, <2>1 DEF IInv, TilesInv, GpuInv
  <2> QED BY <1>2, <2>2, <2>3 DEF IInv
<1> QED BY <1>3, <1>4

\* Visit creates an unfinished tile, which may start its GPU work at once.
LEMMA VisitEffect ==
    ASSUME IInv, NEW l \in Locs, Visit(l)
    PROVE  \E o \in Objs, new \in TerrainTile :
             /\ Fresh(o) /\ new.loc = l /\ ~new.ready /\ Coherent(new, Stored)
             /\ tile' = [tile EXCEPT ![o] = new]
             /\ tiles' = [tiles EXCEPT ![l] = o]
             /\ next' = next \cup {o}
             /\ new.parent # None => tile'[new.parent].loc = Parent[new.loc]
             /\ Starting(new) => ~gpu
             /\ Starting(new) \/ gpu => gpu'
             /\ gpu' \in BOOLEAN
<1> DEFINE above == IF Parent[l] = 0 THEN None ELSE tiles[Parent[l]]
           t == Unbuilt(l, above)
           new == Build(t, 1)
<1>1. PICK o \in Objs :
            /\ Fresh(o)
            /\ tile' = [tile EXCEPT ![o] = new]
            /\ gpu' = (gpu \/ Dispatched(t, new))
            /\ tiles' = [tiles EXCEPT ![l] = o]
            /\ next' = next \cup {o}
  BY DEF Visit
<1>2. /\ tpc = "visit" /\ tpc' = "visit" /\ ~Listed(l) /\ l # 0
      /\ (Parent[l] # 0 => Parent[l] \in Locs /\ Listed(Parent[l]))
  BY LocsAssumption, ParentAssumption DEF Visit, Creatable
<1>3. /\ o \notin building \cup next \cup todo /\ o # None
      /\ \A k \in Locs : tiles[k] # o
      /\ \A p \in Objs : tile[p].parent # o
  BY <1>1, FreshUnused
<1>4. /\ tile \in [Objs -> TerrainTile] /\ tiles \in [Locs -> Objs \cup {None}]
      /\ TilesInv(tile, Stored, Work, tiles, gpu)
  BY DEF IInv, TypeOK
<1>5. /\ t \in TerrainTile /\ t.loc = l /\ t.step = 0 /\ t.ready = FALSE
      /\ t.parent = IF Parent[l] = 0 THEN None ELSE tiles[Parent[l]]
  <2>1. above \in Objs \cup {None}
    BY <1>2, <1>4
  <2>2. above = IF Parent[l] = 0 THEN None ELSE tiles[Parent[l]]
    OBVIOUS
  <2> HIDE DEF above
  <2>3. /\ Unbuilt(l, above) \in TerrainTile
        /\ Unbuilt(l, above).loc = l /\ Unbuilt(l, above).step = 0
        /\ Unbuilt(l, above).ready = FALSE /\ Unbuilt(l, above).parent = above
    BY <2>1, UnbuiltFacts
  <2> QED BY <2>2, <2>3
<1>6. t.parent # None =>
        t.parent \in Objs /\ t.parent # o /\ tile[t.parent].loc = Parent[l]
  BY <1>2, <1>3, <1>4, <1>5 DEF TilesInv, ListInv, Listed
<1>7. Coherent(t, Stored) /\ ~Starting(t)
  BY <1>2, <1>5 DEF Coherent, Starting, Listed
<1>8. 1 \in 1..ReadLatency
  BY BoundsAssumption
<1> HIDE DEF t
<1>9. new = Build(t, 1)
  OBVIOUS
<1> HIDE DEF new
<1>10. ~new.ready
  <2>1. t.step # -1
    BY <1>5
  <2>2. \/ new = t \/ new = [t EXCEPT !.step = 1, !.due = 1]
        \/ t.step = 1 \/ t.step = 2
    BY <1>5, <1>8, <1>9, <2>1, BuildCases
  <2>3. new = t \/ new = [t EXCEPT !.step = 1, !.due = 1]
    BY <1>5, <2>2
  <2>4. new.ready = t.ready
    BY <1>5, <2>3 DEF TerrainTile
  <2> QED BY <1>5, <2>4
<1>11. /\ new \in TerrainTile /\ new.loc = l /\ Coherent(new, Stored)
       /\ new.parent = None \/ new.parent = t.parent
       /\ Starting(new) => ~gpu
       /\ Starting(new) \/ gpu => gpu'
  BY <1>1, <1>2, <1>5, <1>6, <1>7, <1>8, <1>9, <1>10, BuildKeeps
<1>12. new.parent # None => tile'[new.parent].loc = Parent[new.loc]
  BY <1>1, <1>4, <1>6, <1>11
<1>13. gpu' \in BOOLEAN
  BY <1>1 DEF IInv, TypeOK, Dispatched
<1> QED BY <1>1, <1>10, <1>11, <1>12, <1>13

\* The first loop of Update.
LEMMA VisitKeeps == ASSUME IInv, NEW l \in Locs, Visit(l) PROVE IInv'
<1>1. PICK o \in Objs, new \in TerrainTile :
        /\ Fresh(o) /\ new.loc = l /\ ~new.ready /\ Coherent(new, Stored)
        /\ tile' = [tile EXCEPT ![o] = new]
        /\ tiles' = [tiles EXCEPT ![l] = o]
        /\ next' = next \cup {o}
        /\ new.parent # None => tile'[new.parent].loc = Parent[new.loc]
        /\ Starting(new) => ~gpu
        /\ Starting(new) \/ gpu => gpu'
        /\ gpu' \in BOOLEAN
  BY VisitEffect
<1>2. tpc = "visit" /\ tpc' = "visit" /\ l # 0
  BY LocsAssumption DEF Visit
<1>3. /\ o \notin building \cup next \cup todo
      /\ \A k \in Locs : tiles[k] # o
      /\ \A p \in Objs : tile[p].parent # o
  BY <1>1, FreshUnused
<1>4. tile \in [Objs -> TerrainTile] /\ tiles \in [Locs -> Objs \cup {None}]
  BY DEF IInv, TypeOK
<1>5. Stored' = Stored /\ Work' = Work \cup {o} /\ o \notin Work
  BY <1>1, <1>2, <1>3 DEF Visit, Stored, Work
<1>6. TilesInv(tile', Stored', Work', tiles', gpu')
  <2>1. \A k \in Locs : /\ tiles'[k] = tiles[k] \/ tiles'[k] = o
                        /\ tiles'[k] = o => k = l
    BY <1>1, <1>3, <1>4
  <2>2. /\ \A p \in Objs : tile[p].parent = o => new.loc = tile[o].loc
        /\ \A p \in Objs : p # o => (p \in Work' <=> p \in Work)
        /\ o \in Work' <=> new.loc # 0 /\ ~new.ready
        /\ \A k \in Locs : tiles'[k] = o => new.loc = k
    BY <1>1, <1>2, <1>3, <1>5, <2>1
  <2>3. /\ o \in Objs /\ new \in TerrainTile /\ tile' = [tile EXCEPT ![o] = new]
        /\ Stored \subseteq Stored' /\ Coherent(new, Stored')
        /\ new.parent # None => tile'[new.parent].loc = Parent[new.loc]
        /\ \A k \in Locs : tiles'[k] = tiles[k] \/ tiles'[k] = o
        /\ Starting(new) => Starting(tile[o]) \/ ~gpu
        /\ Starting(new) \/ gpu => gpu'
    BY <1>1, <1>5, <2>1
  <2> QED BY <2>2, <2>3, ReplaceKeeps
<1>7. TypeOK'
  <2>1. tiles' \in [Locs -> Objs \cup {None}] /\ tile' \in [Objs -> TerrainTile]
    BY <1>1, <1>4
  <2>2. numTiles' \in 0..(CountMod - 1)
    BY BoundsAssumption DEF IInv, TypeOK, Visit
  <2>3. gpu' \in BOOLEAN /\ next' \in SUBSET Objs
    BY <1>1 DEF IInv, TypeOK
  <2> QED BY <2>1, <2>2, <2>3 DEF IInv, TypeOK, Visit
<1>8. PlaceInv' /\ StoreInv'
  BY <1>1, <1>2, <1>3, <1>5 DEF IInv, PlaceInv, StoreInv, Visit
<1> QED BY <1>6, <1>7, <1>8 DEF IInv

\* Between the two loops.
LEMMA EndVisitKeeps == ASSUME IInv, EndVisit PROVE IInv'
<1>1. PlaceInv' /\ StoreInv' /\ Stored' = Stored /\ Work' = Work
  BY DEF IInv, PlaceInv, StoreInv, EndVisit, Stored, Work
<1>2. TypeOK'
  BY DEF IInv, TypeOK, EndVisit
<1> QED BY <1>1, <1>2 DEF IInv, EndVisit

\* BuildTile advances an unfinished tile, and its heights are written when it is done.
LEMMA BuildTileEffect ==
    ASSUME IInv, NEW o \in Objs, BuildTile(o)
    PROVE  \E late \in 1..ReadLatency : \E new, tm :
             /\ new = Build(tile[o], late) /\ new.loc = tile[o].loc
             /\ tm = [tile EXCEPT ![o] = new]
             /\ gpu' = (gpu \/ Dispatched(tile[o], new))
             /\ next' = IF new.ready THEN next ELSE next \cup {o}
             /\ SaveHeights(new) /\ Release(Rooted(tiles, building \cup next), tm)
             /\ tile[o] \in TerrainTile /\ tile[o].loc # 0 /\ ~tile[o].ready
             /\ Coherent(tile[o], Stored)
<1>1. PICK late \in 1..ReadLatency :
        LET new == Build(tile[o], late)
        IN /\ gpu' = (gpu \/ Dispatched(tile[o], new))
           /\ next' = IF Kept(tile[o], new) THEN next \cup {o} ELSE next
           /\ SaveHeights(new)
           /\ Release(Rooted(tiles, building \cup next), [tile EXCEPT ![o] = new])
  BY DEF BuildTile
<1> DEFINE t == tile[o]
           new == Build(t, late)
           tm == [tile EXCEPT ![o] = new]
<1>2. /\ new = Build(t, late) /\ tm = [tile EXCEPT ![o] = new]
      /\ gpu' = (gpu \/ Dispatched(t, new))
      /\ next' = IF new.ready THEN next ELSE next \cup {o}
      /\ SaveHeights(new) /\ Release(Rooted(tiles, building \cup next), tm)
  BY <1>1 DEF Kept
<1> HIDE DEF new, tm
<1>3. t \in TerrainTile /\ t.loc # 0 /\ ~t.ready /\ Coherent(t, Stored)
  <2>1. o \in Work
    BY DEF BuildTile, Work
  <2> QED BY <2>1 DEF IInv, TypeOK, TilesInv, CoherentInv, WorkInv
<1>4. new.loc = t.loc
  <2>1. t.step # -1
    BY <1>3 DEF Coherent
  <2>2. \/ new = t \/ new = [t EXCEPT !.step = 1, !.due = 1]
        \/ new = [t EXCEPT !.step = 2, !.due = late]
        \/ new = [t EXCEPT !.step = -1, !.ready = TRUE, !.parent = None]
    BY <1>2, <1>3, <2>1, BuildCases
  <2> HIDE DEF t
  <2> QED BY <1>3, <2>2 DEF TerrainTile
<1> QED BY <1>2, <1>3, <1>4

\* The second loop of Update.
LEMMA BuildTileKeeps == ASSUME IInv, NEW o \in Objs, BuildTile(o) PROVE IInv'
<1> DEFINE t == tile[o]
           base == Rooted(tiles, building \cup next)
<1>1. PICK late \in 1..ReadLatency : \E new, tm :
        /\ new = Build(t, late) /\ new.loc = t.loc
        /\ tm = [tile EXCEPT ![o] = new]
        /\ gpu' = (gpu \/ Dispatched(t, new))
        /\ next' = IF new.ready THEN next ELSE next \cup {o}
        /\ SaveHeights(new) /\ Release(base, tm)
        /\ t \in TerrainTile /\ t.loc # 0 /\ ~t.ready /\ Coherent(t, Stored)
  BY BuildTileEffect
<1>2. PICK new, tm :
        /\ new = Build(t, late) /\ new.loc = t.loc
        /\ tm = [tile EXCEPT ![o] = new]
        /\ gpu' = (gpu \/ Dispatched(t, new))
        /\ next' = IF new.ready THEN next ELSE next \cup {o}
        /\ SaveHeights(new) /\ Release(base, tm)
        /\ t \in TerrainTile /\ t.loc # 0 /\ ~t.ready /\ Coherent(t, Stored)
  BY <1>1
<1>3. /\ tpc = "build" /\ tpc' = "build" /\ o \in todo /\ todo' = todo \ {o}
      /\ tiles' = tiles /\ building' = building
  BY DEF BuildTile
<1>4. /\ tile \in [Objs -> TerrainTile] /\ tiles \in [Locs -> Objs \cup {None}]
      /\ TilesInv(tile, Stored, Work, tiles, gpu)
      /\ todo \subseteq building /\ todo \cap next = {}
  BY <1>3 DEF IInv, TypeOK, PlaceInv
<1>5. /\ t.parent # None => t.parent \in Objs /\ tile[t.parent].loc = Parent[t.loc]
      /\ Starting(t) => gpu
  <2>1. t.parent \in Objs \cup {None}
    BY <1>2 DEF TerrainTile
  <2> QED BY <1>4, <2>1 DEF TilesInv, ParentInv, GpuInv
<1>6. /\ Stored \subseteq Stored' /\ (new.ready => new.loc \in Stored')
      /\ Stored' \subseteq Stored \cup (IF new.ready THEN {new.loc} ELSE {})
  BY <1>2 DEF SaveHeights, Stored
<1>7. new.loc = t.loc
  BY <1>2
<1>8. /\ new \in TerrainTile /\ Coherent(new, Stored')
      /\ new.parent = None \/ new.parent = t.parent
      /\ new.ready => t.step = 2
      /\ Starting(new) => new = t \/ ~gpu
      /\ Starting(new) \/ gpu => gpu'
  <2>1. /\ t \in TerrainTile /\ t.loc # 0 /\ ~t.ready /\ Coherent(t, Stored)
        /\ new = Build(t, late) /\ (new.ready => t.loc \in Stored')
        /\ gpu' = (gpu \/ Dispatched(t, new))
    BY <1>2, <1>6
  <2> HIDE DEF t
  <2> QED BY <1>5, <1>6, <2>1, BuildKeeps
<1>9. Work = todo \cup next /\ Work' = (todo \ {o}) \cup next'
  BY <1>3 DEF Work
<1>10. TilesInv(tm, Stored', Work', tiles', gpu')
  <2>1. \A p \in Objs : tm[p].loc = tile[p].loc
    BY <1>2, <1>4, <1>7
  <2>2. new.parent # None => tm[new.parent].loc = Parent[new.loc]
    BY <1>5, <1>7, <1>8, <2>1
  <2>3. \A p \in Objs : p # o => (p \in Work' <=> p \in Work)
    BY <1>2, <1>9
  <2>4. o \in Work' <=> new.loc # 0 /\ ~new.ready
    BY <1>2, <1>3, <1>4, <1>7, <1>9
  <2>5. \A k \in Locs : tiles'[k] = tiles[k] /\ (tiles'[k] = o => new.loc = k)
    <3>1. o # None
      BY ObjsAssumption DEF None
    <3> QED BY <1>3, <1>4, <1>7, <3>1 DEF TilesInv, ListInv
  <2>6. /\ o \in Objs /\ new \in TerrainTile /\ tm = [tile EXCEPT ![o] = new]
        /\ Stored \subseteq Stored' /\ Coherent(new, Stored')
        /\ \A p \in Objs : tile[p].parent = o => new.loc = tile[o].loc
        /\ Starting(new) => Starting(tile[o]) \/ ~gpu
        /\ Starting(new) \/ gpu => gpu'
    BY <1>2, <1>6, <1>7, <1>8
  <2> QED BY <2>2, <2>3, <2>4, <2>5, <2>6, ReplaceKeeps
<1>11. tm \in [Objs -> TerrainTile]
  BY <1>2, <1>4, <1>8
<1>12. /\ base \in SUBSET Objs /\ building \cup next \subseteq base
       /\ \A l \in Locs : tiles[l] # None => tiles[l] \in base
  <2>1. building \cup next \in SUBSET Objs
    BY DEF IInv, TypeOK
  <2> QED BY <1>4, <2>1, RootedObjs DEF IInv
<1> HIDE DEF base
<1>13. tile' \in [Objs -> TerrainTile] /\ TilesInv(tile', Stored', Work', tiles', gpu')
  <2>1. Work' \subseteq base
    BY <1>2, <1>3, <1>4, <1>9, <1>12
  <2> QED BY <1>2, <1>3, <1>10, <1>11, <1>12, <2>1, ReleaseKeeps
<1>14. TypeOK'
  <2>1. db' \in SUBSET Locs /\ unsaved' \in SUBSET Locs
    <3>1. new.loc \in Locs
      BY <1>2 DEF TerrainTile
    <3> QED BY <1>2, <3>1 DEF SaveHeights, IInv, TypeOK
  <2>2. gpu' \in BOOLEAN /\ next' \in SUBSET Objs
    BY <1>2 DEF IInv, TypeOK, Dispatched
  <2> QED BY <1>13, <2>1, <2>2 DEF IInv, TypeOK, BuildTile
<1>15. StoreInv'
  <2>1. SUFFICES ASSUME NEW l \in Stored' PROVE Parent[l] \in Stored' \cup {0}
    BY DEF StoreInv
  <2>2. CASE l \in Stored
    BY <1>6, <2>2 DEF IInv, StoreInv
  <2>3. CASE l \notin Stored
    <3>1. new.ready /\ l = new.loc
      BY <1>6, <2>1, <2>3
    <3> QED BY <1>2, <1>6, <1>8, <3>1 DEF Coherent
  <2> QED BY <2>2, <2>3
<1>16. PlaceInv'
  BY <1>2, <1>3, <1>4 DEF PlaceInv
<1> QED BY <1>13, <1>14, <1>15, <1>16 DEF IInv

\* The swap of the lists, and the end of the frame.
LEMMA EndUpdateKeeps == ASSUME IInv, EndUpdate PROVE IInv'
<1> DEFINE te == [o \in Objs |-> Elapsed(tile[o])]
           base == Rooted(tiles, next)
<1>1. /\ Stored' = Stored /\ Work = next /\ Work' = next /\ tiles' = tiles /\ gpu' = FALSE
      /\ PlaceInv' /\ StoreInv' /\ Release(base, te)
  BY DEF EndUpdate, IInv, PlaceInv, StoreInv, Stored, Work
<1>2. te \in [Objs -> TerrainTile] /\ TilesInv(te, Stored, Work, tiles, FALSE)
  BY ElapsedKeeps
<1>3. /\ base \in SUBSET Objs /\ next \subseteq base
      /\ \A l \in Locs : tiles[l] # None => tiles[l] \in base
  BY RootedObjs DEF IInv, TypeOK
<1> HIDE DEF te, base
<1>4. tile' \in [Objs -> TerrainTile] /\ TilesInv(tile', Stored', Work', tiles', gpu')
  BY <1>1, <1>2, <1>3, ReleaseKeeps
<1>5. TypeOK'
  BY <1>4 DEF IInv, TypeOK, EndUpdate
<1> QED BY <1>1, <1>4, <1>5 DEF IInv

\* A frame without Update.
LEMMA PausedFrameKeeps == ASSUME IInv, PausedFrame PROVE IInv'
<1>1. /\ tile' = [o \in Objs |-> Elapsed(tile[o])]
      /\ Stored' = Stored /\ Work' = Work /\ tiles' = tiles /\ gpu' = FALSE
      /\ PlaceInv' /\ StoreInv'
  BY DEF PausedFrame, IInv, TypeOK, PlaceInv, StoreInv, Stored, Work, update
<1>2. tile' \in [Objs -> TerrainTile] /\ TilesInv(tile', Stored, Work, tiles, FALSE)
  BY <1>1, ElapsedKeeps
<1>3. TypeOK'
  BY <1>2 DEF IInv, TypeOK, PausedFrame, update
<1> QED BY <1>1, <1>2, <1>3 DEF IInv

\* A new run of the program on the database of the last one.
LEMMA RestartKeeps == ASSUME IInv, Restart PROVE IInv'
<1>1. TypeOK'
  <2>1. tile' \in [Objs -> TerrainTile] /\ tiles' \in [Locs -> Objs \cup {None}]
    BY BlankFacts DEF Restart
  <2>2. numTiles' \in 0..(CountMod - 1)
    BY BoundsAssumption DEF Restart
  <2> QED BY <2>1, <2>2 DEF Restart, IInv, TypeOK
<1>2. PlaceInv' /\ StoreInv' /\ Work' = {}
  BY DEF Restart, IInv, PlaceInv, StoreInv, Stored, Work
<1>3. \A o \in Objs : tile'[o] = Blank
  BY DEF Restart
<1>4. TilesInv(tile', Stored', {}, tiles', gpu')
  BY <1>3, BlankFacts
     DEF Restart, TilesInv, CoherentInv, ParentInv, WorkInv, ListInv, GpuInv
<1> QED BY <1>1, <1>2, <1>4 DEF IInv

\* IInv is inductive: one step per action.
LEMMA NextKeeps == IInv /\ [Next]_vars => IInv'
<1> SUFFICES ASSUME IInv, [Next]_vars PROVE IInv'
  OBVIOUS
<1>1. ASSUME NEW l \in Locs, RequestTile(l) PROVE IInv'
  BY <1>1, RequestTileKeeps
<1>2. ASSUME NEW l \in Locs, RequestTileRace(l) PROVE IInv'
  BY <1>2 DEF RequestTileRace, IInv, TypeOK, PlaceInv, StoreInv, Stored, Work, update
<1>3. CASE BeginUpdate
  BY <1>3, BeginUpdateKeeps
<1>4. ASSUME NEW l \in Locs, Visit(l) PROVE IInv'
  BY <1>4, VisitKeeps
<1>5. CASE EndVisit
  BY <1>5, EndVisitKeeps
<1>6. ASSUME NEW o \in Objs, BuildTile(o) PROVE IInv'
  BY <1>6, BuildTileKeeps
<1>7. CASE EndUpdate
  BY <1>7, EndUpdateKeeps
<1>8. CASE PausedFrame
  BY <1>8, PausedFrameKeeps
<1>9. CASE Restart
  BY <1>9, RestartKeeps
<1>10. CASE UNCHANGED vars
  BY <1>10 DEF vars, update, IInv, TypeOK, PlaceInv, StoreInv, Stored, Work
<1> QED BY <1>1, <1>2, <1>3, <1>4, <1>5, <1>6, <1>7, <1>8, <1>9, <1>10 DEF Next, Run, Update

\* The inductive invariant of the selection: Update's locals, the closure of the
\* database under Parent, and what ties tiles, m_tiles and the lists together.
THEOREM InductiveInvariant == Spec => []IInv
BY InitIInv, NextKeeps, PTL DEF Spec

-----------------------------------------------------------------------------
(* What follows in every state.                                            *)

\* Type correctness of the terrain selection.
THEOREM TerrainTyped == Spec => []TypeOK
<1>1. IInv => TypeOK
  BY DEF IInv
<1> QED BY <1>1, InductiveInvariant, PTL

\* A tile in m_tiles that is not ready is never lost from the tiles that Update
\* builds, for any tree, limit and latency.
THEOREM UnreadyTilesAreBuilt == Spec => []UnreadyIsBuilding
<1>1. ASSUME IInv PROVE UnreadyIsBuilding
  <2>1. SUFFICES ASSUME NEW l \in Locs, Listed(l), ~tile[tiles[l]].ready
                 PROVE  tiles[l] \in (IF tpc = "build" THEN todo ELSE building) \cup next
    BY DEF UnreadyIsBuilding
  <2>2. tiles[l] \in Objs /\ tile[tiles[l]].loc = l /\ l # 0
    BY <1>1, <2>1, LocsAssumption DEF IInv, TypeOK, TilesInv, ListInv, Listed
  <2>3. tiles[l] \in Work
    BY <1>1, <2>1, <2>2 DEF IInv, TilesInv, WorkInv
  <2> QED BY <2>3 DEF Work
<1> QED BY <1>1, InductiveInvariant, PTL

\* GPU work starts only below heights that are complete, whatever was evicted,
\* failed to be written or was left by an earlier run of the program.
THEOREM ParentsComeFirst == Spec => []ParentsFirst
<1>1. ASSUME IInv PROVE ParentsFirst
  BY <1>1 DEF IInv, TilesInv, CoherentInv, Coherent, ParentsFirst, Objects, Stored
<1> QED BY <1>1, InductiveInvariant, PTL

\* In no frame does Update start the GPU work of two tiles.
THEOREM DispatchBudget == Spec => []OneDispatchPerFrame
<1>1. ASSUME IInv PROVE OneDispatchPerFrame
  <2> DEFINE S == {o \in Objects : tile[o].step = 1 /\ tile[o].due = 1}
  <2>1. \A o, p \in S : o = p
    BY <1>1 DEF IInv, TilesInv, GpuInv, Starting, Objects
  <2>2. CASE S = {}
    BY <2>2, FS_EmptySet DEF OneDispatchPerFrame
  <2>3. CASE S # {}
    <3>1. PICK o : o \in S
      BY <2>3
    <3>2. S = {o}
      BY <2>1, <3>1
    <3> HIDE DEF S
    <3>3. Cardinality(S) = 1
      BY <3>2, FS_Singleton
    <3> QED BY <3>3 DEF OneDispatchPerFrame, S
  <2> QED BY <2>2, <2>3
<1> QED BY <1>1, InductiveInvariant, PTL

\* A tile that is used is in the database, or its write has failed.
THEOREM ReadyTilesAreStored == Spec => []ReadyIsStored
<1>1. ASSUME IInv PROVE ReadyIsStored
  BY <1>1 DEF IInv, TilesInv, CoherentInv, Coherent, ReadyIsStored, Objects, Stored
<1> QED BY <1>1, InductiveInvariant, PTL

-----------------------------------------------------------------------------
(* What no step does.                                                      *)

\* What a listed and ready location has in the database.
LEMMA ReadyStored ==
    ASSUME IInv, NEW l \in Locs, Listed(l), tile[tiles[l]].ready
    PROVE  l \in db \cup unsaved
<1>1. tiles[l] \in Objs /\ tile[tiles[l]].loc = l /\ l # 0
  BY LocsAssumption DEF IInv, TypeOK, TilesInv, ListInv, Listed
<1> QED BY <1>1 DEF IInv, TilesInv, CoherentInv, Coherent, Stored

\* Whatever Update and Restart let go of, what stays in m_tiles stays as it was.
LEMMA BeginUpdateEffect ==
    ASSUME IInv, BeginUpdate
    PROVE  /\ \A l \in Locs : tiles'[l] = tiles[l] \/ (Crowded /\ tiles'[l] = None)
           /\ \A l \in Locs : tiles'[l] # None => tile'[tiles[l]] = tile[tiles[l]]
           /\ \A o \in Objs : tile'[o] = tile[o] \/ tile'[o] = Blank
<1>1. /\ tile \in [Objs -> TerrainTile] /\ tiles \in [Locs -> Objs \cup {None}]
      /\ building \in SUBSET Objs
  BY DEF IInv, TypeOK
<1>2. CASE Crowded
  <2>1. PICK E \in SUBSET {l \in Locs : Listed(l)} :
              /\ tiles' = [l \in Locs |-> IF l \in E THEN None ELSE tiles[l]]
              /\ Release(Rooted(tiles', building), tile)
    BY <1>2 DEF BeginUpdate
  <2> DEFINE base == Rooted(tiles', building)
  <2>2. tiles' \in [Locs -> Objs \cup {None}]
    BY <1>1, <2>1
  <2>3. base \in SUBSET Objs /\ \A l \in Locs : tiles'[l] # None => tiles'[l] \in base
    BY <1>1, <2>2, RootedObjs DEF IInv
  <2>4. Release(base, tile)
    BY <2>1
  <2> HIDE DEF base
  <2>5. /\ \A o \in Objs : tile'[o] = tile[o] \/ tile'[o] = Blank
        /\ \A o \in base : tile'[o] = tile[o]
    BY <1>1, <2>3, <2>4, Released
  <2> QED BY <1>2, <2>1, <2>3, <2>5
<1>3. CASE ~Crowded
  BY <1>3 DEF BeginUpdate
<1> QED BY <1>2, <1>3

\* The end of a frame changes no listed tile's readiness.
LEMMA EndUpdateEffect ==
    ASSUME IInv, EndUpdate
    PROVE  /\ \A l \in Locs : Listed(l) => tile'[tiles[l]].ready = tile[tiles[l]].ready
           /\ \A o \in Objs : tile'[o].loc = tile[o].loc \/ tile'[o].loc = 0
<1> DEFINE te == [o \in Objs |-> Elapsed(tile[o])]
           base == Rooted(tiles, next)
<1>1. /\ tile \in [Objs -> TerrainTile] /\ tiles \in [Locs -> Objs \cup {None}]
      /\ next \in SUBSET Objs
  BY DEF IInv, TypeOK
<1>2. te \in [Objs -> TerrainTile]
      /\ \A o \in Objs : te[o].loc = tile[o].loc /\ te[o].ready = tile[o].ready
  BY <1>1, ElapsedFacts
<1>3. base \in SUBSET Objs /\ \A l \in Locs : tiles[l] # None => tiles[l] \in base
  BY <1>1, RootedObjs DEF IInv
<1>4. Release(base, te)
  BY DEF EndUpdate
<1> HIDE DEF te, base
<1>5. /\ \A o \in Objs : tile'[o] = te[o] \/ tile'[o] = Blank
      /\ \A o \in base : tile'[o] = te[o]
  BY <1>2, <1>3, <1>4, Released
<1> QED BY <1>2, <1>3, <1>5, BlankFacts DEF Listed

\* Building one tile changes no other that is listed.
LEMMA BuildTileListed ==
    ASSUME IInv, NEW o \in Objs, BuildTile(o)
    PROVE  /\ tiles' = tiles
           /\ \A l \in Locs : Listed(l) /\ tiles[l] # o => tile'[tiles[l]] = tile[tiles[l]]
           /\ \A p \in Objs : tile'[p].loc = tile[p].loc \/ tile'[p].loc = 0
           /\ tile[o].loc \in Locs /\ ~tile[o].ready
           /\ db \subseteq db' /\ db' \subseteq db \cup {tile[o].loc}
<1> DEFINE base == Rooted(tiles, building \cup next)
<1>1. PICK new, tm :
        /\ \E late \in 1..ReadLatency : new = Build(tile[o], late)
        /\ new.loc = tile[o].loc
        /\ tm = [tile EXCEPT ![o] = new]
        /\ SaveHeights(new) /\ Release(base, tm)
        /\ tile[o] \in TerrainTile /\ tile[o].loc # 0 /\ ~tile[o].ready
  BY BuildTileEffect
<1>2. /\ tile \in [Objs -> TerrainTile] /\ tiles \in [Locs -> Objs \cup {None}]
      /\ building \cup next \in SUBSET Objs
  BY DEF IInv, TypeOK
<1>3. base \in SUBSET Objs /\ \A l \in Locs : tiles[l] # None => tiles[l] \in base
  BY <1>2, RootedObjs DEF IInv
<1>4. tm = [p \in Objs |-> IF p = o THEN new ELSE tile[p]]
  BY <1>1, <1>2
<1>5. /\ \A p \in Objs : tile'[p] = tm[p] \/ tile'[p] = Blank
      /\ \A p \in base : tile'[p] = tm[p]
  <2>1. tile' = [p \in Objs |-> IF p \in Alive(base, tm) THEN tm[p] ELSE Blank]
    BY <1>1 DEF Release
  <2>2. \A p \in base : p \in Alive(base, tm)
    BY DEF Alive
  <2> QED BY <1>3, <2>1, <2>2
<1> HIDE DEF base
<1>6. tiles' = tiles
  BY DEF BuildTile
<1>7. \A l \in Locs : Listed(l) /\ tiles[l] # o => tile'[tiles[l]] = tile[tiles[l]]
  BY <1>2, <1>3, <1>4, <1>5 DEF Listed
<1>8. \A p \in Objs : tile'[p].loc = tile[p].loc \/ tile'[p].loc = 0
  BY <1>1, <1>4, <1>5, BlankFacts
<1>9. tile[o].loc \in Locs
  BY <1>1 DEF TerrainTile
<1>10. db \subseteq db' /\ db' \subseteq db \cup {tile[o].loc}
  BY <1>1 DEF SaveHeights
<1> QED BY <1>1, <1>6, <1>7, <1>8, <1>9, <1>10

\* RequestTile goes back on a true answer only when the first loop of Update makes
\* anew a tile that was evicted, or when a tile whose write has failed goes away.
THEOREM AnswersAreKept == Spec => LostOnlyByRebuild
<1> DEFINE Excused(l) == \/ tpc = "visit" /\ l \in requests /\ ~Listed(l) /\ l \in db
                         \/ l \in unsaved \ db /\ ~Listed(l)'
<1>1. ASSUME IInv, [Next]_vars, NEW l \in Locs, Available(l), ~Available(l)'
      PROVE  Excused(l)
  <2>1. ASSUME NEW k \in Locs, RequestTile(k) PROVE FALSE
    <3>1. db' = db
      BY <2>1 DEF RequestTile
    <3>2. CASE tiles' = tiles /\ tile' = tile
      BY <1>1, <3>1, <3>2 DEF Available, Listed
    <3>3. ASSUME NEW top \in Locs, NEW o \in Objs, ~Listed(top), Fresh(o),
                 tiles' = [tiles EXCEPT ![top] = o],
                 tile' = [tile EXCEPT ![o] = Restored(top)]
          PROVE  FALSE
      <4>1. tile \in [Objs -> TerrainTile] /\ tiles \in [Locs -> Objs \cup {None}]
        BY <1>1 DEF IInv, TypeOK
      <4>2. o # None /\ tiles[l] # o
        BY <1>1, <3>3, FreshUnused
      <4>3. CASE l = top
        <5>1. tiles'[l] = o /\ tile'[o] = Restored(top)
          BY <3>3, <4>1, <4>3
        <5> QED BY <1>1, <4>2, <5>1, RestoredFacts DEF Available, Listed
      <4>4. CASE l # top
        <5>1. tiles'[l] = tiles[l] /\ tile'[tiles[l]] = tile[tiles[l]]
          BY <3>3, <4>1, <4>2, <4>4
        <5> QED BY <1>1, <3>1, <5>1 DEF Available, Listed
      <4> QED BY <4>3, <4>4
    <3> QED BY <1>1, <2>1, <3>2, <3>3, RequestTileEffect
  <2>2. ASSUME NEW k \in Locs, RequestTileRace(k) PROVE FALSE
    BY <1>1, <2>2 DEF RequestTileRace, Available, Listed
  <2>3. CASE BeginUpdate
    <3>1. db' = db
      BY <2>3 DEF BeginUpdate
    <3>2. (tiles'[l] = tiles[l] /\ tile'[tiles[l]] = tile[tiles[l]]) \/ tiles'[l] = None
      BY <1>1, <2>3, BeginUpdateEffect
    <3>3. Listed(l) /\ ~Listed(l)'
      BY <1>1, <3>1, <3>2 DEF Available, Listed
    <3>4. tile[tiles[l]].ready /\ l \notin db
      BY <1>1, <3>1, <3>3 DEF Available
    <3> QED BY <1>1, <3>3, <3>4, ReadyStored
  <2>4. ASSUME NEW k \in Locs, Visit(k) PROVE Excused(l)
    <3>1. PICK o \in Objs : /\ Fresh(o)
                            /\ \E new : tile' = [tile EXCEPT ![o] = new]
                            /\ tiles' = [tiles EXCEPT ![k] = o]
      BY <2>4 DEF Visit
    <3>2. tile \in [Objs -> TerrainTile] /\ tiles \in [Locs -> Objs \cup {None}]
      BY <1>1 DEF IInv, TypeOK
    <3>3. o # None /\ tiles[l] # o /\ db' = db
      BY <1>1, <2>4, <3>1, FreshUnused DEF Visit
    <3>4. CASE l # k
      <4>1. tiles'[l] = tiles[l] /\ tile'[tiles[l]] = tile[tiles[l]]
        BY <3>1, <3>2, <3>3, <3>4
      <4> QED BY <1>1, <3>3, <4>1 DEF Available, Listed
    <3>5. CASE l = k
      BY <1>1, <2>4, <3>5 DEF Visit, Creatable, Available
    <3> QED BY <3>4, <3>5
  <2>5. CASE EndVisit
    BY <1>1, <2>5 DEF EndVisit, Available, Listed
  <2>6. ASSUME NEW o \in Objs, BuildTile(o) PROVE FALSE
    <3>1. /\ tiles' = tiles /\ db \subseteq db' /\ ~tile[o].ready
          /\ Listed(l) /\ tiles[l] # o => tile'[tiles[l]] = tile[tiles[l]]
      BY <1>1, <2>6, BuildTileListed
    <3> QED BY <1>1, <3>1 DEF Available, Listed
  <2>7. CASE EndUpdate
    <3>1. tiles' = tiles /\ db' = db
      BY <2>7 DEF EndUpdate
    <3>2. Listed(l) => tile'[tiles[l]].ready = tile[tiles[l]].ready
      BY <1>1, <2>7, EndUpdateEffect
    <3> QED BY <1>1, <3>1, <3>2 DEF Available, Listed
  <2>8. CASE PausedFrame
    <3>1. tiles' = tiles /\ db' = db /\ tile' = [o \in Objs |-> Elapsed(tile[o])]
      BY <2>8 DEF PausedFrame
    <3>2. Listed(l) => tile'[tiles[l]].ready = tile[tiles[l]].ready
      BY <1>1, <3>1, ElapsedFacts DEF IInv, TypeOK, Listed
    <3> QED BY <1>1, <3>1, <3>2 DEF Available, Listed
  <2>9. CASE Restart
    <3>1. db' = db /\ ~Listed(l)'
      BY <2>9 DEF Restart, Listed
    <3>2. Listed(l) /\ tile[tiles[l]].ready /\ l \notin db
      BY <1>1, <3>1 DEF Available
    <3> QED BY <1>1, <3>1, <3>2, ReadyStored
  <2>10. CASE UNCHANGED vars
    BY <1>1, <2>10 DEF vars, Available, Listed
  <2> QED BY <1>1, <2>1, <2>2, <2>3, <2>4, <2>5, <2>6, <2>7, <2>8, <2>9, <2>10
          DEF Next, Run, Update
<1>2. IInv /\ [Next]_vars =>
        [\A l \in Locs : Available(l) /\ ~Available(l)' => Excused(l)]_vars
  BY <1>1
<1> QED BY <1>2, InductiveInvariant, PTL DEF Spec, LostOnlyByRebuild

-----------------------------------------------------------------------------
(* Below the limit.                                                        *)

\* Update never evicts when there are no more locations than its limit.
LEMMA NeverCrowded == ASSUME Cardinality(Locs) <= MaxTiles PROVE ~Crowded
<1> DEFINE S == {l \in Locs : Listed(l)}
<1>1. S \subseteq Locs /\ IsFiniteSet(Locs)
  BY LocsAssumption
<1> HIDE DEF S
<1>2. /\ Cardinality(S) \in Nat /\ Cardinality(Locs) \in Nat
      /\ Cardinality(S) <= Cardinality(Locs)
  BY <1>1, FS_Subset, FS_CardinalityType
<1> QED BY <1>2, BoundsAssumption DEF Crowded, Size, S

\* Every tile is the one that m_tiles has for its location.
ListedInv == \A o \in Objs : tile[o].loc # 0 => tiles[tile[o].loc] = o

\* Then a tile is always the one that m_tiles has for its location.
LEMMA ListedKeeps ==
    ASSUME Cardinality(Locs) <= MaxTiles, IInv, ListedInv, [Next]_vars
    PROVE  ListedInv'
<1>1. /\ tile \in [Objs -> TerrainTile] /\ tiles \in [Locs -> Objs \cup {None}]
      /\ \A o \in Objs : tile[o].loc \in Locs \cup {0}
  BY DEF IInv, TypeOK, TerrainTile
\* A tile is entered for a location that had none.
<1>2. ASSUME NEW l \in Locs, ~Listed(l), NEW o \in Objs, NEW new, new.loc = l,
             tile' = [tile EXCEPT ![o] = new], tiles' = [tiles EXCEPT ![l] = o]
      PROVE  ListedInv'
  <2>1. SUFFICES ASSUME NEW p \in Objs, tile'[p].loc # 0 PROVE tiles'[tile'[p].loc] = p
    BY DEF ListedInv
  <2>2. CASE p = o
    <3>1. tile'[p] = new
      BY <1>1, <1>2, <2>2
    <3> QED BY <1>1, <1>2, <2>2, <3>1
  <2>3. CASE p # o
    <3>1. tile'[p] = tile[p] /\ tiles[tile[p].loc] = p /\ tile[p].loc \in Locs
      BY <1>1, <1>2, <2>1, <2>3 DEF ListedInv
    <3>2. tile[p].loc # l
      BY <1>2, <3>1, ObjsAssumption DEF Listed, None
    <3> QED BY <1>1, <1>2, <3>1, <3>2
  <2> QED BY <2>2, <2>3
\* No tile is entered, and a location may lose the tile that it had.
<1>3. ASSUME tiles' = tiles, \A o \in Objs : tile'[o].loc = tile[o].loc \/ tile'[o].loc = 0
      PROVE  ListedInv'
  BY <1>3 DEF ListedInv
<1>4. ASSUME NEW l \in Locs, RequestTile(l) PROVE ListedInv'
  <2>1. CASE tiles' = tiles /\ tile' = tile
    BY <1>3, <2>1
  <2>2. ASSUME NEW top \in Locs, NEW o \in Objs, ~Listed(top),
               tiles' = [tiles EXCEPT ![top] = o],
               tile' = [tile EXCEPT ![o] = Restored(top)]
        PROVE  ListedInv'
    <3>1. Restored(top).loc = top
      BY RestoredFacts
    <3> QED BY <1>2, <2>2, <3>1
  <2> QED BY <1>4, <2>1, <2>2, RequestTileEffect
<1>5. ASSUME NEW l \in Locs, RequestTileRace(l) PROVE ListedInv'
  BY <1>3, <1>5 DEF RequestTileRace
<1>6. CASE BeginUpdate
  <2>1. tiles' = tiles /\ tile' = tile
    BY <1>6, NeverCrowded DEF BeginUpdate
  <2> QED BY <1>3, <2>1
<1>7. ASSUME NEW l \in Locs, Visit(l) PROVE ListedInv'
  <2>1. ~Listed(l)
    BY <1>7 DEF Visit, Creatable
  <2>2. PICK o \in Objs : /\ \E new : new.loc = l /\ tile' = [tile EXCEPT ![o] = new]
                          /\ tiles' = [tiles EXCEPT ![l] = o]
    BY <1>7, VisitEffect
  <2>3. PICK new : new.loc = l /\ tile' = [tile EXCEPT ![o] = new]
    BY <2>2
  <2> QED BY <1>2, <2>1, <2>2, <2>3
<1>8. CASE EndVisit
  BY <1>3, <1>8 DEF EndVisit
<1>9. ASSUME NEW o \in Objs, BuildTile(o) PROVE ListedInv'
  BY <1>3, <1>9, BuildTileListed
<1>10. CASE EndUpdate
  <2>1. tiles' = tiles
    BY <1>10 DEF EndUpdate
  <2> QED BY <1>3, <1>10, <2>1, EndUpdateEffect
<1>11. CASE PausedFrame
  <2>1. tiles' = tiles /\ tile' = [o \in Objs |-> Elapsed(tile[o])]
    BY <1>11 DEF PausedFrame
  <2>2. \A o \in Objs : tile'[o].loc = tile[o].loc
    BY <1>1, <2>1, ElapsedFacts
  <2> QED BY <1>3, <2>1, <2>2
<1>12. CASE Restart
  BY <1>12, BlankFacts DEF Restart, ListedInv
<1>13. CASE UNCHANGED vars
  BY <1>13 DEF vars, ListedInv
<1> QED BY <1>4, <1>5, <1>6, <1>7, <1>8, <1>9, <1>10, <1>11, <1>12, <1>13
        DEF Next, Run, Update

\* There are no tiles at the start.
LEMMA InitListed == Init => ListedInv
BY BlankFacts DEF Init, ListedInv

\* While m_tiles cannot outgrow its limit, no two tiles are of the same location,
\* through restarts too.
THEOREM TilesAreUnique == Spec => []OneTilePerLoc
<1> DEFINE Inv == Cardinality(Locs) <= MaxTiles => ListedInv
<1>1. Init => Inv
  BY InitListed
<1>2. IInv /\ Inv /\ [Next]_vars => Inv'
  BY ListedKeeps
<1>3. IInv /\ Inv => OneTilePerLoc
  <2>1. ASSUME ListedInv PROVE \A o, p \in Objects : tile[o].loc = tile[p].loc => o = p
    BY <2>1 DEF ListedInv, Objects
  <2> QED BY <2>1 DEF OneTilePerLoc
<1> HIDE DEF Inv
<1> QED BY <1>1, <1>2, <1>3, InductiveInvariant, PTL DEF Spec

\* In one run of the program, what is made and stored is what was asked for, with
\* what lies above it.
Wanted == {a \in Locs : \E k \in asked : a \in Up[k]}

WantedInv ==
    /\ requests \subseteq Wanted
    /\ \A l \in Locs : Listed(l) => l \in Wanted
    /\ \A l \in db : Listed(l)

ServiceInv == IInv /\ ListedInv /\ WantedInv

\* The start of the program.
LEMMA InitService == Init => ServiceInv
<1>1. Init => WantedInv
  BY DEF Init, WantedInv, Listed
<1> QED BY <1>1, InitIInv, InitListed DEF ServiceInv

\* RequestTile finds every location that it knows in m_tiles.
LEMMA RequestTileFinds ==
    ASSUME ServiceInv, NEW l \in Locs, RequestTile(l)
    PROVE  tiles' = tiles /\ tile' = tile
<1>1. ~\E top \in db : ~Listed(top)
  BY DEF ServiceInv, WantedInv
<1> QED BY <1>1, RequestTileEffect DEF ServiceInv

\* Update creates nothing that was not requested.
LEMMA WantedKeeps ==
    ASSUME Cardinality(Locs) <= MaxTiles, ServiceInv, [Run]_vars
    PROVE  WantedInv'
<1>1. /\ WantedInv /\ IInv /\ ListedInv
      /\ requests \subseteq Locs /\ asked \subseteq Locs /\ db \subseteq Locs
      /\ tiles \in [Locs -> Objs \cup {None}]
  BY DEF ServiceInv, IInv, TypeOK
<1>2. ASSUME requests' = requests, tiles' = tiles, db' = db, asked' = asked
      PROVE  WantedInv'
  BY <1>1, <1>2 DEF WantedInv, Wanted, Listed
<1>3. ASSUME NEW l \in Locs, RequestTile(l) PROVE WantedInv'
  <2>1. tiles' = tiles /\ db' = db /\ asked' = asked \cup {l}
    BY <1>3, RequestTileFinds DEF RequestTile
  <2>2. Up[l] \subseteq Wanted' /\ Wanted \subseteq Wanted'
    BY <2>1, UpBelow DEF Wanted
  <2>3. requests' \subseteq requests \cup Up[l]
    BY <1>3 DEF RequestTile
  <2> HIDE DEF Wanted
  <2> QED BY <1>1, <2>1, <2>2, <2>3 DEF WantedInv, Listed
<1>4. ASSUME NEW l \in Locs, RequestTileRace(l) PROVE WantedInv'
  BY <1>2, <1>4 DEF RequestTileRace
<1>5. CASE BeginUpdate
  BY <1>2, <1>5, NeverCrowded DEF BeginUpdate
<1>6. ASSUME NEW l \in Locs, Visit(l) PROVE WantedInv'
  <2>1. PICK o \in Objs : tiles' = [tiles EXCEPT ![l] = o]
    BY <1>1, <1>6, VisitEffect
  <2>2. l \in requests /\ requests' = requests /\ db' = db /\ Wanted' = Wanted
    BY <1>6 DEF Visit, Creatable, Wanted
  <2>3. \A k \in Locs : tiles'[k] = IF k = l THEN o ELSE tiles[k]
    BY <1>1, <2>1
  <2>4. o # None
    BY ObjsAssumption DEF None
  <2> HIDE DEF Wanted
  <2> QED BY <1>1, <2>2, <2>3, <2>4 DEF WantedInv, Listed
<1>7. CASE EndVisit
  BY <1>2, <1>7 DEF EndVisit
<1>8. ASSUME NEW o \in Objs, BuildTile(o) PROVE WantedInv'
  <2>1. tiles' = tiles /\ requests' = requests /\ Wanted' = Wanted
    BY <1>8 DEF BuildTile, Wanted
  <2>2. /\ tile[o].loc \in Locs /\ tile[o].loc # 0
        /\ db' \subseteq db \cup {tile[o].loc}
    BY <1>1, <1>8, BuildTileListed, LocsAssumption
  <2>3. Listed(tile[o].loc)
    BY <1>1, <2>2, ObjsAssumption DEF ListedInv, Listed, None
  <2> HIDE DEF Wanted
  <2> QED BY <1>1, <2>1, <2>2, <2>3 DEF WantedInv, Listed
<1>9. CASE EndUpdate
  BY <1>2, <1>9 DEF EndUpdate
<1>10. CASE PausedFrame
  BY <1>2, <1>10 DEF PausedFrame
<1>11. CASE UNCHANGED vars
  BY <1>2, <1>11 DEF vars
<1> QED BY <1>3, <1>4, <1>5, <1>6, <1>7, <1>8, <1>9, <1>10, <1>11 DEF Run, Update

\* The invariant of one run of the program.
LEMMA ServiceKeeps ==
    ASSUME Cardinality(Locs) <= MaxTiles, ServiceInv, [Run]_vars
    PROVE  ServiceInv'
<1>1. [Next]_vars
  BY DEF Next
<1> QED BY <1>1, NextKeeps, ListedKeeps, WantedKeeps DEF ServiceInv

\* Every step of the selection is a step of the service, or leaves it alone.
LEMMA ServiceStep ==
    ASSUME Cardinality(Locs) <= MaxTiles, ServiceInv, [Run]_vars
    PROVE  [Service!ServiceNext]_<<asked, {l \in Locs : Available(l)}>>
<1> DEFINE available == {l \in Locs : Available(l)}
<1>1. /\ IInv /\ ListedInv /\ WantedInv
      /\ tile \in [Objs -> TerrainTile] /\ tiles \in [Locs -> Objs \cup {None}]
  BY DEF ServiceInv, IInv, TypeOK
<1>2. ASSUME asked' = asked, \A l \in Locs : Available(l)' <=> Available(l)
      PROVE  UNCHANGED <<asked, available>>
  BY <1>2
<1>3. ASSUME tiles' = tiles, db' = db,
             \A l \in Locs : Listed(l) => tile'[tiles[l]].ready = tile[tiles[l]].ready
      PROVE  \A l \in Locs : Available(l)' <=> Available(l)
  BY <1>3 DEF Available, Listed
<1>4. ASSUME NEW l \in Locs, RequestTile(l) PROVE Service!ServiceNext
  <2>1. tiles' = tiles /\ tile' = tile /\ db' = db /\ asked' = asked \cup {l}
    BY <1>4, RequestTileFinds DEF RequestTile
  <2>2. available' = available
    BY <1>3, <2>1
  <2>3. Service!Ask(l)
    BY <2>1, <2>2 DEF Service!Ask
  <2> QED BY <2>3 DEF Service!ServiceNext
<1>5. ASSUME NEW l \in Locs, RequestTileRace(l) PROVE UNCHANGED <<asked, available>>
  BY <1>2, <1>3, <1>5 DEF RequestTileRace
<1>6. CASE BeginUpdate
  <2>1. tiles' = tiles /\ tile' = tile /\ db' = db /\ asked' = asked
    BY <1>6, NeverCrowded DEF BeginUpdate
  <2> QED BY <1>2, <1>3, <2>1
<1>7. ASSUME NEW k \in Locs, Visit(k) PROVE UNCHANGED <<asked, available>>
  <2>1. PICK o \in Objs, new \in TerrainTile :
          /\ Fresh(o) /\ ~new.ready
          /\ tile' = [tile EXCEPT ![o] = new]
          /\ tiles' = [tiles EXCEPT ![k] = o]
    BY <1>1, <1>7, VisitEffect
  <2>2. db' = db /\ asked' = asked /\ ~Listed(k)
    BY <1>7 DEF Visit, Creatable
  <2>3. ASSUME NEW l \in Locs PROVE Available(l)' <=> Available(l)
    <3>1. o # None /\ tiles[l] # o
      BY <1>1, <2>1, FreshUnused
    <3>2. CASE l = k
      <4>1. k \notin db
        BY <1>1, <2>2 DEF WantedInv
      <4>2. tiles'[k] = o /\ tile'[o] = new
        BY <1>1, <2>1
      <4> QED BY <2>1, <2>2, <3>1, <3>2, <4>1, <4>2 DEF Available, Listed
    <3>3. CASE l # k
      <4>1. tiles'[l] = tiles[l] /\ tile'[tiles[l]] = tile[tiles[l]]
        BY <1>1, <2>1, <3>1, <3>3
      <4> QED BY <2>2, <4>1 DEF Available, Listed
    <3> QED BY <3>2, <3>3
  <2> QED BY <1>2, <2>2, <2>3
<1>8. CASE EndVisit
  BY <1>2, <1>3, <1>8 DEF EndVisit
<1>9. ASSUME NEW o \in Objs, BuildTile(o)
      PROVE  Service!ServiceNext \/ UNCHANGED <<asked, available>>
  <2>1. PICK k \in Locs :
        /\ k = tile[o].loc /\ tiles' = tiles /\ ~tile[o].ready
        /\ \A l \in Locs : Listed(l) /\ tiles[l] # o => tile'[tiles[l]] = tile[tiles[l]]
        /\ db \subseteq db' /\ db' \subseteq db \cup {k}
    BY <1>1, <1>9, BuildTileListed
  <2>2. asked' = asked
    BY <1>9 DEF BuildTile
  <2>3. k # 0 /\ tiles[k] = o /\ o # None
    BY <1>1, <2>1, LocsAssumption, ObjsAssumption DEF ListedInv, None
  <2>4. ~Available(k) /\ \E a \in asked : k \in Up[a]
    BY <1>1, <2>1, <2>3 DEF Available, Listed, WantedInv, Wanted
  <2>5. ASSUME NEW l \in Locs, l # k PROVE Available(l)' <=> Available(l)
    <3>1. Listed(l) => tiles[l] # o
      BY <1>1, <2>1, <2>5 DEF IInv, TilesInv, ListInv, Listed
    <3> QED BY <2>1, <2>5, <3>1 DEF Available, Listed
  <2>6. CASE Available(k)'
    <3>1. available' = available \cup {k}
      BY <2>1, <2>5, <2>6
    <3>2. Service!Supply(k)
      BY <2>2, <2>4, <3>1 DEF Service!Supply
    <3> QED BY <2>1, <3>2 DEF Service!ServiceNext
  <2>7. CASE ~Available(k)'
    BY <1>2, <2>2, <2>4, <2>5, <2>7
  <2> QED BY <2>6, <2>7
<1>10. CASE EndUpdate
  <2>1. tiles' = tiles /\ db' = db /\ asked' = asked
    BY <1>10 DEF EndUpdate
  <2> QED BY <1>1, <1>2, <1>3, <1>10, <2>1, EndUpdateEffect
<1>11. CASE PausedFrame
  <2>1. /\ tiles' = tiles /\ db' = db /\ asked' = asked
        /\ tile' = [o \in Objs |-> Elapsed(tile[o])]
    BY <1>11 DEF PausedFrame
  <2>2. \A l \in Locs : Listed(l) => tile'[tiles[l]].ready = tile[tiles[l]].ready
    BY <1>1, <2>1, ElapsedFacts DEF Listed
  <2> QED BY <1>2, <1>3, <2>1, <2>2
<1>12. CASE UNCHANGED vars
  BY <1>2, <1>3, <1>12 DEF vars
<1> QED BY <1>4, <1>5, <1>6, <1>7, <1>8, <1>9, <1>10, <1>11, <1>12 DEF Run, Update

\* While m_tiles cannot outgrow its limit, one run of the selection is the service
\* that the tile loader assumes: terrain that RequestTile has answered true for stays,
\* and none is made that was not asked for.
THEOREM SelectionImplementsService ==
    ASSUME Cardinality(Locs) <= MaxTiles
    PROVE  FairSpec => ImplementsService
<1>1. Init => Service!ServiceInit
  BY LocsAssumption DEF Init, Service!ServiceInit, Available, Listed
<1>2. ServiceInv /\ [Run]_vars => ServiceInv'
  BY ServiceKeeps
<1>3. ServiceInv /\ [Run]_vars =>
        [Service!ServiceNext]_<<asked, {l \in Locs : Available(l)}>>
  BY ServiceStep
<1> QED BY <1>1, <1>2, <1>3, InitService, PTL DEF FairSpec, ImplementsService, Service!ServiceSpec

=============================================================================
