--------------------------- MODULE RawCacheProofs ---------------------------
(* Voxels in use are not freed, and the count of draws is bounded: proved  *)
(* for any set of tiles and any limit.                                     *)
EXTENDS RawCache, TLAPS

\* Since the ray cast of this frame, a tile that it looked into has been drawn no
\* more often than there have been passes, which is too seldom for it to be freed.
CastInv ==
    /\ TypeOK
    /\ \A t \in cast : /\ raw[t] # "none"
                       /\ pass \in {3, 4} => lastUsed[t] < pass - 2
    /\ \A t \in Tiles : lastUsed[t] = Limit + 2 => raw[t] = "none"

\* CastInv is preserved by a ray cast, by every draw and by the loader.
LEMMA CastStep == CastInv /\ [Next]_vars => CastInv'
  <1> SUFFICES ASSUME CastInv, [Next]_vars PROVE CastInv'
    OBVIOUS
  <1>1. ASSUME NEW t \in Tiles, StartRle(t) \/ EndRle(t) \/ LoadVB(t) PROVE CastInv'
    <2>1. UNCHANGED <<raw, lastUsed, boxes, paused, group, pass, cast>>
      BY <1>1 DEF StartRle, EndRle, LoadVB, switches
    <2>2. /\ rle' \in [Tiles -> {"empty", "torn", "full"}]
          /\ loaded' \in [Tiles -> BOOLEAN] /\ solid' \in [Tiles -> BOOLEAN]
      BY <1>1 DEF StartRle, EndRle, LoadVB, CastInv, TypeOK
    <2> QED  BY <2>1, <2>2 DEF CastInv, TypeOK
  <1>2. ASSUME NEW gone \in SUBSET Tiles, Update(gone) PROVE CastInv'
    <2>1. /\ pass' = 1 /\ cast' = cast \ gone /\ group' = {} /\ UNCHANGED <<boxes, paused>>
          /\ raw' = [t \in Tiles |-> IF t \in gone THEN "none" ELSE raw[t]]
          /\ lastUsed' = [t \in Tiles |-> IF t \in gone THEN 0 ELSE lastUsed[t]]
      BY <1>2 DEF Update, switches
    <2>2. /\ rle' \in [Tiles -> {"empty", "torn", "full"}]
          /\ loaded' \in [Tiles -> BOOLEAN] /\ solid' \in [Tiles -> BOOLEAN]
      BY <1>2 DEF Update, CastInv, TypeOK
    <2>3. TypeOK'
      BY <2>1, <2>2, LimitAssumption DEF CastInv, TypeOK
    <2> QED  BY <2>1, <2>3, LimitAssumption DEF CastInv, TypeOK
  <1>3. CASE ShowBoxes \/ TogglePause \/ AddTilesToGroup \/ PausedFrame
    <2>1. /\ UNCHANGED <<rle, loaded, solid, raw, lastUsed, cast>> /\ pass' \in {0, 2}
          /\ boxes' \in BOOLEAN /\ paused' \in BOOLEAN /\ group' \in SUBSET Tiles
      BY <1>3 DEF ShowBoxes, TogglePause, AddTilesToGroup, PausedFrame, tiles, switches,
         CastInv, TypeOK
    <2> QED  BY <2>1 DEF CastInv, TypeOK
  <1>4. ASSUME NEW onRay \in SUBSET Tiles, NEW hit \in Tiles \cup {None}, Intersects(onRay, hit)
        PROVE  CastInv'
    <2>1. /\ cast' \subseteq Tiles /\ pass' = 3 /\ \A t \in cast' : rle[t] # "empty"
          /\ raw' = [t \in Tiles |-> IF t \in cast' THEN Decoded(t) ELSE raw[t]]
          /\ lastUsed' = [t \in Tiles |-> IF t \in cast' THEN 0 ELSE lastUsed[t]]
          /\ UNCHANGED <<rle, loaded, solid, boxes, paused, group>>
      BY <1>4 DEF Intersects, UsedNow, switches
    <2>2. \A t \in cast' : Decoded(t) \in {"torn", "full"}
      BY <2>1 DEF Decoded, CastInv, TypeOK
    <2>3. TypeOK'
      BY <2>1, <2>2, LimitAssumption DEF CastInv, TypeOK
    <2> QED  BY <2>1, <2>2, <2>3, LimitAssumption DEF CastInv, TypeOK
  <1>5. ASSUME NEW now \in SUBSET Tiles, DrawPass(now) PROVE CastInv'
    <2>1. pass \in {3, 4} /\ pass' = IF pass = 3 THEN 4 ELSE 0
      BY <1>5 DEF DrawPass, CastInv, TypeOK
    <2>2. ASSUME NEW t \in Tiles
          PROVE  /\ lastUsed'[t] \in 0..(Limit + 2) /\ raw'[t] \in {"none", "torn", "full"}
                 /\ lastUsed'[t] = Limit + 2 => raw'[t] = "none"
                 /\ lastUsed'[t] <= lastUsed[t] + 1
                 /\ raw'[t] = raw[t] \/ lastUsed[t] > Limit
      BY <1>5, LimitAssumption DEF DrawPass, Counts, CastInv, TypeOK
    <2>3. TypeOK'
      BY <1>5, <2>1, <2>2 DEF DrawPass, CastInv, TypeOK, switches
    <2>4. ASSUME NEW t \in cast'
          PROVE  raw'[t] # "none" /\ (pass' \in {3, 4} => lastUsed'[t] < pass' - 2)
      <3>1. t \in cast /\ t \in Tiles /\ lastUsed[t] < pass - 2 /\ raw[t] # "none"
        BY <1>5, <2>1 DEF DrawPass, CastInv, TypeOK
      <3>2. lastUsed[t] \in Int /\ lastUsed'[t] \in Int /\ lastUsed[t] <= Limit
        BY <2>1, <2>2, <3>1, LimitAssumption DEF CastInv, TypeOK
      <3> QED  BY <2>1, <2>2, <3>1, <3>2, LimitAssumption
    <2> QED  BY <2>2, <2>3, <2>4 DEF CastInv
  <1>6. CASE UNCHANGED vars
    <2>1. UNCHANGED <<rle, loaded, solid, raw, lastUsed, boxes, paused, group, pass, cast>>
      BY <1>6 DEF vars, tiles, switches
    <2> QED  BY <2>1 DEF CastInv, TypeOK
  <1> QED  BY <1>1, <1>2, <1>3, <1>4, <1>5, <1>6 DEF Next, Main

\* CastInv holds in every frame.
LEMMA CastAlways == Spec => []CastInv
  <1>1. Init => CastInv
    <2> SUFFICES ASSUME Init PROVE CastInv
      OBVIOUS
    <2>1. TypeOK
      <3>1. 0 \in 0..(Limit + 2) /\ 0 \in 0..4
        BY LimitAssumption
      <3>2. lastUsed \in [Tiles -> 0..(Limit + 2)] /\ pass \in 0..4 /\ cast \in SUBSET Tiles
        BY <3>1 DEF Init
      <3>3. /\ rle \in [Tiles -> {"empty", "torn", "full"}]
            /\ loaded \in [Tiles -> BOOLEAN] /\ solid \in [Tiles -> BOOLEAN]
            /\ raw \in [Tiles -> {"none", "torn", "full"}]
            /\ boxes \in BOOLEAN /\ paused \in BOOLEAN /\ group \in SUBSET Tiles
        BY DEF Init
      <3> QED  BY <3>2, <3>3 DEF TypeOK
    <2>2. cast = {} /\ \A t \in Tiles : raw[t] = "none"
      BY DEF Init
    <2> QED  BY <2>1, <2>2 DEF CastInv
  <1> QED  BY <1>1, CastStep, PTL DEF Spec

\* Intersect resets the counter of draws, so that Draw does not free what the ray
\* cast of the same frame has used, in either of its passes.
THEOREM NotFreedInUse == Spec => []DecodedOnce
  <1>1. CastInv => DecodedOnce
    BY DEF CastInv, DecodedOnce
  <1> QED  BY <1>1, CastAlways, PTL

\* m_lastUsedRawData never exceeds the limit by more than two, and the state of
\* every tile keeps its type.
THEOREM RawCacheTyped == Spec => []TypeOK
  <1>1. CastInv => TypeOK
    BY DEF CastInv
  <1> QED  BY <1>1, CastAlways, PTL
=============================================================================
