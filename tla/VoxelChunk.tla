----------------------------- MODULE VoxelChunk -----------------------------
(***************************************************************************)
(* The voxels of one OctTile (core/OctTile.cpp): LoadTerrainData turns the *)
(* terrain's heights into a cube of bytes, RleEncode packs it, and the     *)
(* packed chunk is read back in two ways: LoadVB lists the solid voxels    *)
(* for the vertex buffer, RleDecode unpacks the cube for GetGroundPos and  *)
(* the ray cast.  The loops are steps, so that their termination can be    *)
(* stated: the index of LoadVB's inner loops is a byte.                    *)
(***************************************************************************)
EXTENDS Integers, Sequences, FiniteSets

CONSTANTS
    Tsz,    \* TerrainTile::SquarePtsCt, 256
    Half,   \* 0x80, the flag of a two-byte count
    Base,   \* 0x100, the values of a byte
    Heights \* the heights that the terrain takes, in half voxels from minY

ASSUME ChunkAssumption ==
    /\ Tsz \in Nat \ {0} /\ Half \in Nat \ {0, 1} /\ Base = 2 * Half
    /\ Heights \subseteq 0..(2 * Tsz)

VARIABLES
    heights,    \* m_terrainTile->Pts() over the tile, see InTile
    data,       \* the vector that LoadTerrainData fills
    rle,        \* m_rledata
    pc,         \* the function that runs
    at,         \* the position of its loop over bytes
    curval,     \* RleEncode's curval
    cnt,        \* RleEncode's cnt; the size of the run that LoadVB lists
    offset,     \* the offset of LoadVB and RleDecode
    idx,        \* the byte index of LoadVB's inner loops
    octPts,     \* the offsets that LoadVB pushed
    outdata     \* the vector that RleDecode returns

vars == <<heights, data, rle, pc, at, curval, cnt, offset, idx, octPts, outdata>>
source == <<heights, data, curval>>

Volume == Tsz * Tsz * Tsz
Offsets == 0..(Volume - 1)
Columns == (0..(Tsz - 1)) \X (0..(Tsz - 1))
At(x, y, z) == y * Tsz * Tsz + z * Tsz + x
Bytes == 0..(Base - 1)
MaxRun == Half * Base - 1       \* 0x7FFF

\* 0 stands for a height at or below minY and 2 * Tsz for one at or above maxY.
InTile(h) == 0 < h /\ h < 2 * Tsz

\* std::max(0, std::min(SquarePtsCt - 1, v))
Clamp(v) == IF v < 0 THEN 0 ELSE IF v >= Tsz THEN Tsz - 1 ELSE v

\* Mutant of Layer: the height is rounded to the next layer.
LayerRoundedUp(h) == Clamp((h + 1) \div 2)

Layer(h) == Clamp(h \div 2)

\* The cube that LoadTerrainData fills.
Filled ==
    LET solid == {At(c[1], Layer(heights[c]), c[2]) : c \in {d \in Columns : InTile(heights[d])}}
    IN [o \in Offsets |-> IF o \in solid THEN 1 ELSE 0]

Init ==
    /\ heights \in [Columns -> Heights]
    /\ data = [o \in Offsets |-> 0]
    /\ rle = <<>>
    /\ pc = "LoadTerrainData"
    /\ at = 0 /\ curval = 0 /\ cnt = 0 /\ offset = 0 /\ idx = 0
    /\ octPts = {}
    /\ outdata = [o \in Offsets |-> 0]

\* The terrain's box meets the tile's if a column ends inside the tile; if none
\* does it still may, by the terrain around the tile.
LoadTerrainData ==
    /\ pc = "LoadTerrainData"
    /\ \/ pc' = "RleEncode" /\ data' = Filled /\ curval' = data'[0]
       \/ /\ \A c \in Columns : ~InTile(heights[c])
          /\ pc' = "loaded" /\ UNCHANGED <<data, curval>>
    /\ UNCHANGED <<heights, rle, at, cnt, offset, idx, octPts, outdata>>

-----------------------------------------------------------------------------
(* RleEncode.                                                              *)

\* The bytes of a run of n times v: b1 |= 0x80 leaves seven bits for the high part.
Run(n, v) == IF n < Half THEN <<n, v>> ELSE <<Half + ((n \div Base) % Half), n % Base, v>>

\* Mutant of Full: a run is cut one value late.
FullLate(n) == n = MaxRun + 1

Full(n) == n = MaxRun

EncodeByte ==
    /\ pc = "RleEncode" /\ at < Volume
    /\ at' = at + 1
    /\ IF data[at] # curval \/ Full(cnt)
       THEN rle' = rle \o Run(cnt, curval) /\ cnt' = 1 /\ curval' = data[at]
       ELSE cnt' = cnt + 1 /\ UNCHANGED <<rle, curval>>
    /\ UNCHANGED <<heights, data, pc, offset, idx, octPts, outdata>>

EncodeEnd ==
    /\ pc = "RleEncode" /\ at = Volume
    /\ rle' = IF cnt > 0 THEN rle \o Run(cnt, curval) ELSE rle
    /\ pc' = "loaded" /\ at' = 0 /\ cnt' = 0
    /\ UNCHANGED <<source, offset, idx, octPts, outdata>>

-----------------------------------------------------------------------------
(* The readers of m_rledata: the loader thread calls LoadVB, the main      *)
(* thread RleDecode.  Neither writes it.                                   *)

Read ==
    /\ pc = "loaded"
    /\ pc' \in {"LoadVB", "RleDecode"}
    /\ UNCHANGED <<source, rle, at, cnt, offset, idx, octPts, outdata>>

\* The run whose first byte is number at + 1: its bytes, its size, its value.
Wide == rle[at + 1] >= Half
RunBytes == IF Wide THEN 3 ELSE 2

\* Mutant of RunSize: the flag stays in the count.
RunSizeFlagged == IF Wide THEN rle[at + 1] * Base + rle[at + 2] ELSE rle[at + 1]

RunSize == IF Wide THEN (rle[at + 1] - Half) * Base + rle[at + 2] ELSE rle[at + 1]
RunValue == rle[at + RunBytes]

\* A run of LoadVB: skipped unless its value is 1.
LoadVBRun ==
    /\ pc = "LoadVB" /\ at < Len(rle)
    /\ IF RunValue = 1
       THEN pc' = "LoadVB.idx" /\ cnt' = RunSize /\ idx' = 0 /\ UNCHANGED <<at, offset>>
       ELSE at' = at + RunBytes /\ offset' = offset + RunSize /\ UNCHANGED <<pc, cnt, idx>>
    /\ UNCHANGED <<source, rle, octPts, outdata>>

\* Mutant of Following: the index has one bit less.
FollowingSevenBits(i) == (i + 1) % Half

\* ++idx on a byte.
Following(i) == (i + 1) % Base

\* for (byte idx = 0; idx < size; ++idx) octPts.push_back(...)
LoadVBPoint ==
    /\ pc = "LoadVB.idx" /\ idx < cnt
    /\ octPts' = octPts \cup {offset + idx}
    /\ idx' = Following(idx)
    /\ UNCHANGED <<source, rle, pc, at, cnt, offset, outdata>>

\* Mutant of LoadVBNext: the offset stays before the run.
LoadVBNextStays ==
    /\ pc = "LoadVB.idx" /\ idx >= cnt
    /\ pc' = "LoadVB" /\ at' = at + RunBytes
    /\ UNCHANGED <<source, rle, cnt, offset, idx, octPts, outdata>>

LoadVBNext ==
    /\ pc = "LoadVB.idx" /\ idx >= cnt
    /\ pc' = "LoadVB" /\ at' = at + RunBytes /\ offset' = offset + cnt
    /\ UNCHANGED <<source, rle, cnt, idx, octPts, outdata>>

LoadVBEnd ==
    /\ pc = "LoadVB" /\ at = Len(rle)
    /\ pc' = "drawn"
    /\ UNCHANGED <<source, rle, at, cnt, offset, idx, octPts, outdata>>

\* GetGroundPos and Intersect return before RleDecode if m_rledata is empty.
DecodeRun ==
    /\ pc = "RleDecode" /\ at < Len(rle)
    /\ outdata' = [o \in DOMAIN outdata |->
                     IF offset <= o /\ o < offset + RunSize THEN RunValue ELSE outdata[o]]
    /\ at' = at + RunBytes /\ offset' = offset + RunSize
    /\ UNCHANGED <<source, rle, pc, cnt, idx, octPts>>

DecodeEnd ==
    /\ pc = "RleDecode" /\ at = Len(rle)
    /\ pc' = IF rle = <<>> THEN "empty" ELSE "decoded"
    /\ UNCHANGED <<source, rle, at, cnt, offset, idx, octPts, outdata>>

\* GetGroundPos of a column once m_rledata is decoded, as a layer; -1 is NAN.
GetGroundPos(c) ==
    LET solid == {y \in 0..(Tsz - 1) : outdata[At(c[1], y, c[2])] > 0}
    IN IF solid = {} THEN -1 ELSE CHOOSE y \in solid : \A w \in solid : w <= y

Next ==
    \/ LoadTerrainData \/ EncodeByte \/ EncodeEnd
    \/ Read \/ LoadVBRun \/ LoadVBPoint \/ LoadVBNext \/ LoadVBEnd
    \/ DecodeRun \/ DecodeEnd

Spec == Init /\ [][Next]_vars

\* Loops of a single thread: it keeps running.
FairSpec == Spec /\ WF_vars(Next)

-----------------------------------------------------------------------------
(* Properties.                                                             *)

\* The packed chunk is made of bytes and no count outgrows its two bytes.
TypeOK ==
    /\ heights \in [Columns -> Heights]
    /\ data \in [Offsets -> {0, 1}]
    /\ rle \in Seq(Bytes)
    /\ pc \in {"LoadTerrainData", "RleEncode", "loaded", "LoadVB", "LoadVB.idx", "drawn",
               "RleDecode", "empty", "decoded"}
    /\ at \in Nat /\ offset \in 0..Volume
    /\ curval \in {0, 1} /\ cnt \in 0..MaxRun /\ idx \in Bytes
    /\ octPts \subseteq Nat
    /\ outdata \in [Offsets -> Bytes]

\* RleDecode's memset and the points of LoadVB stay inside the cube of the tile,
\* and neither reads past the end of m_rledata.
ReadersStayInCube ==
    /\ pc \in {"LoadVB", "LoadVB.idx", "RleDecode"} /\ at < Len(rle) =>
         at + RunBytes <= Len(rle) /\ offset + RunSize <= Volume
    /\ octPts \subseteq Offsets

\* What RleDecode unpacks is what LoadTerrainData filled, and GetGroundPos finds
\* the terrain: the layer of a height inside the tile, NAN for one outside.
GroundIsTerrain ==
    pc = "decoded" =>
      /\ outdata = data
      /\ \A c \in Columns :
           LET y == GetGroundPos(c) IN
           IF InTile(heights[c]) THEN 2 * y <= heights[c] /\ heights[c] < 2 * y + 2 ELSE y = -1

Solid == {o \in Offsets : data[o] = 1}

\* Base solid voxels or more in a row.
LongRun == \E o \in Offsets : o + Base <= Volume /\ o..(o + Base - 1) \subseteq Solid

\* LoadVB ends with exactly the solid voxels of the terrain in the vertex buffer,
\* and it ends only if no run of them has Base voxels: there the byte index wraps
\* before it reaches the size of the run.
DrawnIsExact == pc = "drawn" => octPts = Solid /\ ~LongRun

\* If no run has Base solid voxels, LoadVB ends.
LoadVBEnds == (pc = "LoadVB" /\ ~LongRun) ~> pc = "drawn"
=============================================================================
