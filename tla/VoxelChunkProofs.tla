-------------------------- MODULE VoxelChunkProofs --------------------------
(***************************************************************************)
(* What is packed is what is unpacked and drawn, for a tile of any size,   *)
(* any terrain and bytes of any width.                                     *)
(***************************************************************************)
EXTENDS VoxelChunk, TLAPS, SequenceTheorems

-----------------------------------------------------------------------------
(* Numbers.                                                                *)

\* Sizes of the cube, of bytes and of counts.
LEMMA Sizes ==
    /\ Tsz \in Nat /\ Tsz >= 1 /\ Volume \in Nat /\ Volume >= 1
    /\ Half \in Nat /\ Half >= 2 /\ Base \in Nat /\ Base = 2 * Half
    /\ MaxRun \in Nat /\ MaxRun >= Base
<1>1. Tsz \in Nat /\ Tsz >= 1 /\ Half \in Nat /\ Half >= 2 /\ Base \in Nat /\ Base = 2 * Half
  BY ChunkAssumption
<1>2. Tsz * Tsz \in Nat /\ Tsz * Tsz >= 1
  BY <1>1
<1>3. Volume \in Nat /\ Volume >= 1
  BY <1>1, <1>2 DEF Volume
<1>4. Half * Base \in Nat /\ Half * Base >= 2 * Base
  BY <1>1
<1>5. MaxRun \in Nat /\ MaxRun >= Base
  BY <1>1, <1>4 DEF MaxRun
<1> QED BY <1>1, <1>3, <1>5

\* A count in two bytes, with the flag, is read back as it was written.
LEMMA CountSplits ==
    ASSUME NEW n \in 1..MaxRun, n >= Half
    PROVE  LET hi == Half + ((n \div Base) % Half)
               lo == n % Base
           IN  hi \in Bytes /\ hi >= Half /\ lo \in Bytes /\ (hi - Half) * Base + lo = n
<1>1. n \in Nat /\ n <= Half * Base - 1 /\ Half * Base \in Nat
  BY Sizes DEF MaxRun
<1>2. /\ n = Base * (n \div Base) + (n % Base) /\ n \div Base \in Nat
      /\ n % Base \in 0..(Base - 1)
  BY <1>1, Sizes
<1>3. n \div Base < Half
  <2>1. SUFFICES ASSUME n \div Base >= Half PROVE FALSE
    BY <1>2, Sizes
  <2>2. Base * (n \div Base) >= Base * Half
    BY <1>2, <2>1, Sizes
  <2> QED BY <1>1, <1>2, <2>2, Sizes
<1>4. (n \div Base) % Half = n \div Base
  BY <1>2, <1>3, Sizes
<1>5. (n \div Base) * Base + (n % Base) = n
  BY <1>2, Sizes
<1> QED BY <1>2, <1>3, <1>4, <1>5, Sizes DEF Bytes

-----------------------------------------------------------------------------
(* Packed chunks.                                                          *)

\* The run of r whose first byte is number p + 1.
WidthAt(r, p) == IF r[p + 1] >= Half THEN 3 ELSE 2
SizeAt(r, p) == IF r[p + 1] >= Half THEN (r[p + 1] - Half) * Base + r[p + 2] ELSE r[p + 1]
ValueAt(r, p) == r[p + WidthAt(r, p)]

\* It stands for the bytes of d from offset o on, and it is as long as it can be.
GoodRun(d, r, p, o) ==
    /\ p + WidthAt(r, p) <= Len(r)
    /\ SizeAt(r, p) \in 1..MaxRun /\ o + SizeAt(r, p) <= Volume
    /\ \A i \in o..(o + SizeAt(r, p) - 1) : d[i] = ValueAt(r, p)
    /\ \/ SizeAt(r, p) = MaxRun
       \/ o + SizeAt(r, p) = Volume
       \/ d[o + SizeAt(r, p)] # ValueAt(r, p)

\* r packs the first n bytes of d: its runs start at the bytes in DOMAIN off, and
\* off gives the offset that each starts at.
Packs(d, r, off, n) ==
    /\ off \in [DOMAIN off -> Nat]
    /\ DOMAIN off \subseteq 0..Len(r)
    /\ 0 \in DOMAIN off /\ off[0] = 0
    /\ Len(r) \in DOMAIN off /\ off[Len(r)] = n
    /\ \A p \in DOMAIN off : p < Len(r) =>
         /\ GoodRun(d, r, p, off[p])
         /\ p + WidthAt(r, p) \in DOMAIN off
         /\ off[p + WidthAt(r, p)] = off[p] + SizeAt(r, p)

\* s is r with a run of n times v behind it.
Longer(s, r, n, v) ==
    /\ s \in Seq(Bytes) /\ Len(s) = Len(r) + WidthAt(s, Len(r))
    /\ WidthAt(s, Len(r)) \in {2, 3}
    /\ SizeAt(s, Len(r)) = n /\ ValueAt(s, Len(r)) = v
    /\ \A i \in 1..Len(r) : s[i] = r[i]

\* The bytes of a run, appended, are read back as that run.
LEMMA RunReads ==
    ASSUME NEW r \in Seq(Bytes), NEW n \in 1..MaxRun, NEW v \in {0, 1}
    PROVE  Longer(r \o Run(n, v), r, n, v)
<1> DEFINE s == r \o Run(n, v)
<1> HIDE DEF s
<1>1. Len(r) \in Nat /\ v \in Bytes
  BY Sizes DEF Bytes
<1>2. ASSUME n < Half PROVE Longer(s, r, n, v)
  <2>1. n \in Bytes /\ Run(n, v) = <<n, v>>
    BY <1>2, Sizes DEF Bytes, Run
  <2>2. <<n, v>> \in Seq(Bytes) /\ Len(<<n, v>>) = 2
        /\ <<n, v>>[1] = n /\ <<n, v>>[2] = v
    BY <1>1, <2>1
  <2>3. /\ s \in Seq(Bytes) /\ Len(s) = Len(r) + 2
        /\ \A i \in 1..(Len(r) + 2) :
             s[i] = IF i <= Len(r) THEN r[i] ELSE <<n, v>>[i - Len(r)]
    BY <2>1, <2>2, ConcatProperties DEF s
  <2>4. s[Len(r) + 1] = n /\ s[Len(r) + 2] = v /\ \A i \in 1..Len(r) : s[i] = r[i]
    BY <1>1, <2>2, <2>3
  <2>5. ~(n >= Half)
    BY <1>2, Sizes
  <2> QED BY <1>1, <2>3, <2>4, <2>5 DEF WidthAt, SizeAt, ValueAt, Longer
<1>3. ASSUME n >= Half PROVE Longer(s, r, n, v)
  <2> DEFINE hi == Half + ((n \div Base) % Half)
             lo == n % Base
  <2>1. Run(n, v) = <<hi, lo, v>>
    BY <1>3, Sizes DEF Run
  <2>2. hi \in Bytes /\ hi >= Half /\ lo \in Bytes /\ (hi - Half) * Base + lo = n
    BY <1>3, CountSplits
  <2> HIDE DEF hi, lo
  <2>3. <<hi, lo, v>> \in Seq(Bytes) /\ Len(<<hi, lo, v>>) = 3
        /\ <<hi, lo, v>>[1] = hi /\ <<hi, lo, v>>[2] = lo /\ <<hi, lo, v>>[3] = v
    BY <1>1, <2>2
  <2>4. /\ s \in Seq(Bytes) /\ Len(s) = Len(r) + 3
        /\ \A i \in 1..(Len(r) + 3) :
             s[i] = IF i <= Len(r) THEN r[i] ELSE <<hi, lo, v>>[i - Len(r)]
    BY <2>1, <2>3, ConcatProperties DEF s
  <2>5. /\ s[Len(r) + 1] = hi /\ s[Len(r) + 2] = lo /\ s[Len(r) + 3] = v
        /\ \A i \in 1..Len(r) : s[i] = r[i]
    BY <1>1, <2>3, <2>4
  <2> QED BY <1>1, <2>2, <2>4, <2>5 DEF WidthAt, SizeAt, ValueAt, Longer
<1> QED BY <1>2, <1>3, Sizes DEF s

\* A run in the front of a longer chunk is the same run.
LEMMA SameRun ==
    ASSUME NEW r \in Seq(Bytes), NEW s, \A i \in 1..Len(r) : s[i] = r[i],
           NEW p \in Nat, p < Len(r), p + WidthAt(r, p) <= Len(r)
    PROVE  /\ WidthAt(s, p) = WidthAt(r, p) /\ WidthAt(r, p) \in {2, 3}
           /\ SizeAt(s, p) = SizeAt(r, p) /\ ValueAt(s, p) = ValueAt(r, p)
<1>1. Len(r) \in Nat /\ p + 1 \in 1..Len(r) /\ p + 2 \in 1..Len(r)
  <2>1. Len(r) \in Nat
    OBVIOUS
  <2>2. WidthAt(r, p) \in {2, 3}
    BY DEF WidthAt
  <2> QED BY <2>1, <2>2
<1>2. s[p + 1] = r[p + 1] /\ s[p + 2] = r[p + 2]
  BY <1>1
<1>3. WidthAt(s, p) = WidthAt(r, p) /\ SizeAt(s, p) = SizeAt(r, p) /\ WidthAt(r, p) \in {2, 3}
  BY <1>2 DEF WidthAt, SizeAt
<1>4. p + WidthAt(r, p) \in 1..Len(r)
  BY <1>1, <1>3
<1> QED BY <1>3, <1>4 DEF ValueAt

\* Appending one more run.
LEMMA Appended ==
    ASSUME NEW d, NEW r \in Seq(Bytes), NEW off, NEW n \in Nat, Packs(d, r, off, n),
           NEW c \in 1..MaxRun, NEW v \in {0, 1}, n + c <= Volume,
           \A i \in n..(n + c - 1) : d[i] = v,
           c = MaxRun \/ n + c = Volume \/ d[n + c] # v,
           NEW s, s = r \o Run(c, v)
    PROVE  s \in Seq(Bytes) /\ \E off2 : Packs(d, s, off2, n + c)
<1>1. /\ s \in Seq(Bytes) /\ Len(s) = Len(r) + WidthAt(s, Len(r))
      /\ WidthAt(s, Len(r)) \in {2, 3}
      /\ SizeAt(s, Len(r)) = c /\ ValueAt(s, Len(r)) = v
      /\ \A i \in 1..Len(r) : s[i] = r[i]
  BY RunReads DEF Longer
<1>2. Len(r) \in Nat /\ Len(s) \in Nat /\ Len(s) > Len(r) /\ n + c \in Nat
  BY <1>1, Sizes
<1> DEFINE B == DOMAIN off \cup {Len(s)}
           off2 == [p \in B |-> IF p = Len(s) THEN n + c ELSE off[p]]
<1>3. /\ DOMAIN off2 = B /\ off2[Len(s)] = n + c
      /\ \A p \in DOMAIN off : p # Len(s) /\ off2[p] = off[p] /\ p \in Nat /\ p <= Len(r)
  BY <1>2 DEF Packs
<1>4. \A p \in B : off2[p] \in Nat
  BY <1>2, <1>3 DEF Packs
<1>5. B \subseteq 0..Len(s)
  BY <1>2, <1>3
<1> HIDE DEF off2, B
<1>6. ASSUME NEW p \in B, p < Len(s)
      PROVE  /\ GoodRun(d, s, p, off2[p])
             /\ p + WidthAt(s, p) \in B
             /\ off2[p + WidthAt(s, p)] = off2[p] + SizeAt(s, p)
  <2>1. p \in DOMAIN off /\ p \in Nat /\ p <= Len(r)
    BY <1>2, <1>3, <1>6 DEF B
  <2>2. CASE p = Len(r)
    <3>1. off2[p] = n
      BY <1>3, <2>1, <2>2 DEF Packs
    <3>2. p + WidthAt(s, p) = Len(s) /\ SizeAt(s, p) = c /\ ValueAt(s, p) = v
      BY <1>1, <2>2
    <3>3. GoodRun(d, s, p, n)
      BY <1>2, <3>2 DEF GoodRun
    <3> QED BY <1>3, <3>1, <3>2, <3>3 DEF B
  <2>3. CASE p # Len(r)
    <3>1. p < Len(r)
      BY <1>2, <2>1, <2>3
    <3>2. /\ GoodRun(d, r, p, off[p])
          /\ p + WidthAt(r, p) \in DOMAIN off
          /\ off[p + WidthAt(r, p)] = off[p] + SizeAt(r, p)
      BY <2>1, <3>1 DEF Packs
    <3>3. p + WidthAt(r, p) <= Len(r)
      BY <3>2 DEF GoodRun
    <3>4. /\ WidthAt(s, p) = WidthAt(r, p) /\ WidthAt(r, p) \in {2, 3}
          /\ SizeAt(s, p) = SizeAt(r, p) /\ ValueAt(s, p) = ValueAt(r, p)
      BY <1>1, <2>1, <3>1, <3>3, SameRun
    <3>5. GoodRun(d, s, p, off[p])
      BY <1>2, <2>1, <3>2, <3>4 DEF GoodRun
    <3> QED BY <1>3, <2>1, <3>2, <3>4, <3>5 DEF B
  <2> QED BY <2>2, <2>3
<1>7. 0 \in B /\ off2[0] = 0 /\ Len(s) \in B
  BY <1>3 DEF Packs, B
<1>8. off2 \in [B -> Nat]
  BY <1>4 DEF off2
<1>9. Packs(d, s, off2, n + c)
  BY <1>3, <1>5, <1>6, <1>7, <1>8 DEF Packs
<1> QED BY <1>1, <1>9

-----------------------------------------------------------------------------
(* The inductive invariant.                                                *)

Zeros == [o \in Offsets |-> 0]

\* LoadTerrainData.
FillInv ==
    /\ pc = "LoadTerrainData" => data = Zeros
    /\ pc \in {"LoadTerrainData", "RleEncode"} => offset = 0 /\ octPts = {}
    /\ pc = "LoadTerrainData" => rle = <<>> /\ at = 0 /\ cnt = 0
    /\ pc = "RleEncode" => data = Filled

\* RleEncode: all but the last cnt bytes are packed, and those are alike.
EncodeInv ==
    pc = "RleEncode" =>
      /\ at \in 0..Volume /\ cnt <= at
      /\ at = 0 => curval = data[0]
      /\ at > 0 => cnt > 0
      /\ \A i \in (at - cnt)..(at - 1) : data[i] = curval
      /\ \E off : Packs(data, rle, off, at - cnt)

Reading == pc \notin {"LoadTerrainData", "RleEncode"}

\* The readers: either nothing was packed, or the reader stands at a run.
Unpacked ==
    /\ rle = <<>> /\ at = 0 /\ offset = 0 /\ octPts = {} /\ data = Zeros
    /\ pc \notin {"LoadVB.idx", "decoded"}
Placed(off) ==
    /\ Packs(data, rle, off, Volume)
    /\ at \in DOMAIN off /\ off[at] = offset
    /\ data = Filled
ReadInv == Reading => Unpacked \/ \E off : Placed(off)

\* LoadVB: the voxels before the offset are listed, and no long run is among them.
NoLongBefore ==
    \A o \in Offsets : o + Base <= Volume /\ o..(o + Base - 1) \subseteq Solid => o >= offset
Passed == {o \in Solid : o < offset}
DrawInv ==
    /\ pc \in {"LoadVB", "drawn"} => octPts = Passed /\ NoLongBefore
    /\ pc = "LoadVB.idx" =>
         /\ NoLongBefore /\ octPts \subseteq Offsets
         /\ at < Len(rle) /\ RunValue = 1 /\ cnt = RunSize /\ idx <= cnt
         /\ cnt < Base => octPts = Passed \cup offset..(offset + idx - 1)
    /\ pc = "drawn" => at = Len(rle)
    /\ pc \in {"loaded", "RleDecode", "empty", "decoded"} => octPts = {}
    /\ pc = "loaded" => at = 0 /\ offset = 0

\* RleDecode: the bytes before the offset are unpacked.
DecodeInv ==
    /\ pc = "RleDecode" => \A o \in Offsets : o < offset => outdata[o] = data[o]
    /\ pc = "decoded" => at = Len(rle) /\ outdata = data

IInv == TypeOK /\ FillInv /\ EncodeInv /\ ReadInv /\ DrawInv /\ DecodeInv

\* What the run at the reader's position is.
LEMMA RunHere ==
    ASSUME TypeOK, NEW off, Placed(off), at < Len(rle)
    PROVE  /\ RunBytes = WidthAt(rle, at) /\ RunSize = SizeAt(rle, at)
           /\ RunValue = ValueAt(rle, at)
           /\ RunBytes \in {2, 3} /\ at + RunBytes <= Len(rle)
           /\ RunSize \in 1..MaxRun /\ offset \in Nat /\ offset + RunSize <= Volume
           /\ \A i \in offset..(offset + RunSize - 1) : data[i] = RunValue
           /\ \/ RunSize = MaxRun \/ offset + RunSize = Volume
              \/ data[offset + RunSize] # RunValue
           /\ at + RunBytes \in DOMAIN off /\ off[at + RunBytes] = offset + RunSize
           /\ RunValue \in {0, 1}
<1>1. RunBytes = WidthAt(rle, at) /\ RunSize = SizeAt(rle, at) /\ RunValue = ValueAt(rle, at)
  BY DEF RunBytes, Wide, WidthAt, RunSize, SizeAt, RunValue, ValueAt
<1>2. GoodRun(data, rle, at, offset) /\ at + WidthAt(rle, at) \in DOMAIN off
      /\ off[at + WidthAt(rle, at)] = offset + SizeAt(rle, at)
  BY DEF Placed, Packs
<1>3. RunBytes \in {2, 3}
  BY DEF RunBytes
<1>4. offset \in Nat
  BY Sizes DEF TypeOK
<1>5. /\ at + RunBytes <= Len(rle)
      /\ RunSize \in 1..MaxRun /\ offset + RunSize <= Volume
      /\ \A i \in offset..(offset + RunSize - 1) : data[i] = RunValue
      /\ \/ RunSize = MaxRun \/ offset + RunSize = Volume
         \/ data[offset + RunSize] # RunValue
  BY <1>1, <1>2 DEF GoodRun
<1>6. RunValue \in {0, 1}
  <2>1. offset \in offset..(offset + RunSize - 1) /\ offset \in Offsets
    BY <1>4, <1>5, Sizes DEF Offsets
  <2> QED BY <1>5, <2>1 DEF TypeOK
<1> QED BY <1>1, <1>2, <1>3, <1>4, <1>5, <1>6

\* Passing a run that LoadVB can finish passes no long run of solid voxels.
LEMMA PassRun ==
    ASSUME TypeOK, NEW off, Placed(off), at < Len(rle), NoLongBefore,
           RunValue = 1 => RunSize < Base
    PROVE  \A o \in Offsets :
             o + Base <= Volume /\ o..(o + Base - 1) \subseteq Solid => o >= offset + RunSize
<1> DEFINE e == offset + RunSize
<1>1. SUFFICES ASSUME NEW o \in Offsets, o + Base <= Volume, o..(o + Base - 1) \subseteq Solid,
                      ~(o >= e)
               PROVE  FALSE
  OBVIOUS
<1>2. /\ RunSize \in Nat /\ offset \in Nat /\ o \in Nat /\ e <= Volume
      /\ \A i \in offset..(e - 1) : data[i] = RunValue
      /\ RunSize = MaxRun \/ e = Volume \/ data[e] # RunValue
      /\ RunValue \in {0, 1}
  BY RunHere, Sizes DEF Offsets
<1>3. o >= offset
  BY <1>1 DEF NoLongBefore
<1> HIDE DEF e
<1>4. e = offset + RunSize
  BY DEF e
<1>5. o \in offset..(e - 1) /\ o \in o..(o + Base - 1)
  BY <1>1, <1>2, <1>3, <1>4, Sizes
<1>6. RunValue = 1
  BY <1>1, <1>2, <1>5 DEF Solid
<1>7. RunSize < Base /\ RunSize # MaxRun
  BY <1>2, <1>6, Sizes
<1>8. e \in o..(o + Base - 1)
  BY <1>1, <1>2, <1>3, <1>4, <1>7, Sizes
<1>9. e \in Solid
  BY <1>1, <1>8
<1>10. e # Volume /\ data[e] = 1
  BY <1>9, Sizes DEF Solid, Offsets
<1> QED BY <1>2, <1>6, <1>7, <1>10

-----------------------------------------------------------------------------
(* The steps.                                                              *)

\* The cube that LoadTerrainData fills is one of bits.
LEMMA FilledTyped == Filled \in [Offsets -> {0, 1}]
BY DEF Filled

\* The start of BackgroundLoad.
LEMMA InitIInv == Init => IInv
<1> SUFFICES ASSUME Init PROVE IInv
  OBVIOUS
<1>1. TypeOK
  BY Sizes DEF Init, TypeOK, Bytes
<1>2. FillInv
  BY DEF Init, FillInv, Zeros
<1> QED BY <1>1, <1>2 DEF Init, IInv, EncodeInv, ReadInv, Reading, DrawInv, DecodeInv

\* The cube is filled, or stays empty when the terrain misses the tile.
LEMMA LoadTerrainDataKeeps == ASSUME IInv, LoadTerrainData PROVE IInv'
<1>1. /\ pc = "LoadTerrainData" /\ data = Zeros /\ rle = <<>> /\ at = 0 /\ cnt = 0
      /\ offset = 0 /\ octPts = {}
      /\ rle' = rle /\ at' = at /\ cnt' = cnt /\ offset' = offset /\ octPts' = octPts
      /\ heights' = heights
  BY DEF LoadTerrainData, IInv, FillInv
<1>2. CASE pc' = "RleEncode" /\ data' = Filled /\ curval' = data'[0]
  <2>1. data' \in [Offsets -> {0, 1}] /\ 0 \in Offsets /\ data' = Filled'
    BY <1>1, <1>2, FilledTyped, Sizes DEF Offsets, Filled
  <2>2. TypeOK'
    BY <1>2, <2>1 DEF LoadTerrainData, IInv, TypeOK
  <2>3. EncodeInv'
    <3> DEFINE off == [p \in {0} |-> 0]
    <3>1. Len(<<>>) = 0
      OBVIOUS
    <3>2. Packs(data', <<>>, off, 0)
      BY <3>1 DEF Packs
    <3> HIDE DEF off
    <3>3. Packs(data', rle', off, at' - cnt')
      BY <1>1, <3>2
    <3> QED BY <1>1, <1>2, <3>3, Sizes DEF EncodeInv
  <2> QED BY <1>1, <1>2, <2>1, <2>2, <2>3
          DEF IInv, FillInv, ReadInv, Reading, DrawInv, DecodeInv
<1>3. CASE pc' = "loaded" /\ UNCHANGED <<data, curval>>
  <2>1. TypeOK'
    BY <1>3 DEF LoadTerrainData, IInv, TypeOK
  <2> QED BY <1>1, <1>3, <2>1
          DEF IInv, FillInv, EncodeInv, ReadInv, Unpacked, DrawInv, DecodeInv, Zeros
<1> QED BY <1>2, <1>3 DEF LoadTerrainData

\* RleEncode's loop: a value that differs, or one more than a count can hold, ends
\* the run.
LEMMA EncodeByteKeeps == ASSUME IInv, EncodeByte PROVE IInv'
<1>1. /\ pc = "RleEncode" /\ pc' = "RleEncode" /\ at < Volume /\ at' = at + 1
      /\ data' = data /\ offset' = offset /\ octPts' = octPts /\ heights' = heights
  BY DEF EncodeByte
<1>2. /\ at \in Nat /\ cnt \in 0..MaxRun /\ cnt <= at
      /\ (at = 0 => curval = data[0]) /\ (at > 0 => cnt > 0)
      /\ \A i \in (at - cnt)..(at - 1) : data[i] = curval
      /\ rle \in Seq(Bytes) /\ curval \in {0, 1} /\ data \in [Offsets -> {0, 1}]
  BY <1>1 DEF IInv, TypeOK, EncodeInv
<1>3. PICK off : Packs(data, rle, off, at - cnt)
  BY <1>1 DEF IInv, EncodeInv
<1>4. FillInv'
  <2>1. Filled' = Filled
    BY <1>1 DEF Filled
  <2> QED BY <1>1, <2>1 DEF IInv, FillInv
<1>5. at \in Offsets /\ data[at] \in {0, 1} /\ cnt \in Nat /\ cnt <= MaxRun
  BY <1>1, <1>2, Sizes DEF Offsets
<1>6. CASE data[at] # curval \/ Full(cnt)
  <2>1. rle' = rle \o Run(cnt, curval) /\ cnt' = 1 /\ curval' = data[at]
    BY <1>6 DEF EncodeByte
  <2>2. cnt \in 1..MaxRun
    BY <1>2, <1>5, <1>6, Sizes DEF Full
  <2>3. /\ at - cnt \in Nat /\ (at - cnt) + cnt = at /\ at <= Volume
        /\ cnt = MaxRun \/ data[at] # curval
    BY <1>1, <1>2, <1>5, <1>6, Sizes DEF Full
  <2>4. rle' \in Seq(Bytes) /\ \E off2 : Packs(data, rle', off2, at)
    <3> DEFINE n == at - cnt
    <3>1. n \in Nat /\ n + cnt = at /\ n + cnt <= Volume /\ Packs(data, rle, off, n)
      BY <1>3, <2>3
    <3>2. \A i \in n..(n + cnt - 1) : data[i] = curval
      BY <1>2, <3>1
    <3>3. cnt = MaxRun \/ n + cnt = Volume \/ data[n + cnt] # curval
      BY <2>3, <3>1
    <3> HIDE DEF n
    <3> QED BY <1>2, <2>1, <2>2, <3>1, <3>2, <3>3, Appended
  <2>5. \A i \in (at' - cnt')..(at' - 1) : data[i] = data[at]
    BY <1>1, <1>2, <2>1
  <2>6. at' - cnt' = at
    BY <1>1, <1>2, <2>1
  <2>7. EncodeInv'
    BY <1>1, <1>2, <2>1, <2>4, <2>5, <2>6, Sizes DEF EncodeInv
  <2>8. TypeOK'
    BY <1>1, <1>5, <2>1, <2>4, Sizes DEF EncodeByte, IInv, TypeOK
  <2> QED BY <1>1, <1>4, <2>7, <2>8 DEF IInv, ReadInv, Reading, DrawInv, DecodeInv
<1>7. CASE ~(data[at] # curval \/ Full(cnt))
  <2>1. cnt' = cnt + 1 /\ rle' = rle /\ curval' = curval
    BY <1>7 DEF EncodeByte
  <2>2. cnt + 1 <= MaxRun /\ at' - cnt' = at - cnt
    BY <1>1, <1>2, <1>5, <1>7, <2>1, Sizes DEF Full
  <2>3. \A i \in (at' - cnt')..(at' - 1) : data[i] = curval
    <3>1. SUFFICES ASSUME NEW i \in (at - cnt)..at PROVE data[i] = curval
      BY <1>1, <1>2, <2>2
    <3>2. i = at \/ i \in (at - cnt)..(at - 1)
      BY <1>2, <1>5
    <3> QED BY <1>2, <1>7, <3>2
  <2>4. Packs(data, rle, off, at' - cnt')
    BY <1>3, <2>2
  <2>5. EncodeInv'
    BY <1>1, <1>2, <1>5, <2>1, <2>3, <2>4, Sizes DEF EncodeInv
  <2>6. TypeOK'
    BY <1>1, <1>5, <2>1, <2>2, Sizes DEF EncodeByte, IInv, TypeOK
  <2> QED BY <1>1, <1>4, <2>5, <2>6 DEF IInv, ReadInv, Reading, DrawInv, DecodeInv
<1> QED BY <1>6, <1>7

\* The last run.
LEMMA EncodeEndKeeps == ASSUME IInv, EncodeEnd PROVE IInv'
<1>1. /\ pc = "RleEncode" /\ pc' = "loaded" /\ at = Volume /\ at' = 0 /\ cnt' = 0
      /\ data' = data /\ offset' = offset /\ octPts' = octPts /\ heights' = heights
      /\ offset = 0 /\ octPts = {} /\ data = Filled
  BY DEF EncodeEnd, source, IInv, FillInv
<1>2. /\ at \in Nat /\ cnt \in 1..MaxRun /\ cnt <= at
      /\ \A i \in (at - cnt)..(at - 1) : data[i] = curval
      /\ rle \in Seq(Bytes) /\ curval \in {0, 1}
  BY <1>1, Sizes DEF IInv, TypeOK, EncodeInv
<1>3. PICK off : Packs(data, rle, off, at - cnt)
  BY <1>1 DEF IInv, EncodeInv
<1>4. rle' = rle \o Run(cnt, curval)
  BY <1>2 DEF EncodeEnd
<1>5. rle' \in Seq(Bytes) /\ \E off2 : Packs(data, rle', off2, Volume)
  <2> DEFINE n == at - cnt
  <2>1. n \in Nat /\ n + cnt = Volume /\ Packs(data, rle, off, n)
    BY <1>1, <1>2, <1>3
  <2>2. \A i \in n..(n + cnt - 1) : data[i] = curval
    BY <1>1, <1>2, <2>1
  <2>3. n + cnt <= Volume
    BY <2>1, Sizes
  <2> HIDE DEF n
  <2> QED BY <1>2, <1>4, <2>1, <2>2, <2>3, Appended
<1>6. PICK off2 : Packs(data, rle', off2, Volume)
  BY <1>5
<1>7. Placed(off2)'
  <2>1. Filled' = Filled
    BY <1>1 DEF Filled
  <2> QED BY <1>1, <1>6, <2>1 DEF Placed, Packs
<1>8. TypeOK'
  BY <1>1, <1>5, Sizes DEF EncodeEnd, source, IInv, TypeOK
<1> QED BY <1>1, <1>7, <1>8 DEF IInv, FillInv, EncodeInv, ReadInv, DrawInv, DecodeInv

\* A reader that moves on to the next run stands at a run again.
LEMMA Advanced ==
    ASSUME TypeOK, NEW off, Placed(off), at < Len(rle), UNCHANGED <<source, rle>>,
           at' = at + RunBytes, offset' = offset + RunSize
    PROVE  Placed(off)' /\ at' \in Nat /\ offset' \in 0..Volume
<1>1. /\ at + RunBytes \in DOMAIN off /\ off[at + RunBytes] = offset + RunSize
      /\ RunBytes \in {2, 3} /\ RunSize \in Nat /\ offset \in Nat
      /\ offset + RunSize <= Volume
  BY RunHere, Sizes
<1>2. data' = data /\ heights' = heights /\ rle' = rle
  BY DEF source
<1>3. Filled' = Filled
  BY <1>2 DEF Filled
<1>4. Placed(off)'
  BY <1>1, <1>2, <1>3 DEF Placed
<1> QED BY <1>1, <1>4, Sizes DEF TypeOK

\* One that stays where it is still stands at its run.
LEMMA Stayed ==
    ASSUME UNCHANGED <<source, rle, at, offset>>
    PROVE  /\ \A off : Placed(off) => Placed(off)'
           /\ Passed' = Passed /\ (NoLongBefore => NoLongBefore')
           /\ RunValue' = RunValue /\ RunSize' = RunSize
<1>1. data' = data /\ heights' = heights /\ rle' = rle /\ at' = at /\ offset' = offset
  BY DEF source
<1>2. Filled' = Filled /\ Solid' = Solid
  BY <1>1 DEF Filled, Solid
<1>3. \A off : Placed(off) => Placed(off)'
  BY <1>1, <1>2 DEF Placed
<1>4. Passed' = Passed /\ (NoLongBefore => NoLongBefore')
  BY <1>1, <1>2 DEF Passed, NoLongBefore
<1>5. RunValue' = RunValue /\ RunSize' = RunSize
  BY <1>1 DEF RunValue, RunBytes, RunSize, Wide
<1> QED BY <1>3, <1>4, <1>5

\* LoadVB or RleDecode starts.
LEMMA ReadKeeps == ASSUME IInv, Read PROVE IInv'
<1>1. /\ pc = "loaded" /\ pc' \in {"LoadVB", "RleDecode"} /\ at = 0 /\ offset = 0
      /\ octPts = {} /\ octPts' = octPts /\ UNCHANGED <<source, rle, at, offset>>
  BY DEF Read, IInv, DrawInv
<1>2. ReadInv'
  <2>1. CASE Unpacked
    BY <1>1, <2>1 DEF Unpacked, ReadInv, source
  <2>2. ASSUME NEW off, Placed(off) PROVE ReadInv'
    BY <1>1, <2>2, Stayed DEF ReadInv
  <2> QED BY <1>1, <2>1, <2>2 DEF IInv, ReadInv, Reading
<1>3. \A o \in Offsets : o \in Nat /\ o >= 0 /\ ~(o < 0)
  BY Sizes DEF Offsets
<1>4. DrawInv'
  <2>1. offset' = 0 /\ octPts' = {}
    BY <1>1
  <2>2. Passed' = {} /\ NoLongBefore'
    BY <1>3, <2>1 DEF Passed, NoLongBefore, Solid
  <2> QED BY <1>1, <2>1, <2>2 DEF DrawInv
<1>5. DecodeInv'
  BY <1>1, <1>3 DEF DecodeInv
<1>6. TypeOK'
  BY <1>1 DEF Read, source, IInv, TypeOK
<1> QED BY <1>1, <1>2, <1>4, <1>5, <1>6 DEF IInv, FillInv, EncodeInv

\* LoadVB at a run: it skips air, and starts its inner loops on solid voxels.
LEMMA LoadVBRunKeeps == ASSUME IInv, LoadVBRun PROVE IInv'
<1>1. /\ pc = "LoadVB" /\ at < Len(rle) /\ octPts' = octPts /\ UNCHANGED <<source, rle>>
      /\ octPts = Passed /\ NoLongBefore /\ TypeOK
      /\ data' = data /\ outdata' = outdata
  BY DEF LoadVBRun, IInv, DrawInv, source
<1>2. PICK off : Placed(off)
  <2>1. ~Unpacked
    BY <1>1 DEF Unpacked
  <2> QED BY <1>1, <2>1 DEF IInv, ReadInv, Reading
<1>3. /\ RunSize \in 1..MaxRun /\ RunSize \in Nat /\ offset \in Nat
      /\ offset + RunSize <= Volume
      /\ \A i \in offset..(offset + RunSize - 1) : data[i] = RunValue
      /\ RunValue \in {0, 1}
  BY <1>1, <1>2, RunHere, Sizes
<1>4. Solid \subseteq Offsets /\ Offsets \subseteq Nat /\ Passed \subseteq Offsets
  BY Sizes DEF Solid, Offsets, Passed
<1>5. CASE RunValue = 1
  <2>1. /\ pc' = "LoadVB.idx" /\ cnt' = RunSize /\ idx' = 0
        /\ UNCHANGED <<source, rle, at, offset>>
    BY <1>1, <1>5 DEF LoadVBRun
  <2>2. /\ Placed(off)' /\ Passed' = Passed /\ NoLongBefore'
        /\ RunValue' = RunValue /\ RunSize' = RunSize
    BY <1>1, <1>2, <2>1, Stayed
  <2>3. offset'..(offset' + idx' - 1) = {}
    BY <1>3, <2>1
  <2>4. DrawInv'
    BY <1>1, <1>3, <1>4, <1>5, <2>1, <2>2, <2>3 DEF DrawInv
  <2>5. TypeOK'
    BY <1>1, <1>3, <2>1, Sizes DEF LoadVBRun, source, TypeOK, Bytes
  <2> QED BY <2>1, <2>2, <2>4, <2>5
          DEF IInv, FillInv, EncodeInv, ReadInv, DecodeInv
<1>6. CASE RunValue # 1
  <2>1. /\ pc' = "LoadVB" /\ at' = at + RunBytes /\ offset' = offset + RunSize
        /\ cnt' = cnt /\ idx' = idx
    BY <1>1, <1>6 DEF LoadVBRun
  <2>2. Placed(off)' /\ at' \in Nat /\ offset' \in 0..Volume
    BY <1>1, <1>2, <2>1, Advanced
  <2>3. Solid' = Solid
    BY <1>1 DEF Solid
  <2>4. NoLongBefore'
    BY <1>1, <1>2, <1>6, <2>1, <2>3, PassRun DEF NoLongBefore
  <2>5. Passed' = Passed
    <3>1. ASSUME NEW o \in Solid PROVE o < offset <=> o < offset + RunSize
      <4>1. o \in Nat /\ data[o] = 1
        BY <1>4 DEF Solid
      <4>2. o \notin offset..(offset + RunSize - 1)
        BY <1>3, <1>6, <4>1
      <4> QED BY <1>3, <4>1, <4>2
    <3> QED BY <2>1, <2>3, <3>1 DEF Passed
  <2>6. TypeOK'
    BY <1>1, <2>1, <2>2 DEF LoadVBRun, source, TypeOK
  <2> QED BY <1>1, <2>1, <2>2, <2>4, <2>5, <2>6
          DEF IInv, FillInv, EncodeInv, ReadInv, DrawInv, DecodeInv
<1> QED BY <1>5, <1>6

\* LoadVB's inner loops list a voxel of the run; in a run of Base or more the byte
\* that counts them wraps.
LEMMA LoadVBPointKeeps == ASSUME IInv, LoadVBPoint PROVE IInv'
<1>1. /\ pc = "LoadVB.idx" /\ pc' = pc /\ idx < cnt /\ cnt' = cnt
      /\ octPts' = octPts \cup {offset + idx} /\ idx' = Following(idx)
      /\ UNCHANGED <<source, rle, at, offset>> /\ TypeOK /\ outdata' = outdata
      /\ at < Len(rle) /\ RunValue = 1 /\ cnt = RunSize /\ NoLongBefore
      /\ octPts \subseteq Offsets
      /\ cnt < Base => octPts = Passed \cup offset..(offset + idx - 1)
      /\ rle' = rle /\ at' = at /\ offset' = offset
  BY DEF LoadVBPoint, IInv, DrawInv
<1>2. PICK off : Placed(off)
  BY <1>1 DEF IInv, ReadInv, Reading, Unpacked
<1>3. /\ cnt \in Nat /\ offset \in Nat /\ offset + cnt <= Volume
      /\ idx \in Nat /\ idx < Base
  BY <1>1, <1>2, RunHere, Sizes DEF TypeOK, Bytes
<1>4. /\ Placed(off)' /\ Passed' = Passed /\ NoLongBefore'
      /\ RunValue' = RunValue /\ RunSize' = RunSize
  BY <1>1, <1>2, Stayed
<1>5. offset + idx \in Offsets /\ octPts' \subseteq Offsets
  BY <1>1, <1>3, Sizes DEF Offsets
<1>6. /\ idx' \in Bytes /\ idx' <= cnt
      /\ cnt < Base => idx' = idx + 1
  <2>1. CASE idx + 1 < Base
    BY <1>1, <1>3, <2>1, Sizes DEF Following, Bytes
  <2>2. CASE idx + 1 = Base
    <3>1. idx' = 0
      BY <1>1, <1>3, <2>2, Sizes DEF Following
    <3> QED BY <1>1, <1>3, <2>2, <3>1, Sizes DEF Bytes
  <2> QED BY <1>3, <2>1, <2>2, Sizes
<1>7. cnt < Base => octPts' = Passed \cup offset..(offset + idx' - 1)
  <2>1. SUFFICES ASSUME cnt < Base PROVE octPts' = Passed \cup offset..(offset + idx' - 1)
    OBVIOUS
  <2>2. offset..(offset + idx' - 1) = (offset..(offset + idx - 1)) \cup {offset + idx}
    BY <1>3, <1>6, <2>1
  <2> QED BY <1>1, <2>1, <2>2
<1>8. DrawInv'
  BY <1>1, <1>4, <1>5, <1>6, <1>7 DEF DrawInv
<1>9. TypeOK'
  BY <1>1, <1>5, <1>6, Sizes DEF LoadVBPoint, source, TypeOK, Offsets
<1> QED BY <1>1, <1>4, <1>8, <1>9 DEF IInv, FillInv, EncodeInv, ReadInv, DecodeInv

\* LoadVB leaves a run: it had less than Base voxels, and all are listed.
LEMMA LoadVBNextKeeps == ASSUME IInv, LoadVBNext PROVE IInv'
<1>1. /\ pc = "LoadVB.idx" /\ pc' = "LoadVB" /\ idx >= cnt /\ octPts' = octPts
      /\ at' = at + RunBytes /\ offset' = offset + cnt
      /\ UNCHANGED <<source, rle>> /\ TypeOK /\ data' = data
      /\ at < Len(rle) /\ RunValue = 1 /\ cnt = RunSize /\ NoLongBefore /\ idx <= cnt
      /\ cnt < Base => octPts = Passed \cup offset..(offset + idx - 1)
  BY DEF LoadVBNext, IInv, DrawInv, source
<1>2. PICK off : Placed(off)
  BY <1>1 DEF IInv, ReadInv, Reading, Unpacked
<1>3. /\ cnt \in Nat /\ offset \in Nat /\ offset + cnt <= Volume
      /\ \A i \in offset..(offset + cnt - 1) : data[i] = 1
      /\ idx \in Nat /\ idx < Base
  BY <1>1, <1>2, RunHere, Sizes DEF TypeOK, Bytes
<1>4. idx = cnt /\ cnt < Base
  BY <1>1, <1>3
<1>5. Placed(off)' /\ at' \in Nat /\ offset' \in 0..Volume
  BY <1>1, <1>2, Advanced
<1>6. Solid' = Solid
  BY <1>1 DEF Solid
<1>7. NoLongBefore'
  BY <1>1, <1>2, <1>4, <1>6, PassRun DEF NoLongBefore
<1>8. octPts' = Passed'
  <2>1. octPts = Passed \cup offset..(offset + cnt - 1)
    BY <1>1, <1>4
  <2>2. ASSUME NEW o \in Offsets
        PROVE  (o \in Solid /\ o < offset + cnt) <=>
                 (o \in Solid /\ o < offset) \/ o \in offset..(offset + cnt - 1)
    <3>1. o \in Nat
      BY Sizes DEF Offsets
    <3>2. o \in offset..(offset + cnt - 1) => o \in Solid
      BY <1>3 DEF Solid
    <3> QED BY <1>3, <3>1, <3>2
  <2>3. offset..(offset + cnt - 1) \subseteq Offsets /\ Solid \subseteq Offsets
    BY <1>3, Sizes DEF Offsets, Solid
  <2> QED BY <1>1, <1>6, <2>1, <2>2, <2>3 DEF Passed
<1>9. TypeOK'
  BY <1>1, <1>5 DEF LoadVBNext, source, TypeOK
<1> QED BY <1>1, <1>5, <1>7, <1>8, <1>9
        DEF IInv, FillInv, EncodeInv, ReadInv, DrawInv, DecodeInv

\* LoadVB is through.
LEMMA LoadVBEndKeeps == ASSUME IInv, LoadVBEnd PROVE IInv'
<1>1. /\ pc = "LoadVB" /\ pc' = "drawn" /\ at = Len(rle) /\ octPts' = octPts
      /\ octPts = Passed /\ NoLongBefore
      /\ UNCHANGED <<source, rle, at, offset>> /\ rle' = rle /\ at' = at
      /\ data' = data /\ offset' = offset
  BY DEF LoadVBEnd, IInv, DrawInv, source
<1>2. Passed' = Passed /\ NoLongBefore' /\ \A off : Placed(off) => Placed(off)'
  BY <1>1, Stayed
<1>3. ReadInv'
  BY <1>1, <1>2 DEF IInv, ReadInv, Reading, Unpacked
<1>4. TypeOK'
  BY <1>1 DEF LoadVBEnd, source, IInv, TypeOK
<1> QED BY <1>1, <1>2, <1>3, <1>4 DEF IInv, FillInv, EncodeInv, DrawInv, DecodeInv

\* RleDecode unpacks a run.
LEMMA DecodeRunKeeps == ASSUME IInv, DecodeRun PROVE IInv'
<1>1. /\ pc = "RleDecode" /\ pc' = pc /\ at < Len(rle) /\ octPts' = octPts /\ octPts = {}
      /\ at' = at + RunBytes /\ offset' = offset + RunSize
      /\ UNCHANGED <<source, rle>> /\ TypeOK /\ data' = data
      /\ \A o \in Offsets : o < offset => outdata[o] = data[o]
  BY DEF DecodeRun, IInv, DrawInv, DecodeInv, source
<1>2. PICK off : Placed(off)
  <2>1. ~Unpacked
    BY <1>1 DEF Unpacked
  <2> QED BY <1>1, <2>1 DEF IInv, ReadInv, Reading
<1>3. /\ RunSize \in Nat /\ offset \in Nat /\ offset + RunSize <= Volume
      /\ \A i \in offset..(offset + RunSize - 1) : data[i] = RunValue
      /\ RunValue \in {0, 1}
  BY <1>1, <1>2, RunHere, Sizes
<1>4. Placed(off)' /\ at' \in Nat /\ offset' \in 0..Volume
  BY <1>1, <1>2, Advanced
<1>5. outdata' = [o \in Offsets |->
                    IF offset <= o /\ o < offset + RunSize THEN RunValue ELSE outdata[o]]
  BY <1>1 DEF DecodeRun, TypeOK
<1>6. outdata' \in [Offsets -> Bytes]
  <2>1. RunValue \in Bytes /\ \A o \in Offsets : outdata[o] \in Bytes
    BY <1>1, <1>3, Sizes DEF TypeOK, Bytes
  <2> QED BY <1>5, <2>1
<1>7. DecodeInv'
  <2>1. ASSUME NEW o \in Offsets, o < offset' PROVE outdata'[o] = data[o]
    <3>1. o \in Nat
      BY Sizes DEF Offsets
    <3>2. CASE offset <= o
      <4>1. o \in offset..(offset + RunSize - 1)
        BY <1>1, <1>3, <2>1, <3>1, <3>2
      <4> QED BY <1>1, <1>3, <1>5, <2>1, <3>2, <4>1
    <3>3. CASE ~(offset <= o)
      BY <1>1, <1>3, <1>5, <3>1, <3>3
    <3> QED BY <3>2, <3>3
  <2> QED BY <1>1, <2>1 DEF DecodeInv
<1>8. TypeOK'
  BY <1>1, <1>4, <1>6 DEF DecodeRun, source, TypeOK
<1> QED BY <1>1, <1>4, <1>7, <1>8 DEF IInv, FillInv, EncodeInv, ReadInv, DrawInv

\* RleDecode is through.
LEMMA DecodeEndKeeps == ASSUME IInv, DecodeEnd PROVE IInv'
<1>1. /\ pc = "RleDecode" /\ pc' = (IF rle = <<>> THEN "empty" ELSE "decoded")
      /\ at = Len(rle) /\ octPts' = octPts /\ octPts = {} /\ outdata' = outdata
      /\ UNCHANGED <<source, rle, at, offset>> /\ TypeOK
      /\ data' = data /\ rle' = rle /\ at' = at /\ offset' = offset
      /\ \A o \in Offsets : o < offset => outdata[o] = data[o]
  BY DEF DecodeEnd, IInv, DrawInv, DecodeInv, source
<1>2. \A off : Placed(off) => Placed(off)'
  BY <1>1, Stayed
<1>3. ReadInv'
  BY <1>1, <1>2 DEF IInv, ReadInv, Reading, Unpacked
<1>4. rle # <<>> => outdata = data
  <2>1. SUFFICES ASSUME rle # <<>> PROVE outdata = data
    OBVIOUS
  <2>2. PICK off : Placed(off)
    BY <1>1, <2>1 DEF IInv, ReadInv, Reading, Unpacked
  <2>3. offset = Volume
    BY <1>1, <2>2 DEF Placed, Packs
  <2>4. \A o \in Offsets : o < Volume
    BY Sizes DEF Offsets
  <2> QED BY <1>1, <2>3, <2>4 DEF TypeOK
<1>5. TypeOK'
  BY <1>1 DEF DecodeEnd, source, TypeOK
<1> QED BY <1>1, <1>3, <1>4, <1>5 DEF IInv, FillInv, EncodeInv, DrawInv, DecodeInv

\* IInv is inductive: one step per action.
LEMMA NextKeeps == IInv /\ [Next]_vars => IInv'
<1> SUFFICES ASSUME IInv, [Next]_vars PROVE IInv'
  OBVIOUS
<1>1. CASE UNCHANGED vars
  <2>1. UNCHANGED <<source, rle, at, offset>> /\ UNCHANGED <<pc, cnt, idx, octPts, outdata>>
    BY <1>1 DEF vars, source
  <2>2. data' = data /\ heights' = heights /\ curval' = curval /\ rle' = rle /\ at' = at
        /\ offset' = offset /\ Filled' = Filled
    BY <2>1 DEF source, Filled
  <2>3. /\ \A off : Placed(off) => Placed(off)'
        /\ Passed' = Passed /\ (NoLongBefore => NoLongBefore')
        /\ RunValue' = RunValue /\ RunSize' = RunSize
    BY <2>1, Stayed
  <2>4. TypeOK' /\ FillInv' /\ EncodeInv'
    BY <2>1, <2>2 DEF IInv, TypeOK, FillInv, EncodeInv
  <2>5. ReadInv'
    BY <2>1, <2>2, <2>3 DEF IInv, ReadInv, Reading, Unpacked
  <2>6. DrawInv' /\ DecodeInv'
    BY <2>1, <2>2, <2>3 DEF IInv, DrawInv, DecodeInv
  <2> QED BY <2>4, <2>5, <2>6 DEF IInv
<1> QED BY <1>1, LoadTerrainDataKeeps, EncodeByteKeeps, EncodeEndKeeps, ReadKeeps,
           LoadVBRunKeeps, LoadVBPointKeeps, LoadVBNextKeeps, LoadVBEndKeeps,
           DecodeRunKeeps, DecodeEndKeeps DEF Next

\* The inductive invariant of a chunk's loading and reading.
THEOREM ChunkInvariant == Spec => []IInv
BY InitIInv, NextKeeps, PTL DEF Spec

-----------------------------------------------------------------------------
(* What follows.                                                           *)

\* Type correctness: the packed chunk is made of bytes, and no count outgrows its
\* fifteen bits.
THEOREM ChunkTyped == Spec => []TypeOK
<1>1. IInv => TypeOK
  BY DEF IInv
<1> QED BY <1>1, ChunkInvariant, PTL

\* Neither reader leaves m_rledata or the cube of the tile, whatever the terrain.
THEOREM ReadersAreSafe == Spec => []ReadersStayInCube
<1>1. ASSUME IInv PROVE ReadersStayInCube
  <2>1. ASSUME pc \in {"LoadVB", "LoadVB.idx", "RleDecode"}, at < Len(rle)
        PROVE  at + RunBytes <= Len(rle) /\ offset + RunSize <= Volume
    <3>1. ~Unpacked
      BY <2>1 DEF Unpacked
    <3>2. PICK off : Placed(off)
      BY <1>1, <2>1, <3>1 DEF IInv, ReadInv, Reading
    <3> QED BY <1>1, <2>1, <3>2, RunHere DEF IInv
  <2>2. octPts \subseteq Offsets
    <3>1. Passed \subseteq Offsets
      BY DEF Passed, Solid
    <3>2. pc \in {"LoadTerrainData", "RleEncode", "loaded", "LoadVB", "LoadVB.idx", "drawn",
                  "RleDecode", "empty", "decoded"}
      BY <1>1 DEF IInv, TypeOK
    <3> QED BY <1>1, <3>1, <3>2 DEF IInv, FillInv, DrawInv
  <2> QED BY <2>1, <2>2 DEF ReadersStayInCube
<1> QED BY <1>1, ChunkInvariant, PTL

\* LoadVB lists exactly the solid voxels when it ends, and it ends only if no run of
\* them has Base voxels, for any terrain: long runs are never split into short ones.
THEOREM DrawnAreTheSolid == Spec => []DrawnIsExact
<1>1. ASSUME IInv PROVE DrawnIsExact
  <2>1. SUFFICES ASSUME pc = "drawn" PROVE octPts = Solid /\ ~LongRun
    BY DEF DrawnIsExact
  <2>2. octPts = Passed /\ NoLongBefore /\ at = Len(rle)
    BY <1>1, <2>1 DEF IInv, DrawInv
  <2>3. \A o \in Offsets : o \in Nat /\ o < Volume
    BY Sizes DEF Offsets
  <2>4. CASE Unpacked
    <3>1. Solid = {} /\ octPts = {}
      BY <2>4 DEF Unpacked, Solid, Zeros
    <3>2. \A o \in Offsets : o \in o..(o + Base - 1)
      BY <2>3, Sizes
    <3> QED BY <3>1, <3>2 DEF LongRun
  <2>5. ASSUME NEW off, Placed(off) PROVE octPts = Solid /\ ~LongRun
    <3>1. offset = Volume
      BY <2>2, <2>5 DEF Placed, Packs
    <3>2. octPts = Solid
      BY <2>2, <2>3, <3>1 DEF Passed, Solid
    <3>3. ~LongRun
      BY <2>2, <2>3, <3>1, Sizes DEF LongRun, NoLongBefore
    <3> QED BY <3>2, <3>3
  <2> QED BY <1>1, <2>1, <2>4, <2>5 DEF IInv, ReadInv, Reading
<1> QED BY <1>1, ChunkInvariant, PTL

\* A number is written in only one way with a digit below the base.
LEMMA OneDigit ==
    ASSUME NEW a \in Nat, NEW b \in Nat, NEW x \in 0..(Tsz - 1), NEW w \in 0..(Tsz - 1),
           a * Tsz + x = b * Tsz + w
    PROVE  a = b /\ x = w
<1>1. Tsz \in Nat /\ x \in Nat /\ w \in Nat /\ x < Tsz /\ w < Tsz
      /\ a * Tsz \in Nat /\ b * Tsz \in Nat
  BY Sizes
<1>2. ASSUME a < b PROVE FALSE
  <2>1. b * Tsz >= (a + 1) * Tsz
    BY <1>1, <1>2
  <2>2. (a + 1) * Tsz = a * Tsz + Tsz
    BY <1>1
  <2> QED BY <1>1, <2>1, <2>2
<1>3. ASSUME b < a PROVE FALSE
  <2>1. a * Tsz >= (b + 1) * Tsz
    BY <1>1, <1>3
  <2>2. (b + 1) * Tsz = b * Tsz + Tsz
    BY <1>1
  <2> QED BY <1>1, <2>1, <2>2
<1>4. a = b
  BY <1>2, <1>3
<1> QED BY <1>1, <1>4

\* Each voxel has an offset of its own in the cube.
LEMMA OffsetsDiffer ==
    ASSUME NEW x \in 0..(Tsz - 1), NEW y \in 0..(Tsz - 1), NEW z \in 0..(Tsz - 1),
           NEW u \in 0..(Tsz - 1), NEW v \in 0..(Tsz - 1), NEW w \in 0..(Tsz - 1)
    PROVE  /\ At(x, y, z) \in Offsets
           /\ At(x, y, z) = At(u, v, w) => x = u /\ y = v /\ z = w
<1>1. Tsz \in Nat /\ \A i \in 0..(Tsz - 1) : i \in Nat /\ i <= Tsz - 1
  BY Sizes
<1>2. ASSUME NEW i \in 0..(Tsz - 1), NEW j \in 0..(Tsz - 1), NEW k \in 0..(Tsz - 1)
      PROVE  At(i, j, k) = (j * Tsz + k) * Tsz + i /\ j * Tsz + k \in Nat
  BY <1>1 DEF At
<1>3. At(x, y, z) \in Offsets
  <2>1. y * Tsz + z \in Nat /\ y * Tsz \in Nat
    BY <1>1
  <2>2. y * Tsz <= (Tsz - 1) * Tsz
    BY <1>1
  <2>3. (Tsz - 1) * Tsz = Tsz * Tsz - Tsz /\ Tsz * Tsz \in Nat
    BY <1>1
  <2>4. y * Tsz + z <= Tsz * Tsz - 1
    BY <1>1, <2>1, <2>2, <2>3
  <2>5. (y * Tsz + z) * Tsz <= (Tsz * Tsz - 1) * Tsz
    BY <1>1, <2>1, <2>3, <2>4
  <2>6. (Tsz * Tsz - 1) * Tsz = Volume - Tsz
    BY <1>1 DEF Volume
  <2>7. (y * Tsz + z) * Tsz \in Nat
    BY <1>1, <2>1
  <2> DEFINE m == (y * Tsz + z) * Tsz
  <2>8. At(x, y, z) = m + x /\ m \in Nat /\ m <= Volume - Tsz
    BY <1>2, <2>5, <2>6, <2>7
  <2> HIDE DEF m
  <2>9. m + x \in 0..(Volume - 1)
    BY <1>1, <2>8, Sizes
  <2> QED BY <2>8, <2>9 DEF Offsets
<1>4. ASSUME At(x, y, z) = At(u, v, w) PROVE x = u /\ y = v /\ z = w
  <2> DEFINE p == y * Tsz + z
             q == v * Tsz + w
  <2>1. p \in Nat /\ q \in Nat /\ p * Tsz + x = q * Tsz + u
    BY <1>2, <1>4
  <2>2. p = y * Tsz + z /\ q = v * Tsz + w
    OBVIOUS
  <2> HIDE DEF p, q
  <2>3. p = q /\ x = u
    BY <2>1, OneDigit
  <2>4. y * Tsz + z = v * Tsz + w
    BY <2>2, <2>3
  <2> QED BY <1>1, <2>3, <2>4, OneDigit
<1> QED BY <1>3, <1>4

\* What is unpacked is what was filled, and GetGroundPos finds the terrain in it, for
\* any terrain and any size of the tile.
THEOREM GroundIsFound == Spec => []GroundIsTerrain
<1>1. ASSUME IInv PROVE GroundIsTerrain
  <2>1. SUFFICES ASSUME pc = "decoded", NEW c \in Columns
                 PROVE  LET y == GetGroundPos(c)
                        IN  IF InTile(heights[c])
                            THEN 2 * y <= heights[c] /\ heights[c] < 2 * y + 2 ELSE y = -1
    BY <1>1 DEF IInv, DecodeInv, GroundIsTerrain
  <2>2. outdata = Filled
    BY <1>1, <2>1 DEF IInv, DecodeInv, ReadInv, Reading, Unpacked, Placed
  <2> DEFINE h == heights[c]
             full == {d \in Columns : InTile(heights[d])}
             bits == {At(d[1], Layer(heights[d]), d[2]) : d \in full}
             solid == {y \in 0..(Tsz - 1) : outdata[At(c[1], y, c[2])] > 0}
  <2>3. Filled = [o \in Offsets |-> IF o \in bits THEN 1 ELSE 0]
    BY DEF Filled
  <2>4. c[1] \in 0..(Tsz - 1) /\ c[2] \in 0..(Tsz - 1)
    BY DEF Columns
  <2>5. ASSUME NEW d \in full
        PROVE  /\ Layer(heights[d]) \in 0..(Tsz - 1)
               /\ 2 * Layer(heights[d]) <= heights[d]
               /\ heights[d] < 2 * Layer(heights[d]) + 2
               /\ d[1] \in 0..(Tsz - 1) /\ d[2] \in 0..(Tsz - 1)
    <3>1. heights[d] \in Nat /\ heights[d] < 2 * Tsz
      <4>1. heights[d] \in Heights /\ InTile(heights[d])
        BY <1>1 DEF IInv, TypeOK
      <4>2. heights[d] \in 0..(2 * Tsz)
        BY <4>1, ChunkAssumption
      <4> QED BY <4>1, <4>2, Sizes DEF InTile
    <3>2. heights[d] \div 2 \in 0..(Tsz - 1)
      BY <3>1, Sizes
    <3>3. Layer(heights[d]) = heights[d] \div 2
      BY <3>2, Sizes DEF Layer, Clamp
    <3> QED BY <3>1, <3>2, <3>3 DEF Columns
  <2>6. ASSUME NEW y \in 0..(Tsz - 1)
        PROVE  y \in solid <=> InTile(h) /\ y = Layer(h)
    <3>1. At(c[1], y, c[2]) \in Offsets
      BY <2>4, OffsetsDiffer
    <3>2. y \in solid <=> At(c[1], y, c[2]) \in bits
      BY <2>2, <2>3, <3>1
    <3>3. ASSUME NEW d \in full, At(c[1], y, c[2]) = At(d[1], Layer(heights[d]), d[2])
          PROVE  InTile(h) /\ y = Layer(h)
      <4>1. c[1] = d[1] /\ c[2] = d[2] /\ y = Layer(heights[d])
        <5>1. \A u, v, w \in 0..(Tsz - 1) :
                At(c[1], y, c[2]) = At(u, v, w) => c[1] = u /\ y = v /\ c[2] = w
          BY <2>4, OffsetsDiffer
        <5> QED BY <2>5, <3>3, <5>1
      <4>2. c = d
        BY <4>1 DEF Columns
      <4> QED BY <4>1, <4>2
    <3>4. InTile(h) /\ y = Layer(h) => At(c[1], y, c[2]) \in bits
      OBVIOUS
    <3> QED BY <3>2, <3>3, <3>4
  <2>7. GetGroundPos(c) = IF solid = {} THEN -1
                          ELSE CHOOSE y \in solid : \A w \in solid : w <= y
    BY DEF GetGroundPos
  <2>8. CASE InTile(h)
    <3>1. Layer(h) \in 0..(Tsz - 1) /\ 2 * Layer(h) <= h /\ h < 2 * Layer(h) + 2
      BY <2>5, <2>8
    <3>2. solid = {Layer(h)}
      BY <2>6, <2>8, <3>1
    <3> HIDE DEF solid
    <3>3. GetGroundPos(c) = Layer(h)
      BY <2>7, <3>1, <3>2
    <3> QED BY <2>8, <3>1, <3>3
  <2>9. CASE ~InTile(h)
    <3>1. solid = {}
      BY <2>6, <2>9
    <3> HIDE DEF solid
    <3> QED BY <2>7, <2>9, <3>1
  <2> QED BY <2>8, <2>9
<1> QED BY <1>1, ChunkInvariant, PTL

=============================================================================
