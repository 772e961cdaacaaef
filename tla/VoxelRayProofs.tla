--------------------------- MODULE VoxelRayProofs ---------------------------
(***************************************************************************)
(* For every size of the cube, every segment and every set of voxels: the  *)
(* walk of OctTile::FindHit stays in the cube, is the digital segment      *)
(* between its end points and passes no solid voxel on it.                 *)
(*                                                                         *)
(* On one axis, write D for the length of the walk, E for the extent of    *)
(* the segment, S for the steps taken and M for the moves made.  The       *)
(* invariant is that the decision variable is                              *)
(*     q = 2 * E * (S + 1) - D - 2 * D * M                                 *)
(* and lies between 2 * E - 2 * D and 2 * E, which bounds the distance     *)
(* from the segment by half a voxel; M <= E and the rest follow.           *)
(***************************************************************************)
EXTENDS VoxelRay, TLAPS

-----------------------------------------------------------------------------
(* Arithmetic of one axis.                                                 *)

\* A voxel at most half a voxel beyond the segment is not beyond its end.
LEMMA NotBeyond ==
    ASSUME NEW D \in Nat \ {0}, NEW E \in Nat, NEW S \in Nat, NEW M \in Nat,
           S <= D, 2 * D * M <= 2 * E * S + D
    PROVE  M <= E
<1>1. SUFFICES ASSUME M >= E + 1 PROVE FALSE
  OBVIOUS
<1>2. D * M >= D * (E + 1)
  BY <1>1
<1>3. D * (E + 1) = D * E + D
  OBVIOUS
<1>4. E * S <= E * D
  OBVIOUS
<1>5. D * E = E * D /\ D * E \in Int /\ E * S \in Int /\ D * M \in Int
  OBVIOUS
<1>6. 2 * D * M = 2 * (D * M) /\ 2 * E * S = 2 * (E * S)
  OBVIOUS
<1> QED
  BY <1>2, <1>3, <1>4, <1>5, <1>6

\* After the last step a voxel at most half a voxel short has arrived.
LEMMA NotShort ==
    ASSUME NEW D \in Nat \ {0}, NEW E \in Nat, NEW M \in Nat,
           2 * E * D <= 2 * D * M + D
    PROVE  E <= M
<1>1. SUFFICES ASSUME E >= M + 1 PROVE FALSE
  OBVIOUS
<1>2. D * E >= D * (M + 1)
  BY <1>1
<1>3. D * (M + 1) = D * M + D
  OBVIOUS
<1>5. D * E \in Int /\ D * M \in Int
  OBVIOUS
<1>6. 2 * D * M = 2 * (D * M) /\ 2 * E * D = 2 * (D * E)
  OBVIOUS
<1> QED
  BY <1>2, <1>3, <1>5, <1>6

\* One iteration of the loop keeps the relation of the decision variable to the
\* moves, and its bounds; so the move, if there is one, is not beyond the end.
LEMMA AxisStep ==
    ASSUME NEW D \in Nat, NEW E \in Nat, NEW S \in Nat, NEW M \in Nat, NEW q \in Int,
           E <= D, S < D,
           q = 2 * E * (S + 1) - D - 2 * D * M, 2 * E - 2 * D <= q, q <= 2 * E,
           NEW n \in Nat, NEW r \in Int,
           \/ q >= 0 /\ n = M + 1 /\ r = q + 2 * E - 2 * D
           \/ q < 0 /\ n = M /\ r = q + 2 * E
    PROVE  /\ r = 2 * E * (S + 2) - D - 2 * D * n
           /\ 2 * E - 2 * D <= r /\ r <= 2 * E
           /\ n <= E
<1>1. 2 * E * (S + 2) = 2 * E * (S + 1) + 2 * E /\ 2 * E * (S + 1) = 2 * E * S + 2 * E
  OBVIOUS
<1>2. 2 * D * (M + 1) = 2 * D * M + 2 * D
  OBVIOUS
<1>3. /\ 2 * E * (S + 1) \in Int /\ 2 * E * (S + 2) \in Int /\ 2 * E * S \in Int
      /\ 2 * D * M \in Int /\ 2 * D * n \in Int
  OBVIOUS
<1>4. r = 2 * E * (S + 2) - D - 2 * D * n
  <2>1. CASE q >= 0 /\ n = M + 1 /\ r = q + 2 * E - 2 * D
    BY <1>1, <1>2, <1>3, <2>1
  <2>2. CASE q < 0 /\ n = M /\ r = q + 2 * E
    BY <1>1, <1>3, <2>2
  <2> QED
    BY <2>1, <2>2
<1>5. 2 * E - 2 * D <= r /\ r <= 2 * E
  OBVIOUS
<1>6. 2 * E * (S + 2) = 2 * E * (S + 1) + 2 * E
  BY <1>1
<1>7. 2 * D * n <= 2 * E * (S + 1) + D
  BY <1>3, <1>4, <1>5, <1>6
<1>8. n <= E
  BY <1>7, NotBeyond
<1> QED
  BY <1>4, <1>5, <1>8

\* Two voxels after equally many steps, one at most and one less than half a voxel
\* from the segment, are the same.
LEMMA Unique ==
    ASSUME NEW D \in Nat, NEW T \in Int, NEW M \in Nat, NEW N \in Nat,
           Abs(2 * D * M - T) <= D, Abs(2 * D * N - T) < D
    PROVE  M = N
<1>1. D > 0 /\ 2 * D * M \in Int /\ 2 * D * N \in Int
  BY DEF Abs
<1>2. 2 * D * M - 2 * D * N < 2 * D /\ 2 * D * N - 2 * D * M < 2 * D
  BY <1>1 DEF Abs
<1>3. ASSUME M >= N + 1 PROVE FALSE
  <2>1. D * M >= D * (N + 1)
    BY <1>3, <1>1
  <2>2. D * (N + 1) = D * N + D /\ D * M \in Int /\ D * N \in Int
    OBVIOUS
  <2>3. 2 * D * M = 2 * (D * M) /\ 2 * D * N = 2 * (D * N)
    OBVIOUS
  <2> QED
    BY <1>2, <2>1, <2>2, <2>3
<1>4. ASSUME N >= M + 1 PROVE FALSE
  <2>1. D * N >= D * (M + 1)
    BY <1>4, <1>1
  <2>2. D * (M + 1) = D * M + D /\ D * M \in Int /\ D * N \in Int
    OBVIOUS
  <2>3. 2 * D * M = 2 * (D * M) /\ 2 * D * N = 2 * (D * N)
    OBVIOUS
  <2> QED
    BY <1>2, <2>1, <2>2, <2>3
<1> QED
  BY <1>3, <1>4

\* A voxel between the end points and not at the second is nearer to the first.
LEMMA Nearer ==
    ASSUME NEW f \in Int, NEW t \in Int, NEW c \in Int, c # t,
           (f <= c /\ c <= t) \/ (t <= c /\ c <= f)
    PROVE  Abs(c - f) < Abs(t - f)
BY DEF Abs

-----------------------------------------------------------------------------
(* The invariant.                                                          *)

RayType ==
    /\ pc \in {"idle", "walk", "hit", "miss", "done"}
    /\ solid \in SUBSET Cells
    /\ from \in Cells /\ to \in Cells
    /\ cur \in [Axes -> Int] /\ p \in [Axes -> Int]
    /\ found \in BOOLEAN

Between(c, a) ==
    \/ from[a] <= c[a] /\ c[a] <= to[a]
    \/ to[a] <= c[a] /\ c[a] <= from[a]

Decided(a) ==
    /\ p[a] = 2 * Delta(a) * (Steps(cur) + 1) - Length - 2 * Length * Moved(cur, a)
    /\ 2 * Delta(a) - 2 * Length <= p[a]
    /\ p[a] <= 2 * Delta(a)

SegmentInv ==
    /\ RayType
    /\ \A a \in Axes : Between(cur, a) /\ Decided(a)
    /\ pc = "miss" => cur[Drive] = to[Drive]

\* The driving axis has the largest extent.
LEMMA DriveFacts ==
    from \in Cells /\ to \in Cells =>
      /\ Drive \in Axes /\ Length \in Nat /\ Length = Delta(Drive)
      /\ \A a \in Axes : Delta(a) \in Nat /\ Delta(a) <= Length
<1> SUFFICES ASSUME from \in Cells, to \in Cells
             PROVE  /\ Drive \in Axes /\ Length \in Nat /\ Length = Delta(Drive)
                    /\ \A a \in Axes : Delta(a) \in Nat /\ Delta(a) <= Length
  OBVIOUS
<1>1. \A a \in Axes : from[a] \in Int /\ to[a] \in Int
  BY RayAssumption DEF Cells
<1>2. \A a \in Axes : Delta(a) \in Nat
  BY <1>1 DEF Delta, Abs
<1>3. "x" \in Axes /\ "y" \in Axes /\ "z" \in Axes
  BY DEF Axes
<1>4. Drive \in Axes
  BY <1>3 DEF Drive
<1>5. Delta("x") <= Delta(Drive) /\ Delta("y") <= Delta(Drive) /\ Delta("z") <= Delta(Drive)
  BY <1>2, <1>3 DEF Drive
<1>6. \A a \in Axes : Delta(a) <= Delta(Drive)
  BY <1>5 DEF Axes
<1> QED
  BY <1>2, <1>4, <1>6 DEF Length

\* A cell between the end points of the segment is in the cube.
LEMMA BetweenInCube ==
    ASSUME from \in Cells, to \in Cells, NEW c \in [Axes -> Int],
           \A a \in Axes : Between(c, a)
    PROVE  c \in Cells
<1>1. \A a \in Axes : from[a] \in 0..(Tsz - 1) /\ to[a] \in 0..(Tsz - 1) /\ c[a] \in Int
  BY DEF Cells
<1>2. \A a \in Axes : c[a] \in 0..(Tsz - 1)
  BY <1>1, RayAssumption DEF Between
<1> QED
  BY <1>2 DEF Cells

\* The clamped end points are in the cube.
LEMMA Clamped ==
    ASSUME NEW v \in Int
    PROVE  R(v) \in 0..(Tsz - 1)
BY RayAssumption DEF R

\* The segment does not change while it is walked.
LEMMA SegmentFixed ==
    ASSUME from' = from, to' = to
    PROVE  /\ Drive' = Drive /\ Length' = Length
           /\ \A a \in Axes : Delta(a)' = Delta(a) /\ Dir(a)' = Dir(a)
BY DEF Drive, Length, Delta, Dir

\* An iteration of the loop is one step along the driving axis.
LEMMA StepsUp ==
    ASSUME SegmentInv, Step
    PROVE  Steps(cur)' = Steps(cur) + 1
<1>1. /\ Drive \in Axes
      /\ \A b \in Axes : from[b] \in Int /\ to[b] \in Int /\ cur[b] \in Int
  BY DriveFacts, RayAssumption DEF SegmentInv, RayType, Cells
<1>2. Drive' = Drive /\ from' = from
  BY SegmentFixed DEF Step
<1>3. Between(cur, Drive)
  BY <1>1 DEF SegmentInv
<1>4. cur'[Drive] = cur[Drive] + Dir(Drive)
  BY <1>1 DEF Step, Moves
<1>5. Steps(cur)' = Abs(cur'[Drive] - from[Drive])
  BY <1>2 DEF Steps
<1> QED
  BY <1>1, <1>3, <1>4, <1>5 DEF Steps, Abs, Between, Dir

\* One axis in one iteration of the loop.
LEMMA StepAxis ==
    ASSUME SegmentInv, Step, NEW a \in Axes
    PROVE  (Between(cur, a) /\ Decided(a))'
<1> USE DEF Step
<1> DEFINE D == Length
           E == Delta(a)
           S == Steps(cur)
           M == Moved(cur, a)
           n == Moved(cur, a)'
<1>1. /\ Drive \in Axes /\ D \in Nat /\ E \in Nat /\ E <= D /\ D = Delta(Drive)
      /\ \A b \in Axes : from[b] \in Int /\ to[b] \in Int /\ cur[b] \in Int /\ p[b] \in Int
  BY DriveFacts, RayAssumption DEF SegmentInv, RayType, Cells
<1>2. Drive' = Drive /\ D' = D /\ E' = E
  BY SegmentFixed
<1>3. \A b \in Axes : Between(cur, b) /\ Decided(b)
  BY DEF SegmentInv
<1>4. /\ \A b \in Axes : cur'[b] = IF Moves(b) THEN cur[b] + Dir(b) ELSE cur[b]
      /\ p'[a] = p[a] + 2 * E - (IF Moves(a) THEN 2 * D ELSE 0)
  OBVIOUS
<1>5. S \in Nat /\ M \in Nat
  BY <1>1 DEF Steps, Moved, Abs
<1>6. S < D
  <2>1. cur[Drive] # to[Drive]
    OBVIOUS
  <2>2. Between(cur, Drive)
    BY <1>1, <1>3
  <2>3. D = Abs(to[Drive] - from[Drive]) /\ S = Abs(cur[Drive] - from[Drive])
    BY <1>1 DEF Delta, Steps
  <2>4. Abs(cur[Drive] - from[Drive]) < Abs(to[Drive] - from[Drive])
    BY <1>1, <2>1, <2>2, Nearer DEF Between
  <2> QED
    BY <2>3, <2>4
<1>7. Steps(cur)' = S + 1
  BY StepsUp
<1>8. n = IF Moves(a) THEN M + 1 ELSE M
  <2>1. n = Abs(cur'[a] - from[a])
    BY DEF Moved
  <2> QED
    BY <1>1, <1>3, <1>4, <2>1 DEF Moved, Abs, Between, Dir
<1>9. Moves(a) <=> p[a] >= 0
  <2>1. CASE a # Drive
    BY <2>1 DEF Moves
  <2>2. CASE a = Drive
    <3>1. E = D /\ M = S
      BY <1>1, <2>2 DEF Steps, Moved
    <3>2. p[a] = 2 * D * (S + 1) - D - 2 * D * S
      BY <1>3, <3>1 DEF Decided
    <3>3. 2 * D * (S + 1) = 2 * D * S + 2 * D /\ 2 * D * S \in Int
      BY <1>1, <1>5
    <3>4. p[a] = D
      BY <1>1, <3>2, <3>3
    <3> QED
      BY <1>1, <2>2, <3>4 DEF Moves
  <2> QED
    BY <2>1, <2>2
<1>10. /\ p[a] = 2 * E * (S + 1) - D - 2 * D * M
       /\ 2 * E - 2 * D <= p[a] /\ p[a] <= 2 * E
  BY <1>3 DEF Decided
<1>11. /\ n \in Nat /\ p'[a] \in Int
       /\ \/ p[a] >= 0 /\ n = M + 1 /\ p'[a] = p[a] + 2 * E - 2 * D
          \/ p[a] < 0 /\ n = M /\ p'[a] = p[a] + 2 * E
  BY <1>1, <1>4, <1>5, <1>8, <1>9
<1>12. /\ p'[a] = 2 * E * (S + 2) - D - 2 * D * n
       /\ 2 * E - 2 * D <= p'[a] /\ p'[a] <= 2 * E
       /\ n <= E
  <2> HIDE DEF D, E, S, M, n
  <2> QED
    BY <1>1, <1>5, <1>6, <1>10, <1>11, AxisStep
<1>13. Between(cur, a)'
  <2>1. cur'[a] \in Int
    BY <1>1, <1>4 DEF Dir
  <2>2. n = Abs(cur'[a] - from[a])
    BY DEF Moved
  <2>3. IF to[a] > from[a] THEN cur'[a] >= from[a] ELSE cur'[a] <= from[a]
    BY <1>1, <1>3, <1>4 DEF Between, Dir
  <2>4. n <= Abs(to[a] - from[a])
    BY <1>12 DEF Delta
  <2>5. Between(cur', a)
    BY <1>1, <2>1, <2>2, <2>3, <2>4 DEF Abs, Between
  <2> QED
    BY <2>5 DEF Between
<1>14. Decided(a)'
  <2>1. S + 1 + 1 = S + 2
    BY <1>5
  <2>2. /\ p'[a] = 2 * E * (Steps(cur)' + 1) - D - 2 * D * n
    BY <1>7, <1>12, <2>1
  <2> QED
    BY <1>2, <1>12, <2>2 DEF Decided
<1> QED
  BY <1>13, <1>14

\* The invariant holds initially.
LEMMA SegmentInit == Init => SegmentInv
<1> SUFFICES ASSUME Init PROVE SegmentInv
  OBVIOUS
<1>1. RayType
  <2>1. 0 \in 0..(Tsz - 1)
    BY RayAssumption
  <2>2. Origin \in Cells /\ Origin \in [Axes -> Int]
    BY <2>1 DEF Origin, Cells
  <2>3. solid \in SUBSET Cells
    BY RayAssumption DEF Init
  <2> QED
    BY <2>2, <2>3 DEF Init, RayType
<1>2. \A a \in Axes : Between(cur, a)
  BY DEF Init, Between, Origin
<1>3. \A a \in Axes : Delta(a) = 0 /\ Moved(cur, a) = 0
  BY DEF Init, Delta, Moved, Abs, Origin
<1>4. Drive \in Axes
  BY <1>1, DriveFacts DEF RayType
<1>5. Length = 0 /\ Steps(cur) = 0
  BY <1>3, <1>4 DEF Length, Steps, Moved
<1>6. \A a \in Axes : Decided(a)
  BY <1>3, <1>5 DEF Decided, Init, Origin
<1> QED
  BY <1>1, <1>2, <1>6 DEF SegmentInv, Init

\* Every step of the program keeps the invariant.
LEMMA SegmentNext == SegmentInv /\ [Next]_vars => SegmentInv'
<1> SUFFICES ASSUME SegmentInv, [Next]_vars PROVE SegmentInv'
  OBVIOUS
<1>1. ASSUME NEW pt1 \in [Axes -> (-Reach)..(Tsz - 1 + Reach)],
             NEW pt2 \in [Axes -> (-Reach)..(Tsz - 1 + Reach)],
             Call(pt1, pt2)
      PROVE  SegmentInv'
  <2> USE <1>1 DEF Call
  <2>1. \A a \in Axes : pt1[a] \in Int /\ pt2[a] \in Int
    BY RayAssumption
  <2>2. from' \in Cells /\ to' \in Cells
    BY <2>1, Clamped DEF Cells
  <2>3. /\ Drive' \in Axes /\ Length' \in Nat
        /\ \A a \in Axes : Delta(a)' \in Nat /\ Delta(a)' <= Length'
    <3>1. (from \in Cells /\ to \in Cells =>
            /\ Drive \in Axes /\ Length \in Nat /\ Length = Delta(Drive)
            /\ \A a \in Axes : Delta(a) \in Nat /\ Delta(a) <= Length)'
      BY DriveFacts, PTL
    <3> QED
      BY <2>2, <3>1
  <2>4. \A a \in Axes : from'[a] \in Int /\ to'[a] \in Int /\ cur'[a] = from'[a]
    BY <2>2, RayAssumption DEF Cells
  <2>5. RayType'
    <3>1. cur' \in [Axes -> Int]
      BY <2>2, RayAssumption DEF Cells
    <3>2. p' \in [Axes -> Int]
      BY <2>3
    <3> QED
      BY <2>2, <3>1, <3>2 DEF RayType, SegmentInv
  <2>6. \A a \in Axes : Between(cur, a)'
    BY <2>4 DEF Between
  <2>7. \A a \in Axes : Moved(cur, a)' = 0
    BY <2>4 DEF Moved, Abs
  <2>8. Steps(cur)' = 0
    BY <2>3, <2>4 DEF Steps, Abs
  <2>9. \A a \in Axes : p'[a] = 2 * Delta(a)' - Length'
    OBVIOUS
  <2>10. \A a \in Axes : Decided(a)'
    BY <2>3, <2>7, <2>8, <2>9 DEF Decided
  <2>11. pc' # "miss"
    OBVIOUS
  <2> QED
    BY <2>5, <2>6, <2>10, <2>11 DEF SegmentInv
<1>2. ASSUME Step PROVE SegmentInv'
  <2>1. \A a \in Axes : (Between(cur, a) /\ Decided(a))'
    BY <1>2, StepAxis
  <2>2. RayType'
    <3>1. /\ Drive \in Axes /\ Length \in Nat /\ \A a \in Axes : Delta(a) \in Nat
          /\ \A a \in Axes : cur[a] \in Int /\ p[a] \in Int
      BY DriveFacts DEF SegmentInv, RayType
    <3>2. cur' \in [Axes -> Int]
      BY <1>2, <3>1 DEF Step, Dir
    <3>3. p' \in [Axes -> Int]
      BY <1>2, <3>1 DEF Step
    <3> QED
      BY <1>2, <3>2, <3>3 DEF SegmentInv, RayType, Step
  <2>3. pc' # "miss"
    BY <1>2 DEF Step
  <2> QED
    BY <2>1, <2>2, <2>3 DEF SegmentInv
<1>3. ASSUME UNCHANGED <<solid, from, to, cur, p>>,
             pc' \in {"idle", "walk", "hit", "miss", "done"}, found' \in BOOLEAN,
             pc' = "miss" => cur[Drive] = to[Drive]
      PROVE  SegmentInv'
  <2>1. Drive' = Drive /\ Length' = Length /\ \A a \in Axes : Delta(a)' = Delta(a)
    BY <1>3, SegmentFixed
  <2>2. Steps(cur)' = Steps(cur) /\ \A a \in Axes : Moved(cur, a)' = Moved(cur, a)
    BY <1>3, <2>1 DEF Steps, Moved
  <2>3. \A a \in Axes : Between(cur, a)' /\ Decided(a)'
    BY <1>3, <2>1, <2>2 DEF SegmentInv, Between, Decided
  <2> QED
    BY <1>3, <2>1, <2>3 DEF SegmentInv, RayType
<1>4. CASE Miss
  BY <1>3, <1>4 DEF Miss, SegmentInv, RayType
<1>5. CASE Return
  BY <1>3, <1>5 DEF Return, SegmentInv, RayType
<1>6. CASE UNCHANGED vars
  BY <1>3, <1>6 DEF vars, SegmentInv, RayType
<1> QED
  BY <1>1, <1>2, <1>4, <1>5, <1>6 DEF Next

\* The invariant is an invariant of the program.
LEMMA SegmentSafe == Spec => []SegmentInv
<1>1. Init => SegmentInv
  BY SegmentInit
<1>2. SegmentInv /\ [Next]_vars => SegmentInv'
  BY SegmentNext
<1> QED
  BY <1>1, <1>2, PTL DEF Spec

-----------------------------------------------------------------------------
(* The theorems.                                                           *)

\* FindHit never indexes data[] outside the cube of the tile, whatever its size
\* and whatever segment Intersect passes.
THEOREM WalkStaysInCube == Spec => []StaysBetween
<1>1. SegmentInv => StaysBetween
  <2> SUFFICES ASSUME SegmentInv PROVE StaysBetween
    OBVIOUS
  <2>1. cur \in Cells
    BY BetweenInCube DEF SegmentInv, RayType
  <2> QED
    BY <2>1 DEF SegmentInv, StaysBetween, Between
<1> QED
  BY <1>1, SegmentSafe, PTL

\* On every axis the voxel reached is at most half a voxel from the segment.
LEMMA ErrorBound ==
    ASSUME SegmentInv
    PROVE  \A a \in Axes : Error(cur, a) <= Length
<1> TAKE a \in Axes
<1> DEFINE X == 2 * Length * Moved(cur, a)
           Y == 2 * Delta(a) * Steps(cur)
<1>1. /\ Length \in Nat /\ Delta(a) \in Nat /\ Drive \in Axes
      /\ \A b \in Axes : from[b] \in Int /\ cur[b] \in Int /\ p[b] \in Int
  BY DriveFacts, RayAssumption DEF SegmentInv, RayType, Cells
<1>2. Steps(cur) \in Nat /\ Moved(cur, a) \in Nat
  BY <1>1 DEF Steps, Moved, Abs
<1>3. 2 * Delta(a) * (Steps(cur) + 1) = Y + 2 * Delta(a) /\ Y \in Int /\ X \in Int
  BY <1>1, <1>2
<1>4. p[a] = Y + 2 * Delta(a) - Length - X
  <2>1. p[a] = 2 * Delta(a) * (Steps(cur) + 1) - Length - X
    BY DEF SegmentInv, Decided
  <2> QED
    BY <1>1, <1>3, <2>1
<1>5. 2 * Delta(a) - 2 * Length <= p[a] /\ p[a] <= 2 * Delta(a)
  BY DEF SegmentInv, Decided
<1>6. Error(cur, a) = Abs(X - Y)
  BY DEF Error
<1> HIDE DEF X, Y
<1> QED
  BY <1>1, <1>3, <1>4, <1>5, <1>6 DEF Abs

\* The walk of FindHit is the digital segment, and one that hits nothing ends
\* exactly at the clamped end point.
THEOREM WalkFollowsSegment == Spec => []FollowsSegment
<1>1. SegmentInv => FollowsSegment
  <2> SUFFICES ASSUME SegmentInv PROVE FollowsSegment
    OBVIOUS
  <2>1. ASSUME pc = "miss", NEW a \in Axes PROVE cur[a] = to[a]
    <3>1. /\ Length \in Nat /\ Delta(a) \in Nat /\ Delta(a) <= Length
          /\ Length = Delta(Drive) /\ Drive \in Axes
          /\ \A b \in Axes : from[b] \in Int /\ to[b] \in Int /\ cur[b] \in Int
      BY DriveFacts, RayAssumption DEF SegmentInv, RayType, Cells
    <3>2. Steps(cur) = Length
      BY <2>1, <3>1 DEF SegmentInv, Steps, Delta
    <3>3. Moved(cur, a) \in Nat /\ Moved(cur, a) <= Delta(a)
      BY <3>1 DEF SegmentInv, Moved, Delta, Between, Abs
    <3>4. Delta(a) <= Moved(cur, a)
      <4>1. CASE Length = 0
        BY <3>1, <3>3, <4>1
      <4>2. CASE Length # 0
        <5>1. Abs(2 * Length * Moved(cur, a) - 2 * Delta(a) * Length) <= Length
          BY <3>2, ErrorBound DEF Error
        <5>2. 2 * Length * Moved(cur, a) \in Int /\ 2 * Delta(a) * Length \in Int
          BY <3>1, <3>3
        <5>3. 2 * Delta(a) * Length <= 2 * Length * Moved(cur, a) + Length
          BY <3>1, <5>1, <5>2 DEF Abs
        <5> QED
          BY <3>1, <3>3, <4>2, <5>3, NotShort
      <4> QED
        BY <4>1, <4>2
    <3> QED
      BY <3>1, <3>3, <3>4 DEF SegmentInv, Moved, Delta, Between, Abs
  <2>2. pc = "miss" => cur = to
    BY <2>1 DEF SegmentInv, RayType, Cells
  <2> QED
    BY <2>2, ErrorBound DEF FollowsSegment
<1> QED
  BY <1>1, SegmentSafe, PTL

-----------------------------------------------------------------------------
(* Nothing solid is passed.                                                *)

PassInv == NothingPassed /\ MissedOnlyAtEdge

\* A voxel of the segment after as many steps as the walk has taken is the one
\* that the walk has reached.
LEMMA SamePlace ==
    SegmentInv => \A c \in OnSegment : Steps(c) = Steps(cur) => c = cur
<1> SUFFICES ASSUME SegmentInv, NEW c \in OnSegment, Steps(c) = Steps(cur)
             PROVE  c = cur
  OBVIOUS
<1>1. c \in Cells /\ \A a \in Axes : (Error(c, a) < Length \/ Length = 0) /\ Between(c, a)
  BY DEF OnSegment, Between
<1>2. ASSUME NEW a \in Axes PROVE c[a] = cur[a]
  <2>1. /\ Length \in Nat /\ Delta(a) \in Nat /\ Delta(a) <= Length /\ Drive \in Axes
        /\ \A b \in Axes : from[b] \in Int /\ to[b] \in Int /\ cur[b] \in Int /\ c[b] \in Int
    BY <1>1, DriveFacts, RayAssumption DEF SegmentInv, RayType, Cells
  <2>2. Between(cur, a) /\ Between(c, a)
    BY <1>1 DEF SegmentInv
  <2>3. CASE Length = 0
    BY <2>1, <2>2, <2>3 DEF Delta, Abs, Between
  <2>4. CASE Length # 0
    <3>1. Moved(cur, a) \in Nat /\ Moved(c, a) \in Nat /\ Steps(cur) \in Nat
      BY <2>1 DEF Moved, Steps, Abs
    <3>2. Abs(2 * Length * Moved(c, a) - 2 * Delta(a) * Steps(cur)) < Length
      BY <1>1, <2>4 DEF Error
    <3>3. Abs(2 * Length * Moved(cur, a) - 2 * Delta(a) * Steps(cur)) <= Length
      BY ErrorBound DEF Error
    <3>4. 2 * Delta(a) * Steps(cur) \in Int
      BY <2>1, <3>1
    <3>5. Moved(cur, a) = Moved(c, a)
      BY <2>1, <3>1, <3>2, <3>3, <3>4, Unique
    <3> QED
      BY <2>1, <2>2, <3>5 DEF Moved, Abs, Between
  <2> QED
    BY <2>3, <2>4
<1> QED
  BY <1>1, <1>2 DEF SegmentInv, RayType, Cells

\* Every step of the program keeps NothingPassed and MissedOnlyAtEdge.
LEMMA PassNext == SegmentInv /\ PassInv /\ [Next]_vars => PassInv'
<1> SUFFICES ASSUME SegmentInv, PassInv, [Next]_vars PROVE PassInv'
  OBVIOUS
<1>1. SegmentInv'
  BY SegmentNext
<1>2. (SegmentInv => \A c \in OnSegment : Steps(c) = Steps(cur) => c = cur)'
  BY SamePlace, PTL
<1>3. (\A c \in OnSegment : Steps(c) = Steps(cur) => c = cur)'
  BY <1>1, <1>2
<1>4. Drive \in Axes /\ Drive' \in Axes
  <2>1. (from \in Cells /\ to \in Cells =>
          /\ Drive \in Axes /\ Length \in Nat /\ Length = Delta(Drive)
          /\ \A a \in Axes : Delta(a) \in Nat /\ Delta(a) <= Length)'
    BY DriveFacts, PTL
  <2> QED
    BY <1>1, <2>1, DriveFacts DEF SegmentInv, RayType
<1>5. \A c \in Cells : Steps(c) \in Nat /\ Steps(c)' \in Nat
  BY <1>1, <1>4, RayAssumption DEF SegmentInv, RayType, Cells, Steps, Abs
<1>6. Steps(cur) \in Nat /\ Steps(cur)' \in Nat
  BY <1>1, <1>4, RayAssumption DEF SegmentInv, RayType, Cells, Steps, Abs
<1>7. OnSegment \subseteq Cells /\ OnSegment' \subseteq Cells
  BY DEF OnSegment
<1>8. ASSUME NEW pt1 \in [Axes -> (-Reach)..(Tsz - 1 + Reach)],
             NEW pt2 \in [Axes -> (-Reach)..(Tsz - 1 + Reach)],
             Call(pt1, pt2)
      PROVE  PassInv'
  <2>1. Steps(cur)' = 0
    <3>1. cur' = from'
      BY <1>8 DEF Call
    <3>2. from'[Drive'] \in Int
      BY <1>1, <1>4, RayAssumption DEF SegmentInv, RayType, Cells
    <3> QED
      BY <3>1, <3>2 DEF Steps, Abs
  <2>2. \A c \in OnSegment' : Steps(c)' <= Steps(cur)' => c = cur'
    BY <1>3, <1>5, <1>7, <2>1
  <2>3. \A c \in OnSegment' : ~(Steps(c)' < Steps(cur)')
    BY <1>5, <1>7, <2>1
  <2>4. pc' \in {"walk", "hit"} /\ (pc' = "hit" <=> cur' \in solid')
    BY <1>8 DEF Call
  <2>5. NothingPassed'
    BY <2>2, <2>3, <2>4 DEF NothingPassed
  <2> QED
    BY <2>4, <2>5 DEF PassInv, MissedOnlyAtEdge
<1>9. ASSUME Step PROVE PassInv'
  <2>1. from' = from /\ to' = to /\ solid' = solid /\ pc = "walk"
    BY <1>9 DEF Step
  <2>2. Drive' = Drive /\ Length' = Length /\ \A a \in Axes : Delta(a)' = Delta(a)
    BY <2>1, SegmentFixed
  <2>3. \A c \in Cells : Steps(c)' = Steps(c)
    BY <2>1, <2>2 DEF Steps
  <2>4. OnSegment' = OnSegment
    BY <2>1, <2>2, <2>3 DEF OnSegment, Error, Moved
  <2>5. Steps(cur)' = Steps(cur) + 1
    BY <1>9, StepsUp
  <2>6. \A c \in solid \cap OnSegment : ~(Steps(c) <= Steps(cur))
    BY <2>1 DEF PassInv, NothingPassed
  <2>7. \A c \in solid' \cap OnSegment' :
          /\ Steps(c)' <= Steps(cur)' => c = cur'
          /\ ~(Steps(c)' < Steps(cur)')
    BY <1>3, <1>5, <1>6, <1>7, <2>1, <2>3, <2>4, <2>5, <2>6
  <2>8. pc' \in {"walk", "hit"} /\ (pc' = "hit" <=> cur' \in solid')
    BY <1>9, <2>1 DEF Step
  <2>9. NothingPassed'
    BY <2>7, <2>8 DEF NothingPassed
  <2> QED
    BY <2>8, <2>9 DEF PassInv, MissedOnlyAtEdge
<1>10. ASSUME UNCHANGED <<solid, from, to, cur>>
       PROVE  /\ OnSegment' = OnSegment /\ Steps(cur)' = Steps(cur)
              /\ \A c \in Cells : Steps(c)' = Steps(c)
  <2>1. Drive' = Drive /\ Length' = Length /\ \A a \in Axes : Delta(a)' = Delta(a)
    BY <1>10, SegmentFixed
  <2>2. Steps(cur)' = Steps(cur) /\ \A c \in Cells : Steps(c)' = Steps(c)
    BY <1>10, <2>1 DEF Steps
  <2> QED
    BY <1>10, <2>1, <2>2 DEF OnSegment, Error, Moved
<1>11. ASSUME Miss PROVE PassInv'
  <2>1. UNCHANGED <<solid, from, to, cur>> /\ pc = "walk" /\ pc' = "miss"
    BY <1>11 DEF Miss
  <2>2. \A c \in solid \cap OnSegment : ~(Steps(c) <= Steps(cur))
    BY <2>1 DEF PassInv, NothingPassed
  <2>3. NothingPassed'
    BY <1>7, <1>10, <2>1, <2>2 DEF NothingPassed
  <2> QED
    BY <2>1, <2>3 DEF PassInv, MissedOnlyAtEdge
<1>12. ASSUME Return PROVE PassInv'
  <2>1. UNCHANGED <<solid, from, to, cur>> /\ pc' = "done"
    BY <1>12 DEF Return
  <2>2. CASE pc = "hit"
    <3>1. cur \in solid /\ cur["x"] \in Nat
      <4>1. cur \in solid
        BY <2>2 DEF PassInv, NothingPassed
      <4>2. cur \in Cells
        BY <4>1 DEF SegmentInv, RayType
      <4> QED
        BY <4>1, <4>2, RayAssumption DEF Cells, Axes
    <3>2. found' = (cur["x"] > 0)
      BY <1>12, <2>2 DEF Return
    <3>3. ~found' => cur["x"] = 0
      <4>1. ~found' => ~(cur["x"] > 0)
        BY <3>2, Zenon
      <4>2. ~(cur["x"] > 0) => cur["x"] = 0
        BY <3>1
      <4> QED
        BY <4>1, <4>2, Zenon
    <3> QED
      BY <2>1, <3>1, <3>3 DEF PassInv, NothingPassed, MissedOnlyAtEdge
  <2>3. CASE pc = "miss"
    <3>1. \A c \in solid \cap OnSegment : ~(Steps(c) <= Steps(cur))
      BY <2>3 DEF PassInv, NothingPassed
    <3>2. ASSUME NEW c \in OnSegment PROVE Steps(c) <= Steps(cur)
      <4>1. Between(c, Drive) /\ c \in Cells
        BY <1>4 DEF OnSegment, Between
      <4>2. cur[Drive] = to[Drive]
        BY <2>3 DEF SegmentInv
      <4>3. /\ from[Drive] \in Int /\ to[Drive] \in Int /\ c[Drive] \in Int
        BY <1>4, <4>1, RayAssumption DEF SegmentInv, RayType, Cells
      <4> QED
        BY <4>1, <4>2, <4>3 DEF Steps, Abs, Between
    <3>3. solid \cap OnSegment = {}
      BY <3>1, <3>2
    <3> QED
      BY <1>10, <2>1, <3>3 DEF PassInv, NothingPassed, MissedOnlyAtEdge
  <2> QED
    BY <1>12, <2>2, <2>3 DEF Return
<1>13. CASE UNCHANGED vars
  <2>1. /\ OnSegment' = OnSegment /\ Steps(cur)' = Steps(cur)
        /\ \A c \in Cells : Steps(c)' = Steps(c)
    BY <1>10, <1>13 DEF vars
  <2>2. solid' = solid /\ cur' = cur /\ pc' = pc /\ found' = found
    BY <1>13 DEF vars
  <2> QED
    BY <1>7, <2>1, <2>2 DEF PassInv, NothingPassed, MissedOnlyAtEdge
<1> QED
  BY <1>8, <1>9, <1>11, <1>12, <1>13 DEF Next

\* FindHit passes no solid voxel that lies on the segment, and Intersect reports a
\* miss in spite of one only if the voxel hit is in the plane x = 0.
THEOREM NoVoxelPassed == Spec => [](NothingPassed /\ MissedOnlyAtEdge)
<1>1. Init => PassInv
  BY DEF Init, PassInv, NothingPassed, MissedOnlyAtEdge
<1>2. SegmentInv /\ PassInv /\ [Next]_vars => PassInv'
  BY PassNext
<1>3. PassInv => NothingPassed /\ MissedOnlyAtEdge
  BY DEF PassInv
<1> QED
  BY <1>1, <1>2, <1>3, SegmentSafe, PTL DEF Spec

\* Intersect reports no hit for a segment with a solid voxel only if the hit has x = 0.
THEOREM MissesAtEdge == Spec => []MissedOnlyAtEdge
  BY NoVoxelPassed, PTL
=============================================================================
