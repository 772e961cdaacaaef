----------------------------- MODULE LocProofs ------------------------------
(***************************************************************************)
(* The algebra of Loc for locations of every level: the orders that        *)
(* std::map, std::set and std::sort rely on, the tree, the boxes, and the  *)
(* keys; then the specification of MCLoc for every depth of the octree.    *)
(***************************************************************************)
EXTENDS MCLoc, TLAPS, FiniteSetTheorems, WellFoundedInduction

\* What an element of AllLocs is made of.
LEMMA Fields ==
    ASSUME NEW a \in AllLocs
    PROVE  /\ a.x \in Nat /\ a.y \in Nat /\ a.z \in Nat /\ a.l \in Nat
           /\ a = Loc(a.x, a.y, a.z, a.l)
BY DEF AllLocs, Loc

\* Two locations are equal if they agree in all four fields.
LEMMA SameFields ==
    ASSUME NEW a \in AllLocs, NEW b \in AllLocs,
           a.x = b.x, a.y = b.y, a.z = b.z, a.l = b.l
    PROVE  a = b
BY Fields

\* The free operator < orders std::map and std::set of locations, and the member
\* operator < sorts them: no two locations precede each other, and of two
\* different ones exactly one precedes the other.
THEOREM OrdersStrict == \A a, b \in AllLocs : OrdersAreStrict(a, b)
<1> SUFFICES ASSUME NEW a \in AllLocs, NEW b \in AllLocs PROVE OrdersAreStrict(a, b)
  OBVIOUS
<1>1. /\ a.x \in Nat /\ a.y \in Nat /\ a.z \in Nat /\ a.l \in Nat
      /\ b.x \in Nat /\ b.y \in Nat /\ b.z \in Nat /\ b.l \in Nat
  BY Fields
<1>2. a # b => a.x # b.x \/ a.y # b.y \/ a.z # b.z \/ a.l # b.l
  BY SameFields
<1>3. ~(Precedes(a, b) /\ Precedes(b, a)) /\ ~(SortsBefore(a, b) /\ SortsBefore(b, a))
  BY <1>1 DEF Precedes, SortsBefore
<1>4. a # b => Precedes(a, b) \/ Precedes(b, a)
  BY <1>1, <1>2 DEF Precedes
<1>5. a # b => SortsBefore(a, b) \/ SortsBefore(b, a)
  BY <1>1, <1>2 DEF SortsBefore
<1>6. (Precedes(a, b) \/ Precedes(b, a) \/ SortsBefore(a, b) \/ SortsBefore(b, a)) => a # b
  BY <1>1 DEF Precedes, SortsBefore
<1> QED
  BY <1>3, <1>4, <1>5, <1>6 DEF OrdersAreStrict

\* Both orders are transitive, so that they are the strict weak orders that the
\* containers and std::sort require.
THEOREM OrdersTransitive ==
    \A a, b, c \in AllLocs :
      /\ Precedes(a, b) /\ Precedes(b, c) => Precedes(a, c)
      /\ SortsBefore(a, b) /\ SortsBefore(b, c) => SortsBefore(a, c)
<1> SUFFICES ASSUME NEW a \in AllLocs, NEW b \in AllLocs, NEW c \in AllLocs
             PROVE  /\ Precedes(a, b) /\ Precedes(b, c) => Precedes(a, c)
                    /\ SortsBefore(a, b) /\ SortsBefore(b, c) => SortsBefore(a, c)
  OBVIOUS
<1>1. /\ a.x \in Nat /\ a.y \in Nat /\ a.z \in Nat /\ a.l \in Nat
      /\ b.x \in Nat /\ b.y \in Nat /\ b.z \in Nat /\ b.l \in Nat
      /\ c.x \in Nat /\ c.y \in Nat /\ c.z \in Nat /\ c.l \in Nat
  BY Fields
<1>2. Precedes(a, b) /\ Precedes(b, c) => Precedes(a, c)
  BY <1>1 DEF Precedes
<1>3. SortsBefore(a, b) /\ SortsBefore(b, c) => SortsBefore(a, c)
  BY <1>1 DEF SortsBefore
<1> QED
  BY <1>2, <1>3

\* TerrainTileSelection::Update walks m_requestTiles in the order of std::set: the
\* parent of a location, and so each of its ancestors, comes before it.
THEOREM ParentPrecedes == \A a \in AllLocs : ParentComesFirst(a)
<1> SUFFICES ASSUME NEW a \in AllLocs, a.l > 0 PROVE Precedes(Parent(a), a)
  BY DEF ParentComesFirst
<1>1. a.x \in Nat /\ a.y \in Nat /\ a.z \in Nat /\ a.l \in Nat
  BY Fields
<1>2. /\ Parent(a).x = a.x \div 2 /\ Parent(a).y = a.y \div 2
      /\ Parent(a).z = a.z \div 2 /\ Parent(a).l = a.l - 1
  BY DEF Parent, Loc
<1>3. \A n \in Nat : n \div 2 \in Nat /\ (n \div 2 = n \/ n \div 2 < n)
  OBVIOUS
<1>4. /\ a.x \div 2 = a.x \/ a.x \div 2 < a.x
      /\ a.y \div 2 = a.y \/ a.y \div 2 < a.y
  BY <1>1, <1>3
<1>5. a.l - 1 < a.l /\ a.l - 1 # a.l
  BY <1>1
<1> HIDE DEF Parent
<1> QED
  BY <1>1, <1>2, <1>3, <1>4, <1>5 DEF Precedes

\* GetChildren and Parent are inverse: the tree that FrustumTiles descends is the
\* one that RequestTile climbs.
THEOREM TreeIsConsistent == \A a, b \in AllLocs : ChildrenHaveParent(a, b)
<1> SUFFICES ASSUME NEW a \in AllLocs, NEW b \in AllLocs PROVE ChildrenHaveParent(a, b)
  OBVIOUS
<1>1. /\ a.x \in Nat /\ a.y \in Nat /\ a.z \in Nat /\ a.l \in Nat
      /\ b.x \in Nat /\ b.y \in Nat /\ b.z \in Nat /\ b.l \in Nat
  BY Fields
<1>3. ASSUME b \in GetChildren(a) PROVE b.l > 0 /\ Parent(b) = a
  <2>1. PICK i \in 0..1, j \in 0..1, k \in 0..1 :
          b = Loc(2 * a.x + i, 2 * a.y + j, 2 * a.z + k, a.l + 1)
    BY <1>3 DEF GetChildren
  <2>2. b.x = 2 * a.x + i /\ b.y = 2 * a.y + j /\ b.z = 2 * a.z + k /\ b.l = a.l + 1
    BY <2>1 DEF Loc
  <2>3. b.x \div 2 = a.x /\ b.y \div 2 = a.y /\ b.z \div 2 = a.z
    <3>1. \A n, m \in Nat : \A h \in 0..1 : m = 2 * n + h => m \div 2 = n
      OBVIOUS
    <3> QED
      BY <1>1, <2>2, <3>1
  <2>4. b.l - 1 = a.l /\ b.l > 0
    <3>1. \A n, m \in Nat : m = n + 1 => m - 1 = n /\ m > 0
      OBVIOUS
    <3> QED
      BY <1>1, <2>2, <3>1
  <2> QED
    BY <2>3, <2>4, Fields DEF Parent
<1>4. ASSUME b.l > 0, Parent(b) = a PROVE b \in GetChildren(a)
  <2>1. a.x = b.x \div 2 /\ a.y = b.y \div 2 /\ a.z = b.z \div 2 /\ a.l = b.l - 1
    BY <1>4 DEF Parent, Loc
  <2>2. \A n, m \in Nat : m \div 2 = n => \E i \in 0..1 : m = 2 * n + i
    OBVIOUS
  <2>3. PICK i \in 0..1 : b.x = 2 * a.x + i
    BY <1>1, <2>1, <2>2
  <2>4. PICK j \in 0..1 : b.y = 2 * a.y + j
    BY <1>1, <2>1, <2>2
  <2>5. PICK k \in 0..1 : b.z = 2 * a.z + k
    BY <1>1, <2>1, <2>2
  <2>6. b.l = a.l + 1
    BY <1>1, <2>1
  <2>7. b = Loc(2 * a.x + i, 2 * a.y + j, 2 * a.z + k, a.l + 1)
    BY <2>3, <2>4, <2>5, <2>6, Fields
  <2> QED
    BY <2>7 DEF GetChildren
<1> QED
  BY <1>3, <1>4 DEF ChildrenHaveParent

\* In the level database the terrain of a location and the voxels of another have
\* different keys, unless both are the root: only level 0 is its own negation.
THEOREM KeysMeetAtRootOnly == \A a, b \in AllLocs : KeysMeetOnlyAtRoot(a, b)
<1> SUFFICES ASSUME NEW a \in AllLocs, NEW b \in AllLocs,
                    TerrainKey(Ground(a)) = OctKey(b)
             PROVE  a.l = 0 /\ b.l = 0
  BY DEF KeysMeetOnlyAtRoot
<1>1. a.l \in Nat /\ b.l \in Nat
  BY Fields
<1>2. TerrainKey(Ground(a)).l = -a.l
  BY DEF TerrainKey, Ground, AllLocs
<1> QED
  BY <1>1, <1>2 DEF OctKey

-----------------------------------------------------------------------------
(* Powers of two.                                                          *)

\* A nonempty set of naturals has a least element.
LEMMA Smallest ==
    ASSUME NEW S \in SUBSET Nat, S # {}
    PROVE  \E m \in S : \A n \in S : m <= n
<1> DEFINE R == OpToRel(<, Nat)
<1>1. IsWellFoundedOn(R, Nat)
  BY NatLessThanWellFounded
<1>2. \A m, n \in Nat : <<n, m>> \in R <=> n < m
  BY DEF OpToRel
<1> HIDE DEF R
<1>3. PICK m \in S : \A n \in S : ~(<<n, m>> \in R)
  <2>1. \E m \in S : \A n \in S : ~(<<n, m>> \in R)
    BY <1>1, WFMin
  <2> QED  BY <2>1
<1>4. ASSUME NEW n \in S PROVE m <= n
  <2>1. m \in Nat /\ n \in Nat
    OBVIOUS
  <2>2. ~(n < m)
    BY <1>2, <1>3, <2>1
  <2> QED  BY <2>1, <2>2
<1> QED  BY <1>4

\* f lists the powers of two up to the d-th.
Doubles(f, d) == f \in [0..d -> Nat] /\ f[0] = 1 /\ \A i \in 1..d : f[i] = 2 * f[i - 1]

\* There is such a list of every length.
LEMMA DoublesExist == \A d \in Nat : \E f : Doubles(f, d)
<1> DEFINE B == {d \in Nat : ~ \E f : Doubles(f, d)}
<1> SUFFICES ASSUME B # {} PROVE FALSE
  OBVIOUS
<1>1. PICK m \in B : \A n \in B : m <= n
  BY Smallest
<1>2. m # 0
  <2>1. Doubles([i \in 0..0 |-> 1], 0)
    BY DEF Doubles
  <2> QED  BY <2>1
<1>3. m - 1 \in Nat /\ m - 1 \notin B
  BY <1>1, <1>2
<1>4. PICK f : Doubles(f, m - 1)
  BY <1>3
<1> DEFINE g == [i \in 0..m |-> IF i = m THEN 2 * f[m - 1] ELSE f[i]]
<1>5. Doubles(g, m)
  <2>1. f \in [0..(m - 1) -> Nat] /\ f[0] = 1 /\ \A i \in 1..(m - 1) : f[i] = 2 * f[i - 1]
    BY <1>4 DEF Doubles
  <2>2. m \in Nat /\ g[0] = 1 /\ g \in [0..m -> Nat]
    BY <1>2, <1>3, <2>1
  <2>3. ASSUME NEW i \in 1..m PROVE g[i] = 2 * g[i - 1]
    <3>1. i - 1 \in 0..m /\ i - 1 # m /\ g[i - 1] = f[i - 1]
      BY <2>2
    <3>2. CASE i = m
      BY <3>1, <3>2
    <3>3. CASE i # m
      BY <2>1, <2>2, <3>1, <3>3
    <3> QED  BY <3>2, <3>3
  <2> HIDE DEF g
  <2> QED  BY <2>2, <2>3 DEF Doubles
<1> QED  BY <1>5

\* Two such lists agree where both are defined.
LEMMA DoublesAgree ==
    ASSUME NEW d \in Nat, NEW f, Doubles(f, d), NEW e \in Nat, NEW g, Doubles(g, e)
    PROVE  \A i \in 0..d : i <= e => f[i] = g[i]
<1> DEFINE B == {i \in 0..d : i <= e /\ f[i] # g[i]}
<1> SUFFICES ASSUME B # {} PROVE FALSE
  OBVIOUS
<1>0. B \in SUBSET Nat
  OBVIOUS
<1>1. PICK m \in B : \A n \in B : m <= n
  <2> HIDE DEF B
  <2> QED  BY <1>0, Smallest
<1>2. m # 0
  BY DEF Doubles
<1>3. m \in 1..d /\ m \in 1..e
  BY <1>2
<1>4. m - 1 \in 0..d /\ m - 1 <= e /\ m - 1 \notin B
  BY <1>1, <1>3
<1>5. f[m - 1] = g[m - 1]
  BY <1>4
<1>6. f[m] = g[m]
  BY <1>3, <1>5 DEF Doubles
<1> QED  BY <1>6

\* Pow2 satisfies the equation that defines it.
LEMMA Pow2Def ==
    /\ Pow2 \in [Nat -> Nat] /\ Pow2[0] = 1
    /\ \A d \in Nat : Pow2[d + 1] = 2 * Pow2[d]
<1> DEFINE W == [d \in Nat |-> CHOOSE v : \E f : Doubles(f, d) /\ v = f[d]]
           F(h) == [d \in Nat |-> IF d = 0 THEN 1 ELSE 2 * h[d - 1]]
<1>1. ASSUME NEW d \in Nat PROVE \E f : Doubles(f, d) /\ W[d] = f[d]
  <2>1. \E v : \E f : Doubles(f, d) /\ v = f[d]
    BY DoublesExist
  <2> QED  BY <2>1
<1> HIDE DEF W
<1>2. ASSUME NEW d \in Nat PROVE W[d] = IF d = 0 THEN 1 ELSE 2 * W[d - 1]
  <2>1. PICK f : Doubles(f, d) /\ W[d] = f[d]
    BY <1>1
  <2>2. CASE d = 0
    BY <2>1, <2>2 DEF Doubles
  <2>3. CASE d # 0
    <3>1. d - 1 \in Nat
      BY <2>3
    <3>2. PICK g : Doubles(g, d - 1) /\ W[d - 1] = g[d - 1]
      BY <1>1, <3>1
    <3>3. \A i \in 0..(d - 1) : i <= d => g[i] = f[i]
      BY <2>1, <3>1, <3>2, DoublesAgree
    <3>4. f[d - 1] = g[d - 1]
      BY <3>1, <3>3
    <3>5. f[d] = 2 * f[d - 1]
      BY <2>1, <2>3 DEF Doubles
    <3> QED  BY <2>1, <2>3, <3>2, <3>4, <3>5
  <2> QED  BY <2>2, <2>3
<1>3. W = [d \in Nat |-> W[d]]
  BY DEF W
<1>4. W = F(W)
  BY <1>2, <1>3
<1>5. Pow2 = CHOOSE h : h = F(h)
  BY DEF Pow2
<1>6. Pow2 = F(Pow2)
  <2> HIDE DEF F
  <2> QED  BY <1>4, <1>5
<1>7. \A d \in Nat : Pow2[d] = IF d = 0 THEN 1 ELSE 2 * Pow2[d - 1]
  BY <1>6
<1>8. \A d \in Nat : Pow2[d] \in Nat
  <2> DEFINE B == {d \in Nat : Pow2[d] \notin Nat}
  <2> SUFFICES ASSUME B # {} PROVE FALSE
    OBVIOUS
  <2>1. PICK m \in B : \A n \in B : m <= n
    BY Smallest
  <2>2. m # 0
    BY <1>7
  <2>3. m - 1 \in Nat /\ m - 1 \notin B
    BY <2>1, <2>2
  <2>4. Pow2[m - 1] \in Nat /\ Pow2[m] = 2 * Pow2[m - 1]
    BY <1>7, <2>2, <2>3
  <2> QED  BY <2>4
<1>9. Pow2 = [d \in Nat |-> Pow2[d]]
  BY <1>6
<1>10. \A d \in Nat : Pow2[d + 1] = 2 * Pow2[d]
  <2>1. \A d \in Nat : d + 1 \in Nat /\ d + 1 # 0 /\ d + 1 - 1 = d
    OBVIOUS
  <2> QED  BY <1>7, <2>1
<1> QED  BY <1>7, <1>8, <1>9, <1>10

\* Powers of two are positive.
LEMMA Pow2Positive == \A d \in Nat : Pow2[d] \in Nat /\ Pow2[d] > 0
<1> DEFINE B == {d \in Nat : ~(Pow2[d] > 0)}
<1>0. \A d \in Nat : Pow2[d] \in Nat
  BY Pow2Def
<1> SUFFICES ASSUME B # {} PROVE FALSE
  BY <1>0
<1>1. PICK m \in B : \A n \in B : m <= n
  BY Smallest
<1>2. m # 0
  BY Pow2Def
<1>3. m - 1 \in Nat /\ m - 1 \notin B /\ m - 1 + 1 = m
  BY <1>1, <1>2
<1>4. Pow2[m - 1] \in Nat /\ Pow2[m - 1] > 0 /\ Pow2[m] = 2 * Pow2[m - 1]
  BY <1>0, <1>3, Pow2Def
<1> QED  BY <1>4

\* Shifting by m and then by n is shifting by m + n.
LEMMA Pow2Sum == \A m, n \in Nat : Pow2[m + n] = Pow2[m] * Pow2[n]
<1> SUFFICES ASSUME NEW m \in Nat PROVE \A n \in Nat : Pow2[m + n] = Pow2[m] * Pow2[n]
  OBVIOUS
<1> DEFINE B == {n \in Nat : Pow2[m + n] # Pow2[m] * Pow2[n]}
<1>0. \A d \in Nat : Pow2[d] \in Nat
  BY Pow2Def
<1> SUFFICES ASSUME B # {} PROVE FALSE
  OBVIOUS
<1>1. PICK k \in B : \A n \in B : k <= n
  BY Smallest
<1>2. k # 0
  BY <1>0, Pow2Def
<1>3. k - 1 \in Nat /\ k - 1 \notin B
  BY <1>1, <1>2
<1>4. Pow2[m + (k - 1)] = Pow2[m] * Pow2[k - 1]
  BY <1>3
<1>5. m + (k - 1) \in Nat /\ (m + (k - 1)) + 1 = m + k /\ (k - 1) + 1 = k
  BY <1>3
<1>6. Pow2[m + k] = 2 * Pow2[m + (k - 1)] /\ Pow2[k] = 2 * Pow2[k - 1]
  BY <1>3, <1>5, Pow2Def
<1>7. \A p, q \in Nat : 2 * (p * q) = p * (2 * q)
  OBVIOUS
<1>8. Pow2[m + k] = Pow2[m] * Pow2[k]
  BY <1>0, <1>3, <1>4, <1>6, <1>7
<1> QED  BY <1>8

-----------------------------------------------------------------------------
(* The boxes of locations.                                                 *)

\* One axis of GetChildren: of the two halves of an interval of length 2 * s
\* exactly one holds a point that the interval holds.
LEMMA Halves ==
    \A x, s, p \in Nat :
      /\ (x * (2 * s) <= p /\ p < x * (2 * s) + 2 * s) <=>
           \E i \in 0..1 : (2 * x + i) * s <= p /\ p < (2 * x + i) * s + s
      /\ \A i, j \in 0..1 :
           /\ (2 * x + i) * s <= p /\ p < (2 * x + i) * s + s
           /\ (2 * x + j) * s <= p /\ p < (2 * x + j) * s + s
           => i = j
<1> SUFFICES ASSUME NEW x \in Nat, NEW s \in Nat, NEW p \in Nat
    PROVE
      /\ (x * (2 * s) <= p /\ p < x * (2 * s) + 2 * s) <=>
           \E i \in 0..1 : (2 * x + i) * s <= p /\ p < (2 * x + i) * s + s
      /\ \A i, j \in 0..1 :
           /\ (2 * x + i) * s <= p /\ p < (2 * x + i) * s + s
           /\ (2 * x + j) * s <= p /\ p < (2 * x + j) * s + s
           => i = j
  OBVIOUS
<1>1. PICK u \in Nat : u = x * s
  OBVIOUS
<1>2. x * (2 * s) = 2 * u /\ (2 * x + 0) * s = 2 * u /\ (2 * x + 1) * s = 2 * u + s
  BY <1>1
<1>3. \A i \in 0..1 : i = 0 \/ i = 1
  OBVIOUS
<1> QED  BY <1>1, <1>2, <1>3

\* One axis of ParentAtLevel: an interval of length e lies in the one of length
\* w * e that its number, shifted, is the number of.
LEMMA Enclosed ==
    \A x, w, e \in Nat : w > 0 =>
      /\ x \div w \in Nat
      /\ (x \div w) * (w * e) <= x * e
      /\ x * e + e <= (x \div w) * (w * e) + w * e
<1> SUFFICES ASSUME NEW x \in Nat, NEW w \in Nat, NEW e \in Nat, w > 0
    PROVE  /\ x \div w \in Nat
           /\ (x \div w) * (w * e) <= x * e
           /\ x * e + e <= (x \div w) * (w * e) + w * e
  OBVIOUS
<1>1. PICK q \in Nat, r \in Nat : q = x \div w /\ x = q * w + r /\ r < w
  <2>1. x \div w \in Nat /\ x % w \in Nat /\ x = w * (x \div w) + (x % w) /\ x % w < w
    OBVIOUS
  <2>2. w * (x \div w) = (x \div w) * w
    BY <2>1
  <2> QED  BY <2>1, <2>2
<1>2. PICK k \in Nat : w = r + 1 + k
  BY <1>1
<1>3. x * e = q * (w * e) + r * e
  BY <1>1
<1>4. w * e = r * e + e + k * e
  BY <1>2
<1>5. r * e \in Nat /\ k * e \in Nat /\ q * (w * e) \in Nat /\ w * e \in Nat /\ x * e \in Nat
  OBVIOUS
<1>6. \A X, Q, R, K, W \in Nat :
        X = Q + R /\ W = R + e + K => Q <= X /\ X + e <= Q + W
  OBVIOUS
<1>7. q * (w * e) <= x * e /\ x * e + e <= q * (w * e) + w * e
  BY <1>3, <1>4, <1>5, <1>6
<1> QED  BY <1>1, <1>7

\* Covers, axis by axis.
LEMMA CoversAxes ==
    \A a, fine, p : Covers(a, fine, p) <=>
      LET e == Pow2[fine - a.l]
      IN  /\ a.x * e <= p[1] /\ p[1] < a.x * e + e
          /\ a.y * e <= p[2] /\ p[2] < a.y * e + e
          /\ a.z * e <= p[3] /\ p[3] < a.z * e + e
<1> SUFFICES ASSUME NEW a, NEW fine, NEW p
    PROVE  Covers(a, fine, p) <=>
             LET e == Pow2[fine - a.l]
             IN  /\ a.x * e <= p[1] /\ p[1] < a.x * e + e
                 /\ a.y * e <= p[2] /\ p[2] < a.y * e + e
                 /\ a.z * e <= p[3] /\ p[3] < a.z * e + e
  OBVIOUS
<1>1. /\ Low(a, fine)[1] = a.x * Pow2[fine - a.l]
      /\ Low(a, fine)[2] = a.y * Pow2[fine - a.l]
      /\ Low(a, fine)[3] = a.z * Pow2[fine - a.l]
  BY DEF Low
<1>2. \A i \in 1..3 : i = 1 \/ i = 2 \/ i = 3
  OBVIOUS
<1> HIDE DEF Low
<1> QED  BY <1>1, <1>2 DEF Covers, Extent

\* GetChildren: the boxes of the eight children partition the box of the parent.
\* A cell of the finest level is in the parent's box exactly if it is in the box
\* of one child, and of one only.
THEOREM BoxesPartition ==
    \A a \in AllLocs, p \in Nat \X Nat \X Nat : a.l < Depth =>
      (Covers(a, Depth, p) <=>
         Cardinality({c \in GetChildren(a) : Covers(c, Depth, p)}) = 1)
<1> SUFFICES ASSUME NEW a \in AllLocs, NEW p \in Nat \X Nat \X Nat, a.l < Depth
             PROVE  Covers(a, Depth, p) <=>
                      Cardinality({c \in GetChildren(a) : Covers(c, Depth, p)}) = 1
  OBVIOUS
<1> DEFINE Kids == {c \in GetChildren(a) : Covers(c, Depth, p)}
           s == Pow2[Depth - (a.l + 1)]
           In(x, q, i) == (2 * x + i) * s <= q /\ q < (2 * x + i) * s + s
           Kid(i, j, k) == Loc(2 * a.x + i, 2 * a.y + j, 2 * a.z + k, a.l + 1)
<1>1. a.x \in Nat /\ a.y \in Nat /\ a.z \in Nat /\ a.l \in Nat
  BY Fields
<1>2. p[1] \in Nat /\ p[2] \in Nat /\ p[3] \in Nat
  OBVIOUS
<1>3. Depth - (a.l + 1) \in Nat /\ (Depth - (a.l + 1)) + 1 = Depth - a.l
  BY <1>1, DepthAssumption
<1>4. s \in Nat /\ Pow2[Depth - a.l] = 2 * s
  BY <1>3, Pow2Def
<1>5. \A i, j, k \in 0..1 :
        Covers(Kid(i, j, k), Depth, p) <=> In(a.x, p[1], i) /\ In(a.y, p[2], j) /\ In(a.z, p[3], k)
  BY CoversAxes DEF Loc
<1>6. Covers(a, Depth, p) <=>
        /\ \E i \in 0..1 : In(a.x, p[1], i)
        /\ \E j \in 0..1 : In(a.y, p[2], j)
        /\ \E k \in 0..1 : In(a.z, p[3], k)
  <2> HIDE DEF s
  <2>1. \A x, q \in Nat : (x * (2 * s) <= q /\ q < x * (2 * s) + 2 * s) <=> \E i \in 0..1 : In(x, q, i)
    BY <1>4, Halves
  <2> HIDE DEF In
  <2> QED  BY <1>1, <1>2, <1>4, <2>1, CoversAxes
<1>7. \A x, q \in Nat : \A i, j \in 0..1 : In(x, q, i) /\ In(x, q, j) => i = j
  <2> HIDE DEF s
  <2> QED  BY <1>4, Halves
<1>8. GetChildren(a) = {Kid(i, j, k) : i \in 0..1, j \in 0..1, k \in 0..1}
  BY DEF GetChildren
<1> HIDE DEF In, Kid, s
<1>9. ASSUME Covers(a, Depth, p) PROVE Cardinality(Kids) = 1
  <2>1. PICK i \in 0..1, j \in 0..1, k \in 0..1 :
          In(a.x, p[1], i) /\ In(a.y, p[2], j) /\ In(a.z, p[3], k)
    BY <1>6, <1>9
  <2>2. Kid(i, j, k) \in Kids
    BY <1>5, <1>8, <2>1
  <2>3. ASSUME NEW c \in Kids PROVE c = Kid(i, j, k)
    <3>1. PICK i2 \in 0..1, j2 \in 0..1, k2 \in 0..1 : c = Kid(i2, j2, k2)
      BY <1>8
    <3>2. In(a.x, p[1], i2) /\ In(a.y, p[2], j2) /\ In(a.z, p[3], k2)
      BY <1>5, <3>1
    <3>3. i2 = i /\ j2 = j /\ k2 = k
      BY <1>1, <1>2, <1>7, <2>1, <3>2
    <3> QED  BY <3>1, <3>3
  <2>4. Kids = {Kid(i, j, k)}
    BY <2>2, <2>3
  <2> QED  BY <2>4, FS_Singleton
<1>10. ASSUME Cardinality(Kids) = 1 PROVE Covers(a, Depth, p)
  <2>1. Kids # {}
    BY <1>10, FS_EmptySet
  <2>2. PICK i \in 0..1, j \in 0..1, k \in 0..1 : Kid(i, j, k) \in Kids
    BY <1>8, <2>1
  <2> QED  BY <1>5, <1>6, <2>2
<1> QED  BY <1>9, <1>10

\* GetLocal and GetChild: the local coordinates of a location below another lead
\* back to it.
THEOREM LocalInverse ==
    \A a, b \in AllLocs : b.l <= a.l => GetChild(b, GetLocal(a, b)) = a
<1> SUFFICES ASSUME NEW a \in AllLocs, NEW b \in AllLocs, b.l <= a.l
             PROVE  GetChild(b, GetLocal(a, b)) = a
  OBVIOUS
<1>1. /\ a.x \in Nat /\ a.y \in Nat /\ a.z \in Nat /\ a.l \in Nat
      /\ b.x \in Nat /\ b.y \in Nat /\ b.z \in Nat /\ b.l \in Nat
  BY Fields
<1>2. PICK w \in Nat : w = Pow2[a.l - b.l]
  <2>1. a.l - b.l \in Nat
    BY <1>1
  <2> QED  BY <2>1, Pow2Def
<1> DEFINE c == GetLocal(a, b)
<1>3. /\ c.x = a.x - b.x * w /\ c.y = a.y - b.y * w /\ c.z = a.z - b.z * w
      /\ c.l = a.l - b.l
  BY <1>2 DEF GetLocal, Loc
<1> HIDE DEF c
<1>4. GetChild(b, c) = Loc(b.x * w + c.x, b.y * w + c.y, b.z * w + c.z, b.l + c.l)
  BY <1>2, <1>3 DEF GetChild
<1>5. \A m, n \in Nat : m * w + (n - m * w) = n
  BY <1>2
<1>6. b.l + c.l = a.l
  BY <1>1, <1>3
<1>7. b.x * w + c.x = a.x /\ b.y * w + c.y = a.y /\ b.z * w + c.z = a.z
  BY <1>1, <1>3, <1>5
<1> QED  BY <1>4, <1>6, <1>7, Fields DEF c

\* ParentAtLevel: the ancestor at a level is the location whose box contains this
\* one's.
THEOREM AncestorEncloses ==
    \A a \in AllLocs, l \in Nat : l <= a.l /\ a.l <= Depth =>
      LET p == ParentAtLevel(a, l)
      IN  \A i \in 1..3 :
            /\ Low(p, Depth)[i] <= Low(a, Depth)[i]
            /\ Low(a, Depth)[i] + Extent(a, Depth) <= Low(p, Depth)[i] + Extent(p, Depth)
<1> SUFFICES ASSUME NEW a \in AllLocs, NEW l \in Nat, l <= a.l, a.l <= Depth, NEW i \in 1..3
             PROVE  LET p == ParentAtLevel(a, l)
                    IN  /\ Low(p, Depth)[i] <= Low(a, Depth)[i]
                        /\ Low(a, Depth)[i] + Extent(a, Depth) <=
                             Low(p, Depth)[i] + Extent(p, Depth)
  OBVIOUS
<1> DEFINE p == ParentAtLevel(a, l)
<1>1. a.x \in Nat /\ a.y \in Nat /\ a.z \in Nat /\ a.l \in Nat
  BY Fields
<1>2. a.l - l \in Nat /\ Depth - a.l \in Nat /\ (a.l - l) + (Depth - a.l) = Depth - l
  BY <1>1, DepthAssumption
<1>3. PICK w \in Nat : w = Pow2[a.l - l] /\ w > 0
  BY <1>2, Pow2Positive
<1>4. PICK e \in Nat : e = Pow2[Depth - a.l]
  BY <1>2, Pow2Positive
<1>5. Pow2[Depth - l] = w * e
  BY <1>2, <1>3, <1>4, Pow2Sum
<1>6. p = Loc(a.x \div w, a.y \div w, a.z \div w, l)
  BY <1>3 DEF ParentAtLevel
<1>7. p.x = a.x \div w /\ p.y = a.y \div w /\ p.z = a.z \div w /\ p.l = l
  BY <1>6 DEF Loc
<1> HIDE DEF p
<1>8. Extent(a, Depth) = e /\ Extent(p, Depth) = w * e
  BY <1>4, <1>5, <1>7 DEF Extent
<1>9. Low(a, Depth) = <<a.x * e, a.y * e, a.z * e>>
  BY <1>4 DEF Low
<1>10. Low(p, Depth) = <<(a.x \div w) * (w * e), (a.y \div w) * (w * e), (a.z \div w) * (w * e)>>
  BY <1>5, <1>7 DEF Low
<1>11. \A n \in Nat : (n \div w) * (w * e) <= n * e /\ n * e + e <= (n \div w) * (w * e) + w * e
  BY <1>3, <1>4, Enclosed
<1>12. PICK n \in {a.x, a.y, a.z} :
         Low(a, Depth)[i] = n * e /\ Low(p, Depth)[i] = (n \div w) * (w * e)
  <2>1. i = 1 \/ i = 2 \/ i = 3
    OBVIOUS
  <2> QED  BY <1>9, <1>10, <2>1
<1>13. n \in Nat
  BY <1>1, <1>12
<1>14. /\ Low(p, Depth)[i] <= Low(a, Depth)[i]
       /\ Low(a, Depth)[i] + Extent(a, Depth) <= Low(p, Depth)[i] + Extent(p, Depth)
  BY <1>8, <1>11, <1>12, <1>13
<1> QED  BY <1>14 DEF p

-----------------------------------------------------------------------------
(* Every location that Parent and GetChildren lead to.                     *)

\* The locations inside the world are those whose coordinates their level has.
LEMMA InsideMeans ==
    \A a : a \in LocsTo <=>
      /\ a \in AllLocs /\ a.l <= Depth
      /\ a.x < Pow2[a.l] /\ a.y < Pow2[a.l] /\ a.z < Pow2[a.l]
<1>1. \A l \in 0..Depth : l \in Nat /\ Pow2[l] \in Nat
  BY DepthAssumption, Pow2Def
<1>2. ASSUME NEW a \in LocsTo
      PROVE  /\ a \in AllLocs /\ a.l <= Depth
             /\ a.x < Pow2[a.l] /\ a.y < Pow2[a.l] /\ a.z < Pow2[a.l]
  <2>1. PICK l \in 0..Depth :
          a \in [x: 0..(Pow2[l] - 1), y: 0..(Pow2[l] - 1), z: 0..(Pow2[l] - 1), l: {l}]
    BY DEF LocsTo
  <2>2. l \in Nat /\ Pow2[l] \in Nat /\ a.l = l /\ l <= Depth
    BY <1>1, <2>1, DepthAssumption
  <2> QED  BY <2>1, <2>2 DEF AllLocs
<1>3. ASSUME NEW a \in AllLocs, a.l <= Depth,
             a.x < Pow2[a.l], a.y < Pow2[a.l], a.z < Pow2[a.l]
      PROVE  a \in LocsTo
  <2>1. a.l \in 0..Depth /\ Pow2[a.l] \in Nat
    BY <1>3, DepthAssumption, Pow2Def DEF AllLocs
  <2>2. a \in [x: 0..(Pow2[a.l] - 1), y: 0..(Pow2[a.l] - 1), z: 0..(Pow2[a.l] - 1), l: {a.l}]
    BY <1>3, <2>1 DEF AllLocs
  <2> QED  BY <2>1, <2>2 DEF LocsTo
<1> QED  BY <1>2, <1>3

\* Parent stays inside the world.
LEMMA ParentInside == \A a \in LocsTo : a.l > 0 => Parent(a) \in LocsTo
<1> SUFFICES ASSUME NEW a \in LocsTo, a.l > 0 PROVE Parent(a) \in LocsTo
  OBVIOUS
<1>1. /\ a \in AllLocs /\ a.l <= Depth
      /\ a.x < Pow2[a.l] /\ a.y < Pow2[a.l] /\ a.z < Pow2[a.l]
  BY InsideMeans
<1>2. a.x \in Nat /\ a.y \in Nat /\ a.z \in Nat /\ a.l \in Nat
  BY <1>1, Fields
<1>3. a.l - 1 \in Nat /\ (a.l - 1) + 1 = a.l /\ a.l - 1 <= Depth
  BY <1>1, <1>2, DepthAssumption
<1>4. PICK w \in Nat : w = Pow2[a.l - 1] /\ Pow2[a.l] = 2 * w
  BY <1>3, Pow2Def
<1>5. \A n \in Nat : n < 2 * w => n \div 2 \in Nat /\ n \div 2 < w
  BY <1>4
<1>6. Parent(a) = Loc(a.x \div 2, a.y \div 2, a.z \div 2, a.l - 1)
  BY DEF Parent
<1>7. /\ a.x \div 2 \in Nat /\ a.y \div 2 \in Nat /\ a.z \div 2 \in Nat
      /\ a.x \div 2 < w /\ a.y \div 2 < w /\ a.z \div 2 < w
  BY <1>1, <1>2, <1>4, <1>5
<1>8. Parent(a) \in AllLocs
  BY <1>3, <1>6, <1>7 DEF Loc, AllLocs
<1>9. /\ Parent(a).x = a.x \div 2 /\ Parent(a).y = a.y \div 2
      /\ Parent(a).z = a.z \div 2 /\ Parent(a).l = a.l - 1
  BY <1>6 DEF Loc
<1> HIDE DEF Parent
<1> QED  BY <1>3, <1>4, <1>7, <1>8, <1>9, InsideMeans

\* GetChildren stays inside the world.
LEMMA ChildrenInside == \A a \in LocsTo : a.l < Depth => GetChildren(a) \subseteq LocsTo
<1> SUFFICES ASSUME NEW a \in LocsTo, a.l < Depth, NEW c \in GetChildren(a) PROVE c \in LocsTo
  OBVIOUS
<1>1. /\ a \in AllLocs
      /\ a.x < Pow2[a.l] /\ a.y < Pow2[a.l] /\ a.z < Pow2[a.l]
  BY InsideMeans
<1>2. a.x \in Nat /\ a.y \in Nat /\ a.z \in Nat /\ a.l \in Nat
  BY <1>1, Fields
<1>3. PICK w \in Nat : w = Pow2[a.l] /\ Pow2[a.l + 1] = 2 * w
  BY <1>2, Pow2Def
<1>4. PICK i \in 0..1, j \in 0..1, k \in 0..1 :
        c = Loc(2 * a.x + i, 2 * a.y + j, 2 * a.z + k, a.l + 1)
  BY DEF GetChildren
<1>5. c.x = 2 * a.x + i /\ c.y = 2 * a.y + j /\ c.z = 2 * a.z + k /\ c.l = a.l + 1
  BY <1>4 DEF Loc
<1>6. \A n \in Nat, h \in 0..1 : n < w => 2 * n + h \in Nat /\ 2 * n + h < 2 * w
  BY <1>3
<1>7. c \in AllLocs
  BY <1>2, <1>4 DEF Loc, AllLocs
<1>8. c.x < 2 * w /\ c.y < 2 * w /\ c.z < 2 * w
  BY <1>1, <1>2, <1>3, <1>5, <1>6
<1>9. c.l <= Depth
  BY <1>2, <1>5, DepthAssumption
<1> QED  BY <1>3, <1>5, <1>7, <1>8, <1>9, InsideMeans

\* Climbing and descending keep to the octree.
Inside == up \in LocsTo /\ down \in LocsTo

\* Parent and GetChildren lead from no location of the octree to one outside it: the
\* coordinates of a level are below its power of two, at every level down to Depth.
THEOREM StaysInside == Spec => []Inside
<1>1. Init => Inside
  BY DEF Init, Inside
<1>2. Inside /\ [Next]_<<up, down>> => Inside'
  <2> SUFFICES ASSUME Inside, [Next]_<<up, down>> PROVE Inside'
    OBVIOUS
  <2>1. CASE Climb
    BY <2>1, ParentInside DEF Climb, Inside
  <2>2. CASE Descend
    BY <2>2, ChildrenInside DEF Descend, Inside
  <2>3. CASE UNCHANGED <<up, down>>
    BY <2>3 DEF Inside
  <2> QED  BY <2>1, <2>2, <2>3 DEF Next
<1> QED  BY <1>1, <1>2, PTL DEF Spec

\* The containers' order and the sort's order are strict and total on the locations
\* of the octree, and std::set yields a parent before its children.
THEOREM OrdersAlwaysFit == Spec => []OrdersFit
<1>1. Inside => OrdersFit
  BY InsideMeans, OrdersStrict, ParentPrecedes DEF Inside, OrdersFit
<1> QED  BY <1>1, StaysInside, PTL

\* No chunk of terrain is stored under the key of a chunk of voxels, but at the root.
THEOREM KeysAlwaysApart == Spec => []KeysApart
<1>1. Inside => KeysApart
  BY InsideMeans, KeysMeetAtRootOnly DEF Inside, KeysApart
<1> QED  BY <1>1, StaysInside, PTL

\* Navigation is right for an octree of any depth: the children of a location partition
\* its box, local coordinates lead back, and an ancestor's box encloses it.
THEOREM NavigationAlwaysFits == Spec => []NavigationFits
<1>1. Inside => NavigationFits
  <2> SUFFICES ASSUME Inside PROVE NavigationFits
    OBVIOUS
  <2>1. up \in AllLocs /\ down \in AllLocs /\ up.l <= Depth /\ down.l \in Nat
    BY InsideMeans, Fields DEF Inside
  <2>2. Cells \subseteq Nat \X Nat \X Nat
    BY DepthAssumption, Pow2Def DEF Cells
  <2>3. ChildrenPartition
    BY <2>1, <2>2, TreeIsConsistent, BoxesPartition DEF ChildrenPartition
  <2>4. LocalRoundTrip
    BY <2>1, LocalInverse, AncestorEncloses DEF LocalRoundTrip
  <2> QED  BY <2>3, <2>4 DEF NavigationFits
<1> QED  BY <1>1, StaysInside, PTL
=============================================================================
