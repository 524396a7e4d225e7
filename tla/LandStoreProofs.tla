-------------------------- MODULE LandStoreProofs ---------------------------
(***************************************************************************)
(* Proofs about the land store, for any size of a chunk and of the cache,  *)
(* any number of lands and of crashes: the chunk arithmetic of land.mod,   *)
(* then the operators the caches are built from, then the store.           *)
(***************************************************************************)
EXTENDS LandStoreProps, ListLemmas

(***************************************************************************)
(* Quotient and remainder determine a coordinate.                          *)
(***************************************************************************)
LEMMA DivMod ==
    ASSUME NEW p \in Nat
    PROVE  /\ ChunkPart(p) \in Nat
           /\ OffsetPart(p) \in 0 .. ChunkSize - 1
           /\ p = ChunkSize * ChunkPart(p) + OffsetPart(p)
BY ChunkSizeAssumption, Z3 DEF ChunkPart, OffsetPart

(***************************************************************************)
(* The chunk number is monotone in the coordinate.                         *)
(***************************************************************************)
LEMMA ChunkPartMonotone ==
    ASSUME NEW p \in Nat, NEW q \in Nat, p <= q
    PROVE  ChunkPart(p) <= ChunkPart(q)
<1> DEFINE a == ChunkPart(p)
           b == ChunkPart(q)
<1>1. SUFFICES ASSUME b + 1 <= a PROVE FALSE
  BY DivMod
<1>2. ChunkSize * (b + 1) <= ChunkSize * a
  <2> HIDE DEF a, b
  <2>1. a \in Nat /\ b \in Nat
    BY DivMod DEF a, b
  <2>2. PICK d \in Nat : a = b + 1 + d
    <3>1. a - (b + 1) \in Nat
      BY <1>1, <2>1
    <3> QED
      BY <3>1, <2>1
  <2>3. ChunkSize * a = ChunkSize * (b + 1) + ChunkSize * d
    BY <2>1, <2>2, ChunkSizeAssumption
  <2>4. ChunkSize * d \in Nat
    BY <2>2, ChunkSizeAssumption
  <2>5. ChunkSize * (b + 1) \in Nat
    BY <2>1, ChunkSizeAssumption
  <2> QED
    BY <2>3, <2>4, <2>5
<1>3. ChunkSize * (b + 1) = ChunkSize * b + ChunkSize
  BY DivMod, ChunkSizeAssumption
<1> QED
  BY <1>2, <1>3, DivMod, ChunkSizeAssumption

(***************************************************************************)
(* A chunk number between those of two ends of an edge strictly inside one *)
(* of them orders the coordinates themselves.                              *)
(***************************************************************************)
LEMMA OtherChunk ==
    ASSUME NEW p \in Nat, NEW q \in Nat, ChunkPart(p) < ChunkPart(q)
    PROVE  p < q
BY ChunkPartMonotone, DivMod

\* Both parts of a coordinate are naturals.
LEMMA ChunkPartType == \A p \in Nat : ChunkPart(p) \in Nat /\ OffsetPart(p) \in Nat
BY DivMod

\* Coordinates of different chunks are ordered as their chunks are.
LEMMA OtherChunkOrder ==
    ASSUME NEW p \in Nat, NEW q \in Nat, ChunkPart(p) <= ChunkPart(q), ChunkPart(p) # ChunkPart(q)
    PROVE  p < q
<1>1. ChunkPart(p) < ChunkPart(q)
  BY ChunkPartType
<1> QED
  BY <1>1, OtherChunk

\* Coordinates of one chunk are ordered as their offsets are.
LEMMA SameChunk ==
    ASSUME NEW p \in Nat, NEW q \in Nat, ChunkPart(p) = ChunkPart(q)
    PROVE  p <= q <=> OffsetPart(p) <= OffsetPart(q)
BY DivMod, ChunkSizeAssumption

(***************************************************************************)
(* A column a land covers lies in a chunk the land touches: looking in the *)
(* index of the column's own chunk misses no land.                         *)
(***************************************************************************)
THEOREM CoveredColumnIsIndexed ==
    ASSUME NEW r \in Rectangle, NEW c \in Column, Covers(r, c)
    PROVE  Touches(r, ChunkOf(c))
BY ChunkPartMonotone DEF Rectangle, Column, Covers, Touches, ChunkSpan, ChunkOf

(***************************************************************************)
(* ChunkLandManager::init, data.hpp:145-170: for a land that touches the   *)
(* chunk of a column, the column's cell of the chunk is painted exactly    *)
(* when the land covers the column.  Both directions matter: a cell too    *)
(* few is unprotected ground, one too many a neighbour's ground locked.    *)
(***************************************************************************)
THEOREM PaintsExact ==
    ASSUME NEW r \in Rectangle, NEW c \in Column, Touches(r, ChunkOf(c))
    PROVE  Paints(r, ChunkOf(c), c) <=> Covers(r, c)
<1>1. /\ r.x \in Nat /\ r.z \in Nat /\ r.dx \in Nat /\ r.dz \in Nat
      /\ c.x \in Nat /\ c.z \in Nat /\ c.dim = r.dim
  BY DEF Rectangle, Column, Touches, Covers, ChunkSpan, ChunkOf
<1>2. ASSUME NEW p \in Nat, NEW q \in Nat, ChunkPart(p) <= ChunkPart(q)
      PROVE  PaintFrom(p, ChunkPart(q)) <= OffsetPart(q) <=> p <= q
  <2>1. CASE ChunkPart(p) = ChunkPart(q)
    BY <2>1, SameChunk DEF PaintFrom
  <2>2. CASE ChunkPart(p) # ChunkPart(q)
    <3>1. p < q
      BY <1>2, <2>2, OtherChunkOrder
    <3> QED
      BY <2>2, <3>1, ChunkPartType DEF PaintFrom
  <2> QED
    BY <2>1, <2>2
<1>3. ASSUME NEW p \in Nat, NEW q \in Nat, ChunkPart(q) <= ChunkPart(p)
      PROVE  OffsetPart(q) <= PaintTo(p, ChunkPart(q)) <=> q <= p
  <2>1. CASE ChunkPart(p) = ChunkPart(q)
    BY <2>1, SameChunk DEF PaintTo
  <2>2. CASE ChunkPart(p) # ChunkPart(q)
    <3>1. q < p
      BY <1>3, <2>2, OtherChunkOrder
    <3>2. OffsetPart(q) <= ChunkSize - 1
      BY DivMod, ChunkSizeAssumption
    <3> QED
      BY <2>2, <3>1, <3>2 DEF PaintTo
  <2> QED
    BY <2>1, <2>2
<1>4. /\ ChunkPart(r.x) <= ChunkPart(c.x) /\ ChunkPart(c.x) <= ChunkPart(r.dx)
      /\ ChunkPart(r.z) <= ChunkPart(c.z) /\ ChunkPart(c.z) <= ChunkPart(r.dz)
  BY DEF Touches, Covers, ChunkSpan, ChunkOf
<1> QED
  BY <1>1, <1>2, <1>3, <1>4 DEF Paints, Covers, ChunkOf

(***************************************************************************)
(* A word split at a position determines its two parts.                    *)
(***************************************************************************)
LEMMA SplitWord ==
    ASSUME NEW H \in Nat, NEW a \in Int, NEW b \in Int,
           NEW y \in 0 .. H - 1, NEW v \in 0 .. H - 1,
           a * H + y = b * H + v
    PROVE  a = b /\ y = v
<1>1. ASSUME NEW c \in Int, NEW d \in Int, c < d
      PROVE  c * H + H <= d * H
  <2>1. PICK k \in Nat : d = c + 1 + k
    <3>1. d - (c + 1) \in Nat
      BY <1>1
    <3> QED
      BY <3>1
  <2>2. d * H = c * H + H + k * H
    BY <2>1
  <2>3. k * H \in Nat
    BY <2>1
  <2> QED
    BY <2>2, <2>3
<1>2. ~(a < b)
  BY <1>1
<1>3. ~(b < a)
  BY <1>1
<1> QED
  BY <1>2, <1>3

\* The weight of the dimension in a hash is a natural.
LEMMA HashDimType == HashDim \in Nat
BY SMT DEF HashDim

(***************************************************************************)
(* CLCache::get_or_build, data.hpp:218: the hash identifies the chunk.     *)
(* Chunk coordinates are lpos_t >> 4, below 2^28, and a dimension below 8  *)
(* keeps its bits apart from those of x and of z.                          *)
(***************************************************************************)
THEOREM ChunkHashInjective ==
    ASSUME NEW x \in Nat, NEW z \in 0 .. HashDim - 1, NEW dim \in 0 .. 7,
           NEW u \in Nat, NEW w \in 0 .. HashDim - 1, NEW e \in 0 .. 7,
           ChunkHash(x, z, dim) = ChunkHash(u, w, e)
    PROVE  x = u /\ z = w /\ dim = e
<1>1. HashDim \in Nat
  BY HashDimType
<1>2. (8 * x + dim) * HashDim + z = (8 * u + e) * HashDim + w
  BY <1>1, Z3 DEF ChunkHash, HashX
<1>3. 8 * x + dim = 8 * u + e /\ z = w
  <2>1. 8 * x + dim \in Int /\ 8 * u + e \in Int
    BY Z3
  <2> QED
    BY <1>1, <1>2, <2>1, SplitWord, Z3
<1> QED
  BY <1>3, Z3

(***************************************************************************)
(* The loops over an area visit each cell once, in order, and stop at its  *)
(* last: After moves to the next cell of the area and to no other.         *)
(***************************************************************************)
THEOREM AfterIsNext ==
    ASSUME NEW area \in Rectangle, NEW c \in Column, Covers(area, c), ~AtEnd(area, c)
    PROVE  /\ Covers(area, After(area, c))
           /\ After(area, c) \in Column
           /\ Before(c, After(area, c))
           /\ \A d \in Column : Covers(area, d) /\ Before(c, d) =>
                  d = After(area, c) \/ Before(After(area, c), d)
<1>1. CASE c.z < area.dz
  BY <1>1 DEF Rectangle, Column, Covers, AtEnd, After, Before
<1>2. CASE ~(c.z < area.dz)
  <2>1. After(area, c) = [x |-> c.x + 1, z |-> area.z, dim |-> c.dim]
    BY <1>2 DEF After, Column
  <2> QED
    BY <1>2, <2>1 DEF Rectangle, Column, Covers, AtEnd, Before
<1> QED
  BY <1>1, <1>2

-----------------------------------------------------------------------------

Slot == [chunk : ChunkKey, lids : Seq(Lids)]

\* The places of a list are finitely many.
LEMMA PlacesFinite == \A n \in Nat : IsFiniteSet(1 .. n)
  BY FS_Interval

(***************************************************************************)
(* The references of finitely many chunks with finite lists can be counted.*)
(***************************************************************************)
LEMMA ReferencesFinite ==
    ASSUME NEW slots \in Seq(Slot), NEW l
    PROVE  IsFiniteSet(References(slots, l)) /\ Held(slots, l) \in Nat
<1> DEFINE places(i) == {n \in DOMAIN slots[i].lids : slots[i].lids[n] = l}
           of(i) == {<<i, j>> : j \in places(i)}
           all == {of(i) : i \in DOMAIN slots}
<1>1. DOMAIN slots = 1 .. Len(slots) /\ Len(slots) \in Nat
  BY LenProperties
<1>2. ASSUME NEW i \in DOMAIN slots PROVE IsFiniteSet(of(i))
  <2> HIDE DEF places
  <2>1. slots[i] \in Slot
    BY <1>1, ElementOfSeq
  <2>2. slots[i].lids \in Seq(Lids)
    BY <2>1 DEF Slot
  <2>3. DOMAIN slots[i].lids = 1 .. Len(slots[i].lids) /\ Len(slots[i].lids) \in Nat
    BY <2>2, LenProperties
  <2>4. IsFiniteSet(1 .. Len(slots[i].lids))
    BY <2>3, PlacesFinite
  <2>5. places(i) \in SUBSET (1 .. Len(slots[i].lids))
    BY <2>3 DEF places
  <2>6. IsFiniteSet(places(i))
    BY <2>4, <2>5, FS_Subset
  <2>7. [j \in places(i) |-> <<i, j>>] \in Surjection(places(i), of(i))
    BY DEF Surjection
  <2> QED  BY <2>6, <2>7, FS_Surjection
<1>3. IsFiniteSet(DOMAIN slots)
  BY <1>1, PlacesFinite
<1>4. [i \in DOMAIN slots |-> of(i)] \in Surjection(DOMAIN slots, all)
  BY DEF Surjection
<1>5. IsFiniteSet(all)
  BY <1>3, <1>4, FS_Surjection
<1>6. IsFiniteSet(UNION all)
  BY <1>2, <1>5, FS_UNION
<1> QED  BY <1>6, FS_CardinalityType DEF References, Held

(***************************************************************************)
(* No chunks hold no reference.                                            *)
(***************************************************************************)
LEMMA HeldNone == \A l : Held(<<>>, l) = 0
  BY FS_EmptySet DEF Held, References

(***************************************************************************)
(* Two runs of chunks together hold what each of them holds.               *)
(***************************************************************************)
LEMMA HeldConcat ==
    ASSUME NEW s \in Seq(Slot), NEW t \in Seq(Slot), NEW l
    PROVE  Held(s \o t, l) = Held(s, l) + Held(t, l)
<1> DEFINE n == Len(s)
           st == s \o t
           moved == {<<r[1] + n, r[2]>> : r \in References(t, l)}
<1>1. /\ n \in Nat /\ DOMAIN s = 1 .. n
      /\ Len(t) \in Nat /\ DOMAIN t = 1 .. Len(t)
      /\ st \in Seq(Slot) /\ DOMAIN st = 1 .. n + Len(t)
  BY LenProperties, ConcatProperties
<1>2. \A i \in 1 .. n + Len(t) : st[i] = IF i <= n THEN s[i] ELSE t[i - n]
  BY ConcatProperties
<1> HIDE DEF st
<1>3. \A u, r :
         r \in References(u, l) <=>
            \E i \in DOMAIN u : \E j \in DOMAIN u[i].lids : u[i].lids[j] = l /\ r = <<i, j>>
  BY DEF References
<1>4. References(st, l) = References(s, l) \cup moved
  <2>1. ASSUME NEW r \in References(st, l) PROVE r \in References(s, l) \cup moved
    <3>1. PICK i \in 1 .. n + Len(t) :
             \E j \in DOMAIN st[i].lids : st[i].lids[j] = l /\ r = <<i, j>>
      BY <2>1, <1>1, <1>3, SMTT(30)
    <3>2. CASE i <= n
      <4>1. i \in DOMAIN s /\ s[i] = st[i]
        BY <3>2, <1>1, <1>2
      <4> QED  BY <4>1, <3>1, <1>3
    <3>3. CASE ~(i <= n)
      <4>1. i - n \in DOMAIN t /\ t[i - n] = st[i] /\ i = (i - n) + n
        BY <3>3, <1>1, <1>2
      <4>2. PICK j : r = <<i, j>> /\ <<i - n, j>> \in References(t, l)
        BY <4>1, <3>1, <1>3
      <4> QED  BY <4>1, <4>2
    <3> QED  BY <3>2, <3>3
  <2>2. ASSUME NEW r \in References(s, l) PROVE r \in References(st, l)
    <3>1. PICK i \in 1 .. n : \E j \in DOMAIN s[i].lids : s[i].lids[j] = l /\ r = <<i, j>>
      BY <1>1, <1>3, SMTT(30)
    <3>2. i \in DOMAIN st /\ st[i] = s[i]
      BY <1>1, <1>2
    <3> QED  BY <3>1, <3>2, <1>1, <1>3
  <2>3. ASSUME NEW q \in References(t, l) PROVE <<q[1] + n, q[2]>> \in References(st, l)
    <3>1. PICK i \in 1 .. Len(t) : \E j \in DOMAIN t[i].lids : t[i].lids[j] = l /\ q = <<i, j>>
      BY <1>1, <1>3, SMTT(30)
    <3>2. PICK j \in DOMAIN t[i].lids : t[i].lids[j] = l /\ q = <<i, j>>
      BY <3>1
    <3>3. i + n \in 1 .. n + Len(t) /\ ~(i + n <= n) /\ (i + n) - n = i
      BY <1>1
    <3>4. i + n \in DOMAIN st /\ st[i + n] = t[i]
      BY <3>3, <1>1, <1>2
    <3>5. <<i + n, j>> \in References(st, l)
      BY <3>2, <3>4, <1>3
    <3> QED  BY <3>2, <3>5
  <2> QED  BY <2>1, <2>2, <2>3
<1>5. References(s, l) \cap moved = {}
  <2>1. \A r \in References(s, l) : r[1] \in 1 .. n
    BY <1>1, <1>3
  <2>2. \A q \in References(t, l) : q[1] \in 1 .. Len(t)
    BY <1>1, <1>3
  <2>3. \A r \in moved : r[1] > n
    BY <2>2, <1>1
  <2> QED  BY <2>1, <2>3, <1>1
<1>6. Cardinality(moved) = Held(t, l) /\ IsFiniteSet(moved)
  <2> DEFINE shift == [r \in References(t, l) |-> <<r[1] + n, r[2]>>]
  <2>1. \A r \in References(t, l) : r[1] \in Nat /\ r = <<r[1], r[2]>>
    BY <1>1, <1>3
  <2>2. shift \in Bijection(References(t, l), moved)
    <3>1. shift \in Surjection(References(t, l), moved)
      BY DEF Surjection
    <3>2. \A q, r \in References(t, l) : shift[q] = shift[r] => q = r
      <4> SUFFICES ASSUME NEW q \in References(t, l), NEW r \in References(t, l),
                          shift[q] = shift[r]
                   PROVE  q = r
        OBVIOUS
      <4>1. q[1] + n = r[1] + n /\ q[2] = r[2]
        OBVIOUS
      <4>2. q[1] = r[1]
        BY <4>1, <2>1, <1>1
      <4> QED  BY <4>1, <4>2, <2>1
    <3> QED  BY <3>1, <3>2 DEF Bijection, Injection, IsInjective, Surjection
  <2>3. ExistsBijection(References(t, l), moved)
    BY <2>2 DEF ExistsBijection
  <2> QED  BY <2>3, ReferencesFinite, FS_Bijection DEF Held
<1>7. Cardinality(References(s, l) \cup moved) =
         Cardinality(References(s, l)) + Cardinality(moved) - Cardinality({})
  BY <1>5, <1>6, ReferencesFinite, FS_Union
<1>8. Held(s, l) \in Nat /\ Held(t, l) \in Nat
  BY ReferencesFinite
<1> QED  BY <1>4, <1>6, <1>7, <1>8, FS_EmptySet DEF Held, st

(***************************************************************************)
(* Moving a chunk to the front of the cache changes no count.              *)
(***************************************************************************)
LEMMA HeldToFront ==
    ASSUME NEW s \in Seq(Slot), NEW i \in DOMAIN s, NEW l
    PROVE  /\ <<s[i]>> \o RemoveAt(s, i) \in Seq(Slot)
           /\ Held(<<s[i]>> \o RemoveAt(s, i), l) = Held(s, l)
<1> DEFINE left == SubSeq(s, 1, i - 1)
           one == <<s[i]>>
           right == SubSeq(s, i + 1, Len(s))
<1>1. /\ left \in Seq(Slot) /\ one \in Seq(Slot) /\ right \in Seq(Slot)
      /\ s = left \o (one \o right)
  BY CutAt
<1>2. RemoveAt(s, i) = left \o right
  BY DEF RemoveAt
<1> HIDE DEF left, one, right
<1>3. one \o right \in Seq(Slot) /\ left \o right \in Seq(Slot)
  BY <1>1, ConcatProperties
<1> DEFINE twoRight == one \o right
           twoLeft == left \o right
<1> HIDE DEF twoRight, twoLeft
<1>4. Held(s, l) = Held(left, l) + (Held(one, l) + Held(right, l))
  <2>1. Held(twoRight, l) = Held(one, l) + Held(right, l)
    BY <1>1, HeldConcat DEF twoRight
  <2>2. Held(left \o twoRight, l) = Held(left, l) + Held(twoRight, l)
    <3>1. twoRight \in Seq(Slot)
      BY <1>3 DEF twoRight
    <3> QED  BY <3>1, <1>1, HeldConcat
  <2> QED  BY <1>1, <2>1, <2>2 DEF twoRight
<1>5. Held(one \o twoLeft, l) = Held(one, l) + (Held(left, l) + Held(right, l))
  <2>1. Held(twoLeft, l) = Held(left, l) + Held(right, l)
    BY <1>1, HeldConcat DEF twoLeft
  <2>2. Held(one \o twoLeft, l) = Held(one, l) + Held(twoLeft, l)
    <3>1. twoLeft \in Seq(Slot)
      BY <1>3 DEF twoLeft
    <3> QED  BY <3>1, <1>1, HeldConcat
  <2> QED  BY <2>1, <2>2
<1>6. Held(left, l) \in Nat /\ Held(one, l) \in Nat /\ Held(right, l) \in Nat
  BY <1>1, ReferencesFinite
<1>7. one \o twoLeft \in Seq(Slot)
  BY <1>1, <1>3, ConcatProperties DEF twoLeft
<1> QED  BY <1>2, <1>4, <1>5, <1>6, <1>7 DEF one, twoLeft

(***************************************************************************)
(* The tail that is given up and the chunks that stay are the cache.       *)
(***************************************************************************)
LEMMA HeldVictims ==
    ASSUME lru \in Seq(Slot), NEW l
    PROVE  /\ Survivors \in Seq(Slot) /\ Victims \in Seq(Slot)
           /\ Held(lru, l) = Held(Survivors, l) + Held(Victims, l)
<1>1. CASE Len(lru) = CacheSize
  <2> DEFINE n == Len(lru)
  <2>1. n \in Nat \ {0} /\ n \in DOMAIN lru
    BY <1>1, StoreAssumption, LenProperties
  <2>2. /\ SubSeq(lru, 1, n - 1) \in Seq(Slot) /\ <<lru[n]>> \in Seq(Slot)
        /\ SubSeq(lru, n + 1, n) \in Seq(Slot)
        /\ lru = SubSeq(lru, 1, n - 1) \o (<<lru[n]>> \o SubSeq(lru, n + 1, n))
    BY <2>1, CutAt
  <2>3. SubSeq(lru, n + 1, n) = <<>>
    BY <2>1, SubSeqEmpty
  <2>4. Survivors = SubSeq(lru, 1, n - 1) /\ Victims = <<lru[n]>>
    BY <1>1 DEF Survivors, Victims, Front, Last
  <2>5. lru = Survivors \o Victims
    <3>1. <<lru[n]>> \o <<>> = <<lru[n]>>
      BY <2>2, ConcatEmptySeq
    <3>2. <<lru[n]>> \o SubSeq(lru, n + 1, n) = <<lru[n]>>
      BY <2>3, <3>1
    <3> QED  BY <2>2, <2>4, <3>2, Zenon
  <2>6. Survivors \in Seq(Slot) /\ Victims \in Seq(Slot)
    BY <2>2, <2>4
  <2>7. Held(Survivors \o Victims, l) = Held(Survivors, l) + Held(Victims, l)
    BY <2>6, HeldConcat
  <2> QED  BY <2>5, <2>6, <2>7
<1>2. CASE Len(lru) # CacheSize
  <2>1. Survivors = lru /\ Victims = <<>>
    BY <1>2 DEF Survivors, Victims
  <2>2. Held(lru, l) \in Nat
    BY ReferencesFinite
  <2>3. Held(Victims, l) = 0 /\ Victims \in Seq(Slot)
    BY <2>1, HeldNone, EmptySeq
  <2> QED  BY <2>1, <2>2, <2>3
<1> QED  BY <1>1, <1>2

-----------------------------------------------------------------------------
(***************************************************************************)
(* What the two caches are to each other: all references are to lands that *)
(* are cached, and the counts are exact.                                   *)
(***************************************************************************)
Cell == [land : Land, ref : Nat \ {0}]

Counted(slots, f) ==
    /\ slots \in Seq(Slot)
    /\ DOMAIN f \subseteq Lids
    /\ f \in [DOMAIN f -> Cell]
    /\ \A i \in DOMAIN slots : ToSet(slots[i].lids) \subseteq DOMAIN f
    /\ \A l \in DOMAIN f : f[l].ref = Held(slots, l)

(***************************************************************************)
(* A land is held when, and only when, some chunk lists it.                *)
(***************************************************************************)
LEMMA HeldListed ==
    ASSUME NEW slots \in Seq(Slot), NEW l
    PROVE  Held(slots, l) > 0 <=> \E i \in DOMAIN slots : l \in ToSet(slots[i].lids)
<1>1. IsFiniteSet(References(slots, l)) /\ Held(slots, l) \in Nat
  BY ReferencesFinite
<1>2. Held(slots, l) = 0 <=> References(slots, l) = {}
  BY <1>1, FS_EmptySet DEF Held
<1>3. References(slots, l) # {} <=>
         \E i \in DOMAIN slots : \E j \in DOMAIN slots[i].lids : slots[i].lids[j] = l
  <2>1. \A r : r \in References(slots, l) <=>
           \E i \in DOMAIN slots : \E j \in DOMAIN slots[i].lids :
              slots[i].lids[j] = l /\ r = <<i, j>>
    BY DEF References
  <2>2. ASSUME NEW i \in DOMAIN slots, NEW j \in DOMAIN slots[i].lids, slots[i].lids[j] = l
        PROVE  <<i, j>> \in References(slots, l)
    BY <2>1, <2>2
  <2> QED  BY <2>1, <2>2
<1>4. ASSUME NEW s PROVE l \in ToSet(s) <=> \E j \in DOMAIN s : s[j] = l
  BY DEF ToSet
<1> QED  BY <1>1, <1>2, <1>3, <1>4

(***************************************************************************)
(* Making room keeps the counts: the lands of the tail lose its references *)
(* and those it alone held are freed.                                      *)
(***************************************************************************)
LEMMA ReleaseCounted ==
    ASSUME Counted(lru, fast)
    PROVE  Counted(Survivors, Release(fast, Victims))
<1> DEFINE f == Release(fast, Victims)
<1>1. /\ lru \in Seq(Slot) /\ Survivors \in Seq(Slot) /\ Victims \in Seq(Slot)
      /\ \A l : Held(lru, l) = Held(Survivors, l) + Held(Victims, l)
      /\ \A l : Held(Survivors, l) \in Nat /\ Held(Victims, l) \in Nat
  BY HeldVictims, ReferencesFinite DEF Counted
<1>2. DOMAIN f = {m \in DOMAIN fast : fast[m].ref > Held(Victims, m)}
  BY DEF Release
<1>3. \A l \in DOMAIN f : f[l] = [fast[l] EXCEPT !.ref = fast[l].ref - Held(Victims, l)]
  BY DEF Release
<1>4. ASSUME NEW l \in DOMAIN fast
      PROVE  fast[l] \in Cell /\ fast[l].ref = Held(Survivors, l) + Held(Victims, l)
  BY <1>1 DEF Counted
<1>5. ASSUME NEW l \in DOMAIN f
      PROVE  f[l] \in Cell /\ f[l].ref = Held(Survivors, l)
  <2>1. l \in DOMAIN fast /\ fast[l].ref > Held(Victims, l)
    BY <1>2
  <2>2. fast[l] \in Cell /\ fast[l].ref - Held(Victims, l) = Held(Survivors, l)
        /\ Held(Survivors, l) \in Nat \ {0}
    BY <2>1, <1>1, <1>4
  <2>3. f[l] = [fast[l] EXCEPT !.ref = Held(Survivors, l)]
    BY <2>2, <1>3, Zenon
  <2> QED  BY <2>2, <2>3 DEF Cell
<1>6. ASSUME NEW i \in DOMAIN Survivors, NEW l \in ToSet(Survivors[i].lids)
      PROVE  l \in DOMAIN f
  <2>1. Held(Survivors, l) > 0
    BY <1>1, HeldListed
  <2>2. Held(lru, l) > 0
    BY <2>1, <1>1
  <2>3. l \in DOMAIN fast
    BY <2>2, <1>1, HeldListed DEF Counted
  <2> QED  BY <2>1, <2>3, <1>1, <1>2, <1>4
<1>7. f = [l \in DOMAIN f |-> f[l]]
  BY DEF Release
<1> HIDE DEF f
<1>8. f \in [DOMAIN f -> Cell]
  BY <1>5, <1>7
<1>9. DOMAIN f \subseteq Lids
  BY <1>2 DEF Counted
<1>10. Counted(Survivors, f)
  BY <1>1, <1>5, <1>6, <1>8, <1>9 DEF Counted
<1> QED  BY <1>10 DEF f

(***************************************************************************)
(* Loading a chunk keeps the counts.                                       *)
(***************************************************************************)
LEMMA RequestCounted ==
    ASSUME NEW s, NEW f, Counted(s, f), NEW slot \in Slot,
           DOMAIN rec \subseteq Lids, rec \in [DOMAIN rec -> Land],
           ToSet(slot.lids) \subseteq DOMAIN f \cup DOMAIN rec
    PROVE  Counted(<<slot>> \o s, Request(f, slot))
<1> DEFINE g == Request(f, slot)
           one == <<slot>>
<1>1. one \in Seq(Slot) /\ one[1] = slot /\ DOMAIN one = {1} /\ s \in Seq(Slot)
  BY DEF Counted
<1>2. DOMAIN g = DOMAIN f \cup ToSet(slot.lids)
  BY DEF Request, RequestFrom
<1>3. \A l \in DOMAIN g :
         g[l] = IF l \in DOMAIN f THEN [f[l] EXCEPT !.ref = f[l].ref + Held(one, l)]
                ELSE [land |-> rec[l], ref |-> Held(one, l)]
  BY DEF Request, RequestFrom
<1>4. g = [l \in DOMAIN g |-> g[l]]
  BY DEF Request, RequestFrom
<1> HIDE DEF g, one
<1>5. ASSUME NEW l
      PROVE  /\ Held(one \o s, l) = Held(one, l) + Held(s, l)
             /\ Held(one, l) \in Nat /\ Held(s, l) \in Nat
             /\ Held(one, l) > 0 <=> l \in ToSet(slot.lids)
             /\ Held(s, l) > 0 => l \in DOMAIN f
  <2>1. Held(one \o s, l) = Held(one, l) + Held(s, l)
    BY <1>1, HeldConcat
  <2>2. Held(one, l) \in Nat /\ Held(s, l) \in Nat
    BY <1>1, ReferencesFinite
  <2>3. Held(one, l) > 0 <=> l \in ToSet(slot.lids)
    BY <1>1, HeldListed
  <2>4. Held(s, l) > 0 => l \in DOMAIN f
    BY <1>1, HeldListed DEF Counted
  <2> QED  BY <2>1, <2>2, <2>3, <2>4
<1>6. ASSUME NEW l \in DOMAIN g
      PROVE  g[l] \in Cell /\ g[l].ref = Held(one \o s, l) /\ l \in Lids
  <2>1. CASE l \in DOMAIN f
    <3>1. f[l] \in Cell /\ f[l].ref = Held(s, l) /\ l \in Lids
      BY <2>1 DEF Counted
    <3>2. g[l] = [f[l] EXCEPT !.ref = f[l].ref + Held(one, l)]
      BY <2>1, <1>3
    <3> QED  BY <3>1, <3>2, <1>5 DEF Cell
  <2>2. CASE l \notin DOMAIN f
    <3>1. l \in ToSet(slot.lids) /\ l \in DOMAIN rec /\ rec[l] \in Land /\ l \in Lids
      BY <2>2, <1>2
    <3>2. g[l] = [land |-> rec[l], ref |-> Held(one, l)]
      BY <2>2, <1>3
    <3>3. Held(one, l) > 0 /\ Held(s, l) = 0
      BY <3>1, <2>2, <1>5
    <3> QED  BY <3>1, <3>2, <3>3, <1>5 DEF Cell
  <2> QED  BY <2>1, <2>2
<1>7. /\ one \o s \in Seq(Slot)
      /\ DOMAIN (one \o s) = 1 .. Len(one \o s)
  BY <1>1, ConcatProperties, LenProperties
<1>8. ASSUME NEW i \in DOMAIN (one \o s), NEW l \in ToSet((one \o s)[i].lids)
      PROVE  l \in DOMAIN g
  <2>1. Held(one \o s, l) > 0
    BY <1>7, HeldListed
  <2> QED  BY <2>1, <1>5, <1>2
<1>9. g \in [DOMAIN g -> Cell]
  BY <1>4, <1>6
<1>10. Counted(one \o s, g)
  BY <1>6, <1>7, <1>8, <1>9 DEF Counted
<1> QED  BY <1>10 DEF g, one

(***************************************************************************)
(* A purge frees every land.                                               *)
(***************************************************************************)
LEMMA PurgeFreesAll ==
    ASSUME NEW s, NEW f, Counted(s, f)
    PROVE  DOMAIN Release(f, s) = {} /\ Counted(<<>>, Release(f, s))
<1>1. ASSUME NEW l \in DOMAIN f PROVE ~(f[l].ref > Held(s, l))
  <2>1. f[l].ref = Held(s, l) /\ f[l].ref \in Nat
    BY DEF Counted, Cell
  <2> QED  BY <2>1
<1>2. DOMAIN Release(f, s) = {}
  BY <1>1 DEF Release
<1>3. Release(f, s) \in [DOMAIN Release(f, s) -> Cell]
  BY <1>2 DEF Release
<1> QED  BY <1>2, <1>3, EmptySeq DEF Counted

-----------------------------------------------------------------------------
(***************************************************************************)
(* What cached chunks and lands are to the database.                       *)
(***************************************************************************)
Coherent(slots, f) ==
    /\ \A i \in DOMAIN slots : slots[i].lids = Listed(slots[i].chunk)
    /\ \A l \in DOMAIN f : l \in DOMAIN rec /\ f[l].land = rec[l]

DiskType ==
    /\ DOMAIN rec \subseteq Lids
    /\ rec \in [DOMAIN rec -> Land]
    /\ DOMAIN index \subseteq ChunkKey
    /\ index \in [DOMAIN index -> Seq(Lids)]

\* A chunk's list, stored or missing, is a list of identifiers.
LEMMA ListedType ==
    ASSUME DiskType, NEW k
    PROVE  Listed(k) \in Seq(Lids)
  BY EmptySeq DEF Listed, DiskType

(***************************************************************************)
(* Looking a chunk up keeps the counts exact.                              *)
(***************************************************************************)
LEMMA TouchCounted ==
    ASSUME DiskType, Counted(lru, fast), NEW k \in ChunkKey, Loadable(k)
    PROVE  /\ Counted(LruAfter(k), FastAfter(k))
           /\ LruAfter(k) # <<>> /\ 1 \in DOMAIN LruAfter(k)
           /\ LruAfter(k)[1].chunk = k
<1>1. CASE Cached(k)
  <2> DEFINE i == SlotOf(k)
             s == <<lru[i]>> \o RemoveAt(lru, i)
  <2>1. i \in DOMAIN lru /\ lru[i].chunk = k
    BY <1>1 DEF Cached, SlotOf
  <2>2. LruAfter(k) = s /\ FastAfter(k) = fast
    BY <1>1 DEF LruAfter, FastAfter
  <2>3. /\ s \in Seq(Slot) /\ \A l : Held(s, l) = Held(lru, l)
        /\ RemoveAt(lru, i) \in Seq(Slot) /\ <<lru[i]>> \in Seq(Slot)
    BY <2>1, HeldToFront, CutAt DEF Counted
  <2>4. Len(s) > 0 /\ DOMAIN s = 1 .. Len(s) /\ s[1] = lru[i]
    <3>1. Len(<<lru[i]>>) = 1 /\ <<lru[i]>>[1] = lru[i]
      OBVIOUS
    <3>2. Len(RemoveAt(lru, i)) \in Nat
      BY <2>3, LenProperties
    <3> QED  BY <3>1, <3>2, <2>3, ConcatProperties, LenProperties
  <2> HIDE DEF s, i
  <2>5. ASSUME NEW j \in DOMAIN s, NEW l \in ToSet(s[j].lids)
        PROVE  l \in DOMAIN fast
    <3>1. Held(s, l) > 0
      BY <2>3, HeldListed
    <3>2. Held(lru, l) > 0
      BY <3>1, <2>3
    <3> QED  BY <3>2, HeldListed DEF Counted
  <2>6. Counted(s, fast)
    BY <2>3, <2>5 DEF Counted
  <2>7. s # <<>>
    BY <2>4
  <2> QED  BY <2>1, <2>2, <2>4, <2>6, <2>7
<1>2. CASE ~Cached(k)
  <2> DEFINE f == Release(fast, Victims)
             s == <<Loaded(k)>> \o Survivors
  <2>1. LruAfter(k) = s /\ FastAfter(k) = Request(f, Loaded(k))
    BY <1>2 DEF LruAfter, FastAfter
  <2>2. Counted(Survivors, f)
    BY ReleaseCounted
  <2>3. Loaded(k) \in Slot /\ Loaded(k).chunk = k /\ Loaded(k).lids = Listed(k)
    BY ListedType DEF Loaded, Slot
  <2>4. ToSet(Loaded(k).lids) \subseteq DOMAIN f \cup DOMAIN rec
    BY <1>2, <2>3 DEF Loadable
  <2> HIDE DEF f
  <2>5. Counted(s, Request(f, Loaded(k)))
    BY <2>2, <2>3, <2>4, RequestCounted DEF DiskType
  <2>6. Len(s) > 0 /\ s[1] = Loaded(k) /\ DOMAIN s = 1 .. Len(s)
    <3>1. <<Loaded(k)>> \in Seq(Slot) /\ Len(<<Loaded(k)>>) = 1 /\ <<Loaded(k)>>[1] = Loaded(k)
      BY <2>3
    <3>2. Survivors \in Seq(Slot) /\ Len(Survivors) \in Nat
      BY <2>2, LenProperties DEF Counted
    <3> QED  BY <3>1, <3>2, ConcatProperties, LenProperties
  <2> HIDE DEF s
  <2>7. s # <<>>
    BY <2>6
  <2> QED  BY <2>1, <2>3, <2>5, <2>6, <2>7
<1> QED  BY <1>1, <1>2

(***************************************************************************)
(* Every cached chunk after a lookup was cached before or is the one just  *)
(* loaded.                                                                 *)
(***************************************************************************)
LEMMA TouchSlots ==
    ASSUME DiskType, Counted(lru, fast), NEW k \in ChunkKey, NEW j \in DOMAIN LruAfter(k)
    PROVE  LruAfter(k)[j] = Loaded(k) \/ \E i \in DOMAIN lru : LruAfter(k)[j] = lru[i]
<1>1. lru \in Seq(Slot) /\ DOMAIN lru = 1 .. Len(lru) /\ Len(lru) \in Nat
  BY LenProperties DEF Counted
<1>2. CASE Cached(k)
  <2> DEFINE i == SlotOf(k)
             rest == RemoveAt(lru, i)
             one == <<lru[i]>>
  <2>1. i \in 1 .. Len(lru)
    BY <1>1, <1>2 DEF Cached, SlotOf
  <2>2. /\ one \in Seq(Slot) /\ Len(one) = 1 /\ one[1] = lru[i]
        /\ rest \in Seq(Slot)
    BY <1>1, <2>1, CutAt
  <2>3. ASSUME NEW n \in 1 .. Len(rest) PROVE \E m \in DOMAIN lru : rest[n] = lru[m]
    <3> DEFINE left == SubSeq(lru, 1, i - 1)
               right == SubSeq(lru, i + 1, Len(lru))
    <3>1. \A m \in 1 .. Len(lru) : lru[m] \in Slot
      BY <1>1, ElementOfSeq
    <3>2. /\ left \in Seq(Slot) /\ Len(left) = i - 1
          /\ \A m \in 1 .. i - 1 : left[m] = lru[m]
      BY <3>1, <1>1, <2>1, SubSeqProperties
    <3>3. /\ right \in Seq(Slot) /\ Len(right) = Len(lru) - i
          /\ \A m \in 1 .. Len(lru) - i : right[m] = lru[m + i]
      <4>1. /\ right \in Seq(Slot)
            /\ Len(right) = IF i + 1 <= Len(lru) THEN Len(lru) - (i + 1) + 1 ELSE 0
            /\ \A m \in 1 .. Len(lru) - (i + 1) + 1 : right[m] = lru[i + 1 + m - 1]
        BY <3>1, <1>1, <2>1, SubSeqProperties, SMTT(30)
      <4> HIDE DEF right
      <4>2. Len(right) = Len(lru) - i
        BY <4>1, <1>1, <2>1, SMTT(30)
      <4>3. ASSUME NEW m \in 1 .. Len(lru) - i PROVE right[m] = lru[m + i]
        <5>1. m \in 1 .. Len(lru) - (i + 1) + 1 /\ i + 1 + m - 1 = m + i
          BY <1>1, <2>1
        <5> QED  BY <5>1, <4>1
      <4> QED  BY <4>1, <4>2, <4>3
    <3>4. rest = left \o right
      BY DEF RemoveAt
    <3> HIDE DEF left, right, rest
    <3>5. Len(rest) = Len(left) + Len(right)
          /\ rest[n] = IF n <= Len(left) THEN left[n] ELSE right[n - Len(left)]
      <4>1. Len(left \o right) = Len(left) + Len(right)
        BY <3>2, <3>3, ConcatProperties
      <4>2. n \in 1 .. Len(left) + Len(right)
        BY <4>1, <3>4
      <4> QED  BY <4>1, <4>2, <3>2, <3>3, <3>4, ConcatProperties
    <3>6. CASE n <= i - 1
      BY <3>6, <3>5, <3>2, <1>1, <2>1
    <3>7. CASE ~(n <= i - 1)
      <4>1. n - (i - 1) \in 1 .. Len(lru) - i /\ n - (i - 1) + i \in 1 .. Len(lru)
        BY <3>7, <3>5, <3>2, <3>3, <1>1, <2>1, SMTT(30)
      <4>2. rest[n] = right[n - (i - 1)]
        BY <3>7, <3>5, <3>2
      <4> QED  BY <4>1, <4>2, <3>3, <1>1
    <3> QED  BY <3>6, <3>7
  <2>4. LruAfter(k) = one \o rest
    BY <1>2 DEF LruAfter
  <2> HIDE DEF one, rest, i
  <2>5. /\ Len(rest) \in Nat
        /\ DOMAIN LruAfter(k) = 1 .. 1 + Len(rest)
        /\ LruAfter(k)[1] = lru[i]
        /\ \A n \in 1 .. Len(rest) : LruAfter(k)[n + 1] = rest[n]
    <3>1. lru[i] \in Slot
      BY <1>1, <2>1, ElementOfSeq
    <3> QED  BY <3>1, <2>2, <2>4, Prepend, LenProperties DEF one
  <2>6. CASE j <= 1
    BY <2>6, <2>1, <2>5, <1>1
  <2>7. CASE ~(j <= 1)
    <3>1. j - 1 \in 1 .. Len(rest) /\ (j - 1) + 1 = j
      BY <2>7, <2>5
    <3>2. LruAfter(k)[j] = rest[j - 1]
      BY <3>1, <2>5
    <3> QED  BY <3>1, <3>2, <2>3
  <2> QED  BY <2>6, <2>7, <2>5
<1>3. CASE ~Cached(k)
  <2>1. Survivors \in Seq(Slot) /\ \A n \in 1 .. Len(Survivors) :
           n \in 1 .. Len(lru) /\ Survivors[n] = lru[n]
    <3>1. CASE Len(lru) = CacheSize
      <4>1. \A m \in 1 .. Len(lru) : lru[m] \in Slot
        BY <1>1, ElementOfSeq
      <4>2. Survivors = SubSeq(lru, 1, Len(lru) - 1) /\ Len(lru) >= 1
        BY <3>1, StoreAssumption DEF Survivors, Front
      <4>3. /\ Survivors \in Seq(Slot) /\ Len(Survivors) = Len(lru) - 1
            /\ \A n \in 1 .. Len(lru) - 1 : Survivors[n] = lru[n]
        BY <4>1, <4>2, <1>1, SubSeqProperties
      <4> QED  BY <4>2, <4>3, <1>1
    <3>2. CASE Len(lru) # CacheSize
      BY <3>2, <1>1 DEF Survivors
    <3> QED  BY <3>1, <3>2
  <2>2. Loaded(k) \in Slot
    BY ListedType DEF Loaded, Slot
  <2>3. LruAfter(k) = <<Loaded(k)>> \o Survivors
    BY <1>3 DEF LruAfter
  <2>4. /\ Len(Survivors) \in Nat
        /\ DOMAIN LruAfter(k) = 1 .. 1 + Len(Survivors)
        /\ LruAfter(k)[1] = Loaded(k)
        /\ \A n \in 1 .. Len(Survivors) : LruAfter(k)[n + 1] = Survivors[n]
    BY <2>1, <2>2, <2>3, Prepend, LenProperties
  <2>5. CASE j <= 1
    BY <2>5, <2>4
  <2>6. CASE ~(j <= 1)
    <3>1. j - 1 \in 1 .. Len(Survivors) /\ (j - 1) + 1 = j
      BY <2>6, <2>4
    <3>2. LruAfter(k)[j] = Survivors[j - 1]
      BY <3>1, <2>4
    <3> QED  BY <3>1, <3>2, <2>1, <1>1
  <2> QED  BY <2>5, <2>6
<1> QED  BY <1>2, <1>3

(***************************************************************************)
(* Looking a chunk up keeps the caches what the database says.             *)
(***************************************************************************)
LEMMA TouchCoherent ==
    ASSUME DiskType, Counted(lru, fast), Coherent(lru, fast),
           NEW k \in ChunkKey, Loadable(k)
    PROVE  Coherent(LruAfter(k), FastAfter(k))
<1>1. ASSUME NEW j \in DOMAIN LruAfter(k)
      PROVE  LruAfter(k)[j].lids = Listed(LruAfter(k)[j].chunk)
  <2>1. CASE LruAfter(k)[j] = Loaded(k)
    BY <2>1 DEF Loaded
  <2>2. CASE \E i \in DOMAIN lru : LruAfter(k)[j] = lru[i]
    BY <2>2 DEF Coherent
  <2> QED  BY <2>1, <2>2, TouchSlots
<1>2. ASSUME NEW l \in DOMAIN FastAfter(k)
      PROVE  l \in DOMAIN rec /\ FastAfter(k)[l].land = rec[l]
  <2>1. CASE Cached(k)
    BY <2>1 DEF FastAfter, Coherent
  <2>2. CASE ~Cached(k)
    <3> DEFINE f == Release(fast, Victims)
               slot == Loaded(k)
    <3>1. ASSUME NEW m \in DOMAIN f
          PROVE  m \in DOMAIN rec /\ f[m].land = rec[m] /\ f[m] \in Cell
      <4>1. m \in DOMAIN fast /\ f[m] = [fast[m] EXCEPT !.ref = fast[m].ref - Held(Victims, m)]
        BY DEF Release
      <4>2. fast[m] \in Cell /\ m \in DOMAIN rec /\ fast[m].land = rec[m]
        BY <4>1 DEF Counted, Coherent
      <4>3. f[m] \in Cell
        BY ReleaseCounted DEF Counted
      <4> HIDE DEF f
      <4> QED  BY <4>1, <4>2, <4>3 DEF Cell
    <3>2. FastAfter(k) = Request(f, slot)
      BY <2>2 DEF FastAfter
    <3>3. ToSet(slot.lids) \subseteq DOMAIN f \cup DOMAIN rec
      BY <2>2 DEF Loadable, Loaded
    <3> HIDE DEF f, slot
    <3>4. DOMAIN FastAfter(k) = DOMAIN f \cup ToSet(slot.lids)
      BY <3>2 DEF Request, RequestFrom
    <3>5. FastAfter(k)[l] = IF l \in DOMAIN f
                            THEN [f[l] EXCEPT !.ref = f[l].ref + Held(<<slot>>, l)]
                            ELSE [land |-> rec[l], ref |-> Held(<<slot>>, l)]
      BY <3>2, <3>4 DEF Request, RequestFrom
    <3>6. CASE l \in DOMAIN f
      BY <3>6, <3>1, <3>5 DEF Cell
    <3>7. CASE l \notin DOMAIN f
      BY <3>7, <3>3, <3>4, <3>5
    <3> QED  BY <3>6, <3>7
  <2> QED  BY <2>1, <2>2
<1> QED  BY <1>1, <1>2 DEF Coherent

(***************************************************************************)
(* What a lookup finds is listed by the chunk it looked at, and cached.    *)
(***************************************************************************)
LEMMA FoundListed ==
    ASSUME DiskType, Counted(lru, fast), NEW c, ChunkOf(c) \in ChunkKey,
           Loadable(ChunkOf(c)), Found(c) # NoLid
    PROVE  /\ Found(c) \in ToSet(LruAfter(ChunkOf(c))[1].lids)
           /\ Found(c) \in DOMAIN FastAfter(ChunkOf(c))
           /\ FastAfter(ChunkOf(c))[Found(c)].land \in Land
           /\ Found(c) \in Lids
<1> DEFINE slots == LruAfter(ChunkOf(c))
           f == FastAfter(ChunkOf(c))
           slot == slots[1]
           painters == Painters(slot, f, c)
<1>1. Counted(slots, f) /\ 1 \in DOMAIN slots
  BY TouchCounted
<1>2. slot.lids \in Seq(Lids)
  <2>1. slots \in Seq(Slot) /\ 1 \in 1 .. Len(slots)
    BY <1>1, LenProperties DEF Counted
  <2>2. slot \in Slot
    BY <2>1, ElementOfSeq
  <2> QED  BY <2>2 DEF Slot
<1>3. DOMAIN slot.lids = 1 .. Len(slot.lids) /\ Len(slot.lids) \in Nat
  BY <1>2, LenProperties
<1>4. Found(c) = CellOf(slot, f, c)
  BY Zenon DEF Found
<1> HIDE DEF slots, f, slot
<1>5. painters # {} /\ painters \subseteq 1 .. Len(slot.lids)
  BY <1>3, <1>4 DEF CellOf, Painters
<1>6. PICK j \in painters : Found(c) = slot.lids[j]
  <2>1. \E j \in painters : \A i \in painters : i <= j
    BY <1>3, <1>5, GreatestPlace
  <2> DEFINE greatest == CHOOSE j \in painters : \A i \in painters : i <= j
  <2>2. greatest \in painters
    BY <2>1
  <2>3. Found(c) = slot.lids[greatest]
    BY <1>4, <1>5 DEF CellOf
  <2> QED  BY <2>2, <2>3
<1>7. Found(c) \in ToSet(slot.lids)
  BY <1>3, <1>5, <1>6 DEF ToSet
<1>8. Found(c) \in DOMAIN f
  BY <1>1, <1>7 DEF Counted, slot
<1>9. f[Found(c)] \in Cell /\ Found(c) \in Lids
  BY <1>1, <1>8 DEF Counted
<1> QED  BY <1>7, <1>8, <1>9 DEF slot, slots, f, Cell

-----------------------------------------------------------------------------
(***************************************************************************)
(* The inductive invariant of a process that has cached no garbage.  Types *)
(* and exact counts hold always, coherence between the writes of a         *)
(* handler, and every identifier that is written anywhere, or is about to  *)
(* be, has been handed out.                                                *)
(***************************************************************************)
Issued == 0 .. landId

IdsIssued ==
    /\ DOMAIN rec \subseteq Issued
    /\ index \in [DOMAIN index -> Seq(Issued)]
    /\ job.op \in {"put", "link", "del", "unlink"} => job.lid \in Issued
    /\ job.op = "put" => job.lid \notin DOMAIN rec
    /\ job.op = "unlink" => job.val \in Seq(Issued)
    /\ job.op \in {"scan", "id"} => landId < MaxLands

StoreInv ==
    /\ Types
    /\ Counted(lru, fast)
    /\ ~Writing => Coherent(lru, fast)
    /\ IdsIssued

SaneInv ==
    /\ status \in {"running", "undefined"}
    /\ crashes \in 0 .. MaxCrashes
    /\ Sane => StoreInv

\* What a job's fields are, read off its kind.
LEMMA JobKinds ==
    ASSUME job \in Jobs
    PROVE  /\ job.op \in {"idle", "use", "deref", "scan", "id", "put", "del", "link", "unlink", "force"}
           /\ job.op = "idle" <=> job = Idle
           /\ job.op \in {"use", "deref"} =>
                  job \in [op : {"use", "deref"}, lid : Lids \cup {NoLid}, chunk : ChunkKey]
           /\ job.op \in {"scan", "id"} => job \in [op : {"scan", "id"}, land : Land, at : Column]
           /\ job.op \in {"put", "del"} => job \in [op : {"put", "del"}, land : Land, lid : Lids]
           /\ job.op = "link" => job \in [op : {"link"}, land : Land, lid : Lids, at : ChunkKey]
           /\ job.op = "unlink" =>
                  job \in [op : {"unlink"}, land : Land, lid : Lids, at : ChunkKey, val : Seq(Lids)]
           /\ job.op = "force" => job \in [op : {"force"}, data : Data, lid : Lids \cup {NoLid}]
  BY DEF Jobs, Idle

\* The types of the database follow from those of all variables.
LEMMA TypeGivesDisk == Types => DiskType
  BY DEF Types, DiskType

\* The chunk of a column of the plane is a chunk of the index.
LEMMA ChunkOfType == \A c \in Column : ChunkOf(c) \in ChunkKey
  BY ChunkPartType DEF Column, ChunkKey, ChunkOf

(***************************************************************************)
(* The cursor of a loop over an area stays within the plane.               *)
(***************************************************************************)
LEMMA CursorType ==
    /\ \A r \in Rectangle : First(r) \in Column
    /\ \A r \in Rectangle : ChunkSpan(r) \in [x : Nat, z : Nat, dx : Nat, dz : Nat, dim : Dims]
                             /\ First(ChunkSpan(r)) \in ChunkKey
    /\ \A c \in Column, r \in [x : Nat, z : Nat, dx : Nat, dz : Nat, dim : Dims] :
           After(r, c) \in Column /\ After(r, c) \in ChunkKey
<1>1. \A r \in Rectangle : r \in [x : Nat, z : Nat, dx : Nat, dz : Nat, dim : Dims]
  BY DEF Rectangle
<1>2. \A r \in Rectangle : First(r) \in Column
  BY <1>1 DEF First, Column
<1>3. ASSUME NEW r \in Rectangle
      PROVE  ChunkSpan(r) \in [x : Nat, z : Nat, dx : Nat, dz : Nat, dim : Dims]
             /\ First(ChunkSpan(r)) \in ChunkKey
  BY <1>1, ChunkPartType DEF First, ChunkSpan, ChunkKey
<1>4. ASSUME NEW c \in Column, NEW r \in [x : Nat, z : Nat, dx : Nat, dz : Nat, dim : Dims]
      PROVE  After(r, c) \in Column
  <2>1. CASE c.z < r.dz
    BY <2>1 DEF After, Column
  <2>2. CASE ~(c.z < r.dz)
    <3>1. After(r, c) = [x |-> c.x + 1, z |-> r.z, dim |-> c.dim]
      BY <2>2 DEF After, Column
    <3> QED  BY <3>1 DEF Column
  <2> QED  BY <2>1, <2>2
<1>5. Column = ChunkKey
  BY DEF Column, ChunkKey
<1> QED  BY <1>2, <1>3, <1>4, <1>5

(***************************************************************************)
(* Initially the store is empty.                                           *)
(***************************************************************************)
LEMMA StoreInit == Init => StoreInv
<1> SUFFICES ASSUME Init PROVE StoreInv
  OBVIOUS
<1> USE DEF Init
<1>1. DOMAIN rec = {} /\ DOMAIN index = {} /\ DOMAIN fast = {} /\ DOMAIN lru = {}
  OBVIOUS
<1>2. lru \in Seq(Slot) /\ lru \in Seq([chunk : ChunkKey, lids : Seq(Lids)])
  BY EmptySeq
<1>3. Types
  BY <1>1, <1>2, StoreAssumption DEF Types, Jobs, Lids
<1>4. Counted(lru, fast) /\ Coherent(lru, fast)
  BY <1>1, <1>2 DEF Counted, Coherent
<1>5. IdsIssued
  BY <1>1 DEF IdsIssued, Idle
<1> QED  BY <1>3, <1>4, <1>5 DEF StoreInv

(***************************************************************************)
(* A lookup, whatever the handler does with what it found.                 *)
(***************************************************************************)
LEMMA TouchKeeps ==
    ASSUME StoreInv, ~Writing, NEW c \in Column, Touch(c), UNCHANGED disk
    PROVE  /\ Counted(lru, fast)' /\ Coherent(lru, fast)'
           /\ Found(c) \in Lids \cup {NoLid}
<1>1. DiskType /\ ChunkOf(c) \in ChunkKey /\ Loadable(ChunkOf(c))
  BY TypeGivesDisk, ChunkOfType DEF StoreInv, Touch
<1>2. Counted(lru', fast') /\ Coherent(lru', fast')
  BY <1>1, TouchCounted, TouchCoherent DEF StoreInv, Touch
<1>3. Found(c) \in Lids \cup {NoLid}
  BY <1>1, FoundListed DEF StoreInv
<1>4. Counted(lru', fast') <=> Counted(lru, fast)'
  BY DEF Counted
<1>5. Coherent(lru', fast') <=> Coherent(lru, fast)'
  BY DEF Coherent, Listed, disk
<1> QED  BY <1>2, <1>3, <1>4, <1>5

\* Counted caches are well typed.
LEMMA CountedTypes ==
    ASSUME NEW s, NEW f, Counted(s, f)
    PROVE  /\ s \in Seq([chunk : ChunkKey, lids : Seq(Lids)])
           /\ DOMAIN f \subseteq Lids
           /\ f \in [DOMAIN f -> [land : Land, ref : Nat \ {0}]]
  BY DEF Counted, Slot, Cell

(***************************************************************************)
(* The steps that only look: what they find they remember in the job.      *)
(***************************************************************************)
LEMMA LookingSteps ==
    ASSUME StoreInv, UNCHANGED <<disk, crashes>>, status' \in {"running", "undefined"},
           Counted(lru, fast)', ~Writing' => Coherent(lru, fast)',
           job' \in Jobs, job'.op \notin {"put", "link", "unlink"},
           job'.op \in {"scan", "id"} => landId < MaxLands,
           job'.op = "del" => job'.lid \in DOMAIN rec
    PROVE  StoreInv'
<1>1. Types'
  <2>1. /\ lru' \in Seq([chunk : ChunkKey, lids : Seq(Lids)])
        /\ DOMAIN fast' \subseteq Lids
        /\ fast' \in [DOMAIN fast' -> [land : Land, ref : Nat \ {0}]]
    <3>1. Counted(lru', fast')
      BY DEF Counted
    <3> QED  BY <3>1, CountedTypes
  <2>2. Types
    BY DEF StoreInv
  <2> QED  BY <2>1, <2>2 DEF Types, disk
<1>2. IdsIssued'
  BY DEF StoreInv, IdsIssued, Issued, disk
<1> QED  BY <1>1, <1>2 DEF StoreInv

\* Lookup(c): the caches move, the job does not.
LEMMA LookupStep == ASSUME StoreInv, NEW c \in Column, Lookup(c) PROVE StoreInv'
<1>1. job = Idle /\ ~Writing /\ job' = Idle /\ Touch(c) /\ UNCHANGED disk
  BY DEF Lookup, Start, Writing, Idle
<1>2. Counted(lru, fast)' /\ Coherent(lru, fast)'
  BY <1>1, TouchKeeps
<1>3. status' \in {"running", "undefined"} /\ UNCHANGED crashes
  BY <1>1 DEF Touch, StoreInv, Types
<1>4. job' \in Jobs /\ job'.op = "idle"
  BY <1>1 DEF Jobs, Idle
<1> QED  BY <1>1, <1>2, <1>3, <1>4, LookingSteps

\* UseFirst(c): the first pointer is remembered.
LEMMA UseFirstStep == ASSUME StoreInv, NEW c \in Column, UseFirst(c) PROVE StoreInv'
<1>1. job = Idle /\ ~Writing /\ Touch(c) /\ UNCHANGED disk
      /\ job' = [op |-> "use", lid |-> Found(c), chunk |-> ChunkOf(c)]
  BY DEF UseFirst, Start, Writing, Idle
<1>2. Counted(lru, fast)' /\ Coherent(lru, fast)' /\ Found(c) \in Lids \cup {NoLid}
  BY <1>1, TouchKeeps
<1>3. status' \in {"running", "undefined"} /\ UNCHANGED crashes
  BY <1>1 DEF Touch, StoreInv, Types
<1>4. job' \in Jobs /\ job'.op = "use"
  BY <1>1, <1>2, ChunkOfType DEF Jobs
<1> QED  BY <1>1, <1>2, <1>3, <1>4, LookingSteps

\* UseSecond(c): the second lookup of handle_useion.
LEMMA UseSecondStep == ASSUME StoreInv, NEW c \in Column, UseSecond(c) PROVE StoreInv'
<1>1. job.op = "use" /\ ~Writing /\ Touch(c) /\ UNCHANGED disk
      /\ job' = [job EXCEPT !.op = "deref"]
  BY DEF UseSecond, Writing
<1>2. Counted(lru, fast)' /\ Coherent(lru, fast)'
  BY <1>1, TouchKeeps
<1>3. status' \in {"running", "undefined"} /\ UNCHANGED crashes /\ job \in Jobs
  BY <1>1 DEF Touch, StoreInv, Types
<1>4. job' \in [op : {"use", "deref"}, lid : Lids \cup {NoLid}, chunk : ChunkKey]
      /\ job'.op = "deref"
  BY <1>1, <1>3, JobKinds
<1>5. job' \in Jobs
  BY <1>4 DEF Jobs
<1> QED  BY <1>1, <1>2, <1>3, <1>4, <1>5, LookingSteps

\* Collide and ScanOn: the purchase looks at a column.
LEMMA ScanStep == ASSUME StoreInv, Collide \/ ScanOn PROVE StoreInv'
<1>1. job.op = "scan" /\ ~Writing /\ Touch(job.at) /\ UNCHANGED disk /\ job \in Jobs
  BY DEF Collide, ScanOn, Writing, StoreInv, Types
<1>2. job \in [op : {"scan", "id"}, land : Land, at : Column]
  BY <1>1, JobKinds
<1>3. Counted(lru, fast)' /\ Coherent(lru, fast)'
  BY <1>1, <1>2, TouchKeeps
<1>4. status' \in {"running", "undefined"} /\ UNCHANGED crashes
  BY <1>1 DEF Touch, StoreInv, Types
<1>5. landId < MaxLands
  BY <1>1 DEF StoreInv, IdsIssued
<1>6. job' \in Jobs /\ job'.op \in {"idle", "scan", "id"}
  <2>1. CASE Collide
    BY <2>1 DEF Collide, Jobs, Idle
  <2>2. CASE ScanOn /\ AtEnd(job.land.rect, job.at)
    <3>1. job' = [job EXCEPT !.op = "id"]
      BY <2>2 DEF ScanOn
    <3> QED  BY <3>1, <1>2 DEF Jobs
  <2>3. CASE ScanOn /\ ~AtEnd(job.land.rect, job.at)
    <3>1. job' = [job EXCEPT !.at = After(job.land.rect, job.at)]
      BY <2>3 DEF ScanOn
    <3>2. job.land.rect \in [x : Nat, z : Nat, dx : Nat, dz : Nat, dim : Dims] /\ job.at \in Column
      BY <1>2, StoreAssumption DEF Land, Rectangle
    <3>3. After(job.land.rect, job.at) \in Column
      BY <3>2, CursorType
    <3> QED  BY <3>1, <3>3, <1>1, <1>2 DEF Jobs
  <2> QED  BY <2>1, <2>2, <2>3
<1> QED  BY <1>1, <1>3, <1>4, <1>5, <1>6, LookingSteps

\* Buy(r, d): the scan begins at the first column.
LEMMA BuyStep ==
    ASSUME StoreInv, NEW r \in Rects, NEW d \in Data, Buy(r, d)
    PROVE  StoreInv'
<1>1. /\ job = Idle /\ UNCHANGED <<disk, memory, status, crashes>>
      /\ landId < MaxLands
      /\ job' = [op |-> "scan", land |-> [rect |-> r, data |-> d], at |-> First(r)]
  BY DEF Buy
<1>2. Counted(lru, fast)' /\ Coherent(lru, fast)' /\ status' \in {"running", "undefined"}
  BY <1>1 DEF StoreInv, Types, Writing, Idle, Counted, Coherent, Listed, disk, memory
<1>3. job' \in Jobs /\ job'.op = "scan"
  <2>1. First(r) \in Column
    BY CursorType, StoreAssumption
  <2> QED  BY <1>1, <2>1 DEF Jobs, Land
<1> QED  BY <1>1, <1>2, <1>3, LookingSteps

\* Sell(c): the identifier and the land found are remembered.
LEMMA SellStep == ASSUME StoreInv, NEW c \in Column, Sell(c) PROVE StoreInv'
<1>1. /\ job = Idle /\ ~Writing /\ Touch(c) /\ UNCHANGED disk
      /\ Found(c) # NoLid
      /\ job' = [op |-> "del", lid |-> Found(c),
                 land |-> FastAfter(ChunkOf(c))[Found(c)].land]
  BY DEF Sell, Start, Writing, Idle
<1>2. Counted(lru, fast)' /\ Coherent(lru, fast)'
  BY <1>1, TouchKeeps
<1>3. status' \in {"running", "undefined"} /\ UNCHANGED crashes
  BY <1>1 DEF Touch, StoreInv, Types
<1>4. /\ Found(c) \in DOMAIN FastAfter(ChunkOf(c)) /\ Found(c) \in Lids
      /\ FastAfter(ChunkOf(c))[Found(c)].land \in Land
  BY <1>1, TypeGivesDisk, ChunkOfType, FoundListed DEF StoreInv, Touch
<1>5. Found(c) \in DOMAIN rec
  BY <1>1, <1>2, <1>4 DEF Coherent, Touch, disk
<1>6. job' \in Jobs /\ job'.op = "del" /\ job'.lid \in DOMAIN rec
  BY <1>1, <1>4, <1>5 DEF Jobs
<1> QED  BY <1>1, <1>2, <1>3, <1>6, LookingSteps

\* Deref: the handler ends, nothing else changes.
LEMMA DerefStep == ASSUME StoreInv, Deref PROVE StoreInv'
<1>1. /\ job.op = "deref" /\ job' = Idle /\ UNCHANGED <<disk, memory, status, crashes>>
  BY DEF Deref
<1>2. Counted(lru, fast)' /\ Coherent(lru, fast)' /\ status' \in {"running", "undefined"}
  BY <1>1 DEF StoreInv, Types, Writing, Counted, Coherent, Listed, disk, memory
<1>3. job' \in Jobs /\ job'.op = "idle"
  BY <1>1 DEF Jobs, Idle
<1> QED  BY <1>1, <1>2, <1>3, LookingSteps

\* ForcePerm(d): the pass over the records begins.
LEMMA ForcePermStep == ASSUME StoreInv, NEW d \in Data, ForcePerm(d) PROVE StoreInv'
<1>1. /\ job = Idle /\ job' = [op |-> "force", data |-> d, lid |-> NoLid]
      /\ UNCHANGED <<disk, memory, status, crashes>>
  BY DEF ForcePerm
<1>2. Counted(lru, fast)' /\ Coherent(lru, fast)' /\ status' \in {"running", "undefined"}
  BY <1>1 DEF StoreInv, Types, Writing, Idle, Counted, Coherent, Listed, disk, memory
<1>3. job' \in Jobs /\ job'.op = "force"
  BY <1>1 DEF Jobs
<1> QED  BY <1>1, <1>2, <1>3, LookingSteps

-----------------------------------------------------------------------------
(***************************************************************************)
(* The steps that write: what is left to show of each of them is that the  *)
(* database stays well formed and the identifiers stay issued.             *)
(***************************************************************************)
LEMMA WritingSteps ==
    ASSUME StoreInv, DiskType', landId' \in Lids, job' \in Jobs,
           status' \in {"running", "undefined"}, crashes' \in 0 .. MaxCrashes,
           Counted(lru, fast)', ~Writing' => Coherent(lru, fast)', IdsIssued'
    PROVE  StoreInv'
<1>1. Counted(lru', fast')
  BY DEF Counted
<1>2. /\ lru' \in Seq([chunk : ChunkKey, lids : Seq(Lids)])
      /\ DOMAIN fast' \subseteq Lids
      /\ fast' \in [DOMAIN fast' -> [land : Land, ref : Nat \ {0}]]
  BY <1>1, CountedTypes
<1>3. Types'
  BY <1>2 DEF Types, DiskType
<1> QED  BY <1>3 DEF StoreInv

\* Steps that leave the caches alone leave them counted.
LEMMA MemoryKept ==
    ASSUME Counted(lru, fast), UNCHANGED memory
    PROVE  Counted(lru, fast)'
  BY DEF Counted, memory

\* After a purge nothing is cached, whatever was: all is coherent.
LEMMA EmptyMemory ==
    ASSUME NEW s, NEW f, Counted(s, f), lru' = <<>>, fast' = Release(f, s)
    PROVE  Counted(lru, fast)' /\ Coherent(lru, fast)'
<1>1. DOMAIN fast' = {} /\ Counted(<<>>, fast')
  BY PurgeFreesAll
<1>2. Counted(lru, fast)'
  BY <1>1 DEF Counted
<1>3. Coherent(lru, fast)'
  BY <1>1, EmptySeq DEF Coherent
<1> QED  BY <1>2, <1>3

\* Advancing the counter keeps what was issued issued.
LEMMA IssuedGrows ==
    ASSUME StoreInv, landId' = landId + 1
    PROVE  Issued \subseteq Issued' /\ \A s : s \in Seq(Issued) => s \in Seq(Issued')
<1>1. Issued \subseteq Issued'
  BY DEF Issued, StoreInv, Types, Lids, NoLid
<1> QED  BY <1>1, SeqMonotonic

\* An issued identifier is within the bound.
LEMMA IssuedTypes ==
    ASSUME StoreInv
    PROVE  Issued \subseteq Lids /\ \A s : s \in Seq(Issued) => s \in Seq(Lids)
<1>1. Issued \subseteq Lids
  BY StoreAssumption DEF Issued, StoreInv, Types, Lids, NoLid
<1> QED  BY <1>1, SeqMonotonic

\* TakeId: the new identifier is not issued before, and is after.
LEMMA TakeIdStep == ASSUME StoreInv, TakeId PROVE StoreInv'
<1>1. /\ job.op = "id" /\ landId' = landId + 1
      /\ job' = [op |-> "put", land |-> job.land, lid |-> landId + 1]
      /\ UNCHANGED <<rec, index, memory, status, crashes>>
  BY DEF TakeId
<1>2. job \in [op : {"scan", "id"}, land : Land, at : Column] /\ landId < MaxLands
  BY <1>1, JobKinds DEF StoreInv, Types, IdsIssued
<1>3. landId + 1 \in Lids /\ landId + 1 \in Issued' /\ landId + 1 \notin DOMAIN rec
  BY <1>1, <1>2, StoreAssumption DEF StoreInv, Types, IdsIssued, Issued, Lids, NoLid
<1>4. job' \in Jobs /\ job'.op = "put" /\ job'.lid = landId + 1
  BY <1>1, <1>2, <1>3 DEF Jobs
<1>5. Counted(lru, fast)'
  BY <1>1, MemoryKept DEF StoreInv
<1>6. Coherent(lru, fast)'
  BY <1>1 DEF StoreInv, Writing, Coherent, Listed, memory
<1>7. IdsIssued'
  <2>1. (DOMAIN rec \subseteq Issued)'
    BY <1>1, IssuedGrows DEF StoreInv, IdsIssued
  <2>2. (index \in [DOMAIN index -> Seq(Issued)])'
    BY <1>1, IssuedGrows DEF StoreInv, IdsIssued
  <2> QED  BY <2>1, <2>2, <1>1, <1>3, <1>4 DEF IdsIssued
<1> QED
  BY <1>1, <1>3, <1>4, <1>5, <1>6, <1>7, WritingSteps DEF StoreInv, Types, DiskType

\* PutRecord: the record of the identifier just taken.
LEMMA PutRecordStep == ASSUME StoreInv, PutRecord PROVE StoreInv'
<1>1. /\ job.op = "put" /\ rec' = Put(rec, job.lid, job.land)
      /\ job' = [op |-> "link", land |-> job.land, lid |-> job.lid,
                 at |-> First(ChunkSpan(job.land.rect))]
      /\ UNCHANGED <<index, landId, memory, status, crashes>>
  BY DEF PutRecord
<1>2. job \in [op : {"put", "del"}, land : Land, lid : Lids] /\ job.lid \in Issued
  BY <1>1, JobKinds DEF StoreInv, Types, IdsIssued
<1>3. job' \in Jobs /\ job'.op = "link" /\ job'.lid = job.lid
  <2>1. job.land.rect \in Rectangle
    BY <1>2, StoreAssumption DEF Land
  <2>2. First(ChunkSpan(job.land.rect)) \in ChunkKey
    BY <2>1, CursorType
  <2> QED  BY <1>1, <1>2, <2>2 DEF Jobs
<1>4. Counted(lru, fast)'
  BY <1>1, MemoryKept DEF StoreInv
<1>5. DiskType' /\ DOMAIN rec' = DOMAIN rec \cup {job.lid}
  BY <1>1, <1>2 DEF DiskType, StoreInv, Types, Put
<1>6. Writing'
  BY <1>3 DEF Writing
<1>7. IdsIssued'
  BY <1>1, <1>2, <1>3, <1>5 DEF IdsIssued, Issued, StoreInv
<1> QED  BY <1>1, <1>3, <1>4, <1>5, <1>6, <1>7, WritingSteps DEF StoreInv, Types

\* LinkChunk: one more list names the new land; the last one purges.
LEMMA LinkChunkStep == ASSUME StoreInv, LinkChunk PROVE StoreInv'
<1> DEFINE area == ChunkSpan(job.land.rect)
           list == Append(Listed(job.at), job.lid)
<1>1. /\ job.op = "link" /\ index' = Put(index, job.at, list)
      /\ UNCHANGED <<rec, landId, status, crashes>>
      /\ \/ job' = Idle /\ Purge
         \/ job' = [job EXCEPT !.at = After(area, job.at)] /\ UNCHANGED memory
  BY DEF LinkChunk
<1>2. /\ job \in [op : {"link"}, land : Land, lid : Lids, at : ChunkKey]
      /\ job.lid \in Issued
  BY <1>1, JobKinds DEF StoreInv, Types, IdsIssued
<1>3. list \in Seq(Issued) /\ list \in Seq(Lids)
  <2>1. Listed(job.at) \in Seq(Issued)
    BY EmptySeq DEF Listed, StoreInv, IdsIssued
  <2>2. list \in Seq(Issued)
    BY <2>1, <1>2, AppendProperties
  <2> QED  BY <2>2, IssuedTypes
<1> HIDE DEF list
<1>4. DiskType' /\ (index \in [DOMAIN index -> Seq(Issued)])'
  BY <1>1, <1>2, <1>3 DEF DiskType, StoreInv, Types, IdsIssued, Issued, Put
<1>5. CASE job' = Idle /\ Purge
  <2>1. Counted(lru, fast)' /\ Coherent(lru, fast)'
    BY <1>5, EmptyMemory DEF Purge, StoreInv
  <2>2. job' \in Jobs /\ job'.op = "idle"
    BY <1>5 DEF Jobs, Idle
  <2>3. IdsIssued'
    BY <1>1, <1>4, <2>2 DEF IdsIssued, Issued, StoreInv
  <2> QED  BY <1>1, <1>4, <2>1, <2>2, <2>3, WritingSteps DEF StoreInv, Types
<1>6. CASE job' = [job EXCEPT !.at = After(area, job.at)] /\ UNCHANGED memory
  <2>1. Counted(lru, fast)'
    BY <1>6, MemoryKept DEF StoreInv
  <2>2. job' \in Jobs /\ job'.op = "link" /\ job'.lid = job.lid
    <3>1. area \in [x : Nat, z : Nat, dx : Nat, dz : Nat, dim : Dims] /\ job.at \in Column
      BY <1>2, CursorType, StoreAssumption DEF Land, Column, ChunkKey
    <3>2. After(area, job.at) \in ChunkKey
      BY <3>1, CursorType
    <3> QED  BY <1>1, <1>2, <1>6, <3>2 DEF Jobs
  <2>3. IdsIssued'
    BY <1>1, <1>2, <1>4, <2>2 DEF IdsIssued, Issued, StoreInv
  <2>4. Writing'
    BY <2>2 DEF Writing
  <2> QED  BY <1>1, <1>4, <2>1, <2>2, <2>3, <2>4, WritingSteps DEF StoreInv, Types
<1> QED  BY <1>1, <1>5, <1>6

\* Update(c, d): the record changes and the caches are purged at once.
LEMMA UpdateStep ==
    ASSUME StoreInv, NEW c \in Column, NEW d \in Data, Update(c, d)
    PROVE  StoreInv'
<1> DEFINE slots == LruAfter(ChunkOf(c))
           f == FastAfter(ChunkOf(c))
           land == [f[Found(c)].land EXCEPT !.data = d]
<1>1. /\ job = Idle /\ job' = Idle /\ Found(c) # NoLid /\ Loadable(ChunkOf(c))
      /\ rec' = Put(rec, Found(c), land)
      /\ lru' = <<>> /\ fast' = Release(f, slots)
      /\ UNCHANGED <<index, landId, status, crashes>>
  BY DEF Update
<1>2. DiskType /\ ChunkOf(c) \in ChunkKey /\ Counted(lru, fast) /\ Coherent(lru, fast)
  BY <1>1, TypeGivesDisk, ChunkOfType DEF StoreInv, Writing, Idle
<1>3. Counted(slots, f) /\ Coherent(slots, f)
  BY <1>1, <1>2, TouchCounted, TouchCoherent
<1>4. Found(c) \in DOMAIN f /\ f[Found(c)].land \in Land /\ Found(c) \in Lids
  BY <1>1, <1>2, FoundListed
<1> HIDE DEF slots, f
<1>5. Counted(lru, fast)' /\ Coherent(lru, fast)'
  BY <1>1, <1>3, EmptyMemory
<1>6. Found(c) \in DOMAIN rec /\ land \in Land
  BY <1>3, <1>4 DEF Coherent, Land
<1>7. DiskType' /\ DOMAIN rec' = DOMAIN rec
  BY <1>1, <1>2, <1>6 DEF DiskType, Put
<1>8. job' \in Jobs /\ job'.op = "idle"
  BY <1>1 DEF Jobs, Idle
<1>9. IdsIssued'
  BY <1>1, <1>7, <1>8 DEF IdsIssued, Issued, StoreInv
<1> QED  BY <1>1, <1>5, <1>7, <1>8, <1>9, WritingSteps DEF StoreInv, Types

\* DelRecord: a record less.
LEMMA DelRecordStep == ASSUME StoreInv, DelRecord PROVE StoreInv'
<1>1. /\ job.op = "del" /\ rec' = Del(rec, job.lid)
      /\ job' = [op |-> "unlink", land |-> job.land, lid |-> job.lid,
                 at |-> First(ChunkSpan(job.land.rect)), val |-> <<>>]
      /\ UNCHANGED <<index, landId, memory, status, crashes>>
  BY DEF DelRecord
<1>2. job \in [op : {"put", "del"}, land : Land, lid : Lids] /\ job.lid \in Issued
  BY <1>1, JobKinds DEF StoreInv, Types, IdsIssued
<1>3. job' \in Jobs /\ job'.op = "unlink" /\ job'.lid = job.lid /\ job'.val = <<>>
  <2>1. First(ChunkSpan(job.land.rect)) \in ChunkKey
    BY <1>2, CursorType, StoreAssumption DEF Land
  <2>2. <<>> \in Seq(Lids)
    BY EmptySeq
  <2> QED  BY <1>1, <1>2, <2>1, <2>2 DEF Jobs
<1>4. Counted(lru, fast)'
  BY <1>1, MemoryKept DEF StoreInv
<1>5. DiskType' /\ DOMAIN rec' \subseteq DOMAIN rec
  BY <1>1 DEF DiskType, StoreInv, Types, Del
<1>6. IdsIssued'
  <2>1. <<>> \in Seq(Issued')
    BY EmptySeq
  <2> QED  BY <1>1, <1>2, <1>3, <1>5, <2>1 DEF IdsIssued, Issued, StoreInv
<1>7. Writing'
  BY <1>3 DEF Writing
<1> QED  BY <1>1, <1>3, <1>4, <1>5, <1>6, <1>7, WritingSteps DEF StoreInv, Types

\* UnlinkChunk: a list without the land; the last one purges.
LEMMA UnlinkChunkStep == ASSUME StoreInv, UnlinkChunk PROVE StoreInv'
<1> DEFINE area == ChunkSpan(job.land.rect)
<1>1. /\ job.op = "unlink" /\ index' = Put(index, job.at, UnlinkedList)
      /\ UNCHANGED <<rec, landId, status, crashes>>
      /\ \/ job' = Idle /\ Purge
         \/ /\ job' = [job EXCEPT !.at = After(area, job.at), !.val = UnlinkedList]
            /\ UNCHANGED memory
  BY DEF UnlinkChunk
<1>2. /\ job \in [op : {"unlink"}, land : Land, lid : Lids, at : ChunkKey, val : Seq(Lids)]
      /\ job.lid \in Issued /\ job.val \in Seq(Issued)
  BY <1>1, JobKinds DEF StoreInv, Types, IdsIssued
<1>3. UnlinkedList \in Seq(Issued) /\ UnlinkedList \in Seq(Lids)
  <2>1. UnlinkedList \in Seq(Issued)
    <3>1. CASE job.at \in DOMAIN index
      <4>1. index[job.at] \in Seq(Issued)
        BY <3>1 DEF StoreInv, IdsIssued
      <4>2. UnlinkedList = RemoveFirst(index[job.at], job.lid)
        BY <3>1 DEF UnlinkedList
      <4> QED  BY <4>1, <4>2, RemoveFirstType
    <3>2. CASE job.at \notin DOMAIN index
      <4>1. UnlinkedList = RemoveFirst(job.val, job.lid)
        BY <3>2 DEF UnlinkedList
      <4> QED  BY <4>1, <1>2, RemoveFirstType
    <3> QED  BY <3>1, <3>2
  <2> QED  BY <2>1, IssuedTypes
<1>4. DiskType' /\ (index \in [DOMAIN index -> Seq(Issued)])'
  BY <1>1, <1>2, <1>3 DEF DiskType, StoreInv, Types, IdsIssued, Issued, Put
<1>5. CASE job' = Idle /\ Purge
  <2>1. Counted(lru, fast)' /\ Coherent(lru, fast)'
    BY <1>5, EmptyMemory DEF Purge, StoreInv
  <2>2. job' \in Jobs /\ job'.op = "idle"
    BY <1>5 DEF Jobs, Idle
  <2>3. IdsIssued'
    BY <1>1, <1>4, <2>2 DEF IdsIssued, Issued, StoreInv
  <2> QED  BY <1>1, <1>4, <2>1, <2>2, <2>3, WritingSteps DEF StoreInv, Types
<1>6. CASE /\ job' = [job EXCEPT !.at = After(area, job.at), !.val = UnlinkedList]
           /\ UNCHANGED memory
  <2>1. Counted(lru, fast)'
    BY <1>6, MemoryKept DEF StoreInv
  <2>2. job' \in Jobs /\ job'.op = "unlink" /\ job'.lid = job.lid /\ job'.val = UnlinkedList
    <3>1. area \in [x : Nat, z : Nat, dx : Nat, dz : Nat, dim : Dims] /\ job.at \in Column
      BY <1>2, CursorType, StoreAssumption DEF Land, Column, ChunkKey
    <3>2. After(area, job.at) \in ChunkKey
      BY <3>1, CursorType
    <3> QED  BY <1>1, <1>2, <1>3, <1>6, <3>2 DEF Jobs
  <2>3. IdsIssued'
    BY <1>1, <1>2, <1>3, <1>4, <2>2 DEF IdsIssued, Issued, StoreInv
  <2>4. Writing'
    BY <2>2 DEF Writing
  <2> QED  BY <1>1, <1>4, <2>1, <2>2, <2>3, <2>4, WritingSteps DEF StoreInv, Types
<1> QED  BY <1>1, <1>5, <1>6

\* ForceNext: the next record is rewritten.
LEMMA ForceNextStep == ASSUME StoreInv, ForceNext PROVE StoreInv'
<1>1. PICK l \in DOMAIN rec :
         /\ job.op = "force" /\ UNCHANGED <<index, landId, memory, status, crashes>>
         /\ rec' = [rec EXCEPT ![l].data = job.data]
         /\ job' = [job EXCEPT !.lid = l]
  BY DEF ForceNext
<1>2. /\ job \in [op : {"force"}, data : Data, lid : Lids \cup {NoLid}]
      /\ l \in Lids /\ rec[l] \in Land
  BY <1>1, JobKinds DEF StoreInv, Types
<1>3. job' \in Jobs /\ job'.op = "force"
  BY <1>1, <1>2 DEF Jobs
<1>4. Counted(lru, fast)'
  BY <1>1, MemoryKept DEF StoreInv
<1>5. DiskType' /\ DOMAIN rec' = DOMAIN rec
  <2>1. [rec[l] EXCEPT !.data = job.data] \in Land
    BY <1>2 DEF Land
  <2> QED  BY <1>1, <2>1 DEF DiskType, StoreInv, Types
<1>6. IdsIssued'
  BY <1>1, <1>3, <1>5 DEF IdsIssued, Issued, StoreInv
<1>7. Writing'
  BY <1>3 DEF Writing
<1> QED  BY <1>1, <1>3, <1>4, <1>5, <1>6, <1>7, WritingSteps DEF StoreInv, Types

\* ForceEnd: the pass ends with a purge.
LEMMA ForceEndStep == ASSUME StoreInv, ForceEnd PROVE StoreInv'
<1>1. Purge /\ job' = Idle /\ UNCHANGED <<disk, status, crashes>>
  BY DEF ForceEnd
<1>2. Counted(lru, fast)' /\ Coherent(lru, fast)'
  BY <1>1, EmptyMemory DEF Purge, StoreInv
<1>3. job' \in Jobs /\ job'.op = "idle" /\ status' \in {"running", "undefined"}
  BY <1>1 DEF Jobs, Idle, StoreInv, Types
<1> QED  BY <1>1, <1>2, <1>3, LookingSteps

\* A restart begins with empty caches and no job.
LEMMA RestartStep ==
    ASSUME StoreInv, Restart, crashes' \in 0 .. MaxCrashes
    PROVE  StoreInv'
<1>1. lru' = <<>> /\ fast' = <<>> /\ job' = Idle /\ status' = "running" /\ UNCHANGED disk
  BY DEF Restart
<1>2. Counted(<<>>, fast') /\ DOMAIN fast' = {}
  BY <1>1, EmptySeq DEF Counted
<1>3. Counted(lru, fast)' /\ Coherent(lru, fast)'
  BY <1>1, <1>2 DEF Counted, Coherent
<1>4. job' \in Jobs /\ job'.op = "idle"
  BY <1>1 DEF Jobs, Idle
<1>5. IdsIssued'
  BY <1>1, <1>4 DEF StoreInv, IdsIssued, Issued, disk
<1>6. DiskType'
  BY <1>1 DEF StoreInv, Types, DiskType, disk
<1> QED  BY <1>1, <1>3, <1>4, <1>5, <1>6, WritingSteps DEF StoreInv, Types, disk

(***************************************************************************)
(* A missing record is survived by a restart alone.                        *)
(***************************************************************************)
LEMMA ReadMissingStep ==
    ASSUME StoreInv, NEW c, ReadMissing(c)
    PROVE  \/ Restart /\ StoreInv'
           \/ status' = "undefined" /\ UNCHANGED <<disk, crashes>>
<1>1. UNCHANGED crashes /\ (Restart \/ CacheGarbage(ChunkOf(c)))
  BY DEF ReadMissing
<1>2. CASE Restart
  BY <1>1, <1>2, RestartStep DEF StoreInv, Types
<1>3. CASE CacheGarbage(ChunkOf(c))
  BY <1>1, <1>3 DEF CacheGarbage
<1> QED  BY <1>1, <1>2, <1>3

\* A step of a sane process keeps the invariant or is the first that is not sane.
LEMMA SaneStep ==
    ASSUME StoreInv, Next
    PROVE  StoreInv' \/ (status' = "undefined" /\ crashes' = crashes) \/ ~Sane
<1> USE StoreAssumption
<1>1. CASE Step
  <2>1. ASSUME NEW c \in Probes, UseSecond(c) PROVE StoreInv'
    BY <2>1, UseSecondStep
  <2> QED  BY <1>1, <2>1, DerefStep, ScanStep, TakeIdStep, PutRecordStep, LinkChunkStep,
              DelRecordStep, UnlinkChunkStep, ForceNextStep, ForceEndStep DEF Step
<1>2. ASSUME NEW c \in Probes, Lookup(c) \/ UseFirst(c) \/ Sell(c) PROVE StoreInv'
  BY <1>2, LookupStep, UseFirstStep, SellStep
<1>3. ASSUME NEW c \in Probes, NEW d \in Data, Update(c, d) PROVE StoreInv'
  BY <1>3, UpdateStep
<1>4. ASSUME NEW r \in Rects, NEW d \in Data, Buy(r, d) PROVE StoreInv'
  BY <1>4, BuyStep
<1>5. ASSUME NEW d \in Data, ForcePerm(d) PROVE StoreInv'
  BY <1>5, ForcePermStep
<1>6. ASSUME NEW c, ReadMissing(c)
      PROVE  StoreInv' \/ (status' = "undefined" /\ crashes' = crashes)
  BY <1>6, ReadMissingStep
<1>7. CASE Crash
  BY <1>7, RestartStep DEF Crash, StoreInv, Types
<1>8. CASE Anything
  BY <1>8 DEF Anything, Sane
<1> QED  BY <1>1, <1>2, <1>3, <1>4, <1>5, <1>6, <1>7, <1>8 DEF Next

\* A process that is not sane stays so.
LEMMA InsaneStep ==
    ASSUME status = "undefined", Next
    PROVE  status' = "undefined" /\ crashes' = crashes
<1>1. \A c, d, r : ~(Lookup(c) \/ UseFirst(c) \/ Sell(c) \/ Update(c, d) \/ Buy(r, d) \/ ForcePerm(d)
                     \/ ReadMissing(c))
  BY DEF Lookup, UseFirst, Sell, Update, Buy, ForcePerm, ReadMissing, Start
<1>2. ~Step /\ ~Crash
  BY DEF Step, Crash
<1>3. Anything
  BY <1>1, <1>2 DEF Next
<1> QED  BY <1>3 DEF Anything

(***************************************************************************)
(* The invariant is inductive.                                             *)
(***************************************************************************)
LEMMA StoreNext == SaneInv /\ [Next]_storeVars => SaneInv'
<1> SUFFICES ASSUME SaneInv, [Next]_storeVars PROVE SaneInv'
  OBVIOUS
<1>1. CASE Sane /\ Next
  <2>1. StoreInv
    BY <1>1 DEF SaneInv
  <2>2. StoreInv' => SaneInv'
    BY DEF SaneInv, StoreInv, Types
  <2>3. status' = "undefined" /\ crashes' = crashes => SaneInv'
    BY DEF SaneInv, Sane
  <2> QED  BY <1>1, <2>1, <2>2, <2>3, SaneStep
<1>2. CASE ~Sane /\ Next
  <2>1. status = "undefined"
    BY <1>2 DEF SaneInv, Sane
  <2> QED  BY <1>2, <2>1, InsaneStep DEF SaneInv, Sane
<1>3. CASE UNCHANGED storeVars
  <2>1. UNCHANGED <<disk, memory, job, status, crashes>>
    BY <1>3 DEF storeVars, disk, memory
  <2>2. ASSUME StoreInv PROVE StoreInv'
    <3>1. Counted(lru, fast)' /\ DiskType'
      BY <2>1, <2>2, MemoryKept DEF StoreInv, Types, DiskType, disk
    <3>2. ~Writing' => Coherent(lru, fast)'
      BY <2>1, <2>2 DEF StoreInv, Writing, Coherent, Listed, disk, memory
    <3>3. IdsIssued'
      BY <2>1, <2>2 DEF StoreInv, IdsIssued, Issued, disk
    <3> QED  BY <2>1, <2>2, <3>1, <3>2, <3>3, WritingSteps DEF StoreInv, Types, disk
  <2> QED  BY <2>1, <2>2 DEF SaneInv, Sane
<1> QED  BY <1>1, <1>2, <1>3

\* The invariant holds of every behaviour.
LEMMA StoreInvariant == Spec => []SaneInv
<1>1. Init => SaneInv
  BY StoreInit DEF SaneInv, StoreInv, Types
<1> QED  BY <1>1, StoreNext, PTL DEF Spec

-----------------------------------------------------------------------------
(***************************************************************************)
(* Every variable of the store keeps its type, until the process caches a  *)
(* missing land.                                                           *)
(***************************************************************************)
THEOREM StoreTypes == Spec => []TypeOK
<1>1. SaneInv => TypeOK
  BY DEF SaneInv, StoreInv, TypeOK
<1> QED  BY <1>1, StoreInvariant, PTL

(***************************************************************************)
(* requestLand and noticeFree (data.hpp:102-131) never miscount: no land   *)
(* is freed under a chunk that lists it, none is kept after the last one.  *)
(***************************************************************************)
THEOREM RefcountsAreExact == Spec => []RefcountExact
<1>1. SaneInv => RefcountExact
  BY DEF SaneInv, StoreInv, RefcountExact, Counted
<1> QED  BY <1>1, StoreInvariant, PTL

(***************************************************************************)
(* The purges of data.hpp keep the caches what the database says, through  *)
(* every handler and across crashes.                                       *)
(***************************************************************************)
THEOREM CachesAreCoherent == Spec => []CacheCoherent
<1>1. SaneInv => CacheCoherent
  BY DEF SaneInv, StoreInv, CacheCoherent, Coherent
<1> QED  BY <1>1, StoreInvariant, PTL

(***************************************************************************)
(* getLandUniqid (data.hpp:260-272) writes the counter before the record:  *)
(* whatever dies in between, no identifier in use is handed out again.     *)
(***************************************************************************)
THEOREM IdentifiersAreFresh == Spec => []NoIdentifierAhead
<1>1. SaneInv => NoIdentifierAhead
  <2> SUFFICES ASSUME StoreInv
               PROVE  /\ \A l \in DOMAIN rec : l <= landId
                      /\ \A k \in DOMAIN index : \A l \in ToSet(index[k]) : l <= landId
                      /\ job.op = "put" => job.lid \notin DOMAIN rec
    BY DEF SaneInv, NoIdentifierAhead
  <2>1. \A l \in DOMAIN rec : l <= landId
    BY DEF StoreInv, IdsIssued, Issued
  <2>2. ASSUME NEW k \in DOMAIN index, NEW l \in ToSet(index[k]) PROVE l <= landId
    <3>1. index[k] \in Seq(Issued)
      BY DEF StoreInv, IdsIssued
    <3>2. PICK i \in DOMAIN index[k] : l = index[k][i]
      BY DEF ToSet
    <3>3. l \in Issued
      BY <3>1, <3>2, LenProperties, ElementOfSeq
    <3> QED  BY <3>3 DEF Issued
  <2>3. job.op = "put" => job.lid \notin DOMAIN rec
    BY DEF StoreInv, IdsIssued
  <2> QED  BY <2>1, <2>2, <2>3
<1> QED  BY <1>1, StoreInvariant, PTL

(***************************************************************************)
(* updLand (data.hpp:339-351) and iterLands put back what they read: no    *)
(* command moves a land.                                                   *)
(***************************************************************************)
RectKept == \A l \in DOMAIN rec \cap DOMAIN rec' : rec'[l].rect = rec[l].rect

\* Step by step: a record that stays keeps its rectangle.
LEMMA RectsKept == StoreInv /\ Sane /\ [Next]_storeVars => RectKept
<1> SUFFICES ASSUME StoreInv, Sane, [Next]_storeVars PROVE RectKept
  OBVIOUS
<1>1. ASSUME UNCHANGED rec PROVE RectKept
  BY <1>1 DEF RectKept
<1>2. CASE PutRecord
  <2>1. rec' = Put(rec, job.lid, job.land) /\ job.lid \notin DOMAIN rec
    BY <1>2 DEF PutRecord, StoreInv, IdsIssued
  <2> QED  BY <2>1 DEF Put, RectKept
<1>3. CASE DelRecord
  BY <1>3 DEF DelRecord, Del, RectKept
<1>4. CASE ForceNext
  <2>1. PICK k \in DOMAIN rec : rec' = [rec EXCEPT ![k].data = job.data]
    BY <1>4 DEF ForceNext
  <2>2. \A l \in DOMAIN rec : rec[l] \in Land
    BY DEF StoreInv, Types
  <2> QED  BY <2>1, <2>2 DEF RectKept, Land
<1>5. ASSUME NEW c \in Column, NEW d \in Data, Update(c, d) PROVE RectKept
  <2> DEFINE slots == LruAfter(ChunkOf(c))
             f == FastAfter(ChunkOf(c))
  <2>1. /\ Found(c) # NoLid /\ Loadable(ChunkOf(c)) /\ job = Idle
        /\ rec' = Put(rec, Found(c), [f[Found(c)].land EXCEPT !.data = d])
    BY <1>5 DEF Update
  <2>2. DiskType /\ ChunkOf(c) \in ChunkKey /\ Counted(lru, fast) /\ Coherent(lru, fast)
    BY <2>1, TypeGivesDisk, ChunkOfType DEF StoreInv, Writing, Idle
  <2>3. Coherent(slots, f) /\ Found(c) \in DOMAIN f /\ f[Found(c)].land \in Land
    BY <2>1, <2>2, TouchCoherent, FoundListed
  <2> HIDE DEF slots, f
  <2>4. f[Found(c)].land = rec[Found(c)]
    BY <2>3 DEF Coherent
  <2> QED  BY <2>1, <2>3, <2>4 DEF Put, RectKept, Land
<1>6. CASE Step
  <2>1. CASE PutRecord \/ DelRecord \/ ForceNext
    BY <2>1, <1>2, <1>3, <1>4
  <2>2. CASE (\E c \in Probes : UseSecond(c)) \/ Deref \/ Collide \/ ScanOn \/ TakeId
             \/ LinkChunk \/ UnlinkChunk \/ ForceEnd
    BY <2>2, <1>1 DEF UseSecond, Deref, Collide, ScanOn, TakeId, LinkChunk, UnlinkChunk,
                      ForceEnd, disk
  <2> QED  BY <1>6, <2>1, <2>2 DEF Step
<1>7. ASSUME NEW c \in Probes, Lookup(c) \/ UseFirst(c) \/ Sell(c) PROVE RectKept
  BY <1>7, <1>1 DEF Lookup, UseFirst, Sell, disk
<1>8. ASSUME NEW c \in Probes, NEW d \in Data, Update(c, d) PROVE RectKept
  BY <1>8, <1>5, StoreAssumption
<1>9. ASSUME NEW r \in Rects, NEW d \in Data, Buy(r, d) PROVE RectKept
  BY <1>9, <1>1 DEF Buy, disk
<1>10. ASSUME NEW d \in Data, ForcePerm(d) PROVE RectKept
  BY <1>10, <1>1 DEF ForcePerm, disk
<1>11. ASSUME NEW c, ReadMissing(c) PROVE RectKept
  BY <1>11, <1>1 DEF ReadMissing, CacheGarbage, Restart, disk
<1>12. CASE Crash
  BY <1>12, <1>1 DEF Crash, Restart, disk
<1>13. ~Anything
  BY DEF Anything, Sane
<1>14. CASE UNCHANGED storeVars
  BY <1>14, <1>1 DEF storeVars
<1> QED  BY <1>6, <1>7, <1>8, <1>9, <1>10, <1>11, <1>12, <1>13, <1>14 DEF Next

\* updLand and iterLands (data.hpp:339-378) never move a land.
THEOREM LandsKeepTheirGround == Spec => LandsStayPut
<1>1. SaneInv /\ [Next]_storeVars => [Sane => RectKept]_storeVars
  BY RectsKept DEF SaneInv
<1>2. Spec => [][Sane => RectKept]_storeVars
  BY <1>1, StoreInvariant, PTL DEF Spec
<1> QED  BY <1>2 DEF LandsStayPut, RectKept

-----------------------------------------------------------------------------
(***************************************************************************)
(* handle_useion's first pointer (main.cpp:411).  The chunk it came from   *)
(* is the first of the cache, and a cache of two chunks is enough for the  *)
(* second lookup to leave it there.                                        *)
(***************************************************************************)
FirstStays(k) == \E j \in DOMAIN LruAfter(k) : LruAfter(k)[j] = lru[1]

\* A lookup leaves the most recently used chunk in a cache of two or more.
LEMMA FirstChunkStays ==
    ASSUME DiskType, Counted(lru, fast), CacheSize >= 2, 1 \in DOMAIN lru, NEW k \in ChunkKey
    PROVE  FirstStays(k)
<1>1. lru \in Seq(Slot) /\ Len(lru) \in Nat /\ Len(lru) >= 1 /\ DOMAIN lru = 1 .. Len(lru)
      /\ \A m \in 1 .. Len(lru) : lru[m] \in Slot
  BY LenProperties, ElementOfSeq DEF Counted
<1>2. ASSUME NEW e \in Slot, NEW s \in Seq(Slot), LruAfter(k) = <<e>> \o s,
             Len(s) >= 1, s[1] = lru[1]
      PROVE  FirstStays(k)
  <2>1. Len(s) \in Nat
    BY LenProperties
  <2>2. DOMAIN LruAfter(k) = 1 .. 1 + Len(s) /\ \A n \in 1 .. Len(s) : LruAfter(k)[n + 1] = s[n]
    BY <1>2, Prepend
  <2>3. 2 \in DOMAIN LruAfter(k) /\ LruAfter(k)[2] = lru[1]
    <3>1. 1 \in 1 .. Len(s) /\ 2 \in 1 .. 1 + Len(s) /\ 1 + 1 = 2
      BY <1>2, <2>1
    <3> QED  BY <3>1, <2>2, <1>2
  <2> QED  BY <2>3 DEF FirstStays
<1>3. CASE Cached(k)
  <2> DEFINE i == SlotOf(k)
             rest == RemoveAt(lru, i)
  <2>1. i \in 1 .. Len(lru)
    BY <1>1, <1>3 DEF Cached, SlotOf
  <2>2. LruAfter(k) = <<lru[i]>> \o rest /\ rest \in Seq(Slot) /\ lru[i] \in Slot
    BY <1>1, <1>3, <2>1, CutAt DEF LruAfter
  <2>3. CASE i = 1
    <3>1. 1 \in DOMAIN LruAfter(k) /\ LruAfter(k)[1] = lru[1]
      BY <2>2, <2>3, Prepend, LenProperties
    <3> QED  BY <3>1 DEF FirstStays
  <2>4. CASE i # 1
    <3> DEFINE left == SubSeq(lru, 1, i - 1)
               right == SubSeq(lru, i + 1, Len(lru))
    <3>1. /\ left \in Seq(Slot) /\ Len(left) = i - 1 /\ i - 1 >= 1
          /\ left[1] = lru[1]
      <4>1. /\ left \in Seq(Slot) /\ Len(left) = i - 1 /\ i - 1 >= 1
            /\ \A m \in 1 .. i - 1 : left[m] = lru[m]
        BY <1>1, <2>1, <2>4, SubSeqProperties
      <4> HIDE DEF left
      <4> QED  BY <4>1, <2>1
    <3>2. right \in Seq(Slot) /\ Len(right) \in Nat
      BY <1>1, <2>1, CutAt, LenProperties
    <3>3. rest = left \o right
      BY DEF RemoveAt
    <3> HIDE DEF left, right, rest
    <3>4. Len(rest) >= 1 /\ rest[1] = lru[1]
      BY <3>1, <3>2, <3>3, <2>1, ConcatProperties
    <3> QED  BY <3>4, <2>2, <1>2
  <2> QED  BY <2>3, <2>4
<1>4. CASE ~Cached(k)
  <2>1. Loaded(k) \in Slot
    BY ListedType DEF Loaded, Slot
  <2>2. Survivors \in Seq(Slot) /\ Len(Survivors) >= 1 /\ Survivors[1] = lru[1]
    <3>1. CASE Len(lru) = CacheSize
      <4>1. Survivors = SubSeq(lru, 1, Len(lru) - 1) /\ Len(lru) - 1 >= 1
        BY <3>1, StoreAssumption DEF Survivors, Front
      <4>2. /\ Survivors \in Seq(Slot) /\ Len(Survivors) = Len(lru) - 1
            /\ \A m \in 1 .. Len(lru) - 1 : Survivors[m] = lru[m]
        BY <4>1, <1>1, SubSeqProperties
      <4> QED  BY <4>1, <4>2, <1>1
    <3>2. CASE Len(lru) # CacheSize
      BY <3>2, <1>1 DEF Survivors
    <3> QED  BY <3>1, <3>2
  <2>3. LruAfter(k) = <<Loaded(k)>> \o Survivors
    BY <1>4 DEF LruAfter
  <2> QED  BY <2>1, <2>2, <2>3, <1>2
<1> QED  BY <1>3, <1>4

Pinned ==
    Sane /\ job.op = "use" =>
        /\ 1 \in DOMAIN lru /\ lru[1].chunk = job.chunk
        /\ job.lid # NoLid => job.lid \in ToSet(lru[1].lids)

\* Between its two lookups handle_useion's first chunk is the cache's first.
LEMMA PinnedNext ==
    ASSUME CacheSize >= 2, StoreInv, Sane, Pinned, HeldPointerAlive, [Next]_storeVars
    PROVE  Pinned' /\ HeldPointerAlive'
<1>1. DiskType /\ Counted(lru, fast) /\ job \in Jobs
  BY TypeGivesDisk DEF StoreInv, Types
<1>2. ASSUME job'.op \notin {"use", "deref"} PROVE Pinned' /\ HeldPointerAlive'
  BY <1>2 DEF Pinned, HeldPointerAlive
<1>4. ASSUME NEW c \in Column, UseFirst(c) PROVE Pinned' /\ HeldPointerAlive'
  <2>1. /\ lru' = LruAfter(ChunkOf(c)) /\ Loadable(ChunkOf(c)) /\ ChunkOf(c) \in ChunkKey
        /\ job' = [op |-> "use", lid |-> Found(c), chunk |-> ChunkOf(c)]
    BY <1>4, ChunkOfType DEF UseFirst, Start, Touch
  <2>2. 1 \in DOMAIN lru' /\ lru'[1].chunk = ChunkOf(c)
    BY <1>1, <2>1, TouchCounted
  <2>3. Found(c) # NoLid => Found(c) \in ToSet(lru'[1].lids)
    BY <1>1, <2>1, FoundListed
  <2> QED  BY <2>1, <2>2, <2>3 DEF Pinned, HeldPointerAlive
<1>5. ASSUME NEW c \in Column, UseSecond(c) PROVE Pinned' /\ HeldPointerAlive'
  <2>1. /\ job.op = "use" /\ job' = [job EXCEPT !.op = "deref"]
        /\ lru' = LruAfter(ChunkOf(c)) /\ ChunkOf(c) \in ChunkKey
    BY <1>5, ChunkOfType DEF UseSecond, Touch
  <2>2. job'.op = "deref" /\ job'.lid = job.lid /\ job'.chunk = job.chunk
    BY <1>1, <2>1, JobKinds
  <2>3. PICK j \in DOMAIN lru' : lru'[j] = lru[1]
    BY <1>1, <2>1, FirstChunkStays DEF Pinned, FirstStays
  <2> QED  BY <2>1, <2>2, <2>3 DEF Pinned, HeldPointerAlive
<1>6. CASE Step
  <2>1. ASSUME NEW c \in Probes, UseSecond(c) PROVE Pinned' /\ HeldPointerAlive'
    BY <2>1, <1>5, StoreAssumption
  <2>2. CASE Deref \/ Collide \/ TakeId \/ PutRecord \/ DelRecord \/ ForceEnd
    <3>1. job'.op \in {"idle", "put", "link", "unlink"}
      BY <2>2 DEF Deref, Collide, TakeId, PutRecord, DelRecord, ForceEnd, Idle
    <3> QED  BY <3>1, <1>2
  <2>3. CASE ScanOn \/ LinkChunk \/ UnlinkChunk \/ ForceNext
    <3>1. job.op \in {"scan", "link", "unlink", "force"}
      BY <2>3 DEF ScanOn, LinkChunk, UnlinkChunk, ForceNext
    <3>2. job'.op \in {"idle", "id"} \/ job'.op = job.op
      <4>1. CASE ScanOn
        <5>1. job \in [op : {"scan", "id"}, land : Land, at : Column]
          BY <4>1, <1>1, JobKinds DEF ScanOn
        <5> QED  BY <4>1, <5>1 DEF ScanOn
      <4>2. CASE LinkChunk
        <5>1. job \in [op : {"link"}, land : Land, lid : Lids, at : ChunkKey]
          BY <4>2, <1>1, JobKinds DEF LinkChunk
        <5> QED  BY <4>2, <5>1 DEF LinkChunk, Idle
      <4>3. CASE UnlinkChunk
        <5>1. job \in [op : {"unlink"}, land : Land, lid : Lids, at : ChunkKey, val : Seq(Lids)]
          BY <4>3, <1>1, JobKinds DEF UnlinkChunk
        <5>2. \/ job' = Idle
              \/ job' = [job EXCEPT !.at = After(ChunkSpan(job.land.rect), job.at),
                                    !.val = UnlinkedList]
          BY <4>3 DEF UnlinkChunk
        <5>3. job' = Idle \/ job'.op = "unlink"
          BY <5>1, <5>2
        <5> QED  BY <5>1, <5>3 DEF Idle
      <4>4. CASE ForceNext
        <5>1. job \in [op : {"force"}, data : Data, lid : Lids \cup {NoLid}]
          BY <4>4, <1>1, JobKinds DEF ForceNext
        <5>2. PICK l \in DOMAIN rec : job' = [job EXCEPT !.lid = l]
          BY <4>4 DEF ForceNext
        <5> QED  BY <5>1, <5>2
      <4> QED  BY <2>3, <4>1, <4>2, <4>3, <4>4
    <3> QED  BY <3>1, <3>2, <1>2
  <2> QED  BY <1>6, <2>1, <2>2, <2>3 DEF Step
<1>7. ASSUME NEW c \in Probes, Lookup(c) \/ Sell(c) PROVE Pinned' /\ HeldPointerAlive'
  BY <1>7, <1>2 DEF Lookup, Sell, Start, Idle
<1>8. ASSUME NEW c \in Probes, UseFirst(c) PROVE Pinned' /\ HeldPointerAlive'
  BY <1>8, <1>4, StoreAssumption
<1>9. ASSUME NEW c \in Probes, NEW d \in Data, Update(c, d) PROVE Pinned' /\ HeldPointerAlive'
  BY <1>9, <1>2 DEF Update, Idle
<1>10. ASSUME NEW r \in Rects, NEW d \in Data, Buy(r, d) PROVE Pinned' /\ HeldPointerAlive'
  BY <1>10, <1>2 DEF Buy
<1>11. ASSUME NEW d \in Data, ForcePerm(d) PROVE Pinned' /\ HeldPointerAlive'
  BY <1>11, <1>2 DEF ForcePerm
<1>12. ASSUME NEW c, ReadMissing(c) PROVE Pinned' /\ HeldPointerAlive'
  <2>1. CASE Restart
    BY <2>1, <1>2 DEF Restart, Idle
  <2>2. CASE CacheGarbage(ChunkOf(c))
    BY <2>2 DEF CacheGarbage, Sane, Pinned, HeldPointerAlive
  <2> QED  BY <1>12, <2>1, <2>2 DEF ReadMissing
<1>13. CASE Crash
  BY <1>13, <1>2 DEF Crash, Restart, Idle
<1>14. ~Anything
  BY DEF Anything, Sane
<1>15. CASE UNCHANGED storeVars
  BY <1>15 DEF storeVars, Sane, Pinned, HeldPointerAlive
<1> QED  BY <1>6, <1>7, <1>8, <1>9, <1>10, <1>11, <1>12, <1>13, <1>14, <1>15 DEF Next

\* A process that is not sane promises nothing of its pointers.
LEMMA PointersNext ==
    ASSUME CacheSize >= 2, SaneInv, Pinned, HeldPointerAlive, [Next]_storeVars
    PROVE  Pinned' /\ HeldPointerAlive'
<1>1. CASE Sane
  BY <1>1, PinnedNext DEF SaneInv
<1>2. CASE ~Sane
  <2>1. status = "undefined"
    BY <1>2 DEF SaneInv, Sane
  <2>2. status' = "undefined"
    BY <2>1, InsaneStep DEF storeVars
  <2> QED  BY <2>2 DEF Sane, Pinned, HeldPointerAlive
<1> QED  BY <1>1, <1>2

\* With a cache of two chunks or more (it has 160), the land handle_useion
\* looked up first is still listed by a cached chunk when it is used.
THEOREM TwoChunksHoldThePointer ==
    ASSUME CacheSize >= 2
    PROVE  Spec => []HeldPointerAlive
<1>1. Init => Pinned /\ HeldPointerAlive
  BY DEF Init, Idle, Pinned, HeldPointerAlive
<1>2. SaneInv /\ (Pinned /\ HeldPointerAlive) /\ [Next]_storeVars => (Pinned /\ HeldPointerAlive)'
  BY PointersNext
<1> QED  BY <1>1, <1>2, StoreInvariant, PTL DEF Spec
=============================================================================
