--------------------------- MODULE LandMapProofs ----------------------------
(***************************************************************************)
(* Until the process first dies, the land store of land.mod is a map of    *)
(* lands that do not overlap, whatever the number of lands, the sizes of   *)
(* chunks and cache and the rectangles bought: the records, the index of   *)
(* chunks and the two caches tell one story.                               *)
(***************************************************************************)
EXTENDS LandStoreProofs

-----------------------------------------------------------------------------
(***************************************************************************)
(* Loops over an area.                                                     *)
(***************************************************************************)

\* The chunks a rectangle touches are a rectangle, and chunk keys are columns.
LEMMA SpanIsRectangle ==
    /\ \A r \in Rectangle : ChunkSpan(r) \in Rectangle
    /\ Column = ChunkKey
<1>1. ASSUME NEW r \in Rectangle PROVE ChunkSpan(r) \in Rectangle
  <2>1. /\ r.x \in Nat /\ r.z \in Nat /\ r.dx \in Nat /\ r.dz \in Nat /\ r.dim \in Dims
        /\ r.x <= r.dx /\ r.z <= r.dz
    BY DEF Rectangle
  <2>2. /\ ChunkPart(r.x) \in Nat /\ ChunkPart(r.z) \in Nat
        /\ ChunkPart(r.dx) \in Nat /\ ChunkPart(r.dz) \in Nat
        /\ ChunkPart(r.x) <= ChunkPart(r.dx) /\ ChunkPart(r.z) <= ChunkPart(r.dz)
    BY <2>1, ChunkPartType, ChunkPartMonotone
  <2> QED  BY <2>1, <2>2 DEF ChunkSpan, Rectangle
<1> QED  BY <1>1 DEF Column, ChunkKey

\* A loop begins inside its area, and nothing of the area is before that.
LEMMA LoopBegins ==
    ASSUME NEW area \in Rectangle
    PROVE  /\ Covers(area, First(area))
           /\ \A d \in Column : Covers(area, d) => ~Before(d, First(area))
BY DEF Rectangle, Column, Covers, First, Before

\* What is before the cursor after an iteration: what was before it, and what it was at.
LEMMA LoopGoesOn ==
    ASSUME NEW area \in Rectangle, NEW c \in Column, Covers(area, c),
           NEW d \in Column, Covers(area, d)
    PROVE  /\ ~AtEnd(area, c) => (Before(d, After(area, c)) <=> Before(d, c) \/ d = c)
           /\ AtEnd(area, c) => Before(d, c) \/ d = c
<1>1. /\ c.x \in Nat /\ c.z \in Nat /\ d.x \in Nat /\ d.z \in Nat /\ c.dim = d.dim
      /\ c = [x |-> c.x, z |-> c.z, dim |-> c.dim] /\ d = [x |-> d.x, z |-> d.z, dim |-> d.dim]
  BY DEF Column, Covers
<1>2. Before(d, c) \/ d = c \/ Before(c, d)
  BY <1>1 DEF Before
<1>3. CASE AtEnd(area, c)
  <2>1. ~Before(c, d)
    BY <1>1, <1>3 DEF AtEnd, Before, Covers, Rectangle
  <2> QED  BY <1>2, <1>3, <2>1
<1>4. CASE ~AtEnd(area, c)
  <2> DEFINE e == After(area, c)
  <2>1. /\ e \in Column /\ Before(c, e)
        /\ Before(c, d) => d = e \/ Before(e, d)
    BY <1>4, AfterIsNext
  <2> HIDE DEF e
  <2>2. e.x \in Nat /\ e.z \in Nat
    BY <2>1 DEF Column
  <2>3. Before(d, c) \/ d = c => Before(d, e)
    BY <1>1, <2>1, <2>2 DEF Before
  <2>4. Before(c, d) => ~Before(d, e)
    BY <1>1, <2>1, <2>2 DEF Before
  <2>5. Before(c, d) => ~(Before(d, c) \/ d = c)
    BY <1>1 DEF Before
  <2> QED  BY <1>2, <1>4, <2>3, <2>4, <2>5 DEF e
<1> QED  BY <1>3, <1>4

\* Rectangles that are not disjoint share a column.
LEMMA OverlapHasColumn ==
    ASSUME NEW r \in Rectangle, NEW s \in Rectangle, ~Disjoint(r, s)
    PROVE  \E c \in Column : Covers(r, c) /\ Covers(s, c)
<1> DEFINE x == IF r.x < s.x THEN s.x ELSE r.x
           z == IF r.z < s.z THEN s.z ELSE r.z
           c == [x |-> x, z |-> z, dim |-> r.dim]
<1>1. c \in Column
  BY DEF Rectangle, Column
<1>2. Covers(r, c) /\ Covers(s, c)
  BY DEF Rectangle, Disjoint, Covers
<1> QED  BY <1>1, <1>2

\* Disjoint rectangles share none.
LEMMA DisjointHasNone ==
    ASSUME NEW r \in Rectangle, NEW s \in Rectangle, Disjoint(r, s), NEW c \in Column
    PROVE  ~(Covers(r, c) /\ Covers(s, c))
BY DEF Rectangle, Column, Disjoint, Covers

\* An edge that spans a chunk has a place in it.
EdgeIn(from, chunk) == IF from < chunk * ChunkSize THEN chunk * ChunkSize ELSE from

LEMMA EdgeReaches ==
    ASSUME NEW a \in Nat, NEW b \in Nat, a <= b, NEW q \in Nat,
           ChunkPart(a) <= q, q <= ChunkPart(b)
    PROVE  /\ EdgeIn(a, q) \in Nat /\ a <= EdgeIn(a, q) /\ EdgeIn(a, q) <= b
           /\ ChunkPart(EdgeIn(a, q)) = q
<1>1. PICK e : e = q * ChunkSize
  OBVIOUS
<1>2. e \in Nat
  BY <1>1, ChunkSizeAssumption
<1>3. ChunkPart(e) = q
  BY <1>1, ChunkSizeAssumption, Z3 DEF ChunkPart
<1>4. CASE a < e
  <2>1. EdgeIn(a, q) = e
    BY <1>1, <1>4 DEF EdgeIn
  <2>2. e <= b
    <3>1. CASE q = ChunkPart(b)
      <4>1. e = ChunkSize * ChunkPart(b)
        BY <1>1, <3>1, ChunkSizeAssumption
      <4>2. PICK o : o = OffsetPart(b)
        OBVIOUS
      <4>3. b = e + o /\ o \in Nat
        BY <4>1, <4>2, DivMod, ChunkPartType
      <4> QED  BY <1>2, <4>3
    <3>2. CASE q # ChunkPart(b)
      <4>1. ChunkPart(e) < ChunkPart(b)
        BY <1>3, <3>2, ChunkPartType
      <4>2. e < b
        BY <1>2, <4>1, OtherChunk
      <4> QED  BY <1>2, <4>2
    <3> QED  BY <3>1, <3>2
  <2> QED  BY <1>2, <1>3, <1>4, <2>1, <2>2
<1>5. CASE ~(a < e)
  <2>1. EdgeIn(a, q) = a
    BY <1>1, <1>5 DEF EdgeIn
  <2>2. ChunkPart(e) <= ChunkPart(a)
    BY <1>2, <1>5, ChunkPartMonotone
  <2>3. ChunkPart(a) = q
    BY <1>3, <2>2, ChunkPartType
  <2> QED  BY <2>1, <2>3
<1> QED  BY <1>4, <1>5

\* A rectangle that touches a chunk covers one of its columns.
CornerIn(r, k) == [x |-> EdgeIn(r.x, k.x), z |-> EdgeIn(r.z, k.z), dim |-> k.dim]

LEMMA TouchedChunkHasColumn ==
    ASSUME NEW r \in Rectangle, NEW k \in ChunkKey, Touches(r, k)
    PROVE  /\ CornerIn(r, k) \in Column /\ Covers(r, CornerIn(r, k))
           /\ ChunkOf(CornerIn(r, k)) = k
<1>1. /\ r.x \in Nat /\ r.z \in Nat /\ r.dx \in Nat /\ r.dz \in Nat
      /\ r.x <= r.dx /\ r.z <= r.dz
  BY DEF Rectangle
<1>2. /\ k.x \in Nat /\ k.z \in Nat /\ k.dim \in Dims
      /\ k = [x |-> k.x, z |-> k.z, dim |-> k.dim]
  BY DEF ChunkKey
<1>3. /\ k.dim = r.dim
      /\ ChunkPart(r.x) <= k.x /\ k.x <= ChunkPart(r.dx)
      /\ ChunkPart(r.z) <= k.z /\ k.z <= ChunkPart(r.dz)
  BY DEF Touches, ChunkSpan, Covers
<1>4. /\ EdgeIn(r.x, k.x) \in Nat /\ r.x <= EdgeIn(r.x, k.x) /\ EdgeIn(r.x, k.x) <= r.dx
      /\ ChunkPart(EdgeIn(r.x, k.x)) = k.x
  BY <1>1, <1>2, <1>3, EdgeReaches
<1>5. /\ EdgeIn(r.z, k.z) \in Nat /\ r.z <= EdgeIn(r.z, k.z) /\ EdgeIn(r.z, k.z) <= r.dz
      /\ ChunkPart(EdgeIn(r.z, k.z)) = k.z
  BY <1>1, <1>2, <1>3, EdgeReaches
<1> QED  BY <1>2, <1>3, <1>4, <1>5 DEF CornerIn, Column, Covers, ChunkOf

\* A column is known by its chunk and its offsets there.
LEMMA OffsetsTell ==
    ASSUME NEW c \in Column, NEW d \in Column, ChunkOf(c) = ChunkOf(d),
           OffsetPart(c.x) = OffsetPart(d.x), OffsetPart(c.z) = OffsetPart(d.z)
    PROVE  c = d
<1>1. ChunkPart(c.x) = ChunkPart(d.x) /\ ChunkPart(c.z) = ChunkPart(d.z) /\ c.dim = d.dim
  BY DEF ChunkOf
<1>2. c.x \in Nat /\ c.z \in Nat /\ d.x \in Nat /\ d.z \in Nat
  BY DEF Column
<1>3. c.x = d.x /\ c.z = d.z
  BY <1>1, <1>2, DivMod
<1> QED  BY <1>1, <1>3 DEF Column

\* Disjoint does not depend on the order.
LEMMA DisjointSymmetric == \A r, s : Disjoint(r, s) <=> Disjoint(s, r)
BY DEF Disjoint

-----------------------------------------------------------------------------
(***************************************************************************)
(* Lists of identifiers without repetition.                                *)
(***************************************************************************)
Distinct(s) == \A i, j \in DOMAIN s : s[i] = s[j] => i = j

\* Appending a new element to a list adds it and keeps the list without repetition.
LEMMA AppendNew ==
    ASSUME NEW S, NEW s \in Seq(S), NEW e \in S, Distinct(s), e \notin ToSet(s)
    PROVE  /\ Distinct(Append(s, e))
           /\ ToSet(Append(s, e)) = ToSet(s) \cup {e}
<1> DEFINE t == Append(s, e)
           n == Len(s)
<1>1. /\ n \in Nat /\ DOMAIN s = 1 .. n /\ t \in Seq(S) /\ Len(t) = n + 1
      /\ DOMAIN t = 1 .. n + 1 /\ t[n + 1] = e /\ \A i \in 1 .. n : t[i] = s[i]
  BY AppendProperties, LenProperties
<1> HIDE DEF t
<1>2. \A i \in 1 .. n : s[i] # e
  BY <1>1 DEF ToSet
<1>3. \A i \in 1 .. n + 1 : i \in 1 .. n \/ i = n + 1
  BY <1>1
<1>4. Distinct(t)
  BY <1>1, <1>2, <1>3 DEF Distinct
<1>5. ToSet(t) = ToSet(s) \cup {e}
  <2>1. ASSUME NEW x \in ToSet(t) PROVE x \in ToSet(s) \cup {e}
    BY <1>1, <1>3 DEF ToSet
  <2>2. ASSUME NEW x \in ToSet(s) PROVE x \in ToSet(t)
    <3>1. PICK i \in 1 .. n : x = s[i]
      BY <1>1 DEF ToSet
    <3>2. i \in 1 .. n + 1 /\ t[i] = x
      BY <1>1, <3>1
    <3> QED  BY <1>1, <3>2 DEF ToSet
  <2>3. e \in ToSet(t)
    <3>1. n + 1 \in DOMAIN t
      BY <1>1
    <3> QED  BY <1>1, <3>1 DEF ToSet
  <2> QED  BY <2>1, <2>2, <2>3
<1> QED  BY <1>4, <1>5 DEF t

\* Taking an element off such a list takes that one and no other.
LEMMA RemoveOnly ==
    ASSUME NEW S, NEW s \in Seq(S), NEW e, Distinct(s), e \in ToSet(s)
    PROVE  /\ Distinct(RemoveFirst(s, e))
           /\ ToSet(RemoveFirst(s, e)) = ToSet(s) \ {e}
<1> DEFINE n == Len(s)
           places == {j \in 1 .. Len(s) : s[j] = e}
           p == Min(places)
           left == SubSeq(s, 1, p - 1)
           right == SubSeq(s, p + 1, n)
           t == left \o right
<1>1. /\ n \in Nat /\ DOMAIN s = 1 .. n /\ \A i \in 1 .. n : s[i] \in S
  BY LenProperties, ElementOfSeq
<1>2. places # {} /\ places \subseteq Nat
  BY <1>1 DEF ToSet
<1>3. p \in 1 .. n /\ s[p] = e
  BY <1>2, LeastNatural
<1>4. RemoveFirst(s, e) = t
  <2>1. \E i \in 1 .. Len(s) : s[i] = e
    BY <1>2
  <2>2. SelectInSeq(s, LAMBDA v : v = e) = p
    BY <2>1, <1>2 DEF SelectInSeq
  <2> QED  BY <2>1, <1>2 DEF RemoveFirst, RemoveAt, SelectInSeq
<1> HIDE DEF places, p
<1>5. left \in Seq(S) /\ Len(left) = p - 1 /\ \A i \in 1 .. p - 1 : left[i] = s[i]
  <2>1. /\ left \in Seq(S)
        /\ Len(left) = IF 1 <= p - 1 THEN (p - 1) - 1 + 1 ELSE 0
        /\ \A i \in 1 .. (p - 1) - 1 + 1 : left[i] = s[1 + i - 1]
    BY <1>1, <1>3, SubSeqProperties
  <2> HIDE DEF left
  <2>2. ASSUME NEW i \in 1 .. p - 1 PROVE left[i] = s[i]
    <3>1. i \in 1 .. (p - 1) - 1 + 1 /\ 1 + i - 1 = i
      BY <1>3
    <3> QED  BY <3>1, <2>1
  <2> QED  BY <2>1, <2>2, <1>3
<1>6. right \in Seq(S) /\ Len(right) = n - p /\ \A i \in 1 .. n - p : right[i] = s[p + i]
  <2>1. /\ right \in Seq(S)
        /\ Len(right) = IF p + 1 <= n THEN n - (p + 1) + 1 ELSE 0
        /\ \A i \in 1 .. n - (p + 1) + 1 : right[i] = s[(p + 1) + i - 1]
    BY <1>1, <1>3, SubSeqProperties
  <2> HIDE DEF right
  <2>2. ASSUME NEW i \in 1 .. n - p PROVE right[i] = s[p + i]
    <3>1. i \in 1 .. n - (p + 1) + 1 /\ (p + 1) + i - 1 = p + i
      BY <1>1, <1>3
    <3> QED  BY <3>1, <2>1
  <2>3. Len(right) = n - p
    <3>1. \A a, b \in Nat : b <= a => (IF b + 1 <= a THEN a - (b + 1) + 1 ELSE 0) = a - b
      OBVIOUS
    <3>2. n \in Nat /\ p \in Nat /\ p <= n
      BY <1>1, <1>3
    <3>3. (IF p + 1 <= n THEN n - (p + 1) + 1 ELSE 0) = n - p
      BY <3>1, <3>2, Zenon
    <3>4. Len(right) = IF p + 1 <= n THEN n - (p + 1) + 1 ELSE 0
      BY <2>1, Zenon
    <3> QED  BY <3>3, <3>4
  <2>4. right \in Seq(S)
    BY <2>1, Zenon
  <2> QED  BY <2>2, <2>3, <2>4
<1> HIDE DEF left, right
<1>7. /\ t \in Seq(S) /\ DOMAIN t = 1 .. n - 1
      /\ \A i \in 1 .. n - 1 : t[i] = IF i <= p - 1 THEN left[i] ELSE right[i - (p - 1)]
  <2>1. /\ t \in Seq(S) /\ Len(t) = Len(left) + Len(right)
        /\ \A i \in 1 .. Len(left) + Len(right) :
              t[i] = IF i <= Len(left) THEN left[i] ELSE right[i - Len(left)]
    BY <1>5, <1>6, ConcatProperties
  <2>2. Len(left) + Len(right) = n - 1
    BY <1>1, <1>3, <1>5, <1>6
  <2> QED  BY <2>1, <2>2, <1>5, LenProperties
<1> HIDE DEF t
<1> DEFINE from(i) == IF i <= p - 1 THEN i ELSE i + 1
<1>8. \A i \in 1 .. n - 1 : from(i) \in 1 .. n /\ from(i) # p /\ t[i] = s[from(i)]
  <2> SUFFICES ASSUME NEW i \in 1 .. n - 1
               PROVE  from(i) \in 1 .. n /\ from(i) # p /\ t[i] = s[from(i)]
    OBVIOUS
  <2>1. CASE i <= p - 1
    <3>1. i \in 1 .. p - 1 /\ from(i) = i /\ i \in 1 .. n /\ i # p
      BY <2>1, <1>1, <1>3
    <3> QED  BY <3>1, <2>1, <1>5, <1>7
  <2>2. CASE ~(i <= p - 1)
    <3>1. i - (p - 1) \in 1 .. n - p /\ p + (i - (p - 1)) = i + 1 /\ from(i) = i + 1
          /\ i + 1 \in 1 .. n /\ i + 1 # p
      BY <2>2, <1>1, <1>3
    <3> QED  BY <3>1, <2>2, <1>6, <1>7
  <2> QED  BY <2>1, <2>2
<1>9. \A j \in 1 .. n : j # p => \E i \in 1 .. n - 1 : from(i) = j
  <2> SUFFICES ASSUME NEW j \in 1 .. n, j # p PROVE \E i \in 1 .. n - 1 : from(i) = j
    OBVIOUS
  <2>1. CASE j <= p - 1
    BY <2>1, <1>1, <1>3
  <2>2. CASE ~(j <= p - 1)
    <3>1. j - 1 \in 1 .. n - 1 /\ from(j - 1) = j
      BY <2>2, <1>1, <1>3
    <3> QED  BY <3>1
  <2> QED  BY <2>1, <2>2
<1>10. \A i, j \in 1 .. n - 1 : from(i) = from(j) => i = j
  BY <1>1, <1>3
<1> HIDE DEF from
<1>11. Distinct(t)
  BY <1>1, <1>7, <1>8, <1>10 DEF Distinct
<1>12. \A j \in 1 .. n : s[j] = e <=> j = p
  BY <1>1, <1>3 DEF Distinct
<1>13. ToSet(t) = ToSet(s) \ {e}
  <2>1. ASSUME NEW x \in ToSet(t) PROVE x \in ToSet(s) \ {e}
    <3>1. PICK i \in 1 .. n - 1 : x = t[i]
      BY <1>7 DEF ToSet
    <3>2. from(i) \in 1 .. n /\ x = s[from(i)] /\ x # e
      BY <3>1, <1>8, <1>12
    <3> QED  BY <3>2, <1>1 DEF ToSet
  <2>2. ASSUME NEW x \in ToSet(s), x # e PROVE x \in ToSet(t)
    <3>1. PICK j \in 1 .. n : x = s[j]
      BY <1>1 DEF ToSet
    <3>2. PICK i \in 1 .. n - 1 : from(i) = j
      BY <2>2, <3>1, <1>9, <1>12
    <3>3. x = t[i]
      BY <3>1, <3>2, <1>8
    <3> QED  BY <3>3, <1>7 DEF ToSet
  <2> QED  BY <2>1, <2>2
<1> QED  BY <1>4, <1>11, <1>13

-----------------------------------------------------------------------------
(***************************************************************************)
(* What the records and the index are to each other.  The list of a chunk  *)
(* names, once, every land that touches the chunk: but while a land is     *)
(* being linked only the chunks the loop has passed name it, and while one *)
(* is unlinked the chunks the loop has not passed name it still.           *)
(***************************************************************************)
Names(k, l) ==
    \/ /\ l \in DOMAIN rec /\ Touches(rec[l].rect, k)
       /\ job.op = "link" /\ job.lid = l => Before(k, job.at)
    \/ /\ job.op = "unlink" /\ job.lid = l
       /\ Touches(job.land.rect, k) /\ ~Before(k, job.at)

IndexExact ==
    \A k \in ChunkKey :
        /\ Distinct(Listed(k))
        /\ \A l \in Lids : l \in ToSet(Listed(k)) <=> Names(k, l)

(***************************************************************************)
(* What a handler knows of the land it carries: the columns a purchase has *)
(* scanned are free, so is the whole rectangle when it takes an identifier *)
(* and writes the record; a sale carries the record it deletes, and no     *)
(* other land has come to its ground before the last chunk is done.        *)
(***************************************************************************)
Free(c) == \A l \in DOMAIN rec : ~Covers(rec[l].rect, c)

JobSound ==
    /\ job.op = "scan" =>
           /\ Covers(job.land.rect, job.at)
           /\ \A c \in Column : Covers(job.land.rect, c) /\ Before(c, job.at) => Free(c)
    /\ job.op \in {"id", "put"} => \A l \in DOMAIN rec : Disjoint(job.land.rect, rec[l].rect)
    /\ job.op \in {"put", "link"} => job.lid = landId /\ landId > 0
    /\ job.op \in {"del", "link"} => job.lid \in DOMAIN rec /\ rec[job.lid] = job.land
    /\ job.op = "unlink" =>
           /\ job.lid \notin DOMAIN rec
           /\ \A l \in DOMAIN rec : Disjoint(job.land.rect, rec[l].rect)
    /\ job.op \in {"link", "unlink"} => Covers(ChunkSpan(job.land.rect), job.at)

MapSound == status = "running" /\ IndexExact /\ LandsDisjoint /\ JobSound

MapInv == SaneInv /\ (crashes = 0 => MapSound)

\* A process that has not died has cached no garbage.
LEMMA NotDeadIsSane == MapInv /\ crashes = 0 => Sane /\ StoreInv /\ MapSound
  BY DEF MapInv, SaneInv, Sane, MapSound

\* The lists, the records and the land a job carries, as the lemmas use them.
LEMMA MapTypes ==
    ASSUME StoreInv
    PROVE  /\ DiskType /\ job \in Jobs /\ landId \in Nat /\ DOMAIN rec \subseteq Lids
           /\ Lids \subseteq Nat /\ NoLid \notin Lids
           /\ \A l \in DOMAIN rec : rec[l] \in Land /\ rec[l].rect \in Rectangle
           /\ \A k : Listed(k) \in Seq(Lids) /\ ToSet(Listed(k)) \subseteq Lids
           /\ \A land \in Land : land.rect \in Rectangle /\ land.rect \in Rects
<1>1. DiskType /\ job \in Jobs /\ landId \in Nat /\ Lids \subseteq Nat /\ NoLid \notin Lids
  BY TypeGivesDisk, StoreAssumption DEF StoreInv, Types, Lids, NoLid
<1>2. \A land \in Land : land.rect \in Rectangle /\ land.rect \in Rects
  BY StoreAssumption DEF Land
<1>3. \A l \in DOMAIN rec : rec[l] \in Land
  BY <1>1 DEF DiskType
<1>4. ASSUME NEW k PROVE Listed(k) \in Seq(Lids) /\ ToSet(Listed(k)) \subseteq Lids
  <2>1. Listed(k) \in Seq(Lids)
    BY <1>1, ListedType
  <2> DEFINE s == Listed(k)
  <2>2. DOMAIN s = 1 .. Len(s) /\ \A i \in 1 .. Len(s) : s[i] \in Lids
    BY <2>1, LenProperties, ElementOfSeq
  <2> HIDE DEF s
  <2>3. ToSet(s) \subseteq Lids
    BY <2>2 DEF ToSet
  <2> QED  BY <2>1, <2>3 DEF s
<1> QED  BY <1>1, <1>2, <1>3, <1>4 DEF DiskType

(***************************************************************************)
(* getFastLand (data.hpp:198-216) while no handler writes: every chunk can *)
(* be loaded, a land found covers the column and is read as it is stored,  *)
(* and where none is found none covers the column.                         *)
(***************************************************************************)
LEMMA LookupTells ==
    ASSUME StoreInv, ~Writing, IndexExact, NEW c \in Column
    PROVE  /\ Loadable(ChunkOf(c))
           /\ Found(c) # NoLid =>
                  /\ Found(c) \in DOMAIN rec /\ Covers(rec[Found(c)].rect, c)
                  /\ FastAfter(ChunkOf(c))[Found(c)].land = rec[Found(c)]
           /\ Found(c) = NoLid => Free(c)
<1> DEFINE k == ChunkOf(c)
           lids == Listed(k)
           slots == LruAfter(k)
           slot == slots[1]
           f == FastAfter(k)
           painters == Painters(slot, f, c)
<1>1. /\ k \in ChunkKey /\ lids \in Seq(Lids) /\ ToSet(lids) \subseteq Lids
      /\ \A l \in DOMAIN rec : rec[l].rect \in Rectangle /\ l \in Lids
      /\ DiskType /\ Counted(lru, fast) /\ Coherent(lru, fast) /\ NoLid \notin Lids
  BY ChunkOfType, MapTypes DEF StoreInv
<1>2. \A l \in Lids : l \in ToSet(lids) <=> l \in DOMAIN rec /\ Touches(rec[l].rect, k)
  BY <1>1 DEF IndexExact, Names, Writing
<1>3. Loadable(k)
  BY <1>1, <1>2 DEF Loadable
<1>4. /\ Counted(slots, f) /\ Coherent(slots, f) /\ 1 \in DOMAIN slots
      /\ slot.chunk = k /\ slot.lids = lids
  BY <1>1, <1>3, TouchCounted, TouchCoherent DEF Coherent
<1>5. DOMAIN lids = 1 .. Len(lids) /\ Len(lids) \in Nat
  BY <1>1, LenProperties
<1>6. Found(c) = CellOf(slot, f, c)
  BY DEF Found
<1> HIDE DEF slots, f, slot, lids, k
<1>7. \A l \in ToSet(lids) : l \in DOMAIN f /\ f[l].land = rec[l]
  BY <1>4 DEF Counted, Coherent, slot
<1>8. ASSUME NEW j \in DOMAIN lids
      PROVE  /\ lids[j] \in DOMAIN rec /\ f[lids[j]].land = rec[lids[j]]
             /\ Paints(f[lids[j]].land.rect, slot.chunk, c) <=> Covers(rec[lids[j]].rect, c)
  <2>1. lids[j] \in ToSet(lids)
    BY DEF ToSet
  <2>2. lids[j] \in DOMAIN rec /\ Touches(rec[lids[j]].rect, k)
    BY <2>1, <1>1, <1>2
  <2>3. Paints(rec[lids[j]].rect, k, c) <=> Covers(rec[lids[j]].rect, c)
    BY <2>2, <1>1, PaintsExact DEF k
  <2> QED  BY <2>1, <2>2, <2>3, <1>4, <1>7
<1>9. painters = {j \in DOMAIN lids : Covers(rec[lids[j]].rect, c)}
  BY <1>4, <1>8 DEF Painters
<1>10. CASE painters = {}
  <2>1. Found(c) = NoLid
    BY <1>6, <1>10 DEF CellOf
  <2>2. Free(c)
    <3> SUFFICES ASSUME NEW l \in DOMAIN rec, Covers(rec[l].rect, c) PROVE FALSE
      BY DEF Free
    <3>1. l \in ToSet(lids)
      BY <1>1, <1>2, CoveredColumnIsIndexed DEF k
    <3>2. PICK j \in DOMAIN lids : l = lids[j]
      BY <3>1 DEF ToSet
    <3> QED  BY <3>2, <1>9, <1>10
  <2> QED  BY <1>3, <2>1, <2>2 DEF k
<1>11. CASE painters # {}
  <2>1. PICK j \in painters : Found(c) = lids[j]
    <3>1. painters \subseteq 1 .. Len(lids)
      BY <1>5, <1>9
    <3>2. \E j \in painters : \A i \in painters : i <= j
      BY <1>5, <1>11, <3>1, GreatestPlace
    <3> DEFINE greatest == CHOOSE j \in painters : \A i \in painters : i <= j
    <3>3. greatest \in painters
      BY <3>2
    <3>4. Found(c) = lids[greatest]
      BY <1>4, <1>6, <1>11 DEF CellOf
    <3> QED  BY <3>3, <3>4
  <2>2. j \in DOMAIN lids /\ Covers(rec[lids[j]].rect, c)
    BY <1>9, <2>1
  <2>3. Found(c) \in DOMAIN rec /\ Covers(rec[Found(c)].rect, c) /\ f[Found(c)].land = rec[Found(c)]
    BY <1>8, <2>1, <2>2
  <2>4. Found(c) # NoLid
    BY <2>3, <1>1
  <2> QED  BY <1>3, <2>3, <2>4 DEF f, k
<1> QED  BY <1>10, <1>11

-----------------------------------------------------------------------------
(***************************************************************************)
(* Steps that leave the index alone and move no land.                      *)
(***************************************************************************)
LEMMA SameGround ==
    ASSUME StoreInv, MapSound, UNCHANGED index,
           DOMAIN rec' = DOMAIN rec, \A l \in DOMAIN rec : rec'[l].rect = rec[l].rect,
           job.op \notin {"link", "unlink"}, job'.op \notin {"link", "unlink"}
    PROVE  /\ IndexExact' /\ LandsDisjoint'
           /\ \A c : Free(c) => Free(c)'
<1>1. \A k : Listed(k)' = Listed(k)
  BY DEF Listed
<1>2. \A k, l : Names(k, l)' <=> Names(k, l)
  BY DEF Names
<1>3. IndexExact'
  BY <1>1, <1>2 DEF MapSound, IndexExact
<1>4. LandsDisjoint'
  BY DEF MapSound, LandsDisjoint
<1>5. \A c : Free(c) => Free(c)'
  BY DEF Free
<1> QED  BY <1>3, <1>4, <1>5

\* Steps of the handlers that carry no land.
LEMMA CarriesNothing ==
    ASSUME StoreInv, MapSound, UNCHANGED <<index, status>>,
           DOMAIN rec' = DOMAIN rec, \A l \in DOMAIN rec : rec'[l].rect = rec[l].rect,
           job.op \notin {"link", "unlink"}, job'.op \in {"idle", "use", "deref", "force"}
    PROVE  MapSound'
<1>1. IndexExact' /\ LandsDisjoint'
  BY SameGround
<1>2. JobSound'
  BY DEF JobSound
<1> QED  BY <1>1, <1>2 DEF MapSound

\* Lookup, UseFirst, UseSecond, Deref, Collide, ForcePerm, ForceEnd.
LEMMA LookingSound ==
    ASSUME StoreInv, MapSound, NEW c, NEW d,
           \/ Lookup(c) \/ UseFirst(c) \/ UseSecond(c) \/ Deref \/ Collide
           \/ ForcePerm(d) \/ ForceEnd
    PROVE  MapSound'
<1>1. UNCHANGED <<rec, index, status>>
  BY DEF Lookup, UseFirst, UseSecond, Deref, Collide, ForcePerm, ForceEnd, Start, Touch, disk
<1>2. job.op \notin {"link", "unlink"}
  BY DEF Lookup, UseFirst, UseSecond, Deref, Collide, ForcePerm, ForceEnd, Start, Idle
<1>3. job'.op \in {"idle", "use", "deref", "force"}
  <2>1. CASE UseSecond(c)
    <3>1. job \in [op : {"use", "deref"}, lid : Lids \cup {NoLid}, chunk : ChunkKey]
      BY <2>1, MapTypes, JobKinds DEF UseSecond
    <3> QED  BY <2>1, <3>1 DEF UseSecond
  <2>2. CASE Lookup(c) \/ UseFirst(c) \/ Deref \/ Collide \/ ForcePerm(d) \/ ForceEnd
    BY <2>2 DEF Lookup, UseFirst, Deref, Collide, ForcePerm, ForceEnd, Start, Idle
  <2> QED  BY <2>1, <2>2
<1> QED  BY <1>1, <1>2, <1>3, CarriesNothing

\* Update(c, d): the record found is put back with its rectangle.
LEMMA UpdateSound ==
    ASSUME StoreInv, MapSound, NEW c \in Column, NEW d \in Data, Update(c, d)
    PROVE  /\ MapSound'
           /\ Found(c) \in DOMAIN rec
           /\ rec' = [rec EXCEPT ![Found(c)].data = d]
<1>1. /\ job = Idle /\ job' = Idle /\ Found(c) # NoLid /\ UNCHANGED <<index, status>>
      /\ rec' = Put(rec, Found(c), [FastAfter(ChunkOf(c))[Found(c)].land EXCEPT !.data = d])
  BY DEF Update
<1>2. /\ Found(c) \in DOMAIN rec
      /\ FastAfter(ChunkOf(c))[Found(c)].land = rec[Found(c)]
  BY <1>1, LookupTells DEF MapSound, Writing, Idle
<1> DEFINE l == Found(c)
<1> HIDE DEF l
<1>3. rec' = [m \in DOMAIN rec |-> IF m = l THEN [rec[l] EXCEPT !.data = d] ELSE rec[m]]
  BY <1>1, <1>2 DEF Put, l
<1>4. rec' = [rec EXCEPT ![l].data = d]
  BY <1>2, <1>3 DEF l
<1>5. \A m \in DOMAIN rec : rec[m] \in Land
  BY MapTypes
<1>6. DOMAIN rec' = DOMAIN rec /\ \A m \in DOMAIN rec : rec'[m].rect = rec[m].rect
  BY <1>2, <1>3, <1>5 DEF Land, l
<1> QED  BY <1>1, <1>2, <1>4, <1>6, CarriesNothing DEF Idle, l

\* ForceNext: the record read is put back with its rectangle.
LEMMA ForceNextSound == ASSUME StoreInv, MapSound, ForceNext PROVE MapSound'
<1>1. PICK l \in DOMAIN rec :
         rec' = [rec EXCEPT ![l].data = job.data] /\ job' = [job EXCEPT !.lid = l]
  BY DEF ForceNext
<1>2. job.op = "force" /\ UNCHANGED <<index, status>>
  BY DEF ForceNext
<1>3. job \in [op : {"force"}, data : Data, lid : Lids \cup {NoLid}]
  BY <1>2, MapTypes, JobKinds
<1>4. job'.op = "force"
  BY <1>1, <1>3
<1>5. \A m \in DOMAIN rec : rec[m] \in Land
  BY MapTypes
<1>6. DOMAIN rec' = DOMAIN rec /\ \A m \in DOMAIN rec : rec'[m].rect = rec[m].rect
  BY <1>1, <1>5 DEF Land
<1> QED  BY <1>2, <1>4, <1>6, CarriesNothing

\* Buy(r, d): the scan begins, no column is before its first.
LEMMA BuySound ==
    ASSUME StoreInv, MapSound, NEW r \in Rects, NEW d \in Data, Buy(r, d)
    PROVE  MapSound'
<1>1. /\ job = Idle /\ UNCHANGED <<rec, index, status>>
      /\ job' = [op |-> "scan", land |-> [rect |-> r, data |-> d], at |-> First(r)]
  BY DEF Buy, disk
<1>2. r \in Rectangle
  BY StoreAssumption
<1>3. IndexExact' /\ LandsDisjoint'
  BY <1>1, SameGround DEF Idle
<1>4. JobSound'
  BY <1>1, <1>2, LoopBegins DEF JobSound
<1> QED  BY <1>1, <1>3, <1>4 DEF MapSound

\* ScanOn: the column looked at is free; after the last one the rectangle is.
LEMMA ScanSound == ASSUME StoreInv, MapSound, ScanOn PROVE MapSound'
<1> DEFINE area == job.land.rect
           at == job.at
<1>1. /\ job.op = "scan" /\ Touch(at) /\ Found(at) = NoLid /\ UNCHANGED <<rec, index, status>>
      /\ job' = IF AtEnd(area, at) THEN [job EXCEPT !.op = "id"]
                 ELSE [job EXCEPT !.at = After(area, at)]
  BY DEF ScanOn, Touch, disk
<1>2. job \in [op : {"scan", "id"}, land : Land, at : Column]
  BY <1>1, MapTypes, JobKinds
<1>3. area \in Rectangle /\ at \in Column /\ Covers(area, at)
      /\ \A c \in Column : Covers(area, c) /\ Before(c, at) => Free(c)
  BY <1>1, <1>2, MapTypes DEF MapSound, JobSound
<1>4. Free(at)
  BY <1>1, <1>3, LookupTells DEF MapSound, Writing
<1>5. CASE AtEnd(area, at)
  <2>1. job' = [job EXCEPT !.op = "id"]
    BY <1>1, <1>5
  <2>2. job'.op = "id" /\ job'.land = job.land
    BY <2>1, <1>2
  <2>3. IndexExact' /\ LandsDisjoint'
    BY <1>1, <2>2, SameGround
  <2>4. ASSUME NEW l \in DOMAIN rec PROVE Disjoint(area, rec[l].rect)
    <3>1. rec[l].rect \in Rectangle
      BY MapTypes
    <3>2. SUFFICES ASSUME ~Disjoint(area, rec[l].rect) PROVE FALSE
      OBVIOUS
    <3>3. PICK c \in Column : Covers(area, c) /\ Covers(rec[l].rect, c)
      BY <1>3, <3>1, <3>2, OverlapHasColumn
    <3>4. Before(c, at) \/ c = at
      BY <1>3, <1>5, <3>3, LoopGoesOn
    <3>5. Free(c)
      BY <1>3, <1>4, <3>3, <3>4
    <3> QED  BY <3>3, <3>5 DEF Free
  <2>5. JobSound'
    BY <1>1, <2>2, <2>4 DEF JobSound
  <2> QED  BY <1>1, <2>3, <2>5 DEF MapSound
<1>6. CASE ~AtEnd(area, at)
  <2>1. job' = [job EXCEPT !.at = After(area, at)]
    BY <1>1, <1>6
  <2>2. job'.op = "scan" /\ job'.land = job.land /\ job'.at = After(area, at)
    BY <2>1, <1>1, <1>2
  <2>3. IndexExact' /\ LandsDisjoint' /\ \A c : Free(c) => Free(c)'
    BY <1>1, <2>2, SameGround
  <2>4. Covers(area, After(area, at))
    BY <1>3, <1>6, AfterIsNext
  <2>5. ASSUME NEW c \in Column, Covers(area, c), Before(c, After(area, at)) PROVE Free(c)
    BY <2>5, <1>3, <1>4, <1>6, LoopGoesOn
  <2>6. JobSound'
    BY <2>2, <2>3, <2>4, <2>5 DEF JobSound
  <2> QED  BY <1>1, <2>3, <2>6 DEF MapSound
<1> QED  BY <1>5, <1>6

\* TakeId: the rectangle stays free, the identifier is the last one handed out.
LEMMA TakeIdSound == ASSUME StoreInv, MapSound, TakeId PROVE MapSound'
<1>1. /\ job.op = "id" /\ landId' = landId + 1 /\ UNCHANGED <<rec, index, status>>
      /\ job' = [op |-> "put", land |-> job.land, lid |-> landId + 1]
  BY DEF TakeId
<1>2. IndexExact' /\ LandsDisjoint'
  BY <1>1, SameGround
<1>3. landId' > 0
  BY <1>1, MapTypes
<1>4. JobSound'
  BY <1>1, <1>3 DEF JobSound, MapSound
<1> QED  BY <1>1, <1>2, <1>4 DEF MapSound

\* Sell(c): the record found is the one the sale carries.
LEMMA SellSound == ASSUME StoreInv, MapSound, NEW c \in Column, Sell(c) PROVE MapSound'
<1>1. /\ job = Idle /\ Found(c) # NoLid /\ UNCHANGED <<rec, index, status>>
      /\ job' = [op |-> "del", lid |-> Found(c),
                 land |-> FastAfter(ChunkOf(c))[Found(c)].land]
  BY DEF Sell, Start, Touch, disk
<1>2. /\ Found(c) \in DOMAIN rec
      /\ FastAfter(ChunkOf(c))[Found(c)].land = rec[Found(c)]
  BY <1>1, LookupTells DEF MapSound, Writing, Idle
<1>3. IndexExact' /\ LandsDisjoint'
  BY <1>1, SameGround DEF Idle
<1>4. JobSound'
  BY <1>1, <1>2 DEF JobSound
<1> QED  BY <1>1, <1>3, <1>4 DEF MapSound

-----------------------------------------------------------------------------
(***************************************************************************)
(* Steps that write the records or the index.                              *)
(***************************************************************************)

\* PutRecord: the new land overlaps none, and no chunk names it yet.
LEMMA PutRecordSound == ASSUME StoreInv, MapSound, PutRecord PROVE MapSound'
<1>0. PICK lid, land : lid = job.lid /\ land = job.land
  OBVIOUS
<1> DEFINE area == ChunkSpan(land.rect)
<1>1. /\ job.op = "put" /\ rec' = Put(rec, lid, land) /\ UNCHANGED <<index, landId, status>>
      /\ job' = [op |-> "link", land |-> land, lid |-> lid, at |-> First(area)]
  BY <1>0 DEF PutRecord
<1>2. job \in [op : {"put", "del"}, land : Land, lid : Lids]
  BY <1>0, <1>1, MapTypes, JobKinds
<1>3. lid \notin DOMAIN rec /\ lid = landId /\ landId > 0
      /\ \A l \in DOMAIN rec : Disjoint(land.rect, rec[l].rect)
  BY <1>0, <1>1 DEF StoreInv, IdsIssued, MapSound, JobSound
<1>4. land.rect \in Rectangle /\ area \in Rectangle
  BY <1>0, <1>2, MapTypes, SpanIsRectangle
<1>5. /\ DOMAIN rec' = DOMAIN rec \cup {lid} /\ rec'[lid] = land
      /\ \A l \in DOMAIN rec : rec'[l] = rec[l]
  BY <1>1, <1>3 DEF Put
<1>6. LandsDisjoint'
  BY <1>3, <1>5, DisjointSymmetric DEF MapSound, LandsDisjoint
<1>7. IndexExact'
  <2> SUFFICES ASSUME NEW k \in ChunkKey, NEW l \in Lids
               PROVE  Names(k, l)' <=> Names(k, l)
    BY <1>1 DEF IndexExact, MapSound, Listed
  <2>1. CASE l = lid
    <3>1. ~Names(k, lid)
      BY <1>0, <1>1, <1>3 DEF Names
    <3>2. Touches(land.rect, k) => ~Before(k, First(area))
      BY <1>4, LoopBegins, SpanIsRectangle DEF Touches, area
    <3>3. ~Names(k, lid)'
      BY <1>0, <1>1, <1>5, <3>2 DEF Names
    <3> QED  BY <2>1, <3>1, <3>3
  <2>2. CASE l # lid
    BY <1>0, <1>1, <1>5, <2>2 DEF Names
  <2> QED  BY <2>1, <2>2
<1>8. JobSound'
  <2>1. Covers(area, First(area))
    BY <1>4, LoopBegins
  <2> QED  BY <1>0, <1>1, <1>3, <1>5, <2>1 DEF JobSound, area
<1> QED  BY <1>1, <1>6, <1>7, <1>8 DEF MapSound

\* DelRecord: the chunks still name the land that is gone.
LEMMA DelRecordSound ==
    ASSUME StoreInv, MapSound, DelRecord
    PROVE  /\ MapSound'
           /\ job.lid \in DOMAIN rec /\ rec[job.lid] = job.land
<1>0. PICK lid, land : lid = job.lid /\ land = job.land
  OBVIOUS
<1> DEFINE area == ChunkSpan(land.rect)
<1>1. /\ job.op = "del" /\ rec' = Del(rec, lid) /\ UNCHANGED <<index, landId, status>>
      /\ job' = [op |-> "unlink", land |-> land, lid |-> lid, at |-> First(area), val |-> <<>>]
  BY <1>0 DEF DelRecord
<1>2. job \in [op : {"put", "del"}, land : Land, lid : Lids]
  BY <1>0, <1>1, MapTypes, JobKinds
<1>3. lid \in DOMAIN rec /\ rec[lid] = land
  BY <1>0, <1>1 DEF MapSound, JobSound
<1>4. land.rect \in Rectangle /\ area \in Rectangle
  BY <1>0, <1>2, MapTypes, SpanIsRectangle
<1>5. DOMAIN rec' = DOMAIN rec \ {lid} /\ \A l \in DOMAIN rec' : rec'[l] = rec[l]
  BY <1>1 DEF Del
<1>6. LandsDisjoint'
  BY <1>5 DEF MapSound, LandsDisjoint
<1>7. IndexExact'
  <2> SUFFICES ASSUME NEW k \in ChunkKey, NEW l \in Lids
               PROVE  Names(k, l)' <=> Names(k, l)
    BY <1>1 DEF IndexExact, MapSound, Listed
  <2>1. CASE l = lid
    <3>1. Names(k, lid) <=> Touches(land.rect, k)
      BY <1>0, <1>1, <1>3 DEF Names
    <3>2. Touches(land.rect, k) => ~Before(k, First(area))
      BY <1>4, LoopBegins, SpanIsRectangle DEF Touches, area
    <3>3. Names(k, lid)' <=> Touches(land.rect, k)
      BY <1>0, <1>1, <1>5, <3>2 DEF Names
    <3> QED  BY <2>1, <3>1, <3>3
  <2>2. CASE l # lid
    BY <1>0, <1>1, <1>5, <2>2 DEF Names
  <2> QED  BY <2>1, <2>2
<1>8. JobSound'
  <2>1. Covers(area, First(area))
    BY <1>4, LoopBegins
  <2>2. \A l \in DOMAIN rec' : Disjoint(land.rect, rec'[l].rect)
    BY <1>3, <1>5 DEF MapSound, LandsDisjoint
  <2> QED  BY <1>0, <1>1, <1>5, <2>1, <2>2 DEF JobSound, area
<1> QED  BY <1>1, <1>3, <1>6, <1>7, <1>8, <1>0 DEF MapSound

\* LinkChunk: one more chunk names the land; after the last one all it touches do.
LEMMA LinkChunkSound ==
    ASSUME StoreInv, MapSound, LinkChunk
    PROVE  MapSound'
<1>0. PICK lid, land, at, list :
         /\ lid = job.lid /\ land = job.land /\ at = job.at
         /\ list = Append(Listed(job.at), job.lid)
  OBVIOUS
<1> DEFINE area == ChunkSpan(land.rect)
<1>1. /\ job.op = "link" /\ index' = Put(index, at, list)
      /\ UNCHANGED <<rec, landId, status>>
      /\ IF AtEnd(area, at) THEN job' = Idle ELSE job' = [job EXCEPT !.at = After(area, at)]
  BY <1>0 DEF LinkChunk
<1>2. job \in [op : {"link"}, land : Land, lid : Lids, at : ChunkKey]
  BY <1>0, <1>1, MapTypes, JobKinds
<1>3. lid \in Lids /\ at \in ChunkKey /\ lid \in DOMAIN rec /\ rec[lid] = land /\ Covers(area, at)
      /\ lid = landId /\ landId > 0
  BY <1>0, <1>1, <1>2 DEF MapSound, JobSound
<1>4. area \in Rectangle /\ at \in Column /\ Column = ChunkKey
  BY <1>0, <1>2, <1>3, MapTypes, SpanIsRectangle
<1>5. ~AtEnd(area, at) =>
         job'.op = "link" /\ job'.lid = lid /\ job'.land = land /\ job'.at = After(area, at)
  BY <1>0, <1>1, <1>2
<1>6. AtEnd(area, at) => job'.op = "idle"
  BY <1>1 DEF Idle
<1>7. /\ Listed(at) \in Seq(Lids) /\ Distinct(Listed(at))
      /\ \A k \in ChunkKey, l \in Lids : l \in ToSet(Listed(k)) <=> Names(k, l)
  BY <1>3, MapTypes DEF MapSound, IndexExact
<1>8. lid \notin ToSet(Listed(at))
  <2>1. ~Before(at, at)
    BY <1>4 DEF Before, Column
  <2>2. ~Names(at, lid)
    BY <1>0, <1>1, <2>1 DEF Names
  <2> QED  BY <1>3, <1>7, <2>2
<1>9. Distinct(list) /\ ToSet(list) = ToSet(Listed(at)) \cup {lid}
  BY <1>0, <1>3, <1>7, <1>8, AppendNew
<1>10. Listed(at)' = list /\ \A k : k # at => Listed(k)' = Listed(k)
  BY <1>1 DEF Put, Listed
<1>11. IndexExact'
  <2> SUFFICES ASSUME NEW k \in ChunkKey
               PROVE  /\ Distinct(Listed(k)')
                      /\ \A l \in Lids : l \in ToSet(Listed(k)') <=> Names(k, l)'
    BY DEF IndexExact
  <2>1. Distinct(Listed(k)')
    BY <1>9, <1>10 DEF MapSound, IndexExact
  <2>2. ASSUME NEW l \in Lids, l # lid PROVE l \in ToSet(Listed(k)') <=> Names(k, l)'
    <3>1. Names(k, l)' <=> Names(k, l)
      BY <1>1, <1>5, <1>6, <2>2, <1>0 DEF Names
    <3>2. l \in ToSet(Listed(k)') <=> l \in ToSet(Listed(k))
      BY <1>9, <1>10, <2>2
    <3> QED  BY <1>7, <3>1, <3>2
  <2>3. lid \in ToSet(Listed(k)') <=> Names(k, lid)'
    <3>1. Names(k, lid) <=> Touches(land.rect, k) /\ Before(k, at)
      BY <1>1, <1>3, <1>0 DEF Names
    <3>2. lid \in ToSet(Listed(k)') <=> k = at \/ (Touches(land.rect, k) /\ Before(k, at))
      <4>1. CASE k = at
        BY <4>1, <1>9, <1>10
      <4>2. CASE k # at
        BY <4>2, <3>1, <1>3, <1>7, <1>10
      <4> QED  BY <4>1, <4>2
    <3>3. Touches(land.rect, k) <=> Covers(area, k)
      BY DEF Touches, area
    <3>4. CASE AtEnd(area, at)
      <4>1. Names(k, lid)' <=> Touches(land.rect, k)
        BY <1>0, <1>1, <1>3, <1>6, <3>4 DEF Names
      <4>2. Covers(area, k) => Before(k, at) \/ k = at
        BY <1>3, <1>4, <3>4, LoopGoesOn
      <4> QED  BY <4>1, <4>2, <3>2, <3>3, <1>3
    <3>5. CASE ~AtEnd(area, at)
      <4>1. Names(k, lid)' <=> Touches(land.rect, k) /\ Before(k, After(area, at))
        BY <1>0, <1>1, <1>3, <1>5, <3>5 DEF Names
      <4>2. Covers(area, k) => (Before(k, After(area, at)) <=> Before(k, at) \/ k = at)
        BY <1>3, <1>4, <3>5, LoopGoesOn
      <4> QED  BY <4>1, <4>2, <3>2, <3>3, <1>3
    <3> QED  BY <3>4, <3>5
  <2> QED  BY <2>1, <2>2, <2>3
<1>12. LandsDisjoint'
  BY <1>1 DEF MapSound, LandsDisjoint
<1>13. JobSound'
  <2>1. CASE AtEnd(area, at)
    BY <2>1, <1>6 DEF JobSound
  <2>2. CASE ~AtEnd(area, at)
    <3>1. Covers(area, After(area, at))
      BY <2>2, <1>3, <1>4, AfterIsNext
    <3> QED  BY <1>0, <2>2, <3>1, <1>1, <1>3, <1>5 DEF JobSound, area
  <2> QED  BY <2>1, <2>2
<1> QED  BY <1>1, <1>11, <1>12, <1>13 DEF MapSound

\* UnlinkChunk: one chunk less names the land; after the last one none does.
LEMMA UnlinkChunkSound ==
    ASSUME StoreInv, MapSound, UnlinkChunk
    PROVE  MapSound'
<1>0. PICK lid, land, at, list :
         lid = job.lid /\ land = job.land /\ at = job.at /\ list = UnlinkedList
  OBVIOUS
<1> DEFINE area == ChunkSpan(land.rect)
<1>1. /\ job.op = "unlink" /\ index' = Put(index, at, list)
      /\ UNCHANGED <<rec, landId, status>>
      /\ IF AtEnd(area, at) THEN job' = Idle
         ELSE job' = [job EXCEPT !.at = After(area, at), !.val = list]
  BY <1>0 DEF UnlinkChunk
<1>2. job \in [op : {"unlink"}, land : Land, lid : Lids, at : ChunkKey, val : Seq(Lids)]
  BY <1>0, <1>1, MapTypes, JobKinds
<1>3. /\ lid \in Lids /\ at \in ChunkKey /\ lid \notin DOMAIN rec /\ Covers(area, at)
      /\ \A l \in DOMAIN rec : Disjoint(land.rect, rec[l].rect)
  BY <1>0, <1>1, <1>2 DEF MapSound, JobSound
<1>4. area \in Rectangle /\ at \in Column /\ Column = ChunkKey
  BY <1>0, <1>2, <1>3, MapTypes, SpanIsRectangle
<1>5. ~AtEnd(area, at) =>
         job'.op = "unlink" /\ job'.lid = lid /\ job'.land = land /\ job'.at = After(area, at)
  BY <1>0, <1>1, <1>2
<1>6. AtEnd(area, at) => job'.op = "idle"
  BY <1>1 DEF Idle
<1>7. /\ Listed(at) \in Seq(Lids) /\ Distinct(Listed(at))
      /\ \A k \in ChunkKey, l \in Lids : l \in ToSet(Listed(k)) <=> Names(k, l)
  BY <1>3, MapTypes DEF MapSound, IndexExact
<1>8. lid \in ToSet(Listed(at))
  <2>1. ~Before(at, at)
    BY <1>4 DEF Before, Column
  <2>2. Names(at, lid)
    BY <1>0, <1>1, <1>3, <2>1 DEF Names, Touches
  <2> QED  BY <1>3, <1>7, <2>2
<1>9. Distinct(list) /\ ToSet(list) = ToSet(Listed(at)) \ {lid}
  <2>1. at \in DOMAIN index
    <3> SUFFICES ASSUME at \notin DOMAIN index PROVE FALSE
      OBVIOUS
    <3>1. Listed(at) = <<>>
      BY DEF Listed
    <3>2. ToSet(<<>>) = {}
      BY DEF ToSet
    <3> QED  BY <1>8, <3>1, <3>2
  <2>2. list = RemoveFirst(Listed(at), lid)
    BY <1>0, <2>1 DEF UnlinkedList, Listed
  <2> QED  BY <2>2, <1>7, <1>8, RemoveOnly
<1>10. Listed(at)' = list /\ \A k : k # at => Listed(k)' = Listed(k)
  BY <1>1 DEF Put, Listed
<1>11. IndexExact'
  <2> SUFFICES ASSUME NEW k \in ChunkKey
               PROVE  /\ Distinct(Listed(k)')
                      /\ \A l \in Lids : l \in ToSet(Listed(k)') <=> Names(k, l)'
    BY DEF IndexExact
  <2>1. Distinct(Listed(k)')
    BY <1>9, <1>10 DEF MapSound, IndexExact
  <2>2. ASSUME NEW l \in Lids, l # lid PROVE l \in ToSet(Listed(k)') <=> Names(k, l)'
    <3>1. Names(k, l)' <=> Names(k, l)
      BY <1>1, <1>5, <1>6, <2>2, <1>0 DEF Names
    <3>2. l \in ToSet(Listed(k)') <=> l \in ToSet(Listed(k))
      BY <1>9, <1>10, <2>2
    <3> QED  BY <1>7, <3>1, <3>2
  <2>3. lid \in ToSet(Listed(k)') <=> Names(k, lid)'
    <3>1. Names(k, lid) <=> Touches(land.rect, k) /\ ~Before(k, at)
      BY <1>1, <1>3, <1>0 DEF Names
    <3>2. lid \in ToSet(Listed(k)') <=> k # at /\ Touches(land.rect, k) /\ ~Before(k, at)
      <4>1. CASE k = at
        BY <4>1, <1>9, <1>10
      <4>2. CASE k # at
        BY <4>2, <3>1, <1>3, <1>7, <1>10
      <4> QED  BY <4>1, <4>2
    <3>3. Touches(land.rect, k) <=> Covers(area, k)
      BY DEF Touches, area
    <3>4. CASE AtEnd(area, at)
      <4>1. ~Names(k, lid)'
        BY <1>0, <1>1, <1>3, <1>6, <3>4 DEF Names
      <4>2. Covers(area, k) => Before(k, at) \/ k = at
        BY <1>3, <1>4, <3>4, LoopGoesOn
      <4> QED  BY <4>1, <4>2, <3>2, <3>3
    <3>5. CASE ~AtEnd(area, at)
      <4>1. Names(k, lid)' <=> Touches(land.rect, k) /\ ~Before(k, After(area, at))
        BY <1>0, <1>1, <1>3, <1>5, <3>5 DEF Names
      <4>2. Covers(area, k) => (Before(k, After(area, at)) <=> Before(k, at) \/ k = at)
        BY <1>3, <1>4, <3>5, LoopGoesOn
      <4> QED  BY <4>1, <4>2, <3>2, <3>3
    <3> QED  BY <3>4, <3>5
  <2> QED  BY <2>1, <2>2, <2>3
<1>12. LandsDisjoint'
  BY <1>1 DEF MapSound, LandsDisjoint
<1>13. JobSound'
  <2>1. CASE AtEnd(area, at)
    BY <2>1, <1>6 DEF JobSound
  <2>2. CASE ~AtEnd(area, at)
    <3>1. Covers(area, After(area, at))
      BY <2>2, <1>3, <1>4, AfterIsNext
    <3> QED  BY <1>0, <2>2, <3>1, <1>1, <1>3, <1>5 DEF JobSound, area
  <2> QED  BY <2>1, <2>2
<1> QED  BY <1>1, <1>11, <1>12, <1>13 DEF MapSound

-----------------------------------------------------------------------------
(***************************************************************************)
(* The invariant holds until the first death, and a step takes what the    *)
(* store shows to the rest of land.mod, the lands and the identifiers      *)
(* handed out, one step of the map or none.                                *)
(***************************************************************************)
LEMMA MapInit == Init => MapInv /\ Map!Init
<1> SUFFICES ASSUME Init PROVE MapInv /\ Map!Init
  OBVIOUS
<1>1. StoreInv
  BY StoreInit
<1>2. DOMAIN rec = {} /\ DOMAIN index = {} /\ job.op = "idle" /\ landId = 0
      /\ status = "running" /\ rec = <<>>
  BY DEF Init, Idle
<1>3. IndexExact
  <2>1. \A k : Listed(k) = <<>>
    BY <1>2 DEF Listed
  <2>2. ToSet(<<>>) = {} /\ Distinct(<<>>)
    BY DEF ToSet, Distinct
  <2>3. \A k, l : ~Names(k, l)
    BY <1>2 DEF Names
  <2> QED  BY <2>1, <2>2, <2>3 DEF IndexExact
<1>4. LandsDisjoint /\ JobSound
  BY <1>2 DEF LandsDisjoint, JobSound
<1>5. VisibleLands = <<>> /\ HandedOut = 1 .. 0
  BY <1>2 DEF VisibleLands, HandedOut
<1>6. 1 .. 0 = {}
  OBVIOUS
<1>7. SaneInv
  BY <1>1 DEF SaneInv, StoreInv, Types
<1> QED  BY <1>2, <1>3, <1>4, <1>5, <1>6, <1>7 DEF MapInv, MapSound, Map!Init

\* What a step of the map is, in the terms of the store.
MapStep ==
    \/ UNCHANGED <<VisibleLands, HandedOut>>
    \/ Map!Next

\* Steps that neither begin nor end the writing of a land show nothing.
LEMMA ShowsNothing ==
    ASSUME UNCHANGED <<rec, landId>>,
           job.op \notin {"put", "link", "unlink"}, job'.op \notin {"put", "link", "unlink"}
    PROVE  MapStep
<1>1. VisibleLands = rec /\ HandedOut = 1 .. landId
  BY DEF VisibleLands, HandedOut
<1>2. VisibleLands' = rec' /\ HandedOut' = 1 .. landId'
  BY DEF VisibleLands, HandedOut
<1> QED  BY <1>1, <1>2 DEF MapStep

\* Lookup, UseFirst, UseSecond, Deref, Collide, ForcePerm, ForceEnd, Buy, Sell, ScanOn.
LEMMA LookingShows ==
    ASSUME StoreInv, NEW c, NEW d, NEW r,
           \/ Lookup(c) \/ UseFirst(c) \/ UseSecond(c) \/ Deref \/ Collide
           \/ ForcePerm(d) \/ ForceEnd \/ Buy(r, d) \/ Sell(c) \/ ScanOn
    PROVE  MapStep
<1>1. UNCHANGED <<rec, landId>>
  BY DEF Lookup, UseFirst, UseSecond, Deref, Collide, ForcePerm, ForceEnd, Buy, Sell, ScanOn,
         Start, Touch, disk
<1>2. job.op \notin {"put", "link", "unlink"}
  BY DEF Lookup, UseFirst, UseSecond, Deref, Collide, ForcePerm, ForceEnd, Buy, Sell, ScanOn,
         Start, Idle
<1>3. job'.op \notin {"put", "link", "unlink"}
  <2>1. CASE UseSecond(c)
    <3>1. job \in [op : {"use", "deref"}, lid : Lids \cup {NoLid}, chunk : ChunkKey]
      BY <2>1, MapTypes, JobKinds DEF UseSecond
    <3> QED  BY <2>1, <3>1 DEF UseSecond
  <2>2. CASE ScanOn
    <3>1. job.op = "scan" /\ job \in [op : {"scan", "id"}, land : Land, at : Column]
      BY <2>2, MapTypes, JobKinds DEF ScanOn
    <3>2. job' = IF AtEnd(job.land.rect, job.at) THEN [job EXCEPT !.op = "id"]
                 ELSE [job EXCEPT !.at = After(job.land.rect, job.at)]
      BY <2>2 DEF ScanOn
    <3>3. CASE AtEnd(job.land.rect, job.at)
      BY <3>1, <3>2, <3>3
    <3>4. CASE ~AtEnd(job.land.rect, job.at)
      BY <3>1, <3>2, <3>4
    <3> QED  BY <3>3, <3>4
  <2>3. CASE \/ Lookup(c) \/ UseFirst(c) \/ Deref \/ Collide \/ ForcePerm(d) \/ ForceEnd
             \/ Buy(r, d) \/ Sell(c)
    BY <2>3 DEF Lookup, UseFirst, Deref, Collide, ForcePerm, ForceEnd, Buy, Sell, Start, Idle
  <2> QED  BY <2>1, <2>2, <2>3
<1> QED  BY <1>1, <1>2, <1>3, ShowsNothing

\* Update and ForceNext: one land's data changes.
LEMMA ChangeShows ==
    ASSUME NEW l \in DOMAIN rec, NEW d \in Data, rec' = [rec EXCEPT ![l].data = d],
           UNCHANGED landId,
           job.op \notin {"put", "link", "unlink"}, job'.op \notin {"put", "link", "unlink"}
    PROVE  MapStep
<1>1. VisibleLands = rec /\ HandedOut = 1 .. landId
  BY DEF VisibleLands, HandedOut
<1>2. VisibleLands' = rec' /\ HandedOut' = 1 .. landId'
  BY DEF VisibleLands, HandedOut
<1>3. Map!Change(l)
  BY <1>1, <1>2 DEF Map!Change
<1> QED  BY <1>1, <1>3 DEF MapStep, Map!Next

\* TakeId: the identifier is not handed out before a chunk could list it.
LEMMA TakeIdShows == ASSUME StoreInv, TakeId PROVE MapStep
<1>1. /\ job.op = "id" /\ job'.op = "put" /\ landId' = landId + 1 /\ UNCHANGED rec
  BY DEF TakeId
<1>2. landId' - 1 = landId
  BY <1>1, MapTypes
<1>3. VisibleLands = rec /\ HandedOut = 1 .. landId
  BY <1>1 DEF VisibleLands, HandedOut
<1>4. VisibleLands' = rec' /\ HandedOut' = 1 .. landId' - 1
  BY <1>1 DEF VisibleLands, HandedOut
<1> QED  BY <1>1, <1>2, <1>3, <1>4 DEF MapStep

\* PutRecord: a record no chunk lists is not seen.
LEMMA PutRecordShows == ASSUME StoreInv, PutRecord PROVE MapStep
<1>1. /\ job.op = "put" /\ job'.op = "link" /\ job'.lid = job.lid /\ UNCHANGED landId
      /\ rec' = Put(rec, job.lid, job.land) /\ job.lid \notin DOMAIN rec
  BY DEF PutRecord, StoreInv, IdsIssued
<1>2. rec = [l \in DOMAIN rec |-> rec[l]]
  BY MapTypes DEF DiskType
<1>3. Del(rec', job.lid) = rec
  BY <1>1, <1>2 DEF Put, Del
<1>4. VisibleLands = rec /\ HandedOut = 1 .. landId - 1
  BY <1>1 DEF VisibleLands, HandedOut
<1>5. VisibleLands' = Del(rec', job'.lid) /\ HandedOut' = 1 .. landId' - 1
  BY <1>1 DEF VisibleLands, HandedOut
<1> QED  BY <1>1, <1>3, <1>4, <1>5 DEF MapStep

\* LinkChunk: with the last chunk the land is there, and overlaps none.
LEMMA LinkChunkShows == ASSUME StoreInv, MapSound, LinkChunk PROVE MapStep
<1>1. /\ job.op = "link" /\ UNCHANGED <<rec, landId>>
      /\ \/ job' = Idle
         \/ job' = [job EXCEPT !.at = After(ChunkSpan(job.land.rect), job.at)]
  BY DEF LinkChunk
<1>2. job \in [op : {"link"}, land : Land, lid : Lids, at : ChunkKey]
  BY <1>1, MapTypes, JobKinds
<1>3. /\ job.lid = landId /\ landId > 0 /\ landId \in Nat
      /\ job.lid \in DOMAIN rec /\ rec[job.lid] = job.land /\ LandsDisjoint
  BY <1>1, MapTypes DEF MapSound, JobSound
<1>4. VisibleLands = Del(rec, job.lid) /\ HandedOut = 1 .. landId - 1
  BY <1>1 DEF VisibleLands, HandedOut
<1>5. CASE job' = [job EXCEPT !.at = After(ChunkSpan(job.land.rect), job.at)]
  <2>1. job'.op = "link" /\ job'.lid = job.lid
    BY <1>2, <1>5
  <2>2. VisibleLands' = Del(rec', job'.lid) /\ HandedOut' = 1 .. landId' - 1
    BY <2>1 DEF VisibleLands, HandedOut
  <2> QED  BY <1>1, <1>4, <2>1, <2>2 DEF MapStep
<1>6. CASE job' = Idle
  <2>1. VisibleLands' = rec' /\ HandedOut' = 1 .. landId'
    BY <1>6 DEF VisibleLands, HandedOut, Idle
  <2>2. /\ landId \notin 1 .. landId - 1
        /\ 1 .. landId = (1 .. landId - 1) \cup {landId}
    BY <1>3
  <2>3. Cardinality(1 .. landId - 1) + 1 = landId
    <3>1. Cardinality(1 .. landId - 1) = IF 1 > landId - 1 THEN 0 ELSE (landId - 1) - 1 + 1
      BY <1>3, FS_Interval
    <3> QED  BY <3>1, <1>3
  <2>4. job.land.rect \in Rects /\ job.land.data \in Data
        /\ job.land = [rect |-> job.land.rect, data |-> job.land.data]
    BY <1>2 DEF Land
  <2>5. \A m \in DOMAIN Del(rec, landId) : Disjoint(job.land.rect, Del(rec, landId)[m].rect)
    BY <1>3 DEF Del, LandsDisjoint
  <2>6. rec = [m \in DOMAIN Del(rec, landId) \cup {landId} |->
                  IF m = landId THEN job.land ELSE Del(rec, landId)[m]]
    <3>1. rec = [l \in DOMAIN rec |-> rec[l]]
      BY MapTypes DEF DiskType
    <3> QED  BY <3>1, <1>3 DEF Del
  <2>7. Map!Add(landId)
    <3>1. landId \notin HandedOut /\ HandedOut' = HandedOut \cup {landId}
      BY <1>1, <1>4, <2>1, <2>2
    <3>2. VisibleLands = Del(rec, landId) /\ VisibleLands' = rec
      BY <1>1, <1>3, <1>4, <2>1
    <3>3. \E r \in Rects, d \in Data :
            /\ \A m \in DOMAIN VisibleLands : Disjoint(r, VisibleLands[m].rect)
            /\ VisibleLands' = [m \in DOMAIN VisibleLands \cup {landId} |->
                                  IF m = landId THEN [rect |-> r, data |-> d] ELSE VisibleLands[m]]
      BY <2>4, <2>5, <2>6, <3>2
    <3> QED  BY <3>1, <3>3 DEF Map!Add, Map!Disjoint, Disjoint
  <2>8. Map!Cardinality(HandedOut) + 1 = landId
    <3>1. Map!Cardinality(HandedOut) = Cardinality(HandedOut)
      BY DEF Map!Cardinality, Cardinality
    <3> QED  BY <3>1, <2>3, <1>4
  <2>9. Map!Add(Map!Cardinality(HandedOut) + 1)
    BY <2>7, <2>8
  <2> QED  BY <2>9 DEF MapStep, Map!Next
<1> QED  BY <1>1, <1>5, <1>6

\* DelRecord: a land is seen while a chunk may list it.
LEMMA DelRecordShows == ASSUME StoreInv, MapSound, DelRecord PROVE MapStep
<1>1. /\ job.op = "del" /\ job'.op = "unlink" /\ job'.lid = job.lid /\ job'.land = job.land
      /\ UNCHANGED landId /\ rec' = Del(rec, job.lid)
  BY DEF DelRecord
<1>2. job.lid \in DOMAIN rec /\ rec[job.lid] = job.land
  BY DelRecordSound
<1>3. Put(rec', job.lid, job.land) = rec
  <2>1. rec = [l \in DOMAIN rec |-> rec[l]]
    BY MapTypes DEF DiskType
  <2> QED  BY <2>1, <1>1, <1>2 DEF Put, Del
<1>4. VisibleLands = rec /\ HandedOut = 1 .. landId
  BY <1>1 DEF VisibleLands, HandedOut
<1>5. VisibleLands' = Put(rec', job'.lid, job'.land) /\ HandedOut' = 1 .. landId'
  BY <1>1 DEF VisibleLands, HandedOut
<1> QED  BY <1>1, <1>3, <1>4, <1>5 DEF MapStep

\* UnlinkChunk: with the last chunk the land is gone.
LEMMA UnlinkChunkShows == ASSUME StoreInv, MapSound, UnlinkChunk PROVE MapStep
<1> DEFINE on == [job EXCEPT !.at = After(ChunkSpan(job.land.rect), job.at), !.val = UnlinkedList]
<1>0. job' = Idle \/ job' = on
  BY DEF UnlinkChunk
<1>1. job.op = "unlink" /\ UNCHANGED <<rec, landId>>
  BY DEF UnlinkChunk
<1>2. job \in [op : {"unlink"}, land : Land, lid : Lids, at : ChunkKey, val : Seq(Lids)]
  BY <1>1, MapTypes, JobKinds
<1>3. job.lid \notin DOMAIN rec
  BY <1>1 DEF MapSound, JobSound
<1>4. VisibleLands = Put(rec, job.lid, job.land) /\ HandedOut = 1 .. landId
  BY <1>1 DEF VisibleLands, HandedOut
<1>5. CASE job' = on
  <2>1. job'.op = "unlink" /\ job'.lid = job.lid /\ job'.land = job.land
    BY <1>2, <1>5
  <2>2. VisibleLands' = Put(rec', job'.lid, job'.land) /\ HandedOut' = 1 .. landId'
    BY <2>1 DEF VisibleLands, HandedOut
  <2> QED  BY <1>1, <1>4, <2>1, <2>2 DEF MapStep
<1>6. CASE job' = Idle
  <2>1. VisibleLands' = rec' /\ HandedOut' = 1 .. landId'
    BY <1>6 DEF VisibleLands, HandedOut, Idle
  <2>2. rec = [l \in DOMAIN rec |-> rec[l]]
    BY MapTypes DEF DiskType
  <2>3. /\ job.lid \in DOMAIN Put(rec, job.lid, job.land)
        /\ rec = [m \in DOMAIN Put(rec, job.lid, job.land) \ {job.lid} |->
                    Put(rec, job.lid, job.land)[m]]
    BY <1>3, <2>2 DEF Put
  <2>4. PICK l : l = job.lid
    OBVIOUS
  <2>5. /\ l \in DOMAIN VisibleLands /\ HandedOut' = HandedOut
        /\ VisibleLands' = [m \in DOMAIN VisibleLands \ {l} |-> VisibleLands[m]]
    BY <1>1, <1>4, <2>1, <2>3, <2>4
  <2>6. Map!Remove(l)
    BY <2>5 DEF Map!Remove
  <2> QED  BY <2>5, <2>6 DEF MapStep, Map!Next
<1> QED  BY <1>0, <1>5, <1>6

\* A step after which the process has not died is no death, and none came before.
LEMMA NoDeathYet ==
    ASSUME SaneInv, [Next]_storeVars, crashes' = 0
    PROVE  crashes = 0 /\ ~Crash
<1>1. crashes \in Nat
  BY StoreAssumption DEF SaneInv
<1>2. ~Crash
  BY <1>1 DEF Crash
<1>3. CASE Step
  <2>1. ASSUME NEW c, UseSecond(c) PROVE crashes = 0
    BY <2>1 DEF UseSecond, Touch
  <2>2. CASE Collide \/ ScanOn
    BY <1>2, <2>2 DEF Collide, ScanOn, Touch
  <2>3. CASE Deref \/ TakeId \/ PutRecord \/ LinkChunk
    BY <1>2, <2>3 DEF Deref, TakeId, PutRecord, LinkChunk
  <2>4. CASE DelRecord \/ UnlinkChunk \/ ForceNext \/ ForceEnd
    BY <1>2, <2>4 DEF DelRecord, UnlinkChunk, ForceNext, ForceEnd
  <2>5. crashes = 0
    BY <1>3, <2>1, <2>2, <2>3, <2>4 DEF Step
  <2> QED  BY <1>2, <2>5
<1>4. ASSUME NEW c, NEW d, NEW r,
             \/ Lookup(c) \/ UseFirst(c) \/ Sell(c) \/ Update(c, d) \/ Buy(r, d)
             \/ ForcePerm(d) \/ ReadMissing(c) \/ Anything
      PROVE  crashes = 0
  BY <1>4 DEF Lookup, UseFirst, Sell, Update, Buy, ForcePerm, ReadMissing, Anything, Start, Touch
<1>5. CASE UNCHANGED storeVars
  BY <1>2, <1>5 DEF storeVars
<1>6. CASE Next
  BY <1>2, <1>3, <1>4, <1>6 DEF Next
<1> QED  BY <1>5, <1>6

\* The columns a load can be asked for are columns of the plane.
LEMMA AskedColumns ==
    Probes \cup UNION {{[x |-> x, z |-> z, dim |-> r.dim] :
                           x \in r.x .. r.dx, z \in r.z .. r.dz} : r \in Rects} \subseteq Column
<1>1. ASSUME NEW r \in Rects, NEW x \in r.x .. r.dx, NEW z \in r.z .. r.dz
      PROVE  [x |-> x, z |-> z, dim |-> r.dim] \in Column
  <2>1. r.x \in Nat /\ r.z \in Nat /\ r.dx \in Nat /\ r.dz \in Nat /\ r.dim \in Dims
    BY StoreAssumption DEF Rectangle
  <2>2. x \in Nat /\ z \in Nat
    BY <2>1
  <2> QED  BY <2>1, <2>2 DEF Column
<1> QED  BY <1>1, StoreAssumption

\* Until the first death: the invariant is kept, and the map takes one step or none.
LEMMA MapNext ==
    ASSUME MapInv, [Next]_storeVars
    PROVE  MapInv' /\ (crashes' = 0 => MapStep)
<1>0. SaneInv /\ SaneInv'
  BY StoreNext DEF MapInv
<1>2. SUFFICES ASSUME crashes' = 0 PROVE MapSound' /\ MapStep
  BY <1>0 DEF MapInv
<1>1. StoreInv /\ crashes = 0
  BY <1>0, <1>2, NoDeathYet, NotDeadIsSane
<1>3. MapSound /\ ~Crash
  BY <1>0, <1>1, <1>2, NoDeathYet DEF MapInv
<1> DEFINE Goal == MapSound' /\ MapStep
<1>4. ASSUME NEW c \in Column, NEW d \in Data, NEW r \in Rects,
             \/ Lookup(c) \/ UseFirst(c) \/ UseSecond(c) \/ Deref \/ Collide
             \/ ForcePerm(d) \/ ForceEnd \/ Buy(r, d) \/ Sell(c) \/ ScanOn
      PROVE  Goal
  <2>1. MapSound'
    BY <1>1, <1>3, <1>4, LookingSound, BuySound, SellSound, ScanSound
  <2>2. MapStep
    BY <1>1, <1>4, LookingShows
  <2> QED  BY <2>1, <2>2
<1>5. ASSUME NEW c \in Column, Lookup(c) \/ UseFirst(c) \/ UseSecond(c) \/ Sell(c) PROVE Goal
  BY <1>1, <1>3, <1>5, LookingSound, SellSound, LookingShows
<1>6. CASE Deref \/ Collide \/ ForceEnd \/ ScanOn
  BY <1>1, <1>3, <1>6, LookingSound, ScanSound, LookingShows
<1>7. ASSUME NEW d \in Data, ForcePerm(d) PROVE Goal
  BY <1>1, <1>3, <1>7, LookingSound, LookingShows
<1>8. ASSUME NEW d \in Data, NEW r \in Rects, Buy(r, d) PROVE Goal
  BY <1>1, <1>3, <1>8, BuySound, LookingShows
<1>9. CASE TakeId
  BY <1>1, <1>3, <1>9, TakeIdSound, TakeIdShows
<1>10. CASE PutRecord
  BY <1>1, <1>3, <1>10, PutRecordSound, PutRecordShows
<1>11. CASE LinkChunk
  BY <1>1, <1>3, <1>11, LinkChunkSound, LinkChunkShows
<1>12. CASE DelRecord
  BY <1>1, <1>3, <1>12, DelRecordSound, DelRecordShows
<1>13. CASE UnlinkChunk
  BY <1>1, <1>3, <1>13, UnlinkChunkSound, UnlinkChunkShows
<1>14. CASE ForceNext
  <2>1. PICK l \in DOMAIN rec : rec' = [rec EXCEPT ![l].data = job.data]
    BY <1>14 DEF ForceNext
  <2>2. /\ job.op = "force" /\ UNCHANGED landId
        /\ \E m \in DOMAIN rec : job' = [job EXCEPT !.lid = m]
    BY <1>14 DEF ForceNext
  <2>3. job \in [op : {"force"}, data : Data, lid : Lids \cup {NoLid}]
    BY <1>1, <2>2, MapTypes, JobKinds
  <2>4. job'.op = "force"
    BY <2>2, <2>3
  <2>5. PICK d \in Data : d = job.data
    BY <2>3
  <2>6. rec' = [rec EXCEPT ![l].data = d]
    BY <2>1, <2>5
  <2>7. MapStep
    BY <2>2, <2>4, <2>6, ChangeShows
  <2> QED  BY <1>1, <1>3, <1>14, <2>7, ForceNextSound
<1>15. ASSUME NEW c \in Column, NEW d \in Data, Update(c, d) PROVE Goal
  <2>1. /\ MapSound' /\ Found(c) \in DOMAIN rec
        /\ rec' = [rec EXCEPT ![Found(c)].data = d]
    BY <1>1, <1>3, <1>15, UpdateSound
  <2>2. PICK l \in DOMAIN rec : rec' = [rec EXCEPT ![l].data = d]
    BY <2>1
  <2>3. job.op = "idle" /\ job'.op = "idle" /\ UNCHANGED landId
    BY <1>15 DEF Update, Idle
  <2>4. MapStep
    BY <2>2, <2>3, ChangeShows
  <2> QED  BY <2>1, <2>4
<1>16. CASE Step
  <2>1. ASSUME NEW c \in Probes, UseSecond(c) PROVE Goal
    BY <2>1, <1>5, StoreAssumption
  <2> QED  BY <1>16, <2>1, <1>6, <1>9, <1>10, <1>11, <1>12, <1>13, <1>14 DEF Step
<1>17. ASSUME NEW c \in Probes, Lookup(c) \/ UseFirst(c) \/ Sell(c) PROVE Goal
  BY <1>17, <1>5, StoreAssumption
<1>18. ASSUME NEW c \in Probes, NEW d \in Data, Update(c, d) PROVE Goal
  BY <1>18, <1>15, StoreAssumption
<1>19. ASSUME NEW c \in Column, ReadMissing(c) PROVE FALSE
  <2>1. ~Loadable(ChunkOf(c)) /\ ~Writing
    BY <1>19 DEF ReadMissing, Writing, Idle
  <2> QED  BY <1>1, <1>3, <2>1, LookupTells DEF MapSound
<1>20. ~Anything
  BY <1>3 DEF Anything, MapSound
<1>21. CASE UNCHANGED storeVars
  <2>1. UNCHANGED <<rec, index, landId, job, status>>
    BY <1>21 DEF storeVars
  <2>2. UNCHANGED <<VisibleLands, HandedOut>>
    BY <2>1 DEF VisibleLands, HandedOut
  <2>3. MapSound'
    BY <1>3, <2>1 DEF MapSound, IndexExact, Names, Listed, LandsDisjoint, JobSound, Free
  <2> QED  BY <2>2, <2>3 DEF MapStep
<1>22. CASE Step \/ Anything \/ Crash
  BY <1>3, <1>16, <1>20, <1>22
<1>23. CASE \E c \in Probes : Lookup(c) \/ UseFirst(c) \/ Sell(c)
  BY <1>17, <1>23
<1>24. CASE \E c \in Probes, d \in Data : Update(c, d)
  BY <1>18, <1>24
<1>25. CASE \E r \in Rects, d \in Data : Buy(r, d)
  BY <1>8, <1>25
<1>26. CASE \E d \in Data : ForcePerm(d)
  BY <1>7, <1>26
<1>27. CASE \E c \in Probes \cup UNION {{[x |-> x, z |-> z, dim |-> r.dim] :
                               x \in r.x .. r.dx, z \in r.z .. r.dz} : r \in Rects} :
              ReadMissing(c)
  BY <1>19, <1>27, AskedColumns
<1>28. CASE Next
  BY <1>22, <1>23, <1>24, <1>25, <1>26, <1>27, <1>28 DEF Next
<1> QED  BY <1>21, <1>28

\* The invariant holds of every behaviour.
LEMMA MapInvariant == Spec => []MapInv
<1>1. MapInv /\ [Next]_storeVars => MapInv'
  BY MapNext
<1>2. Init => MapInv
  BY MapInit
<1> QED  BY <1>1, <1>2, PTL DEF Spec

-----------------------------------------------------------------------------
(***************************************************************************)
(* Two purchases never get the same column (land.command.gen.cpp looks at  *)
(* each column of a rectangle before addLand writes it), as long as the    *)
(* process has not died: a death between the writes of one purchase leaves *)
(* ground the next scan does not see.                                      *)
(***************************************************************************)
THEOREM LandsNeverOverlap == Spec => [](crashes = 0 => LandsDisjoint)
<1>1. MapInv => (crashes = 0 => LandsDisjoint)
  BY DEF MapInv, MapSound
<1> QED  BY <1>1, MapInvariant, PTL

(***************************************************************************)
(* getFastLand (data.hpp:198-216) answers with the land that covers the    *)
(* column, and with none when none does, from whatever is cached, as long  *)
(* as the process has not died.                                            *)
(***************************************************************************)
THEOREM LookupsAreRight == Spec => [](crashes = 0 => LookupRight)
<1>1. MapInv => (crashes = 0 => LookupRight)
  <2> SUFFICES ASSUME MapInv, crashes = 0, job = Idle, NEW c \in Probes
               PROVE  /\ Loadable(ChunkOf(c))
                      /\ \A l \in DOMAIN rec : Covers(rec[l].rect, c) <=> Found(c) = l
                      /\ Found(c) \in DOMAIN rec \cup {NoLid}
    BY DEF LookupRight
  <2>1. /\ StoreInv /\ IndexExact /\ LandsDisjoint /\ ~Writing /\ c \in Column
    BY NotDeadIsSane, StoreAssumption DEF MapSound, Writing, Idle
  <2>2. /\ Loadable(ChunkOf(c))
        /\ Found(c) # NoLid => Found(c) \in DOMAIN rec /\ Covers(rec[Found(c)].rect, c)
        /\ Found(c) = NoLid => Free(c)
    BY <2>1, LookupTells
  <2>3. ASSUME NEW l \in DOMAIN rec PROVE Covers(rec[l].rect, c) <=> Found(c) = l
    <3>1. ASSUME Found(c) = l PROVE Covers(rec[l].rect, c)
      BY <2>1, <2>2, <3>1, MapTypes
    <3>2. ASSUME Covers(rec[l].rect, c) PROVE Found(c) = l
      <4>1. Found(c) \in DOMAIN rec /\ Covers(rec[Found(c)].rect, c)
        BY <2>2, <3>2 DEF Free
      <4> DEFINE m == Found(c)
      <4>2. rec[l].rect \in Rectangle /\ rec[m].rect \in Rectangle
        BY <2>1, <4>1, MapTypes
      <4>3. ~Disjoint(rec[l].rect, rec[m].rect)
        BY <2>1, <3>2, <4>1, <4>2, DisjointHasNone
      <4> QED  BY <2>1, <4>1, <4>3 DEF LandsDisjoint
    <3> QED  BY <3>1, <3>2
  <2> QED  BY <2>2, <2>3
<1> QED  BY <1>1, MapInvariant, PTL

\* No more disjoint rectangles touch a chunk than it has columns.
LEMMA RoomInChunk ==
    ASSUME NEW s \in Seq(Lids), Distinct(s), NEW k \in ChunkKey,
           NEW R \in [ToSet(s) -> Rectangle],
           \A l \in ToSet(s) : Touches(R[l], k),
           \A l, m \in ToSet(s) : l # m => Disjoint(R[l], R[m])
    PROVE  Len(s) <= ChunkSize * ChunkSize
<1> DEFINE n == Len(s)
           offsets == 0 .. ChunkSize - 1
           corner(i) == CornerIn(R[s[i]], k)
           f == [i \in 1 .. n |-> <<OffsetPart(corner(i).x), OffsetPart(corner(i).z)>>]
<1>1. n \in Nat /\ DOMAIN s = 1 .. n /\ ChunkSize \in Nat
  BY LenProperties, ChunkSizeAssumption
<1>2. ASSUME NEW i \in 1 .. n
      PROVE  /\ s[i] \in ToSet(s) /\ R[s[i]] \in Rectangle
             /\ corner(i) \in Column /\ Covers(R[s[i]], corner(i)) /\ ChunkOf(corner(i)) = k
  <2>1. s[i] \in ToSet(s)
    BY <1>1 DEF ToSet
  <2>2. R[s[i]] \in Rectangle /\ Touches(R[s[i]], k)
    BY <2>1
  <2> QED  BY <2>1, <2>2, TouchedChunkHasColumn
<1> HIDE DEF corner
<1>3. f \in [1 .. n -> offsets \X offsets]
  <2>1. ASSUME NEW i \in 1 .. n
        PROVE  OffsetPart(corner(i).x) \in offsets /\ OffsetPart(corner(i).z) \in offsets
    BY <1>2, DivMod DEF Column
  <2> QED  BY <2>1
<1>4. ASSUME NEW i \in 1 .. n, NEW j \in 1 .. n, f[i] = f[j] PROVE i = j
  <2>1. OffsetPart(corner(i).x) = OffsetPart(corner(j).x) /\ OffsetPart(corner(i).z) = OffsetPart(corner(j).z)
    BY <1>4
  <2>2. corner(i) = corner(j)
    BY <1>2, <2>1, OffsetsTell
  <2>3. ~Disjoint(R[s[i]], R[s[j]])
    BY <1>2, <2>2, DisjointHasNone
  <2>4. s[i] = s[j]
    BY <1>2, <2>3
  <2> QED  BY <1>1, <2>4 DEF Distinct
<1>5. f \in Injection(1 .. n, offsets \X offsets)
  BY <1>3, <1>4 DEF Injection, IsInjective
<1> HIDE DEF f
<1>6. IsFiniteSet(offsets) /\ Cardinality(offsets) = ChunkSize
  <2>1. /\ IsFiniteSet(0 .. ChunkSize - 1)
        /\ Cardinality(0 .. ChunkSize - 1)
              = IF 0 > ChunkSize - 1 THEN 0 ELSE (ChunkSize - 1) - 0 + 1
    BY <1>1, FS_Interval, SMTT(30)
  <2> QED  BY <2>1, ChunkSizeAssumption
<1> HIDE DEF offsets
<1>7. /\ IsFiniteSet(offsets \X offsets)
      /\ Cardinality(offsets \X offsets) = ChunkSize * ChunkSize
  BY <1>6, FS_Product
<1>8. Cardinality(1 .. n) <= ChunkSize * ChunkSize
  BY <1>5, <1>7, FS_Injection
<1>9. Cardinality(1 .. n) = n
  <2>1. Cardinality(1 .. n) = IF 1 > n THEN 0 ELSE n - 1 + 1
    BY <1>1, FS_Interval, SMTT(30)
  <2> QED  BY <1>1, <2>1
<1> QED  BY <1>8, <1>9

(***************************************************************************)
(* ChunkLandManager::load (data.hpp) copies a chunk's list into an array   *)
(* of 256 places without looking: as many as the chunk has columns.  No    *)
(* list is longer, while a land is linked or unlinked either, since the    *)
(* lands it names do not overlap and each has a column there.  As long as  *)
(* the process has not died.                                               *)
(***************************************************************************)
THEOREM ListsAreShort == Spec => [](crashes = 0 => ListsFit)
<1>1. MapInv => (crashes = 0 => ListsFit)
  <2> SUFFICES ASSUME MapInv, crashes = 0, NEW k \in DOMAIN index
               PROVE  Len(index[k]) <= ChunkSize * ChunkSize
    BY DEF ListsFit
  <2> DEFINE s == Listed(k)
             R == [l \in ToSet(s) |-> IF l \in DOMAIN rec THEN rec[l].rect ELSE job.land.rect]
  <2>1. StoreInv /\ MapSound
    BY NotDeadIsSane
  <2>2. k \in ChunkKey /\ s = index[k]
    BY <2>1 DEF StoreInv, Types, Listed
  <2>3. s \in Seq(Lids) /\ ToSet(s) \subseteq Lids /\ \A l \in DOMAIN rec : rec[l].rect \in Rectangle
    BY <2>1, MapTypes
  <2>4. Distinct(s) /\ \A l \in ToSet(s) : Names(k, l)
    BY <2>1, <2>2, <2>3 DEF MapSound, IndexExact
  <2> HIDE DEF s
  <2>5. ASSUME NEW l \in ToSet(s), l \notin DOMAIN rec
        PROVE  /\ job.op = "unlink" /\ job.lid = l /\ job.land.rect \in Rectangle
               /\ Touches(job.land.rect, k)
               /\ \A m \in DOMAIN rec : Disjoint(job.land.rect, rec[m].rect)
    <3>1. job.op = "unlink" /\ job.lid = l /\ Touches(job.land.rect, k)
      BY <2>4, <2>5 DEF Names
    <3>2. job.land.rect \in Rectangle
      BY <2>1, <3>1, MapTypes, JobKinds
    <3> QED  BY <2>1, <3>1, <3>2 DEF MapSound, JobSound
  <2>6. ASSUME NEW l \in ToSet(s) PROVE R[l] \in Rectangle /\ Touches(R[l], k)
    <3>1. CASE l \in DOMAIN rec
      <4>1. ~(job.op = "unlink" /\ job.lid = l)
        BY <2>1, <3>1 DEF MapSound, JobSound
      <4> QED  BY <2>3, <2>4, <3>1, <4>1 DEF Names
    <3>2. CASE l \notin DOMAIN rec
      BY <2>5, <3>2
    <3> QED  BY <3>1, <3>2
  <2>7. ASSUME NEW l \in ToSet(s), NEW m \in ToSet(s), l # m PROVE Disjoint(R[l], R[m])
    <3>1. CASE l \in DOMAIN rec /\ m \in DOMAIN rec
      BY <2>1, <2>7, <3>1 DEF MapSound, LandsDisjoint
    <3>2. CASE l \notin DOMAIN rec /\ m \in DOMAIN rec
      BY <2>5, <3>2
    <3>3. CASE l \in DOMAIN rec /\ m \notin DOMAIN rec
      BY <2>5, <3>3, DisjointSymmetric
    <3>4. CASE l \notin DOMAIN rec /\ m \notin DOMAIN rec
      BY <2>5, <2>7, <3>4
    <3> QED  BY <3>1, <3>2, <3>3, <3>4
  <2>8. R \in [ToSet(s) -> Rectangle]
    BY <2>6
  <2> HIDE DEF R
  <2>9. Len(s) <= ChunkSize * ChunkSize
    BY <2>2, <2>3, <2>4, <2>6, <2>7, <2>8, RoomInChunk
  <2> QED  BY <2>2, <2>9
<1> QED  BY <1>1, MapInvariant, PTL

(***************************************************************************)
(* The store implements the map of lands, LandMap: whatever its handlers   *)
(* write in whatever order, what land.mod sees of it changes by one land   *)
(* at a time, added over no other under a new identifier, changed in       *)
(* place, or removed.  Deaths of the process excepted.                     *)
(***************************************************************************)
THEOREM StoreIsAMap == Spec /\ [](crashes = 0) => ImplementsMap
<1>1. Init => Map!Init
  BY MapInit
<1>2. MapInv /\ [Next]_storeVars /\ crashes' = 0 => [Map!Next]_<<VisibleLands, HandedOut>>
  BY MapNext DEF MapStep
<1>3. [Map!Next]_<<VisibleLands, HandedOut>> => [Map!Next]_(Map!mapVars)
  BY DEF Map!mapVars
<1>4. MapInv /\ [Next]_storeVars /\ (crashes = 0)' => [Map!Next]_(Map!mapVars)
  BY <1>2, <1>3
<1>5. Spec /\ [](crashes = 0) => Map!Init /\ [][Map!Next]_(Map!mapVars)
  BY <1>1, <1>4, MapInvariant, PTL DEF Spec
<1> QED  BY <1>5 DEF ImplementsMap, Map!Spec
=============================================================================
