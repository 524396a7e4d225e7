----------------------------- MODULE ListLemmas -----------------------------
(***************************************************************************)
(* What the proofs need to know of sequences: cutting one at a place,      *)
(* putting an element in front, taking the first occurrence of one out;    *)
(* of recursion along numbers; and of sums over finite sets.               *)
(***************************************************************************)
EXTENDS Integers, SequencesExt, FiniteSetTheorems, SequenceTheorems, WellFoundedInduction, TLAPS

(***************************************************************************)
(* The pieces a sequence is cut into at a place put it together again.     *)
(***************************************************************************)
LEMMA CutAt ==
    ASSUME NEW S, NEW s \in Seq(S), NEW i \in DOMAIN s
    PROVE  /\ SubSeq(s, 1, i - 1) \in Seq(S)
           /\ <<s[i]>> \in Seq(S)
           /\ SubSeq(s, i + 1, Len(s)) \in Seq(S)
           /\ s = SubSeq(s, 1, i - 1) \o (<<s[i]>> \o SubSeq(s, i + 1, Len(s)))
           /\ RemoveAt(s, i) \in Seq(S)
           /\ Len(RemoveAt(s, i)) = Len(s) - 1
<1>1. Len(s) \in Nat /\ i \in 1 .. Len(s) /\ \A j \in 1 .. Len(s) : s[j] \in S
  BY LenProperties, ElementOfSeq
<1>2. /\ SubSeq(s, 1, i - 1) \in Seq(S)
      /\ Len(SubSeq(s, 1, i - 1)) = i - 1
  BY <1>1, SubSeqProperties
<1>3. /\ SubSeq(s, i + 1, Len(s)) \in Seq(S)
      /\ Len(SubSeq(s, i + 1, Len(s))) = Len(s) - i
  BY <1>1, SubSeqProperties
<1>4. SubSeq(s, i, Len(s)) = <<s[i]>> \o SubSeq(s, i + 1, Len(s))
  <2>1. Len(s) \in i .. Len(s)
    BY <1>1
  <2> QED  BY <2>1, <1>1, SubSeqRecursiveFirst, Zenon
<1>5. SubSeq(s, 1, i - 1) \o SubSeq(s, (i - 1) + 1, Len(s)) = SubSeq(s, 1, Len(s))
  <2>1. 1 \in 1 .. Len(s) + 1 /\ i - 1 \in 1 - 1 .. Len(s) /\ Len(s) \in i - 1 .. Len(s)
    BY <1>1
  <2> QED  BY <2>1, ConcatAdjacentSubSeq, Zenon
<1>6. (i - 1) + 1 = i /\ SubSeq(s, 1, Len(s)) = s
  BY <1>1, SubSeqFull
<1>7. <<s[i]>> \in Seq(S)
  BY <1>1
<1>8. /\ RemoveAt(s, i) \in Seq(S)
      /\ Len(RemoveAt(s, i)) = Len(s) - 1
  <2> DEFINE left == SubSeq(s, 1, i - 1)
             right == SubSeq(s, i + 1, Len(s))
  <2>1. left \in Seq(S) /\ Len(left) = i - 1 /\ right \in Seq(S) /\ Len(right) = Len(s) - i
    BY <1>2, <1>3
  <2>2. RemoveAt(s, i) = left \o right
    BY DEF RemoveAt
  <2> HIDE DEF left, right
  <2>3. left \o right \in Seq(S) /\ Len(left \o right) = Len(left) + Len(right)
    BY <2>1, ConcatProperties
  <2> QED  BY <2>1, <2>2, <2>3, <1>1
<1> QED  BY <1>2, <1>3, <1>4, <1>5, <1>6, <1>7, <1>8

(***************************************************************************)
(* Putting an element in front of a sequence moves the others by one.      *)
(***************************************************************************)
LEMMA Prepend ==
    ASSUME NEW S, NEW e \in S, NEW s \in Seq(S)
    PROVE  /\ <<e>> \o s \in Seq(S)
           /\ Len(<<e>> \o s) = 1 + Len(s)
           /\ DOMAIN (<<e>> \o s) = 1 .. 1 + Len(s)
           /\ (<<e>> \o s)[1] = e
           /\ \A n \in 1 .. Len(s) : (<<e>> \o s)[n + 1] = s[n]
<1> DEFINE one == <<e>>
           all == one \o s
<1>1. one \in Seq(S) /\ Len(one) = 1 /\ one[1] = e /\ Len(s) \in Nat
  BY LenProperties
<1> HIDE DEF one
<1>2. /\ all \in Seq(S) /\ Len(all) = Len(one) + Len(s)
      /\ \A n \in 1 .. Len(one) + Len(s) : all[n] = IF n <= Len(one) THEN one[n] ELSE s[n - Len(one)]
  BY <1>1, ConcatProperties
<1> HIDE DEF all
<1>3. DOMAIN all = 1 .. 1 + Len(s)
  BY <1>1, <1>2, LenProperties
<1>4. all[1] = e
  BY <1>1, <1>2
<1>5. ASSUME NEW n \in 1 .. Len(s) PROVE all[n + 1] = s[n]
  <2>1. n + 1 \in 1 .. Len(one) + Len(s) /\ ~(n + 1 <= Len(one)) /\ (n + 1) - Len(one) = n
    BY <1>1
  <2> QED  BY <2>1, <1>2
<1> QED  BY <1>2, <1>3, <1>4, <1>5 DEF all, one

(***************************************************************************)
(* A set of natural numbers with an element has a least one.               *)
(***************************************************************************)
LEMMA LeastNatural ==
    ASSUME NEW T, T \subseteq Nat, T # {}
    PROVE  Min(T) \in T /\ \A y \in T : Min(T) <= y
<1> DEFINE R == {q \in Nat \X Nat : q[1] < q[2]}
<1>1. IsWellFoundedOn(R, Nat)
  BY NatLessThanWellFounded DEF OpToRel
<1>2. \A x, y \in Nat : x < y => <<x, y>> \in R
  OBVIOUS
<1> HIDE DEF R
<1>3. PICK x \in T : \A y \in T : ~(<<y, x>> \in R)
  BY <1>1, WFMin
<1>4. ASSUME NEW y \in T PROVE x <= y
  <2>1. x \in Nat /\ y \in Nat
    OBVIOUS
  <2>2. ~(y < x)
    BY <2>1, <1>2, <1>3
  <2> QED  BY <2>1, <2>2
<1> QED  BY <1>4 DEF Min

(***************************************************************************)
(* A set of numbers up to n with an element has a greatest one.            *)
(***************************************************************************)
LEMMA GreatestPlace ==
    ASSUME NEW n \in Nat, NEW T, T \subseteq 1 .. n, T # {}
    PROVE  \E j \in T : \A i \in T : i <= j
<1> DEFINE U == {n - t : t \in T}
<1>1. U \subseteq Nat /\ U # {}
  <2>1. ASSUME NEW t \in T PROVE n - t \in Nat
    <3>1. t \in 1 .. n
      OBVIOUS
    <3> QED  BY <3>1
  <2>2. U # {}
    OBVIOUS
  <2> QED  BY <2>1, <2>2
<1>2. Min(U) \in U /\ \A y \in U : Min(U) <= y
  BY <1>1, LeastNatural
<1>3. PICK j \in T : Min(U) = n - j
  BY <1>2
<1>4. ASSUME NEW i \in T PROVE i <= j
  <2>1. n - i \in U
    OBVIOUS
  <2>2. n - j <= n - i
    BY <2>1, <1>2, <1>3
  <2>3. i \in Int /\ j \in Int
    OBVIOUS
  <2> QED  BY <2>2, <2>3
<1> QED  BY <1>4

(***************************************************************************)
(* Taking an element off a list leaves a list of such elements.            *)
(***************************************************************************)
LEMMA RemoveFirstType ==
    ASSUME NEW S, NEW s \in Seq(S), NEW e
    PROVE  RemoveFirst(s, e) \in Seq(S)
<1> DEFINE places == {j \in 1 .. Len(s) : s[j] = e}
<1>1. CASE \E i \in 1 .. Len(s) : s[i] = e
  <2>1. places # {} /\ places \subseteq Nat
    BY <1>1, LenProperties
  <2>2. Min(places) \in places
    BY <2>1, LeastNatural
  <2>3. RemoveFirst(s, e) = RemoveAt(s, Min(places))
    BY <1>1, <2>1 DEF RemoveFirst, SelectInSeq
  <2>4. Min(places) \in DOMAIN s
    BY <2>2, LenProperties
  <2>5. RemoveAt(s, Min(places)) \in Seq(S)
    BY <2>4, CutAt
  <2> QED  BY <2>3, <2>5
<1>2. CASE ~\E i \in 1 .. Len(s) : s[i] = e
  BY <1>2 DEF RemoveFirst
<1> QED  BY <1>1, <1>2

(***************************************************************************)
(* Only that element goes: the list is shorter by one if it had it, and    *)
(* whoever was first and is not that element stays first.                  *)
(***************************************************************************)
LEMMA RemoveFirstKeeps ==
    ASSUME NEW S, NEW s \in Seq(S), NEW e
    PROVE  /\ Len(RemoveFirst(s, e)) <= Len(s)
           /\ Contains(s, e) => Len(RemoveFirst(s, e)) = Len(s) - 1
           /\ s # <<>> /\ s[1] # e => RemoveFirst(s, e) # <<>> /\ RemoveFirst(s, e)[1] = s[1]
<1> DEFINE places == {j \in 1 .. Len(s) : s[j] = e}
           t == RemoveFirst(s, e)
<1>1. Len(s) \in Nat
  BY LenProperties
<1>2. CASE Contains(s, e)
  <2>1. places # {} /\ places \subseteq Nat
    BY <1>1, <1>2 DEF Contains
  <2>2. PICK i : i = Min(places) /\ i \in places
    BY <2>1, LeastNatural
  <2>3. t = RemoveAt(s, i)
    BY <1>2, <2>2 DEF RemoveFirst, SelectInSeq, Contains
  <2>4. i \in 1 .. Len(s) /\ i \in DOMAIN s /\ s[i] = e
    BY <2>2, LenProperties
  <2>5. Len(t) = Len(s) - 1
    BY <2>3, <2>4, CutAt
  <2>6. ASSUME s[1] # e PROVE t # <<>> /\ t[1] = s[1]
    <3> DEFINE left == SubSeq(s, 1, i - 1)
               right == SubSeq(s, i + 1, Len(s))
    <3>1. i - 1 \in 1 .. Len(s) /\ 1 <= i - 1 /\ 1 \in 1 .. i - 1
      BY <1>1, <2>4, <2>6
    <3>2. left \in Seq(S) /\ right \in Seq(S)
      BY <2>4, CutAt
    <3>3. Len(left) = i - 1 /\ left[1] = s[1]
      <4>1. \A n \in 1 .. Len(s) : s[n] \in S
        BY ElementOfSeq
      <4> QED  BY <3>1, <4>1, <1>1, SubSeqProperties
    <3>4. t = left \o right
      BY <2>3 DEF RemoveAt
    <3> HIDE DEF left, right, t
    <3>5. /\ Len(left \o right) = Len(left) + Len(right) /\ Len(right) \in Nat
          /\ \A n \in 1 .. Len(left) + Len(right) :
                (left \o right)[n] = IF n <= Len(left) THEN left[n] ELSE right[n - Len(left)]
      BY <3>2, ConcatProperties, LenProperties
    <3>6. 1 \in 1 .. Len(left) + Len(right) /\ 1 <= Len(left)
      BY <3>1, <3>3, <3>5
    <3>7. t[1] = s[1] /\ Len(t) # 0
      BY <3>3, <3>4, <3>5, <3>6
    <3> QED  BY <3>7
  <2> HIDE DEF t
  <2> QED  BY <1>1, <2>5, <2>6 DEF t
<1>3. CASE ~Contains(s, e)
  BY <1>1, <1>3 DEF RemoveFirst, Contains
<1> QED  BY <1>2, <1>3

(***************************************************************************)
(* Induction, for a property that is the set of the numbers that have it.  *)
(***************************************************************************)
LEMMA SetInduction ==
    ASSUME NEW T, 0 \in T, \A k \in Nat : k \in T => k + 1 \in T
    PROVE  Nat \subseteq T
<1> SUFFICES ASSUME Nat \ T # {} PROVE FALSE
  OBVIOUS
<1>1. PICK m \in Nat \ T : \A y \in Nat \ T : m <= y
  <2>1. Min(Nat \ T) \in Nat \ T /\ \A y \in Nat \ T : Min(Nat \ T) <= y
    BY LeastNatural
  <2> QED  BY <2>1
<1>2. m # 0 /\ m - 1 \in Nat /\ (m - 1) + 1 = m /\ ~(m <= m - 1)
  OBVIOUS
<1>3. m - 1 \in T
  BY <1>1, <1>2
<1> QED  BY <1>2, <1>3

\* The functions on 0 .. n that begin with a and go on by the step F.
Stepped(n, S, a, F) ==
    {f \in [0 .. n -> S] : f[0] = a /\ \A i \in 1 .. n : f[i] = F[<<i, f[i - 1]>>]}

(***************************************************************************)
(* Recursion: a first value and a step make a function on 0 .. n.          *)
(***************************************************************************)
LEMMA StepByStep ==
    ASSUME NEW n \in Nat, NEW S, NEW a \in S, NEW F \in [(1 .. n) \X S -> S]
    PROVE  Stepped(n, S, a, F) # {}
<1> DEFINE T == {m \in Nat : m <= n => \E f \in [0 .. m -> S] :
                                 f[0] = a /\ \A i \in 1 .. m : f[i] = F[<<i, f[i - 1]>>]}
<1>1. 0 \in T
  <2>1. PICK f \in [0 .. 0 -> S] : f = [i \in 0 .. 0 |-> a]
    OBVIOUS
  <2> QED  BY <2>1
<1>2. ASSUME NEW k \in Nat, k \in T PROVE k + 1 \in T
  <2> SUFFICES ASSUME k + 1 <= n
      PROVE  \E f \in [0 .. k + 1 -> S] :
                f[0] = a /\ \A i \in 1 .. k + 1 : f[i] = F[<<i, f[i - 1]>>]
    OBVIOUS
  <2>1. PICK g \in [0 .. k -> S] : g[0] = a /\ \A i \in 1 .. k : g[i] = F[<<i, g[i - 1]>>]
    BY <1>2
  <2>2. g[k] \in S /\ <<k + 1, g[k]>> \in (1 .. n) \X S
    BY <2>1
  <2>3. PICK x \in S : x = F[<<k + 1, g[k]>>]
    BY <2>2
  <2>4. PICK f \in [0 .. k + 1 -> S] : f = [i \in 0 .. k + 1 |-> IF i <= k THEN g[i] ELSE x]
    <3>1. \A i \in 0 .. k + 1 : i <= k => i \in 0 .. k
      OBVIOUS
    <3>2. \A i \in 0 .. k + 1 : (IF i <= k THEN g[i] ELSE x) \in S
      BY <2>1, <2>3, <3>1
    <3> QED  BY <3>2
  <2>5. f[0] = a
    BY <2>1, <2>4
  <2>6. ASSUME NEW i \in 1 .. k + 1 PROVE f[i] = F[<<i, f[i - 1]>>]
    <3>1. CASE i = k + 1
      <4>1. f[i] = x /\ i - 1 = k /\ f[k] = g[k]
        BY <2>4, <3>1
      <4> QED  BY <4>1, <2>3, <3>1
    <3>2. CASE i # k + 1
      <4>1. i \in 1 .. k /\ i - 1 \in 0 .. k /\ f[i] = g[i] /\ f[i - 1] = g[i - 1]
        BY <2>4, <3>2
      <4> QED  BY <4>1, <2>1
    <3> QED  BY <3>1, <3>2
  <2> QED  BY <2>5, <2>6
<1>3. n \in T
  <2> HIDE DEF T
  <2> QED  BY <1>1, <1>2, SetInduction
<1> QED  BY <1>3 DEF Stepped

(***************************************************************************)
(* What is left of a list without an element: a list no longer than it, of *)
(* its elements but that one.                                              *)
(***************************************************************************)
LEMMA WithoutElement ==
    ASSUME NEW S, NEW s \in Seq(S), NEW e,
           NEW left, left = [i \in 0 .. Len(s) |->
               IF i = 0 THEN <<>>
               ELSE IF s[i] = e THEN left[i - 1] ELSE Append(left[i - 1], s[i])]
    PROVE  left[Len(s)] \in Seq(Range(s) \ {e}) /\ Len(left[Len(s)]) <= Len(s)
<1> DEFINE K == Range(s) \ {e}
           T == {m \in Nat : m <= Len(s) => left[m] \in Seq(K) /\ Len(left[m]) <= m}
<1>1. Len(s) \in Nat /\ \A i \in 1 .. Len(s) : s[i] # e => s[i] \in K
  BY LenProperties DEF Range
<1> HIDE DEF K
<1>2. 0 \in T
  <2>1. left[0] = <<>>
    BY <1>1
  <2> QED  BY <2>1
<1>3. ASSUME NEW k \in Nat, k \in T, k + 1 <= Len(s)
      PROVE  \E u \in Seq(K) : u = left[k + 1] /\ Len(u) <= k + 1
  <2>1. k + 1 \in 1 .. Len(s) /\ k + 1 \in 0 .. Len(s) /\ k + 1 # 0 /\ (k + 1) - 1 = k /\ k <= Len(s)
    BY <1>1, <1>3
  <2>2. PICK t \in Seq(K) : t = left[k] /\ Len(t) <= k
    BY <1>3, <2>1
  <2>3. left[k + 1] = IF s[k + 1] = e THEN t ELSE Append(t, s[k + 1])
    BY <2>1, <2>2
  <2>4. Len(t) \in Nat
    BY LenProperties
  <2>5. CASE s[k + 1] = e
    <3>1. t = left[k + 1] /\ Len(t) <= k + 1
      BY <2>2, <2>3, <2>4, <2>5
    <3> QED  BY <3>1
  <2>6. CASE s[k + 1] # e
    <3>1. PICK x \in K : x = s[k + 1]
      BY <1>1, <2>1, <2>6
    <3>2. Append(t, x) \in Seq(K) /\ Len(Append(t, x)) = Len(t) + 1
      BY AppendProperties
    <3>3. PICK u \in Seq(K) : u = Append(t, x) /\ Len(u) = Len(t) + 1
      BY <3>2
    <3>4. u = left[k + 1]
      BY <2>3, <2>6, <3>1, <3>3
    <3>5. Len(u) <= k + 1
      BY <2>2, <2>4, <3>3
    <3> QED  BY <3>4, <3>5
  <2> QED  BY <2>5, <2>6
<1>4. Len(s) \in T
  <2>1. ASSUME NEW k \in Nat, k \in T PROVE k + 1 \in T
    <3>1. k + 1 <= Len(s) => left[k + 1] \in Seq(K) /\ Len(left[k + 1]) <= k + 1
      BY <1>3, <2>1
    <3> QED  BY <3>1
  <2> HIDE DEF T
  <2> QED  BY <1>1, <1>2, <2>1, SetInduction
<1> QED  BY <1>1, <1>4 DEF K

\* The lists of a bounded length.
LEMMA BoundedLists ==
    ASSUME NEW S, NEW n \in Nat, NEW s
    PROVE  s \in BoundedSeq(S, n) <=> s \in Seq(S) /\ Len(s) <= n
<1>1. ASSUME s \in BoundedSeq(S, n) PROVE s \in Seq(S) /\ Len(s) <= n
  <2>1. PICK m \in 0 .. n : s \in [1 .. m -> S]
    BY <1>1 DEF BoundedSeq, SeqOf
  <2> QED  BY <2>1
<1>2. ASSUME s \in Seq(S), Len(s) <= n PROVE s \in BoundedSeq(S, n)
  <2>1. Len(s) \in 0 .. n /\ s \in [1 .. Len(s) -> S]
    BY <1>2, LenProperties
  <2> QED  BY <2>1 DEF BoundedSeq, SeqOf
<1> QED  BY <1>1, <1>2

(***************************************************************************)
(* Taking the first occurrence of an element out of a sequence moves those *)
(* after it by one.                                                        *)
(***************************************************************************)
LEMMA RemoveFirstElements ==
    ASSUME NEW S, NEW s \in Seq(S), NEW i \in 1 .. Len(s), \A j \in 1 .. i - 1 : s[j] # s[i]
    PROVE  /\ RemoveFirst(s, s[i]) \in Seq(S)
           /\ Len(RemoveFirst(s, s[i])) = Len(s) - 1
           /\ \A n \in 1 .. Len(s) - 1 : RemoveFirst(s, s[i])[n] = IF n < i THEN s[n] ELSE s[n + 1]
<1> DEFINE places == {j \in 1 .. Len(s) : s[j] = s[i]}
           left == SubSeq(s, 1, i - 1)
           right == SubSeq(s, i + 1, Len(s))
<1>1. Len(s) \in Nat /\ DOMAIN s = 1 .. Len(s) /\ (\A j \in 1 .. Len(s) : s[j] \in S)
  BY LenProperties, ElementOfSeq
<1>2. Min(places) = i
  <2>1. places # {} /\ places \subseteq Nat /\ i \in places
    BY <1>1
  <2>2. Min(places) \in places /\ Min(places) <= i
    BY <2>1, LeastNatural
  <2>3. PICK j \in 1 .. Len(s) : j = Min(places) /\ s[j] = s[i] /\ j <= i
    BY <2>2
  <2>4. j \in 1 .. i - 1 \/ j = i
    BY <2>3, <1>1
  <2> QED  BY <2>3, <2>4
<1>3. RemoveFirst(s, s[i]) = left \o right
  <2>1. places # {} /\ \E j \in 1 .. Len(s) : s[j] = s[i]
    OBVIOUS
  <2>2. RemoveFirst(s, s[i]) = RemoveAt(s, Min(places))
    BY <2>1 DEF RemoveFirst, SelectInSeq
  <2> QED  BY <1>2, <2>2 DEF RemoveAt
<1>4. /\ left \in Seq(S) /\ Len(left) = i - 1
      /\ \A n \in 1 .. i - 1 : left[n] = s[n]
  <2>1. /\ SubSeq(s, 1, i - 1) \in Seq(S)
        /\ Len(SubSeq(s, 1, i - 1)) = IF 1 <= i - 1 THEN i - 1 - 1 + 1 ELSE 0
        /\ \A n \in 1 .. i - 1 - 1 + 1 : SubSeq(s, 1, i - 1)[n] = s[1 + n - 1]
    <3>1. i - 1 \in Int /\ 1 \in Int /\ \A n \in 1 .. i - 1 : s[n] \in S
      BY <1>1
    <3> QED  BY <3>1, SubSeqProperties
  <2>2. (IF 1 <= i - 1 THEN i - 1 - 1 + 1 ELSE 0) = i - 1 /\ i - 1 - 1 + 1 = i - 1
        /\ \A n \in 1 .. i - 1 : 1 + n - 1 = n
    BY <1>1
  <2> QED  BY <2>1, <2>2
<1>5. /\ right \in Seq(S) /\ Len(right) = Len(s) - i
      /\ \A n \in 1 .. Len(s) - i : right[n] = s[i + n]
  <2>1. /\ SubSeq(s, i + 1, Len(s)) \in Seq(S)
        /\ Len(SubSeq(s, i + 1, Len(s))) = IF i + 1 <= Len(s) THEN Len(s) - (i + 1) + 1 ELSE 0
        /\ \A n \in 1 .. Len(s) - (i + 1) + 1 : SubSeq(s, i + 1, Len(s))[n] = s[(i + 1) + n - 1]
    <3>1. i + 1 \in Int /\ Len(s) \in Int /\ \A n \in i + 1 .. Len(s) : s[n] \in S
      BY <1>1
    <3> QED  BY <3>1, SubSeqProperties
  <2>2. PICK w \in Nat : w = Len(s)
    BY <1>1, Zenon
  <2>3. i \in Int /\ i <= w
    BY <2>2
  <2>4. (IF i + 1 <= w THEN w - (i + 1) + 1 ELSE 0) = w - i /\ w - (i + 1) + 1 = w - i
        /\ \A n \in 1 .. w - i : (i + 1) + n - 1 = i + n
    BY <2>3
  <2> QED  BY <2>1, <2>2, <2>4
<1> HIDE DEF left, right
<1>6. /\ left \o right \in Seq(S) /\ Len(left \o right) = Len(left) + Len(right)
      /\ \A n \in 1 .. Len(left) + Len(right) :
            (left \o right)[n] = IF n <= Len(left) THEN left[n] ELSE right[n - Len(left)]
  BY <1>4, <1>5, ConcatProperties
<1>7. ASSUME NEW n \in 1 .. Len(s) - 1 PROVE (left \o right)[n] = IF n < i THEN s[n] ELSE s[n + 1]
  <2>1. n \in 1 .. Len(left) + Len(right)
    BY <1>1, <1>4, <1>5
  <2>2. CASE n < i
    <3>1. n <= Len(left) /\ n \in 1 .. i - 1
      BY <1>1, <1>4, <2>2
    <3> QED  BY <1>4, <1>6, <2>1, <2>2, <3>1
  <2>3. CASE ~(n < i)
    <3>1. ~(n <= Len(left)) /\ n - Len(left) \in 1 .. Len(s) - i /\ i + (n - Len(left)) = n + 1
      BY <1>1, <1>4, <1>7, <2>3
    <3>2. (left \o right)[n] = right[n - Len(left)]
      BY <1>6, <2>1, <3>1
    <3> QED  BY <1>5, <2>3, <3>1, <3>2
  <2> QED  BY <2>2, <2>3
<1> QED  BY <1>1, <1>3, <1>4, <1>5, <1>6, <1>7

-----------------------------------------------------------------------------
(***************************************************************************)
(* Sums.  The element a fold takes out of a set, and the function it folds *)
(* with: what is left of each subset is summed before it.                  *)
(***************************************************************************)
Picked(s) == CHOOSE x \in s : TRUE

Summing(f, S, iter) ==
    iter = [s \in SUBSET S |-> IF s = {} THEN 0 ELSE f[Picked(s)] + iter[s \ {Picked(s)}]]

LEMMA SumIs ==
    ASSUME NEW f, NEW S
    PROVE  SumFunctionOnSet(f, S) = (CHOOSE iter : Summing(f, S, iter))[S]
  BY Zenon DEF SumFunctionOnSet, FoldFunctionOnSet, MapThenFoldSet, Summing, Picked

\* What is taken out of a set is in it.
LEMMA PickedIs == ASSUME NEW s, s # {} PROVE Picked(s) \in s
  BY DEF Picked

\* A finite set is one of a number of elements, and one less without what is taken out.
LEMMA OneLess ==
    ASSUME NEW s, IsFiniteSet(s), NEW x \in s
    PROVE  /\ IsFiniteSet(s \ {x})
           /\ Cardinality(s) \in Nat \ {0} /\ Cardinality(s \ {x}) = Cardinality(s) - 1
<1>1. Cardinality(s) \in Nat /\ Cardinality(s) # 0
  BY FS_CardinalityType, FS_EmptySet
<1> QED  BY <1>1, FS_RemoveElement

\* Values to be summed.
Summands(f, S) == IsFiniteSet(S) /\ \A x \in S : f[x] \in Int

\* There is such a function.
LEMMA SummingExists ==
    ASSUME NEW f, NEW S, Summands(f, S)
    PROVE  \E iter : iter \in [SUBSET S -> Int] /\ Summing(f, S, iter)
<1> DEFINE Sub(n) == {s \in SUBSET S : Cardinality(s) <= n}
           Step(it, s) == IF s = {} THEN 0 ELSE f[Picked(s)] + it[s \ {Picked(s)}]
           Upto(n) == {it \in [Sub(n) -> Int] : \A s \in Sub(n) : it[s] = Step(it, s)}
           T == {n \in Nat : Upto(n) # {}}
<1>1. ASSUME NEW s \in SUBSET S PROVE IsFiniteSet(s) /\ Cardinality(s) \in Nat /\ Cardinality(s) <= Cardinality(S)
  BY FS_Subset, FS_CardinalityType DEF Summands
<1>2. 0 \in T
  <2>1. PICK it : it = [s \in Sub(0) |-> 0]
    OBVIOUS
  <2>2. \A s \in Sub(0) : s = {}
    BY <1>1, FS_EmptySet
  <2>3. it \in [Sub(0) -> Int] /\ \A s \in Sub(0) : it[s] = Step(it, s)
    BY <2>1, <2>2
  <2> QED  BY <2>3
<1>3. ASSUME NEW n \in Nat, n \in T PROVE n + 1 \in T
  <2>1. PICK it \in [Sub(n) -> Int] : \A s \in Sub(n) : it[s] = Step(it, s)
    BY <1>3
  <2>2. PICK g : g = [s \in Sub(n + 1) |-> Step(it, s)]
    OBVIOUS
  <2>3. ASSUME NEW s \in Sub(n + 1), s # {} PROVE Picked(s) \in S /\ s \ {Picked(s)} \in Sub(n)
    <3>1. Picked(s) \in s /\ s \in SUBSET S /\ IsFiniteSet(s) /\ Cardinality(s) <= n + 1
      BY <1>1, <2>3, PickedIs
    <3>2. Cardinality(s \ {Picked(s)}) = Cardinality(s) - 1 /\ Cardinality(s) \in Nat
      BY <3>1, OneLess
    <3>3. Cardinality(s \ {Picked(s)}) <= n
      BY <3>1, <3>2
    <3> QED  BY <3>1, <3>3
  <2>4. ASSUME NEW s \in Sub(n + 1) PROVE Step(it, s) \in Int
    <3>1. CASE s = {}
      BY <3>1
    <3>2. CASE s # {}
      <4>1. f[Picked(s)] \in Int /\ it[s \ {Picked(s)}] \in Int
        BY <2>1, <2>3, <3>2 DEF Summands
      <4> QED  BY <4>1
    <3> QED  BY <3>1, <3>2
  <2>5. g \in [Sub(n + 1) -> Int]
    BY <2>2, <2>4
  <2>6. \A s \in Sub(n) : s \in Sub(n + 1) /\ g[s] = it[s]
    <3>1. \A s \in Sub(n) : s \in Sub(n + 1)
      <4> SUFFICES ASSUME NEW s \in Sub(n) PROVE s \in Sub(n + 1)
        OBVIOUS
      <4>1. Cardinality(s) \in Nat /\ Cardinality(s) <= n
        BY <1>1
      <4>2. Cardinality(s) <= n + 1
        BY <4>1
      <4> QED  BY <4>2
    <3> HIDE DEF Sub, Step
    <3> QED  BY <2>1, <2>2, <3>1
  <2>7. ASSUME NEW s \in Sub(n + 1) PROVE g[s] = Step(g, s)
    <3>1. g[s] = Step(it, s)
      BY <2>2
    <3>2. CASE s = {}
      BY <3>1, <3>2
    <3>3. CASE s # {}
      <4>1. g[s \ {Picked(s)}] = it[s \ {Picked(s)}]
        BY <2>3, <2>6, <3>3
      <4> QED  BY <3>1, <4>1
    <3> QED  BY <3>2, <3>3
  <2>8. g \in Upto(n + 1)
    BY <2>5, <2>7
  <2> HIDE DEF Upto
  <2>9. Upto(n + 1) # {} /\ n + 1 \in Nat
    BY <2>8
  <2> QED  BY <2>9
<1>4. Nat \subseteq T
  <2> HIDE DEF T
  <2> QED  BY <1>2, <1>3, SetInduction
<1>5. PICK n \in Nat : n = Cardinality(S)
  BY FS_CardinalityType DEF Summands
<1>6. n \in T
  BY <1>4
<1>7. PICK it : it \in Upto(n)
  BY <1>6
<1>8. Sub(n) = SUBSET S
  BY <1>1, <1>5
<1>9. it \in [SUBSET S -> Int] /\ \A s \in SUBSET S : it[s] = Step(it, s)
  <2>1. it \in [Sub(n) -> Int] /\ \A s \in Sub(n) : it[s] = Step(it, s)
    BY <1>7
  <2> HIDE DEF Sub, Step
  <2> QED  BY <1>8, <2>1
<1>10. Summing(f, S, it)
  BY <1>9 DEF Summing
<1> QED  BY <1>9, <1>10

\* Two sums of the same values are the same.
Alike(f, S, i, g, R, j, V) ==
    /\ Summing(f, S, i) /\ Summing(g, R, j)
    /\ V \subseteq S /\ V \subseteq R /\ IsFiniteSet(V)
    /\ \A x \in V : f[x] = g[x]

LEMMA SummingSame ==
    ASSUME NEW f, NEW g, NEW S, NEW R, NEW i, NEW j, NEW V, Alike(f, S, i, g, R, j, V)
    PROVE  i[V] = j[V]
<1> DEFINE Agree(n) == \A s \in SUBSET V : Cardinality(s) = n => i[s] = j[s]
           T == {n \in Nat : Agree(n)}
<1>1. ASSUME NEW s \in SUBSET V
      PROVE  /\ IsFiniteSet(s) /\ Cardinality(s) \in Nat
             /\ i[s] = (IF s = {} THEN 0 ELSE f[Picked(s)] + i[s \ {Picked(s)}])
             /\ j[s] = (IF s = {} THEN 0 ELSE g[Picked(s)] + j[s \ {Picked(s)}])
  <2>1. IsFiniteSet(s) /\ Cardinality(s) \in Nat
    BY FS_Subset, FS_CardinalityType DEF Alike
  <2>2. s \in SUBSET S /\ s \in SUBSET R
    BY DEF Alike
  <2>3. Summing(f, S, i) /\ Summing(g, R, j)
    BY DEF Alike
  <2> QED  BY <2>1, <2>2, <2>3 DEF Summing
<1>2. Agree(0)
  BY <1>1, FS_EmptySet
<1>3. ASSUME NEW n \in Nat, Agree(n) PROVE Agree(n + 1)
  <2> SUFFICES ASSUME NEW s \in SUBSET V, Cardinality(s) = n + 1 PROVE i[s] = j[s]
    OBVIOUS
  <2>1. s # {}
    BY FS_EmptySet
  <2>2. Picked(s) \in s
    BY <2>1, PickedIs
  <2>3. Cardinality(s \ {Picked(s)}) = Cardinality(s) - 1
    BY <1>1, <2>2, OneLess
  <2>4. Cardinality(s \ {Picked(s)}) = n
    BY <2>3
  <2>5. i[s \ {Picked(s)}] = j[s \ {Picked(s)}]
    BY <1>3, <2>4
  <2>6. f[Picked(s)] = g[Picked(s)]
    BY <2>2 DEF Alike
  <2> QED  BY <1>1, <2>1, <2>5, <2>6
<1> HIDE DEF Agree
<1>4. 0 \in T /\ \A n \in Nat : n \in T => n + 1 \in T
  BY <1>2, <1>3
<1> HIDE DEF T
<1>5. Nat \subseteq T
  BY <1>4, SetInduction
<1>6. Cardinality(V) \in Nat
  BY FS_CardinalityType DEF Alike
<1>7. Agree(Cardinality(V))
  BY <1>5, <1>6 DEF T
<1> QED  BY <1>7 DEF Agree

\* A sum is a number, nothing sums to nothing, and any element can be set apart.
LEMMA SumPicked ==
    ASSUME NEW f, NEW S, Summands(f, S)
    PROVE  /\ SumFunctionOnSet(f, S) \in Int
           /\ S = {} => SumFunctionOnSet(f, S) = 0
           /\ S # {} => SumFunctionOnSet(f, S)
                            = f[Picked(S)] + SumFunctionOnSet(f, S \ {Picked(S)})
<1> DEFINE i == CHOOSE iter : Summing(f, S, iter)
<1>1. PICK it : it \in [SUBSET S -> Int] /\ Summing(f, S, it)
  BY SummingExists
<1>2. Summing(f, S, i)
  BY <1>1
<1>3. SumFunctionOnSet(f, S) = i[S]
  BY SumIs
<1> HIDE DEF i
<1>4. IsFiniteSet(S)
  BY DEF Summands
<1>5. i[S] = it[S]
  <2>1. Alike(f, S, i, f, S, it, S)
    BY <1>1, <1>2, <1>4 DEF Alike
  <2> QED  BY <2>1, SummingSame
<1>6. S \in SUBSET S /\ i[S] = (IF S = {} THEN 0 ELSE f[Picked(S)] + i[S \ {Picked(S)}])
  BY <1>2 DEF Summing
<1>7. ASSUME S # {} PROVE i[S \ {Picked(S)}] = SumFunctionOnSet(f, S \ {Picked(S)})
  <2> DEFINE R == S \ {Picked(S)}
             j == CHOOSE iter : Summing(f, R, iter)
  <2>1. IsFiniteSet(R) /\ R \subseteq S
    BY <1>4, FS_Subset
  <2>2. Summands(f, R)
    BY <2>1 DEF Summands
  <2> HIDE DEF R
  <2>3. \E iter : Summing(f, R, iter)
    BY <2>2, SummingExists
  <2>4. Summing(f, R, j)
    BY <2>3
  <2>5. SumFunctionOnSet(f, R) = j[R]
    BY SumIs
  <2> HIDE DEF j
  <2>6. i[R] = j[R]
    <3>1. Alike(f, S, i, f, R, j, R)
      BY <1>2, <2>1, <2>4 DEF Alike
    <3> QED  BY <3>1, SummingSame
  <2> QED  BY <2>5, <2>6 DEF R
<1> QED  BY <1>1, <1>3, <1>5, <1>6, <1>7

\* Sums of the same values are the same.
LEMMA SumSame ==
    ASSUME NEW f, NEW g, NEW S, Summands(f, S), \A x \in S : f[x] = g[x]
    PROVE  SumFunctionOnSet(f, S) = SumFunctionOnSet(g, S)
<1> DEFINE i == CHOOSE iter : Summing(f, S, iter)
           j == CHOOSE iter : Summing(g, S, iter)
<1>1. IsFiniteSet(S) /\ Summands(g, S)
  BY DEF Summands
<1>2. Summing(f, S, i) /\ Summing(g, S, j)
  BY <1>1, SummingExists
<1>3. SumFunctionOnSet(f, S) = i[S] /\ SumFunctionOnSet(g, S) = j[S]
  BY SumIs
<1> HIDE DEF i, j
<1>4. Alike(f, S, i, g, S, j, S)
  BY <1>1, <1>2 DEF Alike
<1>5. i[S] = j[S]
  BY <1>4, SummingSame
<1> QED  BY <1>3, <1>5

\* Any element can be summed first.
LEMMA SumSplit ==
    ASSUME NEW f, NEW S, Summands(f, S), NEW x \in S
    PROVE  SumFunctionOnSet(f, S) = f[x] + SumFunctionOnSet(f, S \ {x})
<1> DEFINE Total(s) == SumFunctionOnSet(f, s)
           Splits(n) == \A s \in SUBSET S : Cardinality(s) = n =>
                            \A y \in s : Total(s) = f[y] + Total(s \ {y})
           T == {n \in Nat : Splits(n)}
<1>1. ASSUME NEW s \in SUBSET S
      PROVE  /\ IsFiniteSet(s) /\ Cardinality(s) \in Nat
             /\ Total(s) \in Int
             /\ s # {} => Total(s) = f[Picked(s)] + Total(s \ {Picked(s)})
  <2>1. IsFiniteSet(s)
    BY FS_Subset DEF Summands
  <2>2. Cardinality(s) \in Nat /\ Summands(f, s)
    BY <2>1, FS_CardinalityType DEF Summands
  <2> QED  BY <2>1, <2>2, SumPicked
<1>2. \A y \in S : f[y] \in Int
  BY DEF Summands
<1> HIDE DEF Total
<1>3. Splits(0)
  BY <1>1, FS_EmptySet
<1>4. ASSUME NEW n \in Nat, Splits(n) PROVE Splits(n + 1)
  <2> SUFFICES ASSUME NEW s \in SUBSET S, Cardinality(s) = n + 1, NEW y \in s
               PROVE  Total(s) = f[y] + Total(s \ {y})
    OBVIOUS
  <2>1. PICK z : z = Picked(s)
    OBVIOUS
  <2>2. z \in s
    BY <2>1, PickedIs
  <2>3. Total(s) = f[z] + Total(s \ {z})
    BY <1>1, <2>1, <2>2
  <2>4. CASE y = z
    BY <2>3, <2>4
  <2>5. CASE y # z
    <3>1. Cardinality(s \ {z}) = Cardinality(s) - 1 /\ Cardinality(s \ {y}) = Cardinality(s) - 1
      BY <1>1, <2>2, OneLess
    <3>2. Cardinality(s \ {z}) = n /\ Cardinality(s \ {y}) = n
      BY <3>1
    <3>3. /\ s \ {z} \in SUBSET S /\ y \in s \ {z}
          /\ s \ {y} \in SUBSET S /\ z \in s \ {y}
      BY <2>2, <2>5
    <3>4. /\ Total(s \ {z}) = f[y] + Total((s \ {z}) \ {y})
          /\ Total(s \ {y}) = f[z] + Total((s \ {y}) \ {z})
      BY <1>4, <3>2, <3>3
    <3>5. (s \ {z}) \ {y} = (s \ {y}) \ {z}
      OBVIOUS
    <3>6. PICK r : r = Total((s \ {y}) \ {z})
      OBVIOUS
    <3>7. r \in Int
      BY <1>1, <3>6
    <3>8. Total(s) = f[z] + (f[y] + r) /\ Total(s \ {y}) = f[z] + r
      BY <2>3, <3>4, <3>5, <3>6
    <3>9. f[y] \in Int /\ f[z] \in Int
      BY <1>2, <2>2
    <3> QED  BY <3>7, <3>8, <3>9
  <2> QED  BY <2>4, <2>5
<1> HIDE DEF Splits
<1>5. 0 \in T /\ \A n \in Nat : n \in T => n + 1 \in T
  BY <1>3, <1>4
<1> HIDE DEF T
<1>6. Nat \subseteq T
  BY <1>5, SetInduction
<1>7. Cardinality(S) \in Nat
  BY <1>1
<1>8. Splits(Cardinality(S))
  BY <1>6, <1>7 DEF T
<1> QED  BY <1>8 DEF Splits, Total

\* Changing one value changes the sum by as much.
LEMMA SumChange ==
    ASSUME NEW f, NEW g, NEW S, Summands(f, S), Summands(g, S),
           NEW x \in S, \A y \in S \ {x} : f[y] = g[y]
    PROVE  SumFunctionOnSet(g, S) - SumFunctionOnSet(f, S) = g[x] - f[x]
<1> DEFINE R == S \ {x}
<1>1. Summands(f, R) /\ Summands(g, R) /\ \A y \in R : f[y] = g[y]
  BY FS_Subset DEF Summands
<1> HIDE DEF R
<1>2. PICK r : r = SumFunctionOnSet(f, R)
  OBVIOUS
<1>3. r \in Int
  BY <1>1, <1>2, SumPicked
<1>6. SumFunctionOnSet(g, R) = r
  BY <1>1, <1>2, SumSame
<1>4. SumFunctionOnSet(f, S) = f[x] + r /\ SumFunctionOnSet(g, S) = g[x] + r
  BY <1>2, <1>6, SumSplit DEF R
<1>5. f[x] \in Int /\ g[x] \in Int
  BY DEF Summands
<1> QED  BY <1>3, <1>4, <1>5

\* Values that are not negative do not sum to less than any one of them.
LEMMA SumAtLeast ==
    ASSUME NEW f, NEW S, Summands(f, S), \A x \in S : f[x] >= 0
    PROVE  SumFunctionOnSet(f, S) >= 0 /\ \A x \in S : SumFunctionOnSet(f, S) >= f[x]
<1> DEFINE Total(s) == SumFunctionOnSet(f, s)
           Positive(n) == \A s \in SUBSET S : Cardinality(s) = n => Total(s) >= 0
           T == {n \in Nat : Positive(n)}
<1>1. ASSUME NEW s \in SUBSET S
      PROVE  /\ IsFiniteSet(s) /\ Cardinality(s) \in Nat
             /\ Total(s) \in Int
             /\ s = {} => Total(s) = 0
             /\ \A x \in s : Total(s) = f[x] + Total(s \ {x})
  <2>1. IsFiniteSet(s)
    BY FS_Subset DEF Summands
  <2>2. Cardinality(s) \in Nat /\ Summands(f, s)
    BY <2>1, FS_CardinalityType DEF Summands
  <2>3. \A x \in s : Total(s) = f[x] + Total(s \ {x})
    BY <2>2, SumSplit
  <2> QED  BY <2>1, <2>2, <2>3, SumPicked
<1>2. \A x \in S : f[x] \in Int
  BY DEF Summands
<1> HIDE DEF Total
<1>3. Positive(0)
  BY <1>1, FS_EmptySet
<1>4. ASSUME NEW n \in Nat, Positive(n) PROVE Positive(n + 1)
  <2> SUFFICES ASSUME NEW s \in SUBSET S, Cardinality(s) = n + 1 PROVE Total(s) >= 0
    OBVIOUS
  <2>1. s # {}
    BY FS_EmptySet
  <2>2. PICK x \in s : TRUE
    BY <2>1
  <2>3. Cardinality(s \ {x}) = Cardinality(s) - 1
    BY <1>1, <2>2, OneLess
  <2>4. Cardinality(s \ {x}) = n /\ s \ {x} \in SUBSET S
    BY <2>3
  <2>5. Total(s \ {x}) >= 0 /\ Total(s \ {x}) \in Int
    BY <1>1, <1>4, <2>4
  <2>6. f[x] \in Int /\ f[x] >= 0 /\ Total(s) = f[x] + Total(s \ {x})
    BY <1>1, <1>2, <2>2
  <2> QED  BY <2>5, <2>6
<1> HIDE DEF Positive
<1>5. 0 \in T /\ \A n \in Nat : n \in T => n + 1 \in T
  BY <1>3, <1>4
<1> HIDE DEF T
<1>6. Nat \subseteq T
  BY <1>5, SetInduction
<1>7. ASSUME NEW s \in SUBSET S PROVE Total(s) >= 0
  <2>1. Cardinality(s) \in T
    BY <1>1, <1>6
  <2> QED  BY <2>1 DEF T, Positive
<1>8. ASSUME NEW x \in S PROVE Total(S) >= f[x]
  <2>1. Total(S \ {x}) >= 0 /\ Total(S \ {x}) \in Int
    BY <1>1, <1>7
  <2>2. Total(S) = f[x] + Total(S \ {x}) /\ f[x] \in Int
    BY <1>1, <1>2
  <2> QED  BY <2>1, <2>2
<1> QED  BY <1>7, <1>8 DEF Total

\* The sum of one number for each element.
LEMMA SumAlike ==
    ASSUME NEW f, NEW S, IsFiniteSet(S), NEW c \in Int, \A x \in S : f[x] = c
    PROVE  SumFunctionOnSet(f, S) = Cardinality(S) * c
<1> DEFINE Total(s) == SumFunctionOnSet(f, s)
           Times(n) == \A s \in SUBSET S : Cardinality(s) = n => Total(s) = n * c
           T == {n \in Nat : Times(n)}
<1>1. ASSUME NEW s \in SUBSET S
      PROVE  /\ IsFiniteSet(s) /\ Cardinality(s) \in Nat
             /\ s = {} => Total(s) = 0
             /\ \A x \in s : Total(s) = c + Total(s \ {x})
  <2>1. IsFiniteSet(s)
    BY FS_Subset
  <2>2. Cardinality(s) \in Nat /\ Summands(f, s)
    BY <2>1, FS_CardinalityType DEF Summands
  <2>3. \A x \in s : Total(s) = c + Total(s \ {x})
    BY <2>2, SumSplit
  <2>4. s = {} => Total(s) = 0
    BY <2>2, SumPicked
  <2> QED  BY <2>1, <2>2, <2>3, <2>4
<1> HIDE DEF Total
<1>3. Times(0)
  BY <1>1, FS_EmptySet
<1>4. ASSUME NEW n \in Nat, Times(n) PROVE Times(n + 1)
  <2> SUFFICES ASSUME NEW s \in SUBSET S, Cardinality(s) = n + 1 PROVE Total(s) = (n + 1) * c
    OBVIOUS
  <2>1. s # {}
    BY FS_EmptySet
  <2>2. PICK x \in s : TRUE
    BY <2>1
  <2>3. Cardinality(s \ {x}) = Cardinality(s) - 1
    BY <1>1, <2>2, OneLess
  <2>4. Cardinality(s \ {x}) = n /\ s \ {x} \in SUBSET S
    BY <2>3
  <2>5. Total(s \ {x}) = n * c
    BY <1>4, <2>4
  <2>6. Total(s) = c + Total(s \ {x})
    BY <1>1, <2>2
  <2>7. (n + 1) * c = c + n * c
    OBVIOUS
  <2> QED  BY <2>5, <2>6, <2>7
<1> HIDE DEF Times
<1>5. 0 \in T /\ \A n \in Nat : n \in T => n + 1 \in T
  BY <1>3, <1>4
<1> HIDE DEF T
<1>6. Nat \subseteq T
  BY <1>5, SetInduction
<1>7. Cardinality(S) \in T
  BY <1>1, <1>6
<1> QED  BY <1>7 DEF T, Times, Total


\* The sum of a function's values, and of those of the same function with one value more.
LEMMA SumMore ==
    ASSUME NEW D, IsFiniteSet(D), NEW f \in [D -> Int], NEW x, x \notin D,
           NEW g \in [D \cup {x} -> Int], \A y \in D : g[y] = f[y]
    PROVE  SumFunction(g) = SumFunction(f) + g[x]
<1>1. IsFiniteSet(D \cup {x})
  BY FS_AddElement
<1>2. Summands(f, D) /\ Summands(g, D \cup {x})
  BY <1>1 DEF Summands
<1>3. SumFunctionOnSet(g, D \cup {x}) = g[x] + SumFunctionOnSet(g, (D \cup {x}) \ {x})
  BY <1>2, SumSplit
<1>4. (D \cup {x}) \ {x} = D
  OBVIOUS
<1>5. SumFunctionOnSet(f, D) = SumFunctionOnSet(g, D)
  BY <1>2, SumSame
<1>6. SumFunction(f) = SumFunctionOnSet(f, D) /\ SumFunction(g) = SumFunctionOnSet(g, D \cup {x})
  BY DEF SumFunction
<1>7. SumFunctionOnSet(f, D) \in Int
  BY <1>2, SumPicked
<1>8. g[x] \in Int
  OBVIOUS
<1>9. PICK t \in Int : t = SumFunctionOnSet(f, D)
  BY <1>7
<1>10. SumFunctionOnSet(g, (D \cup {x}) \ {x}) = t
  BY <1>4, <1>5, <1>9
<1>11. SumFunctionOnSet(g, D \cup {x}) = g[x] + t
  BY <1>3, <1>10
<1>12. SumFunction(f) = t /\ SumFunction(g) = g[x] + t
  BY <1>6, <1>9, <1>11
<1>13. g[x] + t = t + g[x]
  BY <1>8, <1>9
<1> QED  BY <1>12, <1>13

\* The sum when one value is changed.
LEMMA SumUpdate ==
    ASSUME NEW D, IsFiniteSet(D), NEW f \in [D -> Int], NEW x \in D,
           NEW g \in [D -> Int], \A y \in D \ {x} : g[y] = f[y]
    PROVE  SumFunction(g) = SumFunction(f) + g[x] - f[x]
<1>1. Summands(f, D) /\ Summands(g, D)
  BY DEF Summands
<1>2. SumFunction(f) = SumFunctionOnSet(f, D) /\ SumFunction(g) = SumFunctionOnSet(g, D)
  BY DEF SumFunction
<1>3. SumFunctionOnSet(g, D) - SumFunctionOnSet(f, D) = g[x] - f[x]
  BY <1>1, SumChange
<1>4. SumFunctionOnSet(f, D) \in Int /\ SumFunctionOnSet(g, D) \in Int
  BY <1>1, SumPicked
<1> QED  BY <1>2, <1>3, <1>4

\* Sums of a function are numbers, and of nothing 0.
LEMMA SumType ==
    ASSUME NEW D, IsFiniteSet(D), NEW f \in [D -> Int]
    PROVE  SumFunction(f) \in Int /\ (D = {} => SumFunction(f) = 0)
<1>1. Summands(f, D) /\ SumFunction(f) = SumFunctionOnSet(f, D)
  BY DEF Summands, SumFunction
<1> QED  BY <1>1, SumPicked
=============================================================================
