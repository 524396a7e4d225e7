-------------------------- MODULE MachineryProofs ---------------------------
(***************************************************************************)
(* Proofs about CLCache, a doubly linked list through array indices, for   *)
(* any size of the cache, and about the heap of delayed commands.          *)
(***************************************************************************)
EXTENDS MCMachinery, ListLemmas

(***************************************************************************)
(* The links of a pool in which prev and next are each other's inverse.    *)
(***************************************************************************)
Mutual(L) == \A i \in Node : L.next[L.prev[i]] = i /\ L.prev[L.next[i]] = i

\* The nodes are the sentinel and the slots.
LEMMA NodeTypes == 0 \in Node /\ Slot = Node \ {0}
  BY CacheAssumption DEF Node, Slot

(***************************************************************************)
(* Detaching a node leaves a ring of the others.                           *)
(***************************************************************************)
LEMMA DetachLinks ==
    ASSUME NEW L \in Links, Mutual(L), NEW i \in Slot
    PROVE  /\ Detach(L, i) \in Links
           /\ \A j \in Node : Detach(L, i).next[j] = IF j = L.prev[i] THEN L.next[i] ELSE L.next[j]
           /\ \A j \in Node : Detach(L, i).prev[j] = IF j = L.next[i] THEN L.prev[i] ELSE L.prev[j]
           /\ \A j \in Node \ {i} :
                 /\ Detach(L, i).next[j] \in Node \ {i} /\ Detach(L, i).prev[j] \in Node \ {i}
                 /\ Detach(L, i).next[Detach(L, i).prev[j]] = j
                 /\ Detach(L, i).prev[Detach(L, i).next[j]] = j
<1> DEFINE D == Detach(L, i)
<1>1. i \in Node /\ L.prev \in [Node -> Node] /\ L.next \in [Node -> Node]
  BY NodeTypes DEF Links
<1>2. D.next = [L.next EXCEPT ![L.prev[i]] = L.next[i]]
  BY <1>1 DEF Detach, Links
<1>3. D.prev = [L.prev EXCEPT ![L.next[i]] = L.prev[i]]
  BY <1>1 DEF Detach, Links
<1>4. D \in Links
  <2>1. D = [prev |-> D.prev, next |-> D.next]
    BY <1>1 DEF Detach, Links
  <2>2. D.prev \in [Node -> Node] /\ D.next \in [Node -> Node]
    BY <1>1, <1>2, <1>3
  <2> QED  BY <2>1, <2>2 DEF Links
<1> HIDE DEF D
<1>5. ASSUME NEW j \in Node
      PROVE  /\ D.next[j] = IF j = L.prev[i] THEN L.next[i] ELSE L.next[j]
             /\ D.prev[j] = IF j = L.next[i] THEN L.prev[i] ELSE L.prev[j]
  BY <1>1, <1>2, <1>3
<1>6. ASSUME NEW j \in Node \ {i}
      PROVE  /\ D.next[j] \in Node \ {i} /\ D.prev[j] \in Node \ {i}
             /\ D.next[D.prev[j]] = j /\ D.prev[D.next[j]] = j
  BY <1>1, <1>5 DEF Mutual
<1> QED  BY <1>4, <1>5, <1>6 DEF D

(***************************************************************************)
(* Moving a node to the front keeps prev and next inverse, and the ring is *)
(* never empty afterwards.                                                 *)
(***************************************************************************)
LEMMA ToFrontLinks ==
    ASSUME NEW L \in Links, Mutual(L), NEW i \in Slot
    PROVE  /\ ToFront(L, i) \in Links
           /\ Mutual(ToFront(L, i))
           /\ ToFront(L, i).prev[0] # 0
           /\ ToFront(L, i).next[0] = i
<1> DEFINE D == Detach(L, i)
           R == InsertAfter(D, 0, i)
<1>1. i \in Node /\ 0 \in Node /\ i # 0
  BY NodeTypes
<1>2. /\ D \in Links
      /\ \A j \in Node \ {i} :
            /\ D.next[j] \in Node \ {i} /\ D.prev[j] \in Node \ {i}
            /\ D.next[D.prev[j]] = j /\ D.prev[D.next[j]] = j
  BY DetachLinks
<1> HIDE DEF D
<1>3. D.prev \in [Node -> Node] /\ D.next \in [Node -> Node]
  BY <1>2 DEF Links
<1>4. R.prev = [D.prev EXCEPT ![i] = 0, ![D.next[0]] = i]
  BY <1>1, <1>2 DEF InsertAfter, Links
<1>5. R.next = [D.next EXCEPT ![i] = D.next[0], ![0] = i]
  BY <1>1, <1>2 DEF InsertAfter, Links
<1>6. R = [prev |-> R.prev, next |-> R.next]
  BY <1>1, <1>2 DEF InsertAfter, Links
<1> HIDE DEF R
<1>7. R.prev \in [Node -> Node] /\ R.next \in [Node -> Node]
  BY <1>1, <1>3, <1>4, <1>5
<1>8. R \in Links
  BY <1>6, <1>7 DEF Links
<1>9. ASSUME NEW j \in Node
      PROVE  /\ R.next[j] = IF j = 0 THEN i ELSE IF j = i THEN D.next[0] ELSE D.next[j]
             /\ R.prev[j] = IF j = D.next[0] THEN i ELSE IF j = i THEN 0 ELSE D.prev[j]
  BY <1>1, <1>3, <1>4, <1>5
<1>10. ASSUME NEW j \in Node PROVE R.next[R.prev[j]] = j /\ R.prev[R.next[j]] = j
  <2>1. CASE j = i
    BY <2>1, <1>1, <1>2, <1>3, <1>9
  <2>2. CASE j = 0
    <3>1. R.next[0] = i /\ R.prev[i] = 0
      BY <1>1, <1>2, <1>9
    <3>2. D.prev[0] \in Node \ {i} /\ D.next[D.prev[0]] = 0
      BY <1>1, <1>2
    <3>3. D.prev[0] = 0 => D.next[0] = 0
      BY <3>2
    <3>4. R.next[R.prev[0]] = 0
      BY <1>1, <1>9, <3>2, <3>3
    <3> QED  BY <2>2, <3>1, <3>4
  <2>3. CASE j # i /\ j # 0
    BY <2>3, <1>1, <1>2, <1>3, <1>9
  <2> QED  BY <2>1, <2>2, <2>3
<1>11. R.prev[0] # 0 /\ R.next[0] = i
  BY <1>1, <1>2, <1>9
<1>12. Mutual(R)
  BY <1>10 DEF Mutual
<1> QED  BY <1>8, <1>11, <1>12 DEF ToFront, R, D

-----------------------------------------------------------------------------
(***************************************************************************)
(* The nodes in the order of the ring, from the sentinel.                  *)
(***************************************************************************)
After(n) == IF n = CacheSize THEN 0 ELSE n + 1

Orders == {o \in [Node -> Node] :
              /\ o[0] = 0
              /\ \A m, n \in Node : o[m] = o[n] => m = n
              /\ \A i \in Node : \E n \in Node : o[n] = i}

RingOf(L) == {o \in Orders : \A n \in Node : L.next[o[n]] = o[After(n)]}

LEMMA AfterType == \A n \in Node : After(n) \in Node
  BY CacheAssumption DEF After, Node

\* Walking the ring visits its nodes in this order.
LEMMA WalkIsOrder ==
    ASSUME NEW L, NEW o \in RingOf(L)
    PROVE  Walk(L) = o
<1> DEFINE Left(f) == f = [n \in Node |-> IF n = 0 THEN 0 ELSE L.next[f[n - 1]]]
<1>1. o \in [Node -> Node] /\ o[0] = 0 /\ \A n \in Node : L.next[o[n]] = o[After(n)]
  BY DEF RingOf, Orders
<1>2. Left(o)
  <2>1. ASSUME NEW n \in Node, n # 0 PROVE o[n] = L.next[o[n - 1]]
    <3>1. n - 1 \in Node /\ After(n - 1) = n
      BY <2>1, CacheAssumption DEF Node, After
    <3> QED  BY <1>1, <3>1
  <2> QED  BY <1>1, <2>1
<1>3. PICK walk : Left(walk) /\ Walk(L) = walk
  <2>1. Walk(L) = CHOOSE walk : Left(walk)
    BY DEF Walk
  <2> HIDE DEF Left
  <2>2. Left(CHOOSE walk : Left(walk))
    BY <1>2, Zenon
  <2> QED  BY <2>1, <2>2, Zenon
<1> DEFINE T == {n \in Nat : n \in Node => walk[n] = o[n]}
<1>4. 0 \in T
  BY <1>1, <1>3
<1>5. ASSUME NEW k \in Nat, k \in T PROVE k + 1 \in T
  <2> SUFFICES ASSUME k + 1 \in Node PROVE walk[k + 1] = o[k + 1]
    OBVIOUS
  <2>1. k \in Node /\ k + 1 # 0 /\ (k + 1) - 1 = k
    BY CacheAssumption DEF Node
  <2>2. walk[k + 1] = L.next[walk[k]] /\ o[k + 1] = L.next[o[k]]
    BY <1>2, <1>3, <2>1
  <2> QED  BY <1>5, <2>1, <2>2
<1>6. Nat \subseteq T
  <2> HIDE DEF T
  <2> QED  BY <1>4, <1>5, SetInduction
<1>7. \A n \in Node : walk[n] = o[n]
  BY <1>6 DEF Node
<1> QED  BY <1>1, <1>3, <1>7

\* The order after the node at place n has gone to the front.
Fronted(o, n) == [m \in Node |-> IF m = 0 THEN 0 ELSE IF m = 1 THEN o[n]
                                 ELSE IF m <= n THEN o[m - 1] ELSE o[m]]

LEMMA FrontedOrder ==
    ASSUME NEW o \in Orders, NEW n \in Slot
    PROVE  Fronted(o, n) \in Orders
<1> DEFINE p == Fronted(o, n)
<1>1. o \in [Node -> Node] /\ o[0] = 0 /\ n \in Node /\ n # 0
      /\ (\A k, m \in Node : o[k] = o[m] => k = m) /\ (\A i \in Node : \E m \in Node : o[m] = i)
  BY NodeTypes DEF Orders
<1>2. PICK f \in [Node -> Node] :
         f = [m \in Node |-> IF m = 0 THEN 0 ELSE IF m = 1 THEN n ELSE IF m <= n THEN m - 1 ELSE m]
  <2>1. \A m \in Node : (IF m = 0 THEN 0 ELSE IF m = 1 THEN n ELSE IF m <= n THEN m - 1 ELSE m) \in Node
    BY <1>1, CacheAssumption DEF Node
  <2> QED  BY <2>1
<1>3. \A m \in Node : p[m] = o[f[m]]
  BY <1>1, <1>2 DEF Fronted
<1>4. p \in [Node -> Node] /\ p[0] = 0
  <2>1. p = [m \in Node |-> p[m]]
    BY DEF Fronted
  <2>2. \A m \in Node : p[m] \in Node
    BY <1>1, <1>2, <1>3
  <2>3. p[0] = 0
    BY <1>1, NodeTypes DEF Fronted
  <2> HIDE DEF p
  <2> QED  BY <2>1, <2>2, <2>3
<1>5. ASSUME NEW k \in Node, NEW m \in Node, f[k] = f[m] PROVE k = m
  <2>1. k \in Nat /\ m \in Nat /\ n \in Nat /\ n # 0
    BY <1>1, CacheAssumption DEF Node
  <2>2. PICK v \in Int :
           /\ v = f[k]
           /\ v = (IF k = 0 THEN 0 ELSE IF k = 1 THEN n ELSE IF k <= n THEN k - 1 ELSE k)
           /\ v = (IF m = 0 THEN 0 ELSE IF m = 1 THEN n ELSE IF m <= n THEN m - 1 ELSE m)
    BY <1>2, <1>5, <2>1
  <2> QED  BY <2>1, <2>2
<1>6. ASSUME NEW j \in Node PROVE \E m \in Node : f[m] = j
  <2> DEFINE m == IF j = 0 THEN 0 ELSE IF j = n THEN 1 ELSE IF j < n THEN j + 1 ELSE j
  <2>1. j \in Nat /\ n \in Nat /\ n # 0 /\ j <= CacheSize /\ n <= CacheSize
    BY <1>1, CacheAssumption DEF Node
  <2>2. m \in Node
    BY <2>1, CacheAssumption DEF Node
  <2>3. j = IF m = 0 THEN 0 ELSE IF m = 1 THEN n ELSE IF m <= n THEN m - 1 ELSE m
    BY <2>1
  <2>4. f[m] = IF m = 0 THEN 0 ELSE IF m = 1 THEN n ELSE IF m <= n THEN m - 1 ELSE m
    BY <1>2, <2>2
  <2> QED  BY <2>2, <2>3, <2>4
<1> HIDE DEF p
<1>7. \A k, m \in Node : p[k] = p[m] => k = m
  BY <1>1, <1>2, <1>3, <1>5
<1>8. ASSUME NEW i \in Node PROVE \E m \in Node : p[m] = i
  <2>1. PICK j \in Node : o[j] = i
    BY <1>1
  <2>2. PICK m \in Node : f[m] = j
    BY <1>6
  <2> QED  BY <1>3, <2>1, <2>2
<1>9. p \in Orders
  BY <1>4, <1>7, <1>8 DEF Orders
<1> QED  BY <1>9 DEF p

(***************************************************************************)
(* Moving a node to the front keeps all nodes in one ring, and the order   *)
(* of the others.                                                          *)
(***************************************************************************)
LEMMA ToFrontRing ==
    ASSUME NEW L \in Links, Mutual(L), NEW o \in RingOf(L), NEW n \in Slot
    PROVE  Fronted(o, n) \in RingOf(ToFront(L, o[n]))
<1> DEFINE p == Fronted(o, n)
           R == ToFront(L, o[n])
           i == o[n]
<1>1. o \in Orders /\ (\A m \in Node : L.next[o[m]] = o[After(m)]) /\ o \in [Node -> Node] /\ o[0] = 0
      /\ (\A k, m \in Node : o[k] = o[m] => k = m)
  BY DEF RingOf, Orders
<1>2. n \in Node /\ n # 0 /\ n - 1 \in Node /\ After(n - 1) = n
  BY CacheAssumption, NodeTypes DEF Node, Slot, After
<1>3. i \in Slot
  BY <1>1, <1>2, NodeTypes
<1>4. L.prev[i] = o[n - 1]
  BY <1>1, <1>2 DEF Mutual
<1>5. L.next[i] = o[After(n)] /\ L.next[0] = o[1]
  <2>1. After(0) = 1
    BY CacheAssumption DEF After
  <2> QED  BY <1>1, <1>2, <2>1, NodeTypes
<1>6. \A j \in Node : R.next[j] = IF j = 0 THEN i
                                 ELSE IF j = i THEN (IF n = 1 THEN o[After(n)] ELSE o[1])
                                 ELSE IF j = o[n - 1] THEN o[After(n)] ELSE L.next[j]
  <2> DEFINE D == Detach(L, i)
  <2>1. \A j \in Node : D.next[j] = IF j = o[n - 1] THEN o[After(n)] ELSE L.next[j]
    BY <1>3, <1>4, <1>5, DetachLinks
  <2>2. D \in Links
    BY <1>3, DetachLinks
  <2> HIDE DEF D
  <2>3. D.next \in [Node -> Node] /\ 0 \in Node /\ i \in Node /\ i # 0
    BY <2>2, <1>3, NodeTypes DEF Links
  <2>4. D.next[0] = IF n = 1 THEN o[After(n)] ELSE o[1]
    <3>1. 0 = o[n - 1] <=> n = 1
      BY <1>1, <1>2, NodeTypes DEF Node
    <3> QED  BY <1>5, <2>1, <2>3, <3>1
  <2>5. R.next = [D.next EXCEPT ![i] = D.next[0], ![0] = i]
    BY <2>3 DEF ToFront, InsertAfter, D
  <2> HIDE DEF R, i
  <2> QED  BY <2>1, <2>3, <2>4, <2>5
<1>7. p \in Orders
  BY <1>1, FrontedOrder
<1>8. \A m \in Node : p[m] = IF m = 0 THEN 0 ELSE IF m = 1 THEN i
                             ELSE IF m <= n THEN o[m - 1] ELSE o[m]
  BY DEF Fronted
<1> HIDE DEF p, R, i
<1>9. ASSUME NEW m \in Node PROVE R.next[p[m]] = p[After(m)]
  <2>1. CASE m = 0
    <3>1. After(m) = 1 /\ 1 \in Node
      BY <2>1, CacheAssumption DEF After, Node
    <3> QED  BY <1>6, <1>8, <2>1, <3>1
  <2>2. CASE m = 1
    <3>1. p[m] = i /\ i \in Node /\ i # 0
      BY <1>3, <1>8, <2>2, NodeTypes
    <3>2. R.next[i] = IF n = 1 THEN o[After(n)] ELSE o[1]
      BY <1>6, <3>1
    <3>3. CASE n = 1
      <4>1. After(m) \in Node /\ (After(m) = 0 \/ After(m) = 2)
        BY <2>2, CacheAssumption DEF After, Node
      <4>2. p[After(m)] = o[After(m)]
        BY <1>1, <1>8, <3>3, <4>1
      <4> QED  BY <2>2, <3>1, <3>2, <3>3, <4>2
    <3>4. CASE n # 1
      <4>1. After(m) = 2 /\ 2 \in Node /\ 2 <= n
        BY <1>2, <2>2, <3>4, CacheAssumption DEF After, Node
      <4>2. p[2] = o[1]
        BY <1>8, <4>1
      <4> QED  BY <3>1, <3>2, <3>4, <4>1, <4>2
    <3> QED  BY <3>3, <3>4
  <2>3. CASE m > 1 /\ m <= n
    <3>1. m \in Nat /\ n \in Nat /\ m - 1 \in Node /\ m - 1 # 0 /\ m - 1 # n /\ After(m - 1) = m
      BY <1>2, <2>3, CacheAssumption DEF After, Node
    <3>2. p[m] = o[m - 1] /\ o[m - 1] \in Node /\ o[m - 1] # 0 /\ o[m - 1] # i
      BY <1>1, <1>2, <1>8, <2>3, <3>1, NodeTypes DEF i
    <3>3. CASE m = n
      <4>1. R.next[p[m]] = o[After(n)]
        BY <1>6, <3>2, <3>3
      <4>2. After(n) \in Node /\ (After(n) = 0 \/ After(n) > n) /\ After(n) # 1
        BY <1>2, <2>3, <3>3, CacheAssumption DEF After, Node
      <4>3. p[After(n)] = o[After(n)]
        BY <1>1, <1>2, <1>8, <4>2 DEF Node
      <4> QED  BY <3>3, <4>1, <4>3
    <3>4. CASE m # n
      <4>1. o[m - 1] # o[n - 1]
        BY <1>1, <1>2, <3>1, <3>4
      <4>0. L.next[o[m - 1]] = o[m]
        BY <1>1, <3>1
      <4>2. R.next[p[m]] = o[m]
        BY <1>6, <3>2, <4>0, <4>1
      <4>3. After(m) = m + 1 /\ m + 1 \in Node /\ m + 1 <= n /\ (m + 1) - 1 = m /\ m + 1 # 0 /\ m + 1 # 1
        BY <1>2, <2>3, <3>4, CacheAssumption DEF After, Node
      <4>4. p[m + 1] = o[m]
        BY <1>8, <4>3
      <4> QED  BY <4>2, <4>3, <4>4
    <3> QED  BY <3>3, <3>4
  <2>4. CASE m > n
    <3>1. m # 0 /\ m # 1 /\ m # n /\ m # n - 1 /\ ~(m <= n)
      BY <1>2, <2>4 DEF Node
    <3>2. p[m] = o[m] /\ o[m] \in Node /\ o[m] # 0 /\ o[m] # i /\ o[m] # o[n - 1]
      BY <1>1, <1>2, <1>8, <3>1, NodeTypes DEF i
    <3>3. R.next[p[m]] = o[After(m)]
      BY <1>1, <1>6, <3>2
    <3>4. After(m) \in Node /\ (After(m) = 0 \/ (~(After(m) <= n) /\ After(m) # 1))
      BY <1>2, <2>4, CacheAssumption DEF After, Node
    <3>5. p[After(m)] = o[After(m)]
      BY <1>1, <1>8, <3>4
    <3> QED  BY <3>3, <3>5
  <2> QED  BY <1>2, <2>1, <2>2, <2>3, <2>4 DEF Node
<1> QED  BY <1>7, <1>9 DEF RingOf, p, R, i
-----------------------------------------------------------------------------
(***************************************************************************)
(* The inductive invariant.  All nodes are on one ring, in an order in     *)
(* which the nodes that hold a chunk come first, and no two hold the same. *)
(***************************************************************************)
Filled(L, h) ==
    {o \in RingOf(L) : \A m, n \in Slot : m < n /\ h[o[n]] # NoKey => h[o[m]] # NoKey}

Alone(h) == \A i, j \in Slot : h[i] = h[j] /\ h[i] # NoKey => i = j

CacheInv ==
    /\ TypeOK
    /\ Mutual(links)
    /\ links.prev[0] # 0
    /\ \A i \in Slot : cm[i] = hash[i]
    /\ Alone(hash)
    /\ Filled(links, hash) # {}

\* What an order of the ring is.
LEMMA FilledType ==
    ASSUME NEW L, NEW h, NEW o \in Filled(L, h)
    PROVE  /\ o \in RingOf(L) /\ o \in Orders /\ o \in [Node -> Node] /\ o[0] = 0
           /\ \A m, n \in Node : o[m] = o[n] => m = n
           /\ \A n \in Slot : o[n] \in Slot
           /\ \A i \in Slot : \E n \in Slot : o[n] = i
           /\ \A m, n \in Slot : m < n /\ h[o[n]] # NoKey => h[o[m]] # NoKey
<1>1. /\ o \in RingOf(L) /\ o \in Orders /\ o \in [Node -> Node] /\ o[0] = 0
      /\ \A m, n \in Node : o[m] = o[n] => m = n
      /\ \A i \in Node : \E n \in Node : o[n] = i
      /\ \A m, n \in Slot : m < n /\ h[o[n]] # NoKey => h[o[m]] # NoKey
  BY DEF Filled, RingOf, Orders
<1> QED  BY <1>1, NodeTypes

\* The constructor closes the ring, in the order of the indices.
LEMMA CacheInit == Init => CacheInv
<1> SUFFICES ASSUME Init PROVE CacheInv
  OBVIOUS
<1>1. /\ \A i \in Node : links.prev[i] = IF i = 0 THEN CacheSize ELSE i - 1
      /\ \A i \in Node : links.next[i] = IF i = CacheSize THEN 0 ELSE i + 1
  BY DEF Init
<1>2. links \in Links
  BY CacheAssumption DEF Init, Links, Node
<1>3. Mutual(links) /\ links.prev[0] # 0
  BY <1>1, CacheAssumption DEF Mutual, Node
<1>4. \A i \in Node : hash[i] = NoKey
  BY DEF Init
<1>5. PICK o : o = [n \in Node |-> n]
  OBVIOUS
<1>6. o \in Orders
  BY <1>5, NodeTypes DEF Orders
<1>7. \A n \in Node : links.next[o[n]] = o[After(n)]
  BY <1>1, <1>5, AfterType DEF After
<1>8. \A n \in Slot : hash[o[n]] = NoKey
  BY <1>4, <1>5, NodeTypes
<1>9. o \in Filled(links, hash)
  BY <1>6, <1>7, <1>8 DEF Filled, RingOf
<1>10. Alone(hash)
  BY <1>4, NodeTypes DEF Alone
<1> QED  BY <1>2, <1>3, <1>9, <1>10, NodeTypes DEF Init, CacheInv, TypeOK

\* The search finds the node that holds the chunk asked for.
LEMMA Found ==
    ASSUME CacheInv, NEW o \in Filled(links, hash), NEW k \in Key, NEW n \in Slot
    PROVE  /\ Walk(links)[n] = o[n]
           /\ Match(k, n) <=> hash[o[n]] = k
<1>1. Walk(links) = o
  BY FilledType, WalkIsOrder
<1>2. /\ \A m \in Slot : o[m] \in Slot
      /\ \A l, m \in Slot : o[l] = o[m] => l = m
  BY FilledType, NodeTypes
<1>3. n \in 1 .. n /\ 1 .. n \subseteq Slot /\ 1 .. n - 1 \subseteq Slot /\ n \notin 1 .. n - 1
  BY CacheAssumption DEF Slot
<1>4. k # NoKey
  BY CacheAssumption
<1>5. ASSUME hash[o[n]] = k, NEW m \in 1 .. n - 1 PROVE hash[o[m]] # k
  <2>1. m \in Slot /\ m # n /\ o[m] # o[n]
    BY <1>2, <1>3
  <2> QED  BY <1>2, <1>4, <1>5, <2>1 DEF CacheInv, Alone
<1> QED  BY <1>1, <1>2, <1>3, <1>5 DEF Match

\* With nodes that hold a chunk first, moving such a node to the front keeps them first.
LEMMA FrontedFilled ==
    ASSUME NEW L \in Links, Mutual(L), NEW h, NEW o \in Filled(L, h), NEW n \in Slot,
           NEW g, \A i \in Slot : g[i] = h[i] \/ i = o[n], g[o[n]] # NoKey,
           h[o[n]] # NoKey \/ n = CacheSize
    PROVE  Fronted(o, n) \in Filled(ToFront(L, o[n]), g)
<1> DEFINE p == Fronted(o, n)
<1>1. /\ o \in RingOf(L)
      /\ \A m \in Slot : o[m] \in Slot
      /\ \A l, m \in Slot : l < m /\ h[o[m]] # NoKey => h[o[l]] # NoKey
      /\ \A l, m \in Slot : o[l] = o[m] => l = m
  BY FilledType, NodeTypes
<1>2. p \in RingOf(ToFront(L, o[n]))
  BY <1>1, ToFrontRing
<1>3. \A m \in Slot : p[m] = IF m = 1 THEN o[n] ELSE IF m <= n THEN o[m - 1] ELSE o[m]
  BY NodeTypes DEF Fronted
<1> HIDE DEF p
<1>4. ASSUME NEW l \in Slot, NEW m \in Slot, l < m, g[p[m]] # NoKey PROVE g[p[l]] # NoKey
  <2>1. l \in Nat /\ m \in Nat /\ n \in Nat /\ 1 <= l /\ l <= CacheSize /\ 1 <= m /\ m <= CacheSize
        /\ 1 <= n /\ n <= CacheSize
    BY CacheAssumption DEF Slot
  <2>2. CASE l = 1
    BY <1>3, <2>2
  <2>3. CASE l # 1
    <3>1. PICK b \in Slot : p[m] = o[b] /\ b # n /\ b = IF m <= n THEN m - 1 ELSE m
      <4>1. CASE m <= n
        <5>1. m # 1 /\ m - 1 \in Slot /\ m - 1 # n
          BY <1>4, <2>1, <4>1, CacheAssumption DEF Slot
        <5> QED  BY <1>3, <4>1, <5>1
      <4>2. CASE ~(m <= n)
        <5>1. m # 1 /\ m # n
          BY <1>4, <2>1, <4>2
        <5> QED  BY <1>3, <4>2, <5>1
      <4> QED  BY <4>1, <4>2
    <3>2. PICK a \in Slot : p[l] = o[a] /\ a # n /\ a = IF l <= n THEN l - 1 ELSE l
      <4>1. CASE l <= n
        <5>1. l - 1 \in Slot /\ l - 1 # n
          BY <2>1, <2>3, <4>1, CacheAssumption DEF Slot
        <5> QED  BY <1>3, <2>3, <4>1, <5>1
      <4>2. CASE ~(l <= n)
        <5>1. l # n
          BY <2>1, <4>2
        <5> QED  BY <1>3, <2>3, <4>2, <5>1
      <4> QED  BY <4>1, <4>2
    <3>3. a < b
      BY <1>4, <2>1, <3>1, <3>2
    <3>4. g[o[b]] = h[o[b]] /\ g[o[a]] = h[o[a]]
      BY <1>1, <3>1, <3>2
    <3>5. h[o[b]] # NoKey
      BY <1>4, <3>1, <3>4
    <3> QED  BY <1>1, <3>2, <3>3, <3>4, <3>5
  <2> QED  BY <2>2, <2>3
<1>5. p \in Filled(ToFront(L, o[n]), g)
  BY <1>2, <1>4 DEF Filled
<1> QED  BY <1>5 DEF p

\* The node before the sentinel is the last in the order.
LEMMA LastOfRing ==
    ASSUME NEW L \in Links, Mutual(L), NEW h, NEW o \in Filled(L, h)
    PROVE  CacheSize \in Slot /\ L.prev[0] = o[CacheSize]
<1>1. CacheSize \in Slot /\ CacheSize \in Node
  BY CacheAssumption DEF Node, Slot
<1>2. L.next[o[CacheSize]] = o[0] /\ o[0] = 0 /\ o[CacheSize] \in Node
  BY <1>1, FilledType DEF RingOf, After
<1> QED  BY <1>1, <1>2 DEF Mutual

\* Hits, misses and purges keep the ring and the hashes true.
LEMMA CacheNext == CacheInv /\ [Next]_cacheVars => CacheInv'
<1> SUFFICES ASSUME CacheInv, [Next]_cacheVars PROVE CacheInv'
  OBVIOUS
<1>1. TypeOK /\ Mutual(links) /\ links \in Links /\ Alone(hash) /\ links.prev[0] # 0
      /\ (\A i \in Slot : cm[i] = hash[i])
  BY DEF CacheInv, TypeOK
<1>2. PICK o \in Filled(links, hash) : TRUE
  BY DEF CacheInv
<1>3. /\ \A n \in Slot : o[n] \in Slot
      /\ \A i \in Slot : \E n \in Slot : o[n] = i
      /\ \A m, n \in Slot : m < n /\ hash[o[n]] # NoKey => hash[o[m]] # NoKey
      /\ \A m, n \in Slot : o[m] = o[n] => m = n
  BY FilledType, NodeTypes
<1>4. ASSUME NEW k \in Key, Hit(k) PROVE CacheInv'
  <2>1. PICK n \in Slot : /\ Match(k, n)
                         /\ links' = ToFront(links, Walk(links)[n])
                         /\ got' = Walk(links)[n]
    BY <1>4 DEF Hit
  <2>2. Walk(links)[n] = o[n] /\ hash[o[n]] = k /\ o[n] \in Slot /\ k # NoKey
    BY <1>3, <2>1, Found, CacheAssumption
  <2>3. links' \in Links /\ Mutual(links') /\ links'.prev[0] # 0
    BY <1>1, <2>1, <2>2, ToFrontLinks
  <2>4. UNCHANGED <<hash, cm>>
    BY <1>4 DEF Hit
  <2>5. Fronted(o, n) \in Filled(ToFront(links, o[n]), hash)
    BY <1>1, <2>2, FrontedFilled
  <2>6. Filled(links', hash') # {}
    BY <2>1, <2>2, <2>4, <2>5
  <2>7. Mutual(links)' /\ Filled(links, hash)' # {} /\ Alone(hash)'
    BY <1>1, <2>3, <2>4, <2>6 DEF Mutual, Alone, Filled
  <2> QED  BY <1>1, <2>1, <2>2, <2>3, <2>4, <2>7, NodeTypes DEF CacheInv, TypeOK
<1>5. ASSUME NEW k \in Key, Miss(k) PROVE CacheInv'
  <2>1. PICK tail \in Node : tail = links.prev[0]
    BY <1>1, NodeTypes DEF Links
  <2>2. /\ links' = ToFront(links, tail)
        /\ hash' = [hash EXCEPT ![tail] = k]
        /\ cm' = [cm EXCEPT ![tail] = k]
        /\ got' = tail
    BY <1>5, <2>1 DEF Miss
  <2>3. tail \in Slot /\ k # NoKey
    BY <1>1, <2>1, NodeTypes, CacheAssumption
  <2>4. links' \in Links /\ Mutual(links') /\ links'.prev[0] # 0
    BY <1>1, <2>2, <2>3, ToFrontLinks
  <2>5. hash' \in [Node -> Key \cup {NoKey}] /\ cm' \in [Slot -> Key \cup {NoKey}]
    BY <1>1, <2>2 DEF TypeOK
  <2>6. \A i \in Slot : cm'[i] = hash'[i] /\ (hash'[i] = IF i = tail THEN k ELSE hash[i])
    BY <1>1, <2>2, <2>3, NodeTypes DEF TypeOK
  <2>7. \A i \in Slot : hash[i] # k
    <3> SUFFICES ASSUME NEW i \in Slot, hash[i] = k PROVE FALSE
      OBVIOUS
    <3>1. PICK n \in Slot : o[n] = i
      BY <1>3
    <3>2. Match(k, n)
      BY <3>1, Found
    <3> QED  BY <1>5, <3>2 DEF Miss
  <2>8. Alone(hash')
    BY <1>1, <2>6, <2>7 DEF Alone
  <2>9. tail = o[CacheSize] /\ CacheSize \in Slot
    BY <1>1, <2>1, <1>2, LastOfRing
  <2>10. Fronted(o, CacheSize) \in Filled(ToFront(links, o[CacheSize]), hash')
    <3>1. PICK g : g = hash'
      OBVIOUS
    <3>2. (\A i \in Slot : g[i] = hash[i] \/ i = o[CacheSize]) /\ g[o[CacheSize]] # NoKey
      BY <2>3, <2>6, <2>9, <3>1
    <3>3. Fronted(o, CacheSize) \in Filled(ToFront(links, o[CacheSize]), g)
      BY <1>1, <2>9, <3>2, FrontedFilled
    <3> QED  BY <3>1, <3>3
  <2>11. Filled(links', hash') # {}
    BY <2>2, <2>9, <2>10
  <2>12. Mutual(links)' /\ Filled(links, hash)' # {} /\ Alone(hash)'
    BY <2>4, <2>8, <2>11 DEF Mutual, Alone, Filled
  <2> QED  BY <2>1, <2>2, <2>4, <2>5, <2>6, <2>12 DEF CacheInv, TypeOK
<1>6. CASE Purge
  <2>1. UNCHANGED links /\ got' \in Node
    BY <1>6, NodeTypes DEF Purge
  <2>2. hash' \in [Node -> Key \cup {NoKey}] /\ cm' \in [Slot -> Key \cup {NoKey}]
    BY <1>1, <1>6, NodeTypes DEF Purge, TypeOK
  <2>3. \A i \in Slot : cm'[i] = NoKey /\ hash'[i] = NoKey
    BY <1>6, NodeTypes DEF Purge
  <2>4. Alone(hash')
    BY <2>3 DEF Alone
  <2>5. o \in Filled(links', hash')
    BY <1>2, <1>3, <2>1, <2>3 DEF Filled
  <2>6. Mutual(links)' /\ Filled(links, hash)' # {} /\ Alone(hash)'
    BY <1>1, <2>1, <2>4, <2>5 DEF Mutual, Alone, Filled
  <2> QED  BY <1>1, <2>1, <2>2, <2>3, <2>6 DEF CacheInv, TypeOK
<1>7. CASE UNCHANGED cacheVars
  BY <1>7 DEF cacheVars, CacheInv, TypeOK, Mutual, Alone, Filled
<1> QED  BY <1>4, <1>5, <1>6, <1>7 DEF Next

\* The invariant holds of every behaviour of the cache.
LEMMA CacheInvariant == Spec => []CacheInv
<1> QED  BY CacheInit, CacheNext, PTL DEF Spec

\* The machine the runs check behaves as the cache, whichever part it plays.
LEMMA MachineryCache == MachinerySpec => Spec
<1>1. MachineryInit => Init
  BY DEF MachineryInit
<1>2. [MachineryNext]_<<part, cacheVars, launcher, scheduler>> => [Next]_cacheVars
  BY DEF MachineryNext, cacheVars
<1> QED  BY <1>1, <1>2, PTL DEF MachinerySpec, Spec

(***************************************************************************)
(* detach and insert_after (data.hpp:204-215) never write outside the      *)
(* pool, and whatever is asked for a node holds one of the keys or none.   *)
(***************************************************************************)
THEOREM CacheTypes == MachinerySpec => []TypeOK
<1>1. CacheInv => TypeOK
  BY DEF CacheInv
<1> QED  BY <1>1, CacheInvariant, MachineryCache, PTL

(***************************************************************************)
(* detach and insert_after keep prev and next each other's inverse.        *)
(***************************************************************************)
THEOREM LinksStayInverse == MachinerySpec => []LinksInverse
<1>1. CacheInv => LinksInverse
  BY DEF CacheInv, Mutual, LinksInverse
<1> QED  BY <1>1, CacheInvariant, MachineryCache, PTL

(***************************************************************************)
(* A node's manager always holds the chunk its hash names, after eviction  *)
(* and after purge, and no chunk is held by two nodes (data.hpp:216-243).  *)
(***************************************************************************)
THEOREM HashNamesContent == MachinerySpec => []HashTellsContent
<1>1. CacheInv => HashTellsContent
  BY DEF CacheInv, Alone, HashTellsContent
<1> QED  BY <1>1, CacheInvariant, MachineryCache, PTL

-----------------------------------------------------------------------------
(***************************************************************************)
(* The ring as a list of the keys asked for last.                          *)
(***************************************************************************)
RecentOf(r) == SubSeq(r, 1, Cardinality({n \in Slot : r[n] # NoKey}))

\* When the nodes that hold a chunk come first, the list is what they hold.
LEMMA PrefixIs ==
    ASSUME NEW r \in [Slot -> Key \cup {NoKey}],
           \A m, n \in Slot : m < n /\ r[n] # NoKey => r[m] # NoKey
    PROVE  /\ RecentOf(r) \in Seq(Key)
           /\ Len(RecentOf(r)) \in 0 .. CacheSize
           /\ \A n \in Slot : r[n] # NoKey <=> n <= Len(RecentOf(r))
           /\ \A n \in 1 .. Len(RecentOf(r)) : RecentOf(r)[n] = r[n]
<1> DEFINE T == {n \in Slot : r[n] # NoKey}
<1>1. PICK c \in 0 .. CacheSize : T = 1 .. c
  <2>1. CASE T = {}
    <3>1. 0 \in 0 .. CacheSize /\ 1 .. 0 = {}
      BY CacheAssumption
    <3> QED  BY <2>1, <3>1
  <2>2. CASE T # {}
    <3>1. T \subseteq 1 .. CacheSize /\ CacheSize \in Nat
      BY CacheAssumption DEF Slot
    <3> HIDE DEF T
    <3>2. PICK j \in T : \A i \in T : i <= j
      BY <2>2, <3>1, GreatestPlace
    <3>3. j \in Slot /\ r[j] # NoKey /\ j \in 0 .. CacheSize
      BY <3>1, <3>2 DEF T, Slot
    <3>4. ASSUME NEW n \in 1 .. j PROVE n \in T
      <4>1. n \in Slot /\ (n < j \/ n = j)
        BY <3>1, <3>3 DEF Slot
      <4> QED  BY <3>3, <4>1 DEF T
    <3>5. T \subseteq 1 .. j
      <4>1. ASSUME NEW n \in T PROVE n \in 1 .. j
        <5>1. n \in 1 .. CacheSize /\ n <= j
          BY <3>1, <3>2
        <5> QED  BY <3>3, <5>1
      <4> QED  BY <4>1
    <3>6. T = 1 .. j
      BY <3>4, <3>5
    <3> QED  BY <3>3, <3>6
  <2> QED  BY <2>1, <2>2
<1>2. Cardinality(T) = c
  <2>1. c \in Int /\ Cardinality(1 .. c) = IF 1 > c THEN 0 ELSE c - 1 + 1
    BY <1>1, FS_Interval
  <2>2. (IF 1 > c THEN 0 ELSE c - 1 + 1) = c
    BY <1>1
  <2> HIDE DEF T
  <2> QED  BY <1>1, <2>1, <2>2
<1>3. \A n \in Slot : r[n] # NoKey <=> n <= c
  BY <1>1, CacheAssumption DEF Slot
<1>4. \A n \in 1 .. c : n \in Slot /\ r[n] \in Key
  BY <1>1
<1>5. /\ SubSeq(r, 1, c) \in Seq(Key) /\ Len(SubSeq(r, 1, c)) = c
      /\ \A n \in 1 .. c : SubSeq(r, 1, c)[n] = r[n]
  <2>1. /\ SubSeq(r, 1, c) \in Seq(Key) /\ Len(SubSeq(r, 1, c)) = IF 1 <= c THEN c - 1 + 1 ELSE 0
        /\ \A n \in 1 .. c - 1 + 1 : SubSeq(r, 1, c)[n] = r[1 + n - 1]
    BY <1>4, SubSeqProperties
  <2> QED  BY <2>1
<1>6. RecentOf(r) = SubSeq(r, 1, c)
  BY <1>2 DEF RecentOf
<1> QED  BY <1>3, <1>5, <1>6

\* The list's specification takes elements out as this module does.
LEMMA SameRemoval == ASSUME NEW s, NEW e PROVE List!RemoveFirst(s, e) = RemoveFirst(s, e)
  BY DEF List!RemoveFirst, RemoveFirst, List!SelectInSeq, SelectInSeq, List!RemoveAt, RemoveAt, List!Min, Min

\* What is asked for again moves to the front of the list.
LEMMA AskedAgain ==
    ASSUME NEW s \in Seq(Key), NEW t \in Seq(Key), Len(t) = Len(s), Len(s) <= CacheSize,
           NEW i \in 1 .. Len(s), \A j \in 1 .. i - 1 : s[j] # s[i],
           t[1] = s[i],
           \A m \in 2 .. Len(s) : t[m] = IF m <= i THEN s[m - 1] ELSE s[m]
    PROVE  t = List!AtMost(<<s[i]>> \o List!RemoveFirst(s, s[i]), CacheSize)
<1>1. Len(s) \in Nat /\ Len(t) \in Nat /\ s[i] \in Key /\ CacheSize \in Nat
  BY LenProperties, ElementOfSeq, CacheAssumption
<1>2. PICK rest : rest = RemoveFirst(s, s[i])
  OBVIOUS
<1>3. /\ rest \in Seq(Key) /\ Len(rest) = Len(s) - 1
      /\ \A n \in 1 .. Len(s) - 1 : rest[n] = IF n < i THEN s[n] ELSE s[n + 1]
  BY <1>2, RemoveFirstElements
<1>4. PICK all : all = <<s[i]>> \o rest
  OBVIOUS
<1>5. all \in Seq(Key) /\ DOMAIN all = 1 .. 1 + Len(rest) /\ all[1] = s[i]
      /\ \A n \in 1 .. Len(rest) : all[n + 1] = rest[n]
  BY <1>1, <1>3, <1>4, Prepend
<1>6. Len(all) = Len(s)
  <2>1. Len(all) \in Nat /\ DOMAIN all = 1 .. Len(all)
    BY <1>5, LenProperties
  <2> QED  BY <2>1, <1>1, <1>3, <1>5
<1>7. ASSUME NEW m \in 1 .. Len(t) PROVE t[m] = all[m]
  <2>1. CASE m = 1
    BY <1>5, <2>1
  <2>2. CASE m # 1
    <3>1. m \in 2 .. Len(s) /\ m - 1 \in 1 .. Len(rest) /\ m - 1 \in 1 .. Len(s) - 1 /\ (m - 1) + 1 = m
          /\ (m <= i <=> m - 1 < i)
      BY <1>1, <1>3, <2>2
    <3>2. all[m] = rest[m - 1]
      BY <1>5, <3>1
    <3>3. rest[m - 1] = IF m <= i THEN s[m - 1] ELSE s[m]
      BY <1>3, <3>1
    <3> QED  BY <3>1, <3>2, <3>3
  <2> QED  BY <2>1, <2>2
<1>8. t = all
  BY <1>5, <1>6, <1>7, SeqEqual
<1>9. List!AtMost(all, CacheSize) = all
  <2>1. List!AtMost(all, CacheSize) = SubSeq(all, 1, Len(all))
    BY <1>6 DEF List!AtMost
  <2> QED  BY <2>1, <1>5, SubSeqFull
<1>10. List!RemoveFirst(s, s[i]) = rest
  BY <1>2, SameRemoval
<1> QED  BY <1>4, <1>8, <1>9, <1>10

\* What is asked for anew comes first, and the last is dropped from a full list.
LEMMA AskedAnew ==
    ASSUME NEW s \in Seq(Key), NEW t \in Seq(Key), NEW k \in Key, Len(s) <= CacheSize,
           \A j \in 1 .. Len(s) : s[j] # k,
           Len(t) = IF Len(s) < CacheSize THEN Len(s) + 1 ELSE Len(s),
           t[1] = k,
           \A m \in 2 .. Len(t) : t[m] = s[m - 1]
    PROVE  t = List!AtMost(<<k>> \o List!RemoveFirst(s, k), CacheSize)
<1>1. Len(s) \in Nat /\ Len(t) \in Nat /\ CacheSize \in Nat \ {0}
  BY LenProperties, CacheAssumption
<1>2. PICK all : all = <<k>> \o s
  BY Zenon
<1>3. all \in Seq(Key) /\ DOMAIN all = 1 .. 1 + Len(s) /\ all[1] = k
      /\ \A n \in 1 .. Len(s) : all[n + 1] = s[n]
  BY <1>2, Prepend
<1>4. Len(all) = Len(s) + 1 /\ \A n \in 1 .. Len(all) : all[n] \in Key
  <2>1. Len(all) = 1 + Len(s)
    BY <1>2, Prepend
  <2>2. \A n \in 1 .. Len(all) : all[n] \in Key
    BY <1>3, ElementOfSeq
  <2> QED  BY <1>1, <2>1, <2>2
<1>5. PICK cut : cut = SubSeq(all, 1, Len(t))
  OBVIOUS
<1>6. 1 .. Len(t) \subseteq 1 .. Len(all) /\ 1 <= Len(t)
  BY <1>1, <1>4
<1>7. /\ cut \in Seq(Key) /\ Len(cut) = Len(t)
      /\ \A n \in 1 .. Len(t) : cut[n] = all[n]
  <2>1. /\ SubSeq(all, 1, Len(t)) \in Seq(Key)
        /\ Len(SubSeq(all, 1, Len(t))) = IF 1 <= Len(t) THEN Len(t) - 1 + 1 ELSE 0
        /\ \A n \in 1 .. Len(t) - 1 + 1 : SubSeq(all, 1, Len(t))[n] = all[1 + n - 1]
    <3>1. \A n \in 1 .. Len(t) : all[n] \in Key
      BY <1>4, <1>6
    <3> QED  BY <1>1, <3>1, SubSeqProperties
  <2> QED  BY <1>1, <1>5, <1>6, <2>1
<1>8. ASSUME NEW m \in 1 .. Len(t) PROVE t[m] = cut[m]
  <2>1. CASE m = 1
    BY <1>3, <1>7, <2>1
  <2>2. CASE m # 1
    <3>1. m \in 2 .. Len(t) /\ m - 1 \in 1 .. Len(s) /\ (m - 1) + 1 = m
      BY <1>1, <2>2
    <3> QED  BY <1>3, <1>7, <3>1
  <2> QED  BY <2>1, <2>2
<1>9. t = cut
  BY <1>7, <1>8, SeqEqual
<1>10. List!AtMost(all, CacheSize) = cut
  <2>1. Len(t) = IF Len(all) <= CacheSize THEN Len(all) ELSE CacheSize
    BY <1>1, <1>4
  <2> QED  BY <1>5, <2>1 DEF List!AtMost
<1>11. List!RemoveFirst(s, k) = s
  BY SameRemoval DEF RemoveFirst
<1> QED  BY <1>2, <1>9, <1>10, <1>11

\* The keys on the ring, and what the list of the filled ones is.
KeysOn(L, h) == [n \in Slot |-> h[Walk(L)[n]]]

LEMMA RecentIs ==
    ASSUME NEW L, NEW h \in [Node -> Key \cup {NoKey}], NEW o \in Filled(L, h)
    PROVE  /\ RecentOf(KeysOn(L, h)) \in Seq(Key)
           /\ Len(RecentOf(KeysOn(L, h))) \in 0 .. CacheSize
           /\ \A n \in Slot : h[o[n]] # NoKey <=> n <= Len(RecentOf(KeysOn(L, h)))
           /\ \A n \in 1 .. Len(RecentOf(KeysOn(L, h))) : RecentOf(KeysOn(L, h))[n] = h[o[n]]
<1>1. /\ o \in RingOf(L) /\ \A n \in Slot : o[n] \in Node
      /\ \A m, n \in Slot : m < n /\ h[o[n]] # NoKey => h[o[m]] # NoKey
  BY FilledType, NodeTypes
<1>2. PICK r : r = [n \in Slot |-> h[o[n]]]
  OBVIOUS
<1>3. Walk(L) = o
  BY <1>1, WalkIsOrder
<1>4. KeysOn(L, h) = r
  BY <1>2, <1>3 DEF KeysOn
<1>5. r \in [Slot -> Key \cup {NoKey}] /\ \A n \in Slot : r[n] = h[o[n]]
  BY <1>1, <1>2
<1>6. /\ RecentOf(r) \in Seq(Key)
      /\ Len(RecentOf(r)) \in 0 .. CacheSize
      /\ \A n \in Slot : r[n] # NoKey <=> n <= Len(RecentOf(r))
      /\ \A n \in 1 .. Len(RecentOf(r)) : RecentOf(r)[n] = r[n]
  BY <1>1, <1>5, PrefixIs
<1>7. 1 .. Len(RecentOf(r)) \subseteq Slot
  BY <1>6, CacheAssumption DEF Slot
<1> QED  BY <1>4, <1>5, <1>6, <1>7

\* Moving the node of a chunk found is asking again for its key.
LEMMA HitAsks ==
    ASSUME NEW L \in Links, Mutual(L), NEW h \in [Node -> Key \cup {NoKey}], Alone(h),
           NEW o \in Filled(L, h), NEW n \in Slot, h[o[n]] # NoKey
    PROVE  RecentOf(KeysOn(ToFront(L, o[n]), h))
              = List!AtMost(<<h[o[n]]>> \o List!RemoveFirst(RecentOf(KeysOn(L, h)), h[o[n]]), CacheSize)
<1>1. PICK s : s = RecentOf(KeysOn(L, h))
  OBVIOUS
<1>2. PICK t : t = RecentOf(KeysOn(ToFront(L, o[n]), h))
  OBVIOUS
<1>3. PICK p : p = Fronted(o, n)
  OBVIOUS
<1>4. p \in Filled(ToFront(L, o[n]), h)
  BY <1>3, FrontedFilled
<1>5. /\ s \in Seq(Key) /\ Len(s) \in 0 .. CacheSize
      /\ \A m \in Slot : h[o[m]] # NoKey <=> m <= Len(s)
      /\ \A m \in 1 .. Len(s) : s[m] = h[o[m]]
  BY <1>1, RecentIs
<1>6. /\ t \in Seq(Key) /\ Len(t) \in 0 .. CacheSize
      /\ \A m \in Slot : h[p[m]] # NoKey <=> m <= Len(t)
      /\ \A m \in 1 .. Len(t) : t[m] = h[p[m]]
  BY <1>2, <1>4, RecentIs
<1>7. \A m \in Slot : p[m] = IF m = 1 THEN o[n] ELSE IF m <= n THEN o[m - 1] ELSE o[m]
  BY <1>3, NodeTypes DEF Fronted
<1>8. n \in 1 .. Len(s) /\ n \in Nat /\ CacheSize \in Nat \ {0} /\ n <= CacheSize
  BY <1>5, CacheAssumption DEF Slot
<1>9. ASSUME NEW m \in Slot PROVE m <= Len(t) <=> m <= Len(s)
  <2>1. m \in Nat /\ 1 <= m /\ m <= CacheSize
    BY CacheAssumption DEF Slot
  <2>2. CASE m = 1
    <3>1. h[p[m]] # NoKey
      BY <1>7, <2>2
    <3> QED  BY <1>6, <1>8, <2>2, <3>1
  <2>3. CASE m # 1 /\ m <= n
    <3>1. m - 1 \in Slot /\ m - 1 <= Len(s) /\ m <= Len(s)
      BY <1>5, <1>8, <2>1, <2>3 DEF Slot
    <3>2. p[m] = o[m - 1]
      BY <1>7, <2>3
    <3> QED  BY <1>5, <1>6, <3>1, <3>2
  <2>4. CASE m # 1 /\ ~(m <= n)
    <3>1. p[m] = o[m]
      BY <1>7, <2>4
    <3> QED  BY <1>5, <1>6, <3>1
  <2> QED  BY <2>2, <2>3, <2>4
<1>10. Len(t) = Len(s)
  <2>1. PICK a \in 0 .. CacheSize : a = Len(s)
    BY <1>5
  <2>2. PICK b \in 0 .. CacheSize : b = Len(t)
    BY <1>6
  <2>3. \A m \in 1 .. CacheSize : m <= a <=> m <= b
    BY <1>9, <2>1, <2>2 DEF Slot
  <2>4. (a < b => b \in 1 .. CacheSize) /\ (b < a => a \in 1 .. CacheSize)
    BY <1>8
  <2>5. a = b
    BY <2>3, <2>4
  <2> QED  BY <2>1, <2>2, <2>5
<1>11. s[n] = h[o[n]] /\ t[1] = s[n]
  <2>1. 1 \in Slot /\ 1 \in 1 .. Len(t)
    BY <1>5, <1>8, <1>10 DEF Slot
  <2> QED  BY <1>5, <1>6, <1>7, <1>8, <2>1
<1>12. ASSUME NEW m \in 2 .. Len(s) PROVE t[m] = IF m <= n THEN s[m - 1] ELSE s[m]
  <2>1. m \in Slot /\ m # 1 /\ m \in 1 .. Len(t) /\ m \in 1 .. Len(s) /\ m - 1 \in 1 .. Len(s)
    BY <1>5, <1>8, <1>10, <1>12 DEF Slot
  <2>2. t[m] = h[p[m]]
    BY <1>6, <2>1
  <2> QED  BY <1>5, <1>7, <2>1, <2>2
<1>13. ASSUME NEW j \in 1 .. n - 1 PROVE s[j] # s[n]
  <2>1. j \in Slot /\ j # n /\ j \in 1 .. Len(s)
    BY <1>5, <1>8, <1>13 DEF Slot
  <2>2. o[j] # o[n] /\ o[j] \in Slot /\ o[n] \in Slot
    BY <2>1, FilledType, NodeTypes
  <2>3. s[j] = h[o[j]] /\ s[n] = h[o[n]]
    BY <1>5, <1>8, <2>1
  <2>4. h[o[j]] # h[o[n]]
    BY <2>2 DEF Alone
  <2> QED  BY <2>3, <2>4
<1>14. t = List!AtMost(<<s[n]>> \o List!RemoveFirst(s, s[n]), CacheSize)
  <2>1. s \in Seq(Key) /\ t \in Seq(Key) /\ Len(s) <= CacheSize /\ n \in 1 .. Len(s)
    BY <1>5, <1>6, <1>8
  <2> QED  BY <2>1, <1>10, <1>11, <1>12, <1>13, AskedAgain, Zenon
<1> QED  BY <1>1, <1>2, <1>11, <1>14

\* Giving the last node to a chunk not found is asking anew for its key.
LEMMA MissAsks ==
    ASSUME NEW L \in Links, Mutual(L), NEW h \in [Node -> Key \cup {NoKey}],
           NEW o \in Filled(L, h), NEW k \in Key, \A i \in Slot : h[i] # k,
           NEW g \in [Node -> Key \cup {NoKey}],
           \A i \in Slot : g[i] = IF i = o[CacheSize] THEN k ELSE h[i]
    PROVE  RecentOf(KeysOn(ToFront(L, o[CacheSize]), g))
              = List!AtMost(<<k>> \o List!RemoveFirst(RecentOf(KeysOn(L, h)), k), CacheSize)
<1>1. PICK s : s = RecentOf(KeysOn(L, h))
  OBVIOUS
<1>2. PICK t : t = RecentOf(KeysOn(ToFront(L, o[CacheSize]), g))
  OBVIOUS
<1>3. PICK p : p = Fronted(o, CacheSize)
  OBVIOUS
<1>4. /\ CacheSize \in Nat \ {0} /\ CacheSize \in Slot /\ k # NoKey
      /\ \A m \in Slot : o[m] \in Slot
      /\ \A m \in Slot : o[m] = o[CacheSize] => m = CacheSize
  BY CacheAssumption, FilledType, NodeTypes DEF Slot
<1>5. p \in Filled(ToFront(L, o[CacheSize]), g)
  <2>1. (\A i \in Slot : g[i] = h[i] \/ i = o[CacheSize]) /\ g[o[CacheSize]] # NoKey
    BY <1>4
  <2> QED  BY <1>3, <1>4, <2>1, FrontedFilled
<1>6. /\ s \in Seq(Key) /\ Len(s) \in 0 .. CacheSize
      /\ \A m \in Slot : h[o[m]] # NoKey <=> m <= Len(s)
      /\ \A m \in 1 .. Len(s) : s[m] = h[o[m]]
  BY <1>1, RecentIs
<1>7. /\ t \in Seq(Key) /\ Len(t) \in 0 .. CacheSize
      /\ \A m \in Slot : g[p[m]] # NoKey <=> m <= Len(t)
      /\ \A m \in 1 .. Len(t) : t[m] = g[p[m]]
  BY <1>2, <1>5, RecentIs
<1>8. /\ 1 \in Slot /\ g[p[1]] = k
      /\ \A m \in Slot : m # 1 => m - 1 \in Slot /\ g[p[m]] = h[o[m - 1]]
  <2>1. \A m \in Slot : p[m] = IF m = 1 THEN o[CacheSize] ELSE IF m <= CacheSize THEN o[m - 1] ELSE o[m]
    BY <1>3, NodeTypes DEF Fronted
  <2>2. 1 \in Slot
    BY <1>4 DEF Slot
  <2>3. ASSUME NEW m \in Slot, m # 1 PROVE m - 1 \in Slot /\ m - 1 # CacheSize /\ m <= CacheSize
    BY <2>3, <1>4 DEF Slot
  <2>4. g[p[1]] = k
    BY <1>4, <2>1, <2>2
  <2>5. ASSUME NEW m \in Slot, m # 1 PROVE g[p[m]] = h[o[m - 1]]
    <3>1. m - 1 \in Slot /\ m - 1 # CacheSize /\ p[m] = o[m - 1]
      BY <2>1, <2>3, <2>5
    <3>2. o[m - 1] \in Slot /\ o[m - 1] # o[CacheSize]
      BY <1>4, <3>1
    <3> QED  BY <3>1, <3>2
  <2> QED  BY <2>2, <2>3, <2>4, <2>5
<1>9. ASSUME NEW m \in Slot PROVE m <= Len(t) <=> m - 1 <= Len(s)
  <2>1. CASE m = 1
    BY <1>4, <1>6, <1>7, <1>8, <2>1
  <2>2. CASE m # 1
    <3>1. m - 1 \in Slot /\ g[p[m]] = h[o[m - 1]]
      BY <1>8, <2>2
    <3> QED  BY <1>6, <1>7, <3>1
  <2> QED  BY <2>1, <2>2
<1>10. Len(t) = IF Len(s) < CacheSize THEN Len(s) + 1 ELSE Len(s)
  <2>1. PICK a \in 0 .. CacheSize : a = Len(s)
    BY <1>6
  <2>2. PICK b \in 0 .. CacheSize : b = Len(t)
    BY <1>7
  <2>3. \A m \in 1 .. CacheSize : m <= b <=> m - 1 <= a
    BY <1>9, <2>1, <2>2 DEF Slot
  <2>4. b = IF a < CacheSize THEN a + 1 ELSE a
    <3>1. CASE a < CacheSize
      <4>1. a + 1 \in 1 .. CacheSize /\ (b < CacheSize => b + 1 \in 1 .. CacheSize)
        BY <1>4, <3>1
      <4> QED  BY <1>4, <2>3, <3>1, <4>1
    <3>2. CASE ~(a < CacheSize)
      <4>1. CacheSize \in 1 .. CacheSize /\ a = CacheSize
        BY <1>4, <3>2
      <4> QED  BY <1>4, <2>3, <3>2, <4>1
    <3> QED  BY <3>1, <3>2
  <2> QED  BY <2>1, <2>2, <2>4
<1>11. t[1] = k
  <2>1. 1 \in 1 .. Len(t)
    BY <1>4, <1>6, <1>10
  <2> QED  BY <1>7, <1>8, <2>1
<1>12. ASSUME NEW m \in 2 .. Len(t) PROVE t[m] = s[m - 1]
  <2>1. m \in Slot /\ m # 1 /\ m \in 1 .. Len(t) /\ m - 1 \in 1 .. Len(s)
    BY <1>4, <1>6, <1>7, <1>10, <1>12 DEF Slot
  <2> QED  BY <1>6, <1>7, <1>8, <2>1
<1>13. ASSUME NEW j \in 1 .. Len(s) PROVE s[j] # k
  <2>1. j \in Slot
    BY <1>4, <1>6, <1>13 DEF Slot
  <2>2. s[j] = h[o[j]] /\ o[j] \in Slot
    BY <1>4, <1>6, <1>13, <2>1
  <2> QED  BY <2>2
<1>14. t = List!AtMost(<<k>> \o List!RemoveFirst(s, k), CacheSize)
  BY <1>6, <1>7, <1>10, <1>11, <1>12, <1>13, AskedAnew
<1> QED  BY <1>1, <1>2, <1>14

\* A ring that holds no chunk is the empty list.
LEMMA NothingHeld ==
    ASSUME NEW L, NEW h \in [Node -> Key \cup {NoKey}], NEW o \in Filled(L, h),
           \A i \in Slot : h[i] = NoKey
    PROVE  RecentOf(KeysOn(L, h)) = <<>>
<1>1. PICK t : t = RecentOf(KeysOn(L, h))
  OBVIOUS
<1>2. /\ t \in Seq(Key) /\ Len(t) \in 0 .. CacheSize
      /\ \A m \in Slot : h[o[m]] # NoKey <=> m <= Len(t)
  BY <1>1, RecentIs
<1>3. 1 \in Slot /\ o[1] \in Slot
  BY CacheAssumption, FilledType DEF Slot
<1>4. ~(1 <= Len(t))
  BY <1>2, <1>3
<1>5. Len(t) = 0
  BY <1>2, <1>4, CacheAssumption
<1>6. t = <<>>
  BY <1>2, <1>5, EmptySeq
<1> QED  BY <1>1, <1>6

\* A new cache is an empty list.
LEMMA LruInit == Init => List!Init
<1> SUFFICES ASSUME Init PROVE List!Init
  OBVIOUS
<1>1. CacheInv
  BY CacheInit
<1>2. PICK o \in Filled(links, hash) : TRUE
  BY <1>1 DEF CacheInv
<1>3. RecentOf(KeysOn(links, hash)) = <<>>
  <2>1. \A i \in Slot : hash[i] = NoKey
    BY NodeTypes DEF Init
  <2>2. hash \in [Node -> Key \cup {NoKey}]
    BY <1>1 DEF CacheInv, TypeOK
  <2> QED  BY <1>2, <2>1, <2>2, NothingHeld
<1>4. got = 0
  BY DEF Init
<1> QED  BY <1>3, <1>4 DEF List!Init, Recent, RingKeys, RecentOf, KeysOn

\* Every step of the cache is a step of the list, or leaves it as it was.
LEMMA LruNext == CacheInv /\ CacheInv' /\ [Next]_cacheVars => [List!Next]_(List!listVars)
<1> SUFFICES ASSUME CacheInv, CacheInv', [Next]_cacheVars PROVE [List!Next]_(List!listVars)
  OBVIOUS
<1>1. /\ links \in Links /\ Mutual(links) /\ hash \in [Node -> Key \cup {NoKey}] /\ Alone(hash)
      /\ cm \in [Slot -> Key \cup {NoKey}] /\ \A i \in Slot : cm[i] = hash[i]
  BY DEF CacheInv, TypeOK
<1>2. PICK o \in Filled(links, hash) : TRUE
  BY DEF CacheInv
<1>3. (\A n \in Slot : o[n] \in Slot) /\ (\A i \in Slot : \E n \in Slot : o[n] = i)
  BY FilledType
<1>4. Recent = RecentOf(KeysOn(links, hash)) /\ Recent' = RecentOf(KeysOn(links', hash'))
  BY DEF Recent, RingKeys, RecentOf, KeysOn, Walk
<1>5. ASSUME NEW k \in Key, Hit(k) PROVE List!Ask(k)
  <2>1. PICK n \in Slot : /\ Match(k, n)
                         /\ links' = ToFront(links, Walk(links)[n])
                         /\ got' = Walk(links)[n]
    BY <1>5 DEF Hit
  <2>2. Walk(links)[n] = o[n] /\ hash[o[n]] = k /\ o[n] \in Slot /\ k # NoKey
    BY <1>3, <2>1, Found, CacheAssumption
  <2>3. UNCHANGED <<hash, cm>>
    BY <1>5 DEF Hit
  <2>4. RecentOf(KeysOn(ToFront(links, o[n]), hash))
           = List!AtMost(<<hash[o[n]]>> \o List!RemoveFirst(RecentOf(KeysOn(links, hash)), hash[o[n]]), CacheSize)
    BY <1>1, <2>2, HitAsks
  <2>5. Recent' = List!AtMost(<<k>> \o List!RemoveFirst(Recent, k), CacheSize)
    BY <1>4, <2>1, <2>2, <2>3, <2>4
  <2>6. got' # 0 /\ cm'[got'] = k
    BY <1>1, <2>1, <2>2, <2>3, NodeTypes
  <2> QED  BY <2>5, <2>6 DEF List!Ask
<1>6. ASSUME NEW k \in Key, Miss(k) PROVE List!Ask(k)
  <2>1. /\ links' = ToFront(links, links.prev[0])
        /\ hash' = [hash EXCEPT ![links.prev[0]] = k]
        /\ cm' = [cm EXCEPT ![links.prev[0]] = k]
        /\ got' = links.prev[0]
    BY <1>6 DEF Miss
  <2>2. links.prev[0] = o[CacheSize] /\ CacheSize \in Slot
    BY <1>1, <1>2, LastOfRing
  <2>3. PICK tail \in Slot : tail = o[CacheSize]
    BY <1>3, <2>2
  <2>4. PICK g : g = [hash EXCEPT ![tail] = k]
    OBVIOUS
  <2>5. g \in [Node -> Key \cup {NoKey}] /\ \A i \in Slot : g[i] = IF i = o[CacheSize] THEN k ELSE hash[i]
    BY <1>1, <2>3, <2>4, NodeTypes
  <2>6. \A i \in Slot : hash[i] # k
    <3> SUFFICES ASSUME NEW i \in Slot, hash[i] = k PROVE FALSE
      OBVIOUS
    <3>1. PICK n \in Slot : o[n] = i
      BY <1>3
    <3>2. Match(k, n)
      BY <3>1, Found
    <3> QED  BY <1>6, <3>2 DEF Miss
  <2>7. RecentOf(KeysOn(ToFront(links, o[CacheSize]), g))
           = List!AtMost(<<k>> \o List!RemoveFirst(RecentOf(KeysOn(links, hash)), k), CacheSize)
    BY <1>1, <2>5, <2>6, MissAsks
  <2>8. links' = ToFront(links, o[CacheSize]) /\ hash' = g
    BY <2>1, <2>2, <2>3, <2>4
  <2>9. Recent' = List!AtMost(<<k>> \o List!RemoveFirst(Recent, k), CacheSize)
    BY <1>4, <2>7, <2>8
  <2>10. got' # 0 /\ cm'[got'] = k
    BY <1>1, <2>1, <2>2, <2>3, NodeTypes
  <2> QED  BY <2>9, <2>10 DEF List!Ask
<1>7. CASE Purge
  <2>1. got' = 0 /\ \A i \in Slot : hash'[i] = NoKey
    BY <1>7, NodeTypes DEF Purge
  <2>2. hash' \in [Node -> Key \cup {NoKey}] /\ Filled(links', hash') # {}
    BY DEF CacheInv, TypeOK, Filled
  <2>3. RecentOf(KeysOn(links', hash')) = <<>>
    <3>1. PICK g : g = hash'
      OBVIOUS
    <3>2. PICK L : L = links'
      OBVIOUS
    <3>3. RecentOf(KeysOn(L, g)) = <<>>
      BY <2>1, <2>2, <3>1, <3>2, NothingHeld
    <3> QED  BY <3>1, <3>2, <3>3
  <2>4. List!Forget
    BY <1>4, <2>1, <2>3 DEF List!Forget
  <2> QED  BY <2>4 DEF List!Next
<1>8. CASE UNCHANGED cacheVars
  <2>1. links' = links /\ hash' = hash /\ cm' = cm /\ got' = got
    BY <1>8 DEF cacheVars
  <2>2. Recent' = Recent
    BY <1>4, <2>1
  <2> QED  BY <2>1, <2>2 DEF List!listVars
<1> QED  BY <1>5, <1>6, <1>7, <1>8 DEF Next, List!Next

(***************************************************************************)
(* CLCache is the list of the chunks asked for last: a chunk asked for is  *)
(* the one returned, and the first to be kept, and what a full cache gives *)
(* up is the chunk that was asked for longest ago (data.hpp:216-243).      *)
(***************************************************************************)
THEOREM CacheIsLru == MachinerySpec => ImplementsLru
<1>1. Spec => ImplementsLru
  <2>1. []CacheInv /\ [][Next]_cacheVars => [][List!Next]_(List!listVars)
    BY LruNext, PTL
  <2> QED  BY <2>1, LruInit, CacheInvariant, PTL DEF Spec, ImplementsLru, List!Spec
<1> QED  BY <1>1, MachineryCache, PTL

-----------------------------------------------------------------------------
(***************************************************************************)
(* The delayed commands.  The inductive invariant: the heap's top is in    *)
(* the heap, no two commands share a place, and a place is free for what   *)
(* the command that runs may schedule.                                     *)
(***************************************************************************)
Oneshots == [place : Shot, left : Int, next : Delays \cup {Scheduler!Nothing}]

HeapInv ==
    /\ oneshot_timers \subseteq Oneshots
    /\ top \subseteq oneshot_timers
    /\ \A s, t \in oneshot_timers : s.place = t.place => s = t
    /\ Shot # {} => \E p \in Shot : p \notin Scheduler!Taken

\* A heap's top is in it.
LEMMA TopOfHeap ==
    ASSUME NEW heap, NEW t \in Scheduler!NewTops(heap)
    PROVE  t \subseteq heap
  BY DEF Scheduler!NewTops

\* The instance counts as this module does.
LEMMA SameCount == ASSUME NEW S PROVE Scheduler!Cardinality(S) = Cardinality(S)
  BY DEF Scheduler!Cardinality, Cardinality, Scheduler!IsFiniteSet, IsFiniteSet

\* What the running command schedules takes a free place.
LEMMA PushedType ==
    ASSUME HeapInv, NEW s \in oneshot_timers, NEW n \in Scheduler!Pushed(s)
    PROVE  /\ Scheduler!Pushed(s) = {n}
           /\ n \in Oneshots /\ n.place \notin Scheduler!Taken
<1>1. PICK p : p = CHOOSE q \in Shot : q \notin Scheduler!Taken
  OBVIOUS
<1>2. p \in Shot /\ p \notin Scheduler!Taken
  <2>1. s.place \in Shot
    BY DEF HeapInv, Oneshots
  <2> QED  BY <1>1, <2>1 DEF HeapInv
<1>3. n = [place |-> p, left |-> s.next, next |-> Scheduler!Nothing] /\ Scheduler!Pushed(s) = {n} /\ s.next # Scheduler!Nothing
  BY <1>1 DEF Scheduler!Pushed, Scheduler!Oneshot
<1>4. s.next \in Delays
  BY <1>3 DEF HeapInv, Oneshots
<1>5. s.next \in Int
  <2>1. \A d \in Delays : d \in Int
    BY SchedulerAssumption
  <2> QED  BY <1>4, <2>1
<1> QED  BY <1>2, <1>3, <1>5 DEF Oneshots

LEMMA HeapNext == HeapInv /\ [Scheduler!Next]_(Scheduler!schedVars) => HeapInv'
<1> SUFFICES ASSUME HeapInv, [Scheduler!Next]_(Scheduler!schedVars) PROVE HeapInv'
  OBVIOUS
<1>1. /\ oneshot_timers \subseteq Oneshots /\ top \subseteq oneshot_timers
      /\ \A s, t \in oneshot_timers : s.place = t.place => s = t
  BY DEF HeapInv
<1>2. ASSUME NEW p \in Shot, NEW d \in Delays, NEW n \in Delays \cup {Scheduler!Nothing}, Scheduler!Sched(p, d, n)
      PROVE  HeapInv'
  <2>1. PICK s : s = [place |-> p, left |-> d, next |-> n]
    OBVIOUS
  <2>2. /\ p \notin Scheduler!Taken /\ Cardinality(Scheduler!Taken) + 1 < Cardinality(Shot)
        /\ oneshot_timers' = oneshot_timers \cup {s}
        /\ top' = top \/ top' = {s}
    BY <1>2, <2>1, SameCount DEF Scheduler!Sched, Scheduler!Oneshot, Scheduler!TopWith
  <2>3. s \in Oneshots /\ s.place = p
    BY <2>1, SchedulerAssumption DEF Oneshots
  <2>4. \A t \in oneshot_timers : t.place # p /\ t.place \in Shot
    BY <1>1, <2>2 DEF Scheduler!Taken, Oneshots
  <2>5. Scheduler!Taken' = Scheduler!Taken \cup {p} /\ Scheduler!Taken \subseteq Shot
    BY <2>2, <2>3, <2>4 DEF Scheduler!Taken
  <2>6. \E q \in Shot : q \notin Scheduler!Taken'
    <3>1. SUFFICES ASSUME Shot \subseteq Scheduler!Taken \cup {p} PROVE FALSE
      BY <2>5
    <3>2. Shot = Scheduler!Taken \cup {p}
      BY <2>5, <3>1
    <3>3. IsFiniteSet(Scheduler!Taken)
      BY <2>5, FS_Subset, SchedulerAssumption
    <3>4. Cardinality(Shot) = Cardinality(Scheduler!Taken) + 1
      BY <2>2, <3>2, <3>3, FS_AddElement
    <3>5. Cardinality(Scheduler!Taken) \in Nat
      BY <3>3, FS_CardinalityType
    <3> QED  BY <2>2, <3>4, <3>5
  <2> QED  BY <1>1, <2>2, <2>3, <2>4, <2>6 DEF HeapInv
<1>3. CASE Scheduler!Second
  <2> DEFINE Later(s) == [s EXCEPT !.left = IF @ < 0 THEN @ ELSE @ - 1]
  <2>1. oneshot_timers' = {Later(s) : s \in oneshot_timers} /\ top' = {Later(s) : s \in top}
    BY <1>3 DEF Scheduler!Second
  <2>2. ASSUME NEW s \in Oneshots PROVE Later(s) \in Oneshots /\ Later(s).place = s.place
    BY DEF Oneshots
  <2> HIDE DEF Later
  <2>3. Scheduler!Taken' = Scheduler!Taken
    BY <1>1, <2>1, <2>2 DEF Scheduler!Taken
  <2>4. oneshot_timers' \subseteq Oneshots /\ top' \subseteq oneshot_timers'
    BY <1>1, <2>1, <2>2
  <2>5. \A s, t \in oneshot_timers' : s.place = t.place => s = t
    BY <1>1, <2>1, <2>2
  <2> QED  BY <2>3, <2>4, <2>5 DEF HeapInv
<1>4. CASE Scheduler!Run
  <2>1. PICK s \in top :
           oneshot_timers' = (oneshot_timers \cup Scheduler!Pushed(s)) \
               (IF \E n \in Scheduler!Pushed(s) : n.left > s.left THEN Scheduler!Pushed(s) ELSE top)
    BY <1>4 DEF Scheduler!Run
  <2>2. top' \in Scheduler!NewTops(oneshot_timers')
    BY <1>4 DEF Scheduler!Run
  <2>3. top' \subseteq oneshot_timers'
    <3>1. PICK heap : heap = oneshot_timers'
      OBVIOUS
    <3>2. PICK t : t = top'
      OBVIOUS
    <3>3. t \in Scheduler!NewTops(heap)
      BY <2>2, <3>1, <3>2 DEF Scheduler!NewTops
    <3> QED  BY <3>1, <3>2, <3>3, TopOfHeap
  <2>4. s \in oneshot_timers /\ s \in Oneshots /\ s.place \in Scheduler!Taken /\ s.place \in Shot
    BY <1>1 DEF Scheduler!Taken, Oneshots
  <2>5. \A t \in oneshot_timers : t.place \in Scheduler!Taken
    BY DEF Scheduler!Taken
  <2>6. \A n \in Scheduler!Pushed(s) : n \in Oneshots /\ n.place \notin Scheduler!Taken /\ Scheduler!Pushed(s) = {n}
    BY <2>4, PushedType
  <2>7. CASE \E n \in Scheduler!Pushed(s) : n.left > s.left
    <3>1. oneshot_timers' = oneshot_timers
      BY <2>1, <2>5, <2>6, <2>7
    <3>2. Scheduler!Taken' = Scheduler!Taken
      BY <3>1 DEF Scheduler!Taken
    <3> QED  BY <2>3, <3>1, <3>2 DEF HeapInv
  <2>8. CASE ~\E n \in Scheduler!Pushed(s) : n.left > s.left
    <3>1. oneshot_timers' = (oneshot_timers \cup Scheduler!Pushed(s)) \ top
      BY <2>1, <2>8
    <3>2. oneshot_timers' \subseteq Oneshots /\ \A t, u \in oneshot_timers' : t.place = u.place => t = u
      BY <1>1, <2>5, <2>6, <3>1
    <3>3. \A t \in oneshot_timers' : t.place # s.place
      BY <1>1, <2>4, <2>5, <2>6, <3>1
    <3>4. s.place \notin Scheduler!Taken'
      BY <3>3 DEF Scheduler!Taken
    <3> QED  BY <2>3, <2>4, <3>2, <3>4 DEF HeapInv
  <2> QED  BY <2>7, <2>8
<1>5. CASE Scheduler!EndOfTick
  BY <1>5 DEF Scheduler!EndOfTick, HeapInv, Scheduler!Taken
<1>6. CASE UNCHANGED Scheduler!schedVars
  BY <1>6 DEF Scheduler!schedVars, HeapInv, Scheduler!Taken
<1> QED  BY <1>2, <1>3, <1>4, <1>5, <1>6 DEF Scheduler!Next

\* What leaves the heap, but for the seconds, is the top, and it has run.
LEMMA OnlyTopLeaves ==
    ASSUME HeapInv, [Scheduler!Next]_(Scheduler!schedVars),
           NEW s \in oneshot_timers, s \notin oneshot_timers', ~Scheduler!Second
    PROVE  s \in top /\ s.place \in ran'
<1>1. CASE Scheduler!Run
  <2>1. PICK r \in top :
           oneshot_timers' = (oneshot_timers \cup Scheduler!Pushed(r)) \
               (IF \E n \in Scheduler!Pushed(r) : n.left > r.left THEN Scheduler!Pushed(r) ELSE top)
    BY <1>1 DEF Scheduler!Run
  <2>2. r \in oneshot_timers /\ s.place \in Scheduler!Taken
    BY DEF HeapInv, Scheduler!Taken
  <2>3. s \notin Scheduler!Pushed(r)
    BY <2>2, PushedType
  <2>4. s \in top
    BY <2>1, <2>3
  <2>5. ran' = ran \cup {t.place : t \in top}
    BY <1>1 DEF Scheduler!Run
  <2> QED  BY <2>4, <2>5
<1>2. CASE \E p \in Shot, d \in Delays, n \in Delays \cup {Scheduler!Nothing} : Scheduler!Sched(p, d, n)
  BY <1>2 DEF Scheduler!Sched
<1>3. CASE Scheduler!EndOfTick
  BY <1>3 DEF Scheduler!EndOfTick
<1>4. CASE UNCHANGED Scheduler!schedVars
  BY <1>4 DEF Scheduler!schedVars
<1> QED  BY <1>1, <1>2, <1>3, <1>4 DEF Scheduler!Next

(***************************************************************************)
(* With a place free for what a running command schedules, pop of the heap *)
(* (cmdhelp main.cpp:108-116) removes only the command that has just run,  *)
(* or one it has itself scheduled: nobody else's is lost before it runs.   *)
(***************************************************************************)
THEOREM NobodyElseIsLost == MachinerySpec => OthersNeverLost
<1> DEFINE Kept == \A s \in oneshot_timers :
                      s \notin oneshot_timers' /\ ~Scheduler!Second => s \in top /\ s.place \in ran'
           machinery == <<part, cacheVars, launcher, scheduler>>
<1>1. MachineryInit => HeapInv
  BY DEF MachineryInit, Scheduler!Init, HeapInv, Scheduler!Taken
<1>2. [MachineryNext]_machinery => [Scheduler!Next]_(Scheduler!schedVars)
  BY DEF MachineryNext, machinery, scheduler, Scheduler!schedVars
<1>3. HeapInv /\ [Scheduler!Next]_(Scheduler!schedVars) => [Kept]_(Scheduler!schedVars)
  BY OnlyTopLeaves
<1> HIDE DEF Kept, machinery
<1>4. MachinerySpec => [][Kept]_(Scheduler!schedVars)
  <2>1. MachinerySpec => MachineryInit /\ [][MachineryNext]_machinery
    BY DEF MachinerySpec, machinery
  <2> QED  BY <1>1, <1>2, <1>3, <2>1, HeapNext, PTL
<1> QED  BY <1>4 DEF OthersNeverLost, Scheduler!OthersNeverLost, Kept
=============================================================================
