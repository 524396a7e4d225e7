----------------------------- MODULE ChunkCache -----------------------------
(***************************************************************************)
(* CLCache of mod/land/data.hpp:184-244: a pool of nodes doubly linked     *)
(* through array indices, node 0 the sentinel, one chunk manager per node, *)
(* and the search, eviction and purge that work on it.                     *)
(***************************************************************************)
EXTENDS Integers, Sequences, FiniteSets

CONSTANTS
    CacheSize,  \* CACHE_SZ
    Key,        \* hashes of the chunks asked for
    NoKey       \* 0xffffffffffffffff, the hash of a node that holds no chunk

ASSUME CacheAssumption == CacheSize \in Nat \ {0} /\ NoKey \notin Key

VARIABLES
    links,  \* prev and next of every node of the pool
    hash,   \* hash of every node
    cm,     \* what the chunk manager of a node has loaded
    got     \* the node whose manager was returned last; 0 before, and after a purge

cacheVars == <<links, hash, cm, got>>

Node == 0 .. CacheSize

Slot == 1 .. CacheSize  \* nodes other than the sentinel; node i has manager i - 1

Links == [prev : [Node -> Node], next : [Node -> Node]]

\* fault: the node after the detached one keeps its prev
DetachForwardOnly(L, i) == [L EXCEPT !.next[L.prev[i]] = L.next[i]]

Detach(L, i) ==
    [prev |-> [L.prev EXCEPT ![L.next[i]] = L.prev[i]],
     next |-> [L.next EXCEPT ![L.prev[i]] = L.next[i]]]

InsertAfter(L, pos, i) ==
    [prev |-> [L.prev EXCEPT ![i] = pos, ![L.next[pos]] = i],
     next |-> [L.next EXCEPT ![i] = L.next[pos], ![pos] = i]]

ToFront(L, i) == InsertAfter(Detach(L, i), 0, i)

\* the n-th node after the sentinel
Walk(L) ==
    LET walk[n \in Node] == IF n = 0 THEN 0 ELSE L.next[walk[n - 1]]
    IN  walk

\* the search loop: nodes before the first return to the sentinel, first match wins
Match(k, n) ==
    /\ hash[Walk(links)[n]] = k
    /\ \A m \in 1 .. n : Walk(links)[m] \in Slot
    /\ \A m \in 1 .. n - 1 : hash[Walk(links)[m]] # k

\* fault: the last node's next is not closed to the sentinel
InitOpen ==
    /\ links = [prev |-> [i \in Node |-> IF i = 0 THEN CacheSize ELSE i - 1],
                next |-> [i \in Node |-> i + 1]]
    /\ hash = [i \in Node |-> NoKey]
    /\ cm = [i \in Slot |-> NoKey]
    /\ got = 0

Init ==
    /\ links = [prev |-> [i \in Node |-> IF i = 0 THEN CacheSize ELSE i - 1],
                next |-> [i \in Node |-> IF i = CacheSize THEN 0 ELSE i + 1]]
    /\ hash = [i \in Node |-> NoKey]
    /\ cm = [i \in Slot |-> NoKey]
    /\ got = 0

\* fault: a chunk found is returned where it stands
HitInPlace(k) ==
    /\ \E n \in Slot : Match(k, n) /\ got' = Walk(links)[n]
    /\ UNCHANGED <<links, hash, cm>>

Hit(k) ==
    /\ \E n \in Slot :
        /\ Match(k, n)
        /\ links' = ToFront(links, Walk(links)[n])
        /\ got' = Walk(links)[n]
    /\ UNCHANGED <<hash, cm>>

\* fault: the reused node keeps the hash of the chunk it held
MissKeepingHash(k) ==
    /\ ~\E n \in Slot : Match(k, n)
    /\ links' = ToFront(links, links.prev[0])
    /\ cm' = [cm EXCEPT ![links.prev[0]] = k]
    /\ got' = links.prev[0]
    /\ UNCHANGED hash

Miss(k) ==
    /\ ~\E n \in Slot : Match(k, n)
    /\ LET tail == links.prev[0]
       IN  /\ links' = ToFront(links, tail)
           /\ hash' = [hash EXCEPT ![tail] = k]
           /\ cm' = [cm EXCEPT ![tail] = k]
           /\ got' = tail

Purge ==
    /\ cm' = [i \in Slot |-> NoKey]
    /\ hash' = [i \in Node |-> IF i = 0 THEN hash[0] ELSE NoKey]
    /\ got' = 0
    /\ UNCHANGED links

Next ==
    \/ \E k \in Key : Hit(k) \/ Miss(k)
    \/ Purge

Spec == Init /\ [][Next]_cacheVars

-----------------------------------------------------------------------------
(***************************************************************************)
(* The links are well formed, and every node holds the chunk its hash      *)
(* says, so that a hit returns the chunk that was asked for.               *)
(***************************************************************************)
TypeOK ==
    /\ links \in Links
    /\ hash \in [Node -> Key \cup {NoKey}]
    /\ cm \in [Slot -> Key \cup {NoKey}]
    /\ got \in Node

(***************************************************************************)
(* prev and next stay each other's inverse through every detach and insert.*)
(***************************************************************************)
LinksInverse ==
    \A i \in Node : links.next[links.prev[i]] = i /\ links.prev[links.next[i]] = i

(***************************************************************************)
(* A node's manager holds the chunk its hash says, and no chunk is held    *)
(* twice: a hit returns the chunk asked for and the only copy of it.       *)
(***************************************************************************)
HashTellsContent ==
    /\ \A i \in Slot : cm[i] = hash[i]
    /\ \A i, j \in Slot : hash[i] = hash[j] /\ hash[i] # NoKey => i = j

(***************************************************************************)
(* The ring behaves as the list of most recently used keys: what is asked  *)
(* for is returned and becomes the first, what is evicted was the last.    *)
(* The nodes that hold a chunk come first in it.                           *)
(***************************************************************************)
RingKeys == [n \in Slot |-> hash[Walk(links)[n]]]

Recent == SubSeq(RingKeys, 1, Cardinality({n \in Slot : RingKeys[n] # NoKey}))

List == INSTANCE LruList WITH recent <- Recent,
                              answer <- IF got = 0 THEN NoKey ELSE cm[got],
                              Size <- CacheSize

ImplementsLru == List!Spec
=============================================================================
