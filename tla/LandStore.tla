----------------------------- MODULE LandStore ------------------------------
(***************************************************************************)
(* The store of land.mod, mod/land/data.hpp: the LevelDB records and the   *)
(* chunk index on disk, the least-recently-used cache of chunks (CLCache)  *)
(* and the reference-counted cache of lands (LCMan) in memory, and the     *)
(* handlers that read and write them.                                      *)
(*                                                                         *)
(* Handlers run to their end one after another on the server thread, but a *)
(* handler makes several database writes, and the process may die between  *)
(* any two of them (the third Ctrl-C calls exit inside the signal handler, *)
(* base.cpp:300-311): a handler is a job whose steps are its writes.       *)
(* Writes are not synced, which a death of the process does not lose.      *)
(***************************************************************************)
EXTENDS LandGeometry, SequencesExt

CONSTANTS
    Rects,      \* the rectangles players select
    Data,       \* what a record says besides its place: owners and permissions
    Probes,     \* the columns players stand on, dig and build at
    CacheSize,  \* CACHE_SZ, chunks the cache holds: 160
    Garbage,    \* what a land may read as that lies in memory nobody wrote
    Wreckage,   \* what a process may make of the store once it has read such a land
    MaxLands,   \* bound: lands ever bought
    MaxCrashes  \* bound: deaths of the process

ASSUME StoreAssumption ==
    /\ Rects \subseteq Rectangle
    /\ Probes \subseteq Column
    /\ CacheSize \in Nat \ {0}
    /\ MaxLands \in Nat /\ MaxCrashes \in Nat

NoLid == -1     \* a null FastLand pointer

VARIABLES
    rec,        \* "l_" + identifier -> record, for the keys in the database
    index,      \* chunk key -> list of identifiers, for the keys in the database
    landId,     \* the value under "land_id": the last identifier handed out
    lru,        \* cached chunks, most recently used first: key and managed_lands
    fast,       \* LCMan.cache: identifier -> copy of the record and reference count
    job,        \* the handler in progress
    status,     \* "running", or "undefined" once a missing record was cached
    crashes

disk == <<rec, index, landId>>
memory == <<lru, fast>>
storeVars == <<rec, index, landId, lru, fast, job, status, crashes>>

Land == [rect : Rects, data : Data]

Put(f, k, v) == [x \in DOMAIN f \cup {k} |-> IF x = k THEN v ELSE f[x]]

Del(f, k) == [x \in DOMAIN f \ {k} |-> f[x]]

Listed(k) == IF k \in DOMAIN index THEN index[k] ELSE <<>>

(***************************************************************************)
(* Jobs.  op says which step comes next; the other fields are the locals   *)
(* of the handler.                                                         *)
(***************************************************************************)
Idle == [op |-> "idle"]

(***************************************************************************)
(* The two caches.  References are the places of the managed lists of some *)
(* cached chunks that name a land; Release is ChunkLandManager::reset of   *)
(* those chunks (noticeFree for each list entry), Request is requestLand   *)
(* for a list.                                                             *)
(***************************************************************************)
References(slots, l) ==
    UNION {{<<i, j>> : j \in {n \in DOMAIN slots[i].lids : slots[i].lids[n] = l}} :
               i \in DOMAIN slots}

Held(slots, l) == Cardinality(References(slots, l))

\* fault: a land whose count reaches zero is not erased
ReleaseKeepingFreed(f, slots) == [l \in DOMAIN f |-> [f[l] EXCEPT !.ref = f[l].ref - Held(slots, l)]]

Release(f, slots) ==
    [l \in {m \in DOMAIN f : f[m].ref > Held(slots, m)} |->
        [f[l] EXCEPT !.ref = f[l].ref - Held(slots, l)]]

RequestFrom(records, f, slot) ==
    [l \in DOMAIN f \cup ToSet(slot.lids) |->
        IF l \in DOMAIN f THEN [f[l] EXCEPT !.ref = f[l].ref + Held(<<slot>>, l)]
        ELSE [land |-> records[l], ref |-> Held(<<slot>>, l)]]

Request(f, slot) == RequestFrom(rec, f, slot)

(***************************************************************************)
(* CLCache::get_or_build: a cached chunk moves to the front; otherwise the *)
(* tail is reset, moved to the front and loaded from the index.            *)
(***************************************************************************)
Cached(k) == \E i \in DOMAIN lru : lru[i].chunk = k

SlotOf(k) == CHOOSE i \in DOMAIN lru : lru[i].chunk = k

\* faults: the tail is loaded again without a reset; the head is taken instead of the tail
VictimsNotReset == <<>>

SurvivorsOfHead == IF Len(lru) = CacheSize THEN Tail(lru) ELSE lru

Victims == IF Len(lru) = CacheSize THEN <<Last(lru)>> ELSE <<>>

Survivors == IF Len(lru) = CacheSize THEN Front(lru) ELSE lru

Loaded(k) == [chunk |-> k, lids |-> Listed(k)]

LruAfter(k) ==
    IF Cached(k) THEN <<lru[SlotOf(k)]>> \o RemoveAt(lru, SlotOf(k))
    ELSE <<Loaded(k)>> \o Survivors

FastAfter(k) ==
    IF Cached(k) THEN fast
    ELSE Request(Release(fast, Victims), Loaded(k))

\* every identifier the load would look up is in memory or in the database
Loadable(k) ==
    Cached(k) \/ ToSet(Listed(k)) \subseteq DOMAIN Release(fast, Victims) \cup DOMAIN rec

(***************************************************************************)
(* getFastLand: the last land of the chunk's list that painted the cell.   *)
(***************************************************************************)
Painters(slot, f, c) ==
    {j \in DOMAIN slot.lids : Paints(f[slot.lids[j]].land.rect, slot.chunk, c)}

CellOf(slot, f, c) ==
    IF Painters(slot, f, c) = {} THEN NoLid
    ELSE slot.lids[CHOOSE j \in Painters(slot, f, c) :
                      \A i \in Painters(slot, f, c) : i <= j]

Found(c) == CellOf(LruAfter(ChunkOf(c))[1], FastAfter(ChunkOf(c)), c)

Touch(c) ==
    /\ Loadable(ChunkOf(c))
    /\ lru' = LruAfter(ChunkOf(c))
    /\ fast' = FastAfter(ChunkOf(c))
    /\ UNCHANGED <<status, crashes>>

\* purge_cache: every chunk is reset, which releases every land it managed
Purge == lru' = <<>> /\ fast' = Release(fast, lru)

-----------------------------------------------------------------------------
\* a store after its first start, when CHECK_AND_FIX_ALL wrote 0 under "land_id"
Init ==
    /\ rec = <<>> /\ index = <<>> /\ landId = 0
    /\ lru = <<>> /\ fast = <<>>
    /\ job = Idle /\ status = "running" /\ crashes = 0

Start(c) == status = "running" /\ job = Idle /\ Touch(c)

(***************************************************************************)
(* A handler that only looks: breaking a block, attacking, interacting,    *)
(* popping an item, /land query, and every land command that ends in an    *)
(* error.                                                                  *)
(***************************************************************************)
Lookup(c) == Start(c) /\ UNCHANGED <<disk, job>>

(***************************************************************************)
(* handle_useion holds two FastLand pointers: the second getFastLand runs  *)
(* before the first pointer is used.                                       *)
(***************************************************************************)
UseFirst(c) ==
    /\ Start(c)
    /\ job' = [op |-> "use", lid |-> Found(c), chunk |-> ChunkOf(c)]
    /\ UNCHANGED disk

UseSecond(c) ==
    /\ job.op = "use"
    /\ Touch(c)
    /\ job' = [job EXCEPT !.op = "deref"]
    /\ UNCHANGED disk

Deref ==
    /\ job.op = "deref"
    /\ job' = Idle
    /\ UNCHANGED <<disk, memory, status, crashes>>

(***************************************************************************)
(* /land buy: look at every column of the rectangle, take an identifier,   *)
(* write the record, append the identifier to the list of every chunk the  *)
(* rectangle touches, purge.                                               *)
(***************************************************************************)
Buy(r, d) ==
    /\ status = "running" /\ job = Idle
    /\ landId < MaxLands
    /\ job' = [op |-> "scan", land |-> [rect |-> r, data |-> d], at |-> First(r)]
    /\ UNCHANGED <<disk, memory, status, crashes>>

Collide ==
    /\ job.op = "scan"
    /\ Touch(job.at)
    /\ Found(job.at) # NoLid
    /\ job' = Idle
    /\ UNCHANGED disk

\* fault: a column that has a land does not stop the purchase
ScanOnRegardless ==
    /\ job.op = "scan"
    /\ Touch(job.at)
    /\ job' = IF AtEnd(job.land.rect, job.at) THEN [job EXCEPT !.op = "id"]
              ELSE [job EXCEPT !.at = After(job.land.rect, job.at)]
    /\ UNCHANGED disk

ScanOn ==
    /\ job.op = "scan"
    /\ Touch(job.at)
    /\ Found(job.at) = NoLid
    /\ job' = IF AtEnd(job.land.rect, job.at) THEN [job EXCEPT !.op = "id"]
              ELSE [job EXCEPT !.at = After(job.land.rect, job.at)]
    /\ UNCHANGED disk

\* faults: the stored counter is handed out without being advanced; it is advanced, not stored
TakeIdAgain ==
    /\ job.op = "id"
    /\ job' = [op |-> "put", land |-> job.land, lid |-> landId]
    /\ UNCHANGED <<disk, memory, status, crashes>>

TakeIdUnsaved ==
    /\ job.op = "id"
    /\ job' = [op |-> "put", land |-> job.land, lid |-> landId + 1]
    /\ UNCHANGED <<disk, memory, status, crashes>>

TakeId ==
    /\ job.op = "id"
    /\ landId' = landId + 1
    /\ job' = [op |-> "put", land |-> job.land, lid |-> landId + 1]
    /\ UNCHANGED <<rec, index, memory, status, crashes>>

PutRecord ==
    /\ job.op = "put"
    /\ rec' = Put(rec, job.lid, job.land)
    /\ job' = [op |-> "link", land |-> job.land, lid |-> job.lid,
               at |-> First(ChunkSpan(job.land.rect))]
    /\ UNCHANGED <<index, landId, memory, status, crashes>>

LinkChunk ==
    /\ job.op = "link"
    /\ index' = Put(index, job.at, Append(Listed(job.at), job.lid))
    /\ IF AtEnd(ChunkSpan(job.land.rect), job.at)
       THEN job' = Idle /\ Purge
       ELSE /\ job' = [job EXCEPT !.at = After(ChunkSpan(job.land.rect), job.at)]
            /\ UNCHANGED memory
    /\ UNCHANGED <<rec, landId, status, crashes>>

(***************************************************************************)
(* /land trust, untrust, perm and give: a copy of the cached land is       *)
(* changed and put back.                                                   *)
(***************************************************************************)
Update(c, d) ==
    /\ status = "running" /\ job = Idle
    /\ Loadable(ChunkOf(c)) /\ Found(c) # NoLid
    /\ rec' = Put(rec, Found(c), [FastAfter(ChunkOf(c))[Found(c)].land EXCEPT !.data = d])
    /\ lru' = <<>>
    /\ fast' = Release(FastAfter(ChunkOf(c)), LruAfter(ChunkOf(c)))
    /\ UNCHANGED <<index, landId, job, status, crashes>>

(***************************************************************************)
(* /land sell: delete the record, then take the identifier off the list of *)
(* every chunk.  The list is read into one string for all chunks, and Get  *)
(* leaves the string alone when the key is missing, so for such a chunk    *)
(* the list left of the chunk before is stored.                            *)
(***************************************************************************)
Sell(c) ==
    /\ Start(c)
    /\ Found(c) # NoLid
    /\ job' = [op |-> "del", lid |-> Found(c),
               land |-> FastAfter(ChunkOf(c))[Found(c)].land]
    /\ UNCHANGED disk

DelRecord ==
    /\ job.op = "del"
    /\ rec' = Del(rec, job.lid)
    /\ job' = [op |-> "unlink", land |-> job.land, lid |-> job.lid,
               at |-> First(ChunkSpan(job.land.rect)), val |-> <<>>]
    /\ UNCHANGED <<index, landId, memory, status, crashes>>

UnlinkedList ==
    RemoveFirst(IF job.at \in DOMAIN index THEN index[job.at] ELSE job.val, job.lid)

\* fault: no purge when the last chunk is written
UnlinkWithoutPurge ==
    /\ job.op = "unlink"
    /\ index' = Put(index, job.at, UnlinkedList)
    /\ job' = IF AtEnd(ChunkSpan(job.land.rect), job.at) THEN Idle
              ELSE [job EXCEPT !.at = After(ChunkSpan(job.land.rect), job.at),
                               !.val = UnlinkedList]
    /\ UNCHANGED <<rec, landId, memory, status, crashes>>

UnlinkChunk ==
    /\ job.op = "unlink"
    /\ index' = Put(index, job.at, UnlinkedList)
    /\ IF AtEnd(ChunkSpan(job.land.rect), job.at)
       THEN job' = Idle /\ Purge
       ELSE /\ job' = [job EXCEPT !.at = After(ChunkSpan(job.land.rect), job.at),
                                  !.val = UnlinkedList]
            /\ UNCHANGED memory
    /\ UNCHANGED <<rec, landId, status, crashes>>

(***************************************************************************)
(* /land_op forceperm: every record is read, changed and put back in the   *)
(* order of the keys, then the cache is purged.                            *)
(***************************************************************************)
ForcePerm(d) ==
    /\ status = "running" /\ job = Idle
    /\ job' = [op |-> "force", data |-> d, lid |-> NoLid]
    /\ UNCHANGED <<disk, memory, status, crashes>>

ForceNext ==
    /\ job.op = "force"
    /\ \E l \in DOMAIN rec :
        /\ l > job.lid
        /\ \A m \in DOMAIN rec : m > job.lid => l <= m
        /\ rec' = [rec EXCEPT ![l].data = job.data]
        /\ job' = [job EXCEPT !.lid = l]
    /\ UNCHANGED <<index, landId, memory, status, crashes>>

ForceEnd ==
    /\ job.op = "force"
    /\ \A l \in DOMAIN rec : l <= job.lid
    /\ Purge
    /\ job' = Idle
    /\ UNCHANGED <<disk, status, crashes>>

(***************************************************************************)
(* The process dies and is started again: memory and the handler are lost. *)
(***************************************************************************)
Restart ==
    /\ lru' = <<>> /\ fast' = <<>> /\ job' = Idle /\ status' = "running"
    /\ UNCHANGED disk

Crash ==
    /\ status = "running"
    /\ crashes < MaxCrashes /\ crashes' = crashes + 1
    /\ Restart

(***************************************************************************)
(* Loading a chunk whose list names a land without a record.  Get leaves   *)
(* the string empty; requestLand allocates one byte, takes what lies there *)
(* for a land, writes a zero where its owners would end, caches it, counts *)
(* it, and the handler goes on: it paints the columns the land seems to    *)
(* have.  Garbled is what requestLand reads, by record or by chance.       *)
(* Either an access kills the process, or it goes on, and then the zero    *)
(* lies somewhere in its memory and Anything may come of what it does, to  *)
(* what it keeps there and to what it writes.                              *)
(***************************************************************************)
Garbled(g) == [l \in DOMAIN rec \cup DOMAIN g |-> IF l \in DOMAIN rec THEN rec[l] ELSE g[l]]

CacheGarbage(k) ==
    /\ lru' = LruAfter(k)
    /\ \E g \in [ToSet(Listed(k)) \ DOMAIN rec -> Garbage] :
          fast' = RequestFrom(Garbled(g), Release(fast, Victims), Loaded(k))
    /\ status' = "undefined"
    /\ UNCHANGED <<disk, job>>

ReadMissing(c) ==
    /\ status = "running"
    /\ \/ job = Idle
       \/ job.op = "use"
       \/ job.op = "scan" /\ c = job.at
    /\ ~Loadable(ChunkOf(c))
    /\ Restart \/ CacheGarbage(ChunkOf(c))
    /\ UNCHANGED crashes

Anything ==
    /\ status = "undefined"
    /\ \E w \in Wreckage :
          /\ rec' = w.rec /\ index' = w.index /\ landId' = w.landId
          /\ lru' = w.lru /\ fast' = w.fast /\ job' = w.job
    /\ UNCHANGED <<status, crashes>>

\* the steps of a handler under way
Step ==
    /\ status = "running"
    /\ \/ \E c \in Probes : UseSecond(c)
       \/ Deref
       \/ Collide \/ ScanOn \/ TakeId \/ PutRecord \/ LinkChunk
       \/ DelRecord \/ UnlinkChunk
       \/ ForceNext \/ ForceEnd

Next ==
    \/ Step
    \/ \E c \in Probes : Lookup(c) \/ UseFirst(c) \/ Sell(c)
    \/ \E c \in Probes, d \in Data : Update(c, d)
    \/ \E r \in Rects, d \in Data : Buy(r, d)
    \/ \E d \in Data : ForcePerm(d)
    \/ \E c \in Probes \cup UNION {{[x |-> x, z |-> z, dim |-> r.dim] :
                                      x \in r.x .. r.dx, z \in r.z .. r.dz} : r \in Rects} :
          ReadMissing(c)
    \/ Crash \/ Anything

\* the server thread runs a handler it has begun to the end
Fairness == WF_storeVars(Step)

Spec == Init /\ [][Next]_storeVars /\ Fairness
=============================================================================
