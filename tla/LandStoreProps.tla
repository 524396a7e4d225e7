--------------------------- MODULE LandStoreProps ---------------------------
(***************************************************************************)
(* What the land store must get right.                                     *)
(***************************************************************************)
EXTENDS LandStore

(***************************************************************************)
(* Types, of a process that has cached no garbage.  A job's fields are     *)
(* those of its kind.                                                      *)
(***************************************************************************)
Lids == 0 .. MaxLands

Jobs ==
    {Idle}
    \cup [op : {"use", "deref"}, lid : Lids \cup {NoLid}, chunk : ChunkKey]
    \cup [op : {"scan", "id"}, land : Land, at : Column]
    \cup [op : {"put", "del"}, land : Land, lid : Lids]
    \cup [op : {"link"}, land : Land, lid : Lids, at : ChunkKey]
    \cup [op : {"unlink"}, land : Land, lid : Lids, at : ChunkKey, val : Seq(Lids)]
    \cup [op : {"force"}, data : Data, lid : Lids \cup {NoLid}]

Types ==
    /\ DOMAIN rec \subseteq Lids
    /\ rec \in [DOMAIN rec -> Land]
    /\ DOMAIN index \subseteq ChunkKey
    /\ index \in [DOMAIN index -> Seq(Lids)]
    /\ landId \in Lids
    /\ lru \in Seq([chunk : ChunkKey, lids : Seq(Lids)])
    /\ DOMAIN fast \subseteq Lids
    /\ fast \in [DOMAIN fast -> [land : Land, ref : Nat \ {0}]]
    /\ job \in Jobs
    /\ status \in {"running", "undefined"}
    /\ crashes \in 0 .. MaxCrashes

Sane == status = "running"

TypeOK ==
    /\ status \in {"running", "undefined"}
    /\ crashes \in 0 .. MaxCrashes
    /\ Sane => Types

(***************************************************************************)
(* A handler between its first write and its purge.                        *)
(***************************************************************************)
Writing == job.op \in {"link", "unlink", "force"}

(***************************************************************************)
(* Outside a handler that writes, what is cached is what is stored: every  *)
(* cached chunk manages the list the index has for it, every cached land   *)
(* is its record.  Every permission check and every change reads the       *)
(* caches, and the caches are kept right only by purging them.  Of a       *)
(* process that has cached a missing land nothing is said.                 *)
(***************************************************************************)
CacheCoherent ==
    Sane /\ ~Writing =>
        /\ \A i \in DOMAIN lru : lru[i].lids = Listed(lru[i].chunk)
        /\ \A l \in DOMAIN fast : l \in DOMAIN rec /\ fast[l].land = rec[l]

(***************************************************************************)
(* A cached land is referenced exactly as often as cached chunks list it,  *)
(* and every land they list is cached: none is freed while a chunk points  *)
(* to it, none outlives the last chunk that did.                           *)
(***************************************************************************)
RefcountExact ==
    Sane =>
        /\ \A i \in DOMAIN lru : ToSet(lru[i].lids) \subseteq DOMAIN fast
        /\ \A l \in DOMAIN fast : fast[l].ref = Held(lru, l)

(***************************************************************************)
(* managed_lands has room for 256 lands, one for each column of a chunk,   *)
(* and ChunkLandManager::load does not check: no list is ever longer.      *)
(***************************************************************************)
ListsFit == Sane => \A k \in DOMAIN index : Len(index[k]) <= ChunkSize * ChunkSize

(***************************************************************************)
(* When handle_useion looks at its first land, the second lookup has not   *)
(* evicted the chunk whose list kept that land alive.                      *)
(***************************************************************************)
HeldPointerAlive ==
    Sane /\ job.op = "deref" /\ job.lid # NoLid =>
        \E i \in DOMAIN lru : lru[i].chunk = job.chunk /\ job.lid \in ToSet(lru[i].lids)

(***************************************************************************)
(* Two lands never share a column.                                         *)
(***************************************************************************)
LandsDisjoint ==
    \A l, m \in DOMAIN rec : l # m => Disjoint(rec[l].rect, rec[m].rect)

(***************************************************************************)
(* getFastLand tells the truth: between handlers, for every column, it     *)
(* finds the stored land that covers the column, and none when none does.  *)
(***************************************************************************)
LookupRight ==
    Sane /\ job = Idle =>
        \A c \in Probes :
            /\ Loadable(ChunkOf(c))
            /\ \A l \in DOMAIN rec : Covers(rec[l].rect, c) <=> Found(c) = l
            /\ Found(c) \in DOMAIN rec \cup {NoLid}

(***************************************************************************)
(* No identifier beyond the stored counter is in use: the next purchase    *)
(* cannot write over a land, whatever died before.                         *)
(***************************************************************************)
NoIdentifierAhead ==
    Sane =>
        /\ \A l \in DOMAIN rec : l <= landId
        /\ \A k \in DOMAIN index : \A l \in ToSet(index[k]) : l <= landId
        /\ job.op = "put" => job.lid \notin DOMAIN rec

(***************************************************************************)
(* A record keeps the ground it was bought for.                            *)
(***************************************************************************)
LandsStayPut ==
    [][Sane => \A l \in DOMAIN rec \cap DOMAIN rec' : rec'[l].rect = rec[l].rect]_storeVars

(***************************************************************************)
(* Every handler ends: its loops over columns, chunks and records reach    *)
(* their last iteration.                                                   *)
(***************************************************************************)
HandlersEnd == (job # Idle) ~> (job = Idle)

(***************************************************************************)
(* Without crashes the store is a map of lands that do not overlap.  A     *)
(* land comes when the last chunk lists it, and goes when the last chunk   *)
(* no longer does: until then no handler can look.                         *)
(***************************************************************************)
VisibleLands ==
    CASE job.op = "link"   -> Del(rec, job.lid)
      [] job.op = "unlink" -> Put(rec, job.lid, job.land)
      [] OTHER             -> rec

HandedOut == IF job.op \in {"put", "link"} THEN 1 .. landId - 1 ELSE 1 .. landId

Map == INSTANCE LandMap WITH lands <- VisibleLands, issued <- HandedOut

ImplementsMap == Map!Spec
=============================================================================
