# bdlauncher in TLA+

bdlauncher loads plugins ("mods") into the Minecraft bedrock server by hooking functions of its
binary. This directory holds TLA+ models of the parts of the mods that keep state which must
stay right, TLC configurations that check them on small instances, and theorems about them
checked by TLAPS. Paths below are relative to `src/`.

## 1. The system

One process runs the server and every mod; a second one, the launcher, wraps its terminal. All
handlers of a mod (commands, hooks on player actions, the tick of the level) run on the server
thread, one after another and to their end; there are no locks because there is no second thread
that touches this state. What makes the code hard all the same:

* one command makes several writes to LevelDB databases that are not transactions, and the
  process may die between any two of them (`mod/base/base.cpp:300-311`: the third Ctrl-C calls
  `exit` inside the signal handler; crashes of the hooked binary are ordinary);
* memory holds caches of what is on disk, with hand-made reference counts, an intrusive ring of
  array indices and raw pointers kept across calls;
* a game of commands by many players goes on for months, on ints;
* forms and requests are answered later, by players who may have left meanwhile.

| component | state | operations | how it meets the others |
| - | - | - | - |
| land.mod store (`mod/land/data.hpp`) | LevelDB: `l_<id>` records, chunk key -> list of ids, `land_id`; memory: `CLMan` (160 chunks, LRU), `LCMan` (lands, reference counted) | lookup, add, update, remove, iterate, repair | called by land.mod's commands and protection hooks |
| land.mod commands (`mod/land/main.cpp`) | `startpos`, `endpos` by name, `choose_state` by player | a, b, exit, buy, sell, trust, untrust, perm, give, forceperm, fix; hooks on dig, use, attack, interact, pop item | the store; `get_money`, `set_money`, `add_money` of money.mod |
| money.mod (`mod/money/main.cpp`) | LevelDB: name -> int; `INIT_MONEY` | query, set, add, reduce, pay, reload | its account functions are linked by land, chestShop, killbonus |
| tp.mod (`mod/tp/main.cpp`) | `tpmap`, `player_target`, `warp_list`, `warp`, homes, death points; LevelDB | tpa t/f/ac/de/cancel, timeout at a player's tick, warps, homes, back | forms of gui.mod |
| gui.mod (`mod/gui`) | per player the form he has open | send a form, answer it | callbacks of every mod, often a command run as the player |
| cmdhelp.mod | forms, periodic timers, heap of one-shot commands | tick, schedule, reload | runs any command |
| bear.mod | LevelDB of bans, mutes, item lists, rate limiter | ban, unban, mute, checks of packets and chat | disconnects players |
| chestShop, cdk, killbonus | JSON files, sessions by name | sell and buy slots, use a code, pay for kills | money.mod, command chains |
| preload (`preload/`) | graph of mods | order mods by their dependencies | loads every mod |
| launcher (`launcher/`) | pty, signal descriptor, child | wrap the terminal of the server | starts the process |
| base (`mod/base`) | players' network ids, hooks, databases | command registry, `PlayerMap`, LevelDB wrapper, stop | used by all |

What makes each of them correct, in a line: the store never confuses lands and always knows
whose ground a column is; deeds and money never appear from nowhere; a teleport request is
answered once, by the one it was made to; a form's answer reaches the callback that asked; what
is scheduled runs, once and when due; a ban lasts; a sale moves one thing one way; mods are
loaded after what they need; the wrapper ends when the server does.

The small mods (bossbar, custname, transfer, opti, protect, map) and DEPRECATED keep next to no
state, and `include/` is other people's headers; none of these is modelled.

## 2. Modules

| module | what it models | with |
| - | - | - |
| `LandGeometry` | columns, chunks, rectangles; the loops over them; painting a chunk; the chunk hash | constants only |
| `PartialMaps` | maps whose keys come and go | |
| `LandMap` | abstract: a set of lands that do not overlap, added, changed and removed one at a time | `LandGeometry` |
| `LandStore` | `data.hpp`: records, index, counter, both caches, handlers in steps of one database write, deaths | `LandGeometry` |
| `LandStoreProps` | its properties, and the mapping to `LandMap` | `LandStore`, `LandMap` |
| `LruList` | abstract: the last *n* keys asked for | |
| `ChunkCache` | `CLCache`: the ring of array indices itself; implements `LruList` | `LruList` |
| `LandRepair` | `CHECK_AND_FIX_ALL`, the rebuild of the land database at a start, with the version field and the handlers that write records; deaths between its writes | `PartialMaps` |
| `Accounts` | money.mod's account functions on 32-bit ints | constants only |
| `Money` | money.mod's commands and killbonus.mod's bonus, deaths between debit and credit | `Accounts` |
| `LandDeeds` | land.mod's commands for points, buying, selling, rights; money taken and paid | `LandMap`, `Accounts` |
| `Teleport` | tp.mod's requests and gui.mod's forms, late answers, timeouts, players who come and go | |
| `Menus` | cmdhelp.mod's menus in forms shared by all players, and the reload that deletes them | `PartialMaps` |
| `Scheduler` | cmdhelp.mod's heap of delayed commands and the tick that runs them | `PartialMaps` |
| `Warps` | tp.mod's warps and homes in memory and in the database | `PartialMaps` |
| `Bans` | bear.mod's bans by name and by account, over changing names | `PartialMaps` |
| `Chat` | bear.mod's limit on messages and commands, mutes | `PartialMaps` |
| `ChestShop` | chestShop.mod: sessions, offers, selections, sales, restart | `Accounts`, `PartialMaps` |
| `Codes` | cdk.mod: one-time codes and the file they are in | |
| `LoadOrder` | preload: dependencies checked, mods sorted and loaded | |
| `Launcher` | the terminal wrapper and the life of its child, base.mod's stop | |
| `MCServices`, `MCMachinery` | components that share no state side by side, for one run | nine and three of the above |
| other `MC...` | values for TLC | |
| `ListLemmas`, `AccountLemmas` | facts about sequences, finite sums and account functions that the proofs share | |
| `LandStoreProofs`, `LandMapProofs` | theorems about `LandStore`: for any number of deaths, and until the first one | `LandStoreProps` |
| `LandDeedsProofs`, `TeleportProofs` | theorems about `LandDeeds` and `Teleport` | |
| `ServicesProofs`, `MachineryProofs` | theorems about the components of `MCServices` and `MCMachinery` | `MCServices`, `MCMachinery` |

The layers fit together this way: `ChunkCache` shows that the ring behaves as a list ordered by
use; `LandStore` takes the cache as that list (`lru`) and shows that lookups, purchases, sales
and changes implement `LandMap`; `LandDeeds` uses lands as `LandMap` has them, and shows
(`KeepsToTheMap`) that it asks of the map only what the map allows.

### LandStore and data.hpp

| model | code |
| - | - |
| `rec`, `index`, `landId` | the keys `l_<id>`, the nine-byte chunk keys, `land_id` |
| `lru` | the nodes of `CLMan.pool` that hold a chunk, in the order of the ring, with the chunk's `managed_lands` |
| `fast` | `LCMan.cache`, each land with its `refcount` |
| `job` | the handler under way and its locals; `Idle` between handlers |
| `Touch`, `LruAfter`, `FastAfter` | `get_or_build`, with the eviction (`reset`) and the load (`requestLand`) |
| `Found` | `getFastLand`: the last land of the list that painted the cell |
| `Lookup` | a protection hook, `/land query`, a command that ends in an error |
| `UseFirst`, `UseSecond`, `Deref` | the two lookups and the use of both pointers in `handle_useion` |
| `Buy`, `Collide`, `ScanOn`, `TakeId`, `PutRecord`, `LinkChunk` | the column loop of `buy`; `addLand`: `getLandUniqid`, `Put`, `proc_chunk_add`, `purge_cache` |
| `Sell`, `DelRecord`, `UnlinkChunk` | `removeLand`: `Del`, `proc_chunk_del` with its one string for all chunks, `purge_cache` |
| `Update` | `updLand`: one `Put`, `purge_cache` |
| `ForcePerm`, `ForceNext`, `ForceEnd` | `iterLands` |
| `ReadMissing`, `CacheGarbage`, `status` | `requestLand` for an id whose record is gone allocates one byte and takes the memory there for a land (any of `Garbage`), writes a zero where that land's owners would end, caches and counts it, and the handler goes on; or an access kills the process (`Restart`) |
| `Anything` | what a process that wrote such a zero does afterwards, to its caches and to what it stores, also after the next start: any of `Wreckage`, a set about which nothing is assumed. `status` stays "undefined" |
| `Crash`, `Restart` | the process dies between any two writes; memory and handler are lost, the database is not (writes are not synced, which a death of the process survives) |

The last step of a handler does what the code does to its end, the purge included. A step
between two writes exists only because the process may die there: handlers do not interleave.
`Data` stands for owners and permissions, which the store only copies. A store begins after its
first start, when `CHECK_AND_FIX_ALL` has written 0 under `land_id`, so identifiers begin at 1
and the branch of `getLandUniqid` for a missing key is never taken. Coordinates are `lpos_t`:
the top bit is flipped, which keeps the order of ints, so the model's are naturals.

### ChunkCache and CLCache

`links` are `prev` and `next`, `hash` the hashes, `cm` what a node's manager has loaded; node 0
is the sentinel. `Detach` and `InsertAfter` are the assignments of `detach` and `insert_after`;
`Hit`, `Miss` and `Purge` are `get_or_build` and `purge`.

### Money, Accounts, LandDeeds

`get_money`, `set_money`, `red_money`, `add_money` are translated one to one; `Wrap` is what a
machine int keeps of a result, with `IntHalf` in place of 2^31. In `Money`, `Pay` is the debit
and `Credit` the credit of one payment; `handle_die` is killbonus.mod's, which draws from
`rand() % (max + 1 - min) + min` on ints that may wrap (`Span`, `Draws`). In `LandDeeds`,
`BuyPay`/`BuyAdd` and `SellPay`/`SellRemove` are the two halves of a purchase and of a sale in the order of the code,
one database each; `half` holds what is between. `SelectB` also makes the entry of `startpos`
which `operator[]` makes when the size is shown. A land's owners are a sequence of names: the
code's string `|a||b|`, its `addOwner` and its `delOwner` are append, prepend and removal of the
first occurrence on that sequence.

### Teleport, tp.mod and gui.mod

| model | code |
| - | - |
| `tpmap`, `player_target` | the maps of the same names; a request's `age` is the distance of `clock()` from `reqtime`, its `fid` the number of the form that told of it (not in the code) |
| `gui.open`, `gui.autoid`, `gui.fid` | `player_mp`, `autoid`, `TPGUI.fid`; a form made by `getForm` is named by its number |
| `gui.made` | forms made and not yet deleted |
| `gui.screen` | what a player's client was shown and may still answer, at any time and in any order; each once |
| `Send`, `SendNew`, `SendTPGUI` | `sendForm`, of a form just made and of the static one |
| `Answer`, `Callback` | the handler of `ModalFormResponsePacket`: compare the number, erase the entry, run the callback, `relForm` |
| `Command`, `Cancel`, `Ask`, `Conclude` | `/tpa f`, `t`, `ac`, `de`, `cancel` |
| `Pass`, `Expire`, `DieTelling` | `clock()` and the hook on a player's tick; the null player given to `sendText` when the asker has left |

Where players stand is left out, so `ac` and `de` are one. The callbacks run commands at once
(`runcmdAs`), so a form's answer and the command it runs are one action.

### LandRepair and CHECK_AND_FIX_ALL

`land_db` and `old` are the directories `land` and `land_old`, a record being its version,
how often it was shifted by 200000 blocks, and, which the code does not keep, the version of the
mod that wrote it (`by`), by which `RepairCures` tells old lands from new ones; `linked` are the lands the chunk lists name (all the
lists of one land at once), `mark` the key whose absence starts a repair. `step` is the place in
the repair or in a handler. `RemoveOld` and `Move` are the `rm -rf` and `mv` of one shell
command. `addLand` leaves `ver` uninitialized, so `Buy` takes either value.

### Services

`Warps`: `add_warp` writes record, then list; `del_warp` list, then record, and leaves the place
in memory; `SecondWrite` is the other half. `Bans`: an account comes in through two hooks
(`Authenticate`, `Join`), each of which looks up two names and notes the account at its first
time; `Ban` and `BanAccount` are the two writes of `/ac ban`, with `tie` between them, `Die` and
`DieInLookUp` deaths between any two writes; `Rename` is the world outside. `MCBans` adds a
history of whom `/ac ban` was told to ban. `Chat`: `pool` is `timeq`'s ring, the latest entry first,
with refused messages in it. `Menus`: `shown` are forms on clients' screens; an answer is for
the form last sent if the number is that form's; after `Reload` a form is no longer `live`, and
what its memory holds is any of a closed form, another menu's button or a crash
(`AnswerDeleted`). `Codes`: the file is emptied when opened and filled when written. `ChestShop`:
`inside` are the goods put in, with the price and what was paid, which the code does not keep;
`Restart` forgets every shop, since `save` writes to `data/` and `load` reads `config/`.
`LoadOrder`: `topo_indeg`, `que` and `order` are those of `topoSort`; the queue gives any of the
mods of the lowest number.

### Machinery

`Scheduler`: `top` is the heap's top, one of the latest entries; of several equal ones the heap
may have any. `Run` executes the top's command and pops: if that command has scheduled a later
one, the pop takes that one. `Launcher`: `pend` are the signals to be read, of which the lowest
number comes first; signals before `make_sig_handler` are lost; the pty holds output or not
(`full`), and a server that writes, or stops, waits for room.

Each module also defines, next to some operators, a faulty variant ("fault: ..."): what the
operator would be with a plausible mistake in that code. They are used by no specification;
with the operator replaced by the variant, TLC finds the property that `PROJECT.json` pairs
with it violated, so each property is known to notice something.

## 3. Runs

| run | checks | bounds |
| - | - | - |
| `store` | types; the held pointer; lands disjoint; lookups right; handlers end; implements `LandMap` | chunks of 16, four rectangles around a corner of four chunks (one over all four, one reaching across three, two that overlap others), six columns inside, on and beyond their edges, a cache of 2 chunks, 3 purchases, no deaths: 120 800 states |
| `store_crash` | caches coherent; counts exact; lists fit; identifiers fresh; lands keep their ground; each until a missing record is cached | chunks of 4 columns, so that a chunk fills up; a cache of 1 chunk, 5 purchases, one death at any step and any number upon reading a missing record; two lands that garbage may read as, four wrecks: 381 915 states |
| `services` | types; no money from paying; credits are backed; warps survive; lands survive the repair; the repair cures; the banned stay out; the patient are heard; needs first; loops are real; answers are from the menu shown; codes once; goods paid for | see below: 302 936 states |
| `machinery` | types, links inverse, hash tells content, implements `LruList` (`ChunkCache`); everything ends (`Launcher`); others never lost, every one-shot runs (`Scheduler`) | a ring of 4 nodes, 6 keys; 2 delayed commands at once, delays of up to 3 seconds, 3 typed; the wrapper has no bound: 19 951 states |
| `deeds` | types; no free ground; no debt; first owner decides; keeps to the map | 2 players, three points (six rectangles, one too large), one an operator, 2 purchases, lists of 2 owners, one death at any step: 545 364 states |
| `teleport` | types; forms owned; late answers harmless; requests end | 2 players, who may also ask themselves, 3 forms, overdue after 2 ticks: 34 052 states |
| `deeds_price` | **violated**: `PaysPerSquare` | a 5-bit int and a price per square that wraps |
| `deeds_crash` | **violated**: `SoldOnce` | as `deeds`, without operators |
| `sched_due` | **violated**: `DueHaveRun` | `Scheduler` alone, 2 commands |
| `shop_buy` | **violated**: `BuysWhatWasShown` | `ChestShop` alone, 2 shops |
| `chat_rate` | **violated**: `FourASecond` | `Chat` alone, the ring of 6, one player |
| `bans_evaded` | **violated**: `BanFollowsThePlayer` | `Bans` alone, 2 accounts, 3 names |

In `services` and `machinery` components that share no state stand side by side: the first
state chooses one of them, which runs alone while the others rest in an initial state. The
states of the run are the sum of those of the components, not their product, and a property of
a component means what it would mean in a run of its own; an interleaving of components without
common state could show nothing more. Their bounds: money has 2 players, a 4-bit int with typed
amounts from its lowest to its highest value, payments up to 5, bonuses with bounds in order and
reversed, 2 deaths; the repair one old land, two bought, 2 deaths, so that a repair is cut short
and begun again; warps 2 names, 2 places, lists of 2, any number of deaths; bans 2 accounts and
3 names, so that a name can be left to another, any number of deaths; chat 2 players and a ring of 3; the order 3 mods
with lists of up to 2 dependencies, among them missing, too new, doubled and circular ones;
menus 2 players, 2 menus, 3 forms, any number of reloads; codes 2 codes, 2 deaths; the shop
2 players, a chest with a slot, 2 goods, 2 prices of which one is beyond what a player has.

Why the bounds are enough. The store's cache must be smaller than the chunks a purchase looks
at, so that every scan evicts; two is the least cache in which the pointer of `handle_useion`
survives, and one is the least cache. A rectangle over a corner of four chunks has every
combination of edge and inside for painting; one across three chunks has a chunk in the middle.
Three lands are one more than ever overlap. In `store_crash` five purchases are one more than a
chunk has columns. Four nodes have a first, a last and two between, and six keys evict them
all. For `teleport` three forms are a request, a second one after it, and one between or a
late answer to either; four forms give 159 512 states and the same answers. Money's int
is small enough for every sum to wrap somewhere.

What the six violations show. (1) `siz * LAND_PRICE` is tested after it wrapped: with 5 million
squares allowed, a `buy_price` from 859 on can cost next to nothing. (2) `sell` pays before it
removes: dying in between leaves both, which is all a death gives (`NoFreeGround` in run
`deeds` allows one land's price per death). (3) The heap's top is the latest command, so one
that is due waits for all that are later; it does run in the end (`EveryOneshotRuns`). (4) After
the first shop a player has closed, `/cshop buy` buys from that one, whichever he looked at
last; he pays its price (`GoodsPaidFor`). (5) The limiter measures from a player's oldest
message in the ring: after a pause a burst of five passes. (6) `/ac ban` writes the name, then
the account: a death in between leaves a ban that a player whose account is noted under an older
name evades by a change of name. What the second write promises is `BannedStaysOut`, with deaths
anywhere.

Two more things the models do as the code does, of which no property is asked. `addOwner` does
not look whether a name is there and `delOwner` takes out one: a guest trusted twice stays a
guest after one `/land untrust`, in lists of three names or more. `cancel` leaves the entry in
`player_target`: `/tpa` refuses whoever asks that player, as if he had a request under way,
until another request of his is answered.

What the properties of `services` and `machinery` leave room for is what the code does.
`LandsSurviveRepair` excuses a repair begun again after a death between the move and the mark:
it removes `land_old`, then the only whole copy, and the lands not yet rebuilt are lost.
`CodesOnce` allows one more use of a code for each death before its use was saved, and the loss
of all while the file is empty. `EveryOneshotRuns` excuses a command that schedules a later one
each time it runs (`Endless`): the tick then never ends. `EverythingEnds` excuses a child that
ends before its signal would be noticed, and one halted by a debugger, at which `wait` blocks.
`AnswerFromMenuShown` excuses answers to forms that a reload deleted. `GoodsPaidFor` speaks of
the shops there are: a restart forgets them all, with what lies in them.

Deadlock is checked except in `services`, `machinery`, `shop_buy` and `chat_rate`, where parts
do stop: a server that has ended or could not start, a codes file left empty, a wrapper that is
done, goods or a clock at their bound.

## 4. Fairness and liveness

`LandStore`'s specification has weak fairness of `Step`, the steps of a handler under way: the
server thread runs a handler it has begun to its end, and nothing else can run meanwhile. No
fairness is assumed of players, commands or deaths. With it `HandlersEnd` says that the loops
over columns, chunks and records terminate. `Teleport` has weak fairness of `Pass` and of each player's `Expire`: the process uses CPU time,
which is what `clock()` measures, while it ticks its level, and the hook runs every 40 ticks of
every player who is there. Nothing is assumed of answers, arrivals or departures; `RequestsEnd`
therefore says: ends, or the player asked leaves.

`Launcher` has weak fairness of the wrapper's steps, a loop over `poll` that serves every
descriptor that is ready, strong fairness of `ReadChild`, since further interrupts may come first
but each is read in a turn of the same loop, and of `Stop`, since a server that shuts down writes
whenever the pty has room; none of the user, the debugger, or the server's writing. `Scheduler`
has weak fairness of the level's tick (`Second`, `Run`, `EndOfTick`), which the server calls for
as long as it runs, and none of `/sched`. The other specifications are of safety.

## 5. Theorems

Every invariant and action property of the passing runs and both refinements are also theorems,
checked by `tlapm` for every value of the constants. Some state a hypothesis: four that the
process has not died yet (`LandMapProofs`), two that prices fit (`LandDeedsProofs`), one that
the cache holds two chunks (`TwoChunksHoldThePointer`), some that players or mods are finitely
many. What remains to TLC alone is liveness, and one bound after deaths.

| module | theorems |
| - | - |
| `LandStoreProofs` | `CoveredColumnIsIndexed` (the chunks the loops of `proc_chunk_add` visit are all a lookup needs), `PaintsExact` (the bounds of `ChunkLandManager::init` paint exactly the covered columns), `ChunkHashInjective`, `AfterIsNext` (the loops skip nothing); with any number of deaths: `StoreTypes`, `RefcountsAreExact`, `CachesAreCoherent`, `IdentifiersAreFresh`, `LandsKeepTheirGround`, and, for a cache of at least two chunks, `TwoChunksHoldThePointer` |
| `LandMapProofs` | until the first death: `LandsNeverOverlap`, `LookupsAreRight`, `ListsAreShort`, and the refinement `StoreIsAMap` |
| `LandDeedsProofs` | `DeedsTypes`, `DeedsKeepToTheMap`, `FirstOwnersDecide`; for prices that fit: `LandIsWorthItsPrice`, `NobodyIsInDebt` |
| `ServicesProofs` | `MoneyTypes`, `PaymentsAreBacked`, `NobodyMakesMoney`, `DependenciesFirst`, `LoopsAreThere`, `CodesAreUsedOnce`, `AnswersAreFromMenuShown`, `BansAreKept`, `ShopsArePaid`, `BoughtLandsSurvive`, `RepairDoesItsWork`, `WarpsOutliveDeaths`, `PatientAreHeard`, `ServicesTypes` |
| `TeleportProofs` | `FormsAreOwned`, `LateAnswersAreHarmless`, `TeleportTypes` |
| `MachineryProofs` | `CacheTypes`, `LinksStayInverse`, `HashNamesContent`, the refinement `CacheIsLru`, `NobodyElseIsLost` |

What they assume of the constants is in the modules' `ASSUME`s, which TLC evaluates in every
run: a chunk has columns, the cache and the limiter's ring have a place, rectangles and columns
lie in the plane, amounts are ints, a land has room for an owner, the lands of the older version
are the first identifiers, lists of dependencies are lists of names and versions, times of mutes
are ints, a delay is at least a second and there are finitely many commands to
delay. In `ServicesProofs` and `MachineryProofs` a theorem is about the specification of a
component that is extended (`Money`, `LoadOrder`), or about that of the run, in which one
component moves and the others rest.

**The store, deaths included.** None of the properties is inductive by itself: counts are exact
only because what is cached of a land is well typed and every listed land is cached; caches are
coherent at the end of a handler only because the purge empties them, which frees every land
only if the counts are exact; identifiers are fresh only if those in jobs and in the string that
`proc_chunk_del` carries along are too. The inductive invariant is therefore

    StoreInv == Types /\ Counted(lru, fast) /\ (~Writing => Coherent(lru, fast)) /\ IdsIssued
    SaneInv  == status and crashes are of their types /\ (status = "running" => StoreInv)

A lookup that meets a missing record either ends the process, and the restart has `StoreInv`
(`ReadMissingStep`), or makes `status` "undefined", which stays (`InsaneStep`) and of which the
properties say nothing. `Counted` and `Coherent` are written as operators of the two caches, so that one lemma about a
lookup (`TouchCounted`, `TouchCoherent`) serves the nine actions that look, whatever else they
change. The references to a land from a list of chunks split when the list is cut
(`HeldConcat`), moving a chunk to the front permutes them (`HeldToFront`), and releasing
everything leaves nothing (`PurgeFreesAll`). For the pointer, `Pinned` says that between the two
lookups the first chunk is at the front of the cache; a cache of one evicts it, which is why the
theorem has its hypothesis.

**The store until the first death.** A death in a purchase or a sale leaves an index that names
too few chunks or a record that is gone, so exact lookups are promised before it only:

    MapInv == SaneInv /\ (crashes = 0 => MapSound)
    MapSound == status = "running" /\ IndexExact /\ LandsDisjoint /\ JobSound

`IndexExact` says that the list of a chunk names, once each, exactly the lands that touch it,
but for the one land being linked (named by the chunks the loop has passed) or unlinked (by
those it has not). `JobSound` is what the loops know: the columns scanned so far are free; after
the last one the whole rectangle is (`OverlapHasColumn`: rectangles that overlap share a
column), and stays so until the record is written. `LookupTells` derives from `IndexExact` and
`PaintsExact` that a lookup finds the land that covers the column, or none. `ListsAreShort` is
then a counting argument: the lands a chunk lists do not overlap, and each covers one of its
columns (`TouchedChunkHasColumn`), so naming such a column is an injection into the chunk's
columns (`RoomInChunk`). For the refinement a land is shown (`VisibleLands`) when the last chunk
lists it, and until the last chunk no longer does; every other step shows nothing.

**Deeds.** `DeedsInv` adds to the types that ground paid for and not yet added is free
(`PaidGroundIsFree`), which makes every step one of `LandMap` or none. For wealth, the sum over
all players' balances and the prices of all lands, two hypotheses say what the code does not
test. `PricesFit`: the price of the largest land fits an int, and selling pays no more than
buying costs; with 32-bit ints and areas below 5 000 000 this is a price per square up to 429,
and run `deeds_price` shows what happens outside it. The invariant `WealthInv` adds
`NoneTooBig`, since only ground whose size was tested is ever sold. `MoneyFits`: what the
players begin with and one largest price for each death is less than the largest int. A balance
is then at most the wealth of all, so no sale overflows the balance it pays into, and nobody
who does not owe comes to owe. Both hypotheses are true in run `deeds`.

**Money.** `WrapFits` and `WrapOver` say what an int keeps of a sum, and a credit is compared
with the debit before it (`PayDebits`, `CreditPays`). `NobodyMakesMoney` adds this up over any
finite set of players; the sums are the community modules' folds, whose laws (`SumSplit`,
`SumUpdate`, `SumAtLeast`, ...) `ListLemmas` proves from the definition, by a counting induction
that first shows the recursive function behind the fold to exist and to be unique.

**Loading order.** The invariant is the one behind every topological sort by counting:
`topo_indeg` of a mod is the number of its entries that name a mod not yet placed (entries, not
mods: a name given twice counts twice and is taken off twice), and the queue is the mods not
placed whose number is 0. What is placed comes after what it needs; when the queue is empty and
mods are left, each of them waits for another of them, which is the loop.

**The repair.** `CopyInv` ties the two directories together at each place of the repair: while
it copies, the old directory has what is written and what is to be, and everything written has
its version; `WantedInv` says which of the two has the lands bought, as long as no repair that
was cut short was begun again. **Warps.** `ListedInv`: whatever is in the list in memory or on
disk has its record, and the lists differ only between the two writes. **Bans.** `BansInv`: an
account that was banned, by both writes, is known under the name it was banned by, and so is the
one about to be. **Shops.** `Honest`, slot by slot: what
is priced is there, and what is there is on offer by the one who put it there or paid for;
`SessionsInv`: what sessions refer to are shops. **Codes.** `CodesInv` counts the uses of a code
at each place of the handler; **menus:** a number on a screen is that of the form last sent with
it. **Chat.** Entries of one player that are a distance apart in the ring are as many distances
apart as there are between them (`ApartFromFirst`), so the oldest is never too recent.

**Types of the services.** `AllInv` conjoins what the types of the nine components need: for bans
that a time in force is a moment of the clock plus a time typed (`Untils`), for the limiter the
length of its ring, for the sort that numbers stay natural (a step of `LoadOrder` takes off no
more than was counted), for menus that forms on screens were sent. `ServicesTypes` has a part
for each component.

**Forms.** `OwnedBut(g, f)` says that every form is owned while a handler holds `f` besides
those that are open, so that one lemma for each function of gui.mod (`SendNewOwned`,
`EraseOwned`, `DeleteOwned`) follows a callback through the handler. Late answers are harmless
because of `Current`: a request's form that is open told of the request that waits, since every
new request sends a form that takes the place of the old one. For the types, callbacks that run
commands at once are followed by the same functions (`TypesInv`).

**The ring.** `CacheInv` adds to the inverse links that `cm` and `hash` agree, that no chunk is
in two nodes, and that the ring has an order: a walk along `next` from the sentinel that meets
every node once, the ones that hold a chunk first (`Filled`). `DetachLinks` and `ToFrontLinks`
follow the four writes on any ring; on the walk they are the removal and the prepending of the
abstract list, so `Hit` and `Miss` are `LruList`'s `Ask` and a purge its `Forget`. **The heap.**
`HeapInv`: places tell commands apart, and the top is in the heap.

Only model-checked: `HandlersEnd`, `RequestsEnd`, `EverythingEnds` and `EveryOneshotRuns`,
liveness being out of the prover's reach; `ListsFit` after deaths, where the lists need not be
exact and an inductive bound is not known; what `LandsDisjoint`, `LookupRight` and
`ImplementsMap` say is not true after a death, and is neither checked nor proved there.

## 6. What is not modelled, and the plan

Left out within the modelled parts: what an owner may do beyond being found by a lookup
(`hasPerm` is one comparison), texts, the width of owner lists (a buffer of 1024 characters),
float positions, line editing and logging of the wrapper, the order of equal keys in a hash map.

Not modelled, and why:

* bear.mod's checks of items, containers and digging: each looks at one packet and keeps nothing
  but the digging limiter, which is `Chat`'s ring with other numbers; and its reload, which clears
  the list of banned words, destroying strings that are then assigned to: memory of a container;
* cmdhelp.mod's periodic timers (a test of the tick number), its join message and `/runas`;
* tp.mod's `/back`, `/suicide` and reload: at most one value per player, written and read by
  one handler each;
* `command.h`, `hook.cpp`, the ELF reading of preload and most of base: glue to another
  program's binary, whose promises are not in this repository;
* bossbar, custname, transfer, opti, protect, map: packets, names and switches;
* DEPRECATED: not built; `include/`: declarations of the server's classes and other people's
  libraries, the bulk of the repository's lines.

Next: what `LookupsAreRight` leaves after a death, that a purchase cut short is either invisible
or covers the chunks linked so far; the bound of a chunk's list across deaths; and the types of
the launcher's signals, on which `EverythingEnds` rests.
