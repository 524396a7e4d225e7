----------------------------- MODULE LandRepair -----------------------------
(***************************************************************************)
(* The repair of the land database at the start of the server              *)
(* (mod/land/data.hpp:391-436, main.cpp:327-330, 470-480): the lands are   *)
(* read into memory, the database directory replaces land_old, and a new   *)
(* one is written, land by land.  It runs when the mark is missing: the    *)
(* first time, after /land_op fix, and after a death in the repair.        *)
(* Lands are bought, changed and sold by several writes in between.        *)
(***************************************************************************)
EXTENDS Naturals, FiniteSets, PartialMaps

CONSTANTS
    OldLands,   \* lands kept from an older version: those with the first identifiers
    MaxId,      \* bound: the largest identifier
    MaxDeaths   \* bound: deaths of the process

Lid == 0 .. MaxId

Legacy == 0 .. OldLands - 1

VARIABLES
    land_db,    \* the directory land: rec, linked (lands the chunk lists name), land_id, mark
    old,        \* the records of the directory land_old
    lands,      \* what the repair has read and not yet written
    next_id,    \* the counter it has read
    step,       \* what is to be done next; "up" when the server runs
    arg,        \* the land a handler is at
    deaths,
    wanted,     \* lands bought and not sold
    cut         \* none; cut: a repair was cut short after the move; repeated: and begun again

repairVars == <<land_db, old, lands, next_id, step, arg, deaths, wanted, cut>>

\* the version that wrote it, ver, and how often it was shifted by 200000 blocks
Record == [by : {"older", "this"}, ver : {0, 1}, moved : 0 .. 1]

NoDb == [rec |-> <<>>, linked |-> {}, land_id |-> {}, mark |-> FALSE]

Init ==
    /\ land_db = [NoDb EXCEPT !.rec = [l \in Legacy |-> [by |-> "older", ver |-> 0, moved |-> 0]],
                         !.linked = Legacy, !.land_id = {OldLands - 1}]
    /\ old = <<>> /\ lands = <<>> /\ next_id = {} /\ step = "down" /\ arg = 0
    /\ deaths = 0 /\ wanted = Legacy /\ cut = "none"

-----------------------------------------------------------------------------
(***************************************************************************)
(* mod_init and CHECK_AND_FIX_ALL.                                         *)
(***************************************************************************)
Start ==
    /\ step = "down"
    /\ \/ land_db.mark /\ step' = "up" /\ UNCHANGED <<lands, next_id>>
       \/ ~land_db.mark /\ step' = "rm" /\ lands' = land_db.rec /\ next_id' = land_db.land_id
    /\ UNCHANGED <<land_db, old, arg, deaths, wanted, cut>>

RemoveOld ==
    /\ step = "rm" /\ old' = <<>> /\ step' = "mv"
    /\ cut' = IF cut = "cut" THEN "repeated" ELSE cut
    /\ UNCHANGED <<land_db, lands, next_id, arg, deaths, wanted>>

\* fault: the directory is removed after the move
MoveAndRemove ==
    /\ step = "mv" /\ old' = <<>> /\ land_db' = NoDb /\ step' = "counter"
    /\ UNCHANGED <<lands, next_id, arg, deaths, wanted, cut>>

Move ==
    /\ step = "mv" /\ old' = land_db.rec /\ land_db' = NoDb /\ step' = "counter"
    /\ UNCHANGED <<lands, next_id, arg, deaths, wanted, cut>>

PutCounter ==
    /\ step = "counter"
    /\ land_db' = [land_db EXCEPT !.land_id = IF next_id = {} THEN {0} ELSE next_id]
    /\ step' = "write"
    /\ UNCHANGED <<old, lands, next_id, arg, deaths, wanted, cut>>

\* fault: a land that is shifted keeps its version
UpgradedAgain(r) == IF r.ver = 0 THEN [r EXCEPT !.moved = 1] ELSE r

Upgraded(r) == IF r.ver = 0 THEN [r EXCEPT !.ver = 1, !.moved = @ + 1] ELSE r

WriteRecord(l) ==
    /\ step = "write" /\ l \in DOMAIN lands
    /\ land_db' = [land_db EXCEPT !.rec = Put(@, l, Upgraded(lands[l]))]
    /\ arg' = l /\ step' = "link"
    /\ UNCHANGED <<old, lands, next_id, deaths, wanted, cut>>

WriteLink ==
    /\ step = "link"
    /\ land_db' = [land_db EXCEPT !.linked = @ \cup {arg}]
    /\ lands' = Without(lands, {arg}) /\ step' = "write"
    /\ UNCHANGED <<old, next_id, arg, deaths, wanted, cut>>

Mark ==
    /\ step = "write" /\ lands = <<>>
    /\ land_db' = [land_db EXCEPT !.mark = TRUE]
    /\ step' = "up"
    /\ UNCHANGED <<old, lands, next_id, arg, deaths, wanted, cut>>

-----------------------------------------------------------------------------
(***************************************************************************)
(* Handlers, as far as the repair can tell: addLand leaves the version     *)
(* uninitialized, updLand sets it, and the chunk lists follow the record.  *)
(***************************************************************************)
Buy ==
    LET id == IF land_db.land_id = {} THEN 0 ELSE 1 + CHOOSE i \in land_db.land_id : TRUE
    IN  /\ step = "up" /\ id <= MaxId
        /\ \E v \in {0, 1} :
              land_db' = [land_db EXCEPT
                              !.land_id = {id},
                              !.rec = Put(@, id, [by |-> "this", ver |-> v, moved |-> 0])]
        /\ arg' = id /\ step' = "bought"
        /\ UNCHANGED <<old, lands, next_id, deaths, wanted, cut>>

BuyLink ==
    /\ step = "bought"
    /\ land_db' = [land_db EXCEPT !.linked = @ \cup {arg}]
    /\ wanted' = wanted \cup {arg} /\ step' = "up"
    /\ UNCHANGED <<old, lands, next_id, arg, deaths, cut>>

Update(l) ==
    /\ step = "up" /\ l \in DOMAIN land_db.rec
    /\ land_db' = [land_db EXCEPT !.rec[l].ver = 1]
    /\ UNCHANGED <<old, lands, next_id, step, arg, deaths, wanted, cut>>

Sell(l) ==
    /\ step = "up" /\ l \in DOMAIN land_db.rec \cap land_db.linked
    /\ land_db' = [land_db EXCEPT !.rec = Without(@, {l})]
    /\ arg' = l /\ step' = "sold" /\ wanted' = wanted \ {l}
    /\ UNCHANGED <<old, lands, next_id, deaths, cut>>

SellUnlink ==
    /\ step = "sold"
    /\ land_db' = [land_db EXCEPT !.linked = @ \ {arg}] /\ step' = "up"
    /\ UNCHANGED <<old, lands, next_id, arg, deaths, wanted, cut>>

Fix ==
    /\ step = "up" /\ land_db' = [land_db EXCEPT !.mark = FALSE]
    /\ UNCHANGED <<old, lands, next_id, step, arg, deaths, wanted, cut>>

Die ==
    /\ step # "down" /\ deaths < MaxDeaths
    /\ deaths' = deaths + 1 /\ step' = "down" /\ lands' = <<>> /\ next_id' = {}
    /\ cut' = IF cut = "none" /\ step \in {"counter", "write", "link"} THEN "cut" ELSE cut
    /\ UNCHANGED <<land_db, old, arg, wanted>>

Next ==
    \/ Start \/ RemoveOld \/ Move \/ PutCounter \/ WriteLink \/ Mark
    \/ Buy \/ BuyLink \/ SellUnlink \/ Fix \/ Die
    \/ \E l \in Lid : WriteRecord(l) \/ Update(l) \/ Sell(l)

Spec == Init /\ [][Next]_repairVars

-----------------------------------------------------------------------------
(***************************************************************************)
(* Types of all variables.                                                 *)
(***************************************************************************)
TypeOK ==
    /\ land_db.rec \in PartialMap(Lid, Record) /\ land_db.linked \subseteq Lid
    /\ old \in PartialMap(Lid, Record) /\ lands \in PartialMap(Lid, Record)

(***************************************************************************)
(* A land bought is not lost: wherever the process dies, its record is in  *)
(* the database or in land_old, and the server never runs without it,      *)
(* unless a repair was cut short and begun again, which removes land_old. *)
(***************************************************************************)
LandsSurviveRepair ==
    cut # "repeated" =>
        /\ wanted \subseteq DOMAIN land_db.rec \cup DOMAIN old
        /\ step = "up" => wanted \subseteq DOMAIN land_db.rec

(***************************************************************************)
(* The repair mends what a death cut short and ends its own work once:     *)
(* when the mark is written the lands are those read, the chunk lists name *)
(* exactly them, every record has its version, and lands of the older      *)
(* version were shifted once.                                              *)
(***************************************************************************)
RepairCures ==
    [][land_db'.mark /\ ~land_db.mark =>
        /\ land_db'.linked = DOMAIN land_db'.rec /\ DOMAIN land_db'.rec = DOMAIN old'
        /\ \A l \in DOMAIN land_db'.rec :
              /\ land_db'.rec[l].ver = 1
              /\ land_db'.rec[l].by = "older" => land_db'.rec[l].moved = 1]_repairVars
=============================================================================
