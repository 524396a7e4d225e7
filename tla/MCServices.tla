----------------------------- MODULE MCServices -----------------------------
(***************************************************************************)
(* The components that share no state, side by side: each behaviour is one *)
(* of one part, and the others rest in one of their initial states.        *)
(***************************************************************************)
EXTENDS Money, LoadOrder

CONSTANTS
    WarpName, Place, HomePlayer, MaxHomes, MaxWarps,
    OldLands, MaxId, MaxDeaths,
    Account, PlayerName, BanTimes, Clock,
    Talker, RingSize, Delta, Mutes, MaxClock,
    Viewer, Menu, MaxForms,
    Code, MaxFalls,
    Box, SlotNo, Prices, Wealth, MaxGoods

VARIABLES
    part,
    warp_list, warp, ply_homes, tp_db, write,
    land_db, old, lands, next_id, step, arg, deaths, wanted, cut,
    until, known, called, at, now, tie, banned,
    pool, mute_time, clock,
    running, fid, player_mp, shown, autoid, pressed,
    cdks, file, torn, using, stage, uses, undone, falls,
    accounts, lc, inside, sessions, last_sess, ply_price, ply_select, bought, put

\* amounts of chestShop.mod are ints
ASSUME ShopAssumption == Prices \subseteq Ints /\ Wealth \in Ints

\* the lands of an older version are the first identifiers, and the counter the last of them
ASSUME RepairAssumption ==
    OldLands \in Nat \ {0} /\ MaxId \in Nat /\ OldLands <= MaxId + 1

ASSUME WarpAssumption == MaxHomes \in Nat /\ MaxWarps \in Nat

\* timeq has entries, its delta is a time, and mutes are ints
ASSUME ChatAssumption == RingSize \in Nat \ {0} /\ Delta \in Nat /\ Mutes \subseteq Int

Warps == INSTANCE Warps
Repair == INSTANCE LandRepair
Bans == INSTANCE Bans
Chat == INSTANCE Chat
Menus == INSTANCE Menus
Codes == INSTANCE Codes WITH at <- stage
Shop == INSTANCE ChestShop

warps == <<warp_list, warp, ply_homes, tp_db, write>>
repair == <<land_db, old, lands, next_id, step, arg, deaths, wanted, cut>>
bans == <<until, known, called, at, now, tie, banned>>
chat == <<pool, mute_time, clock>>
menus == <<running, fid, player_mp, shown, autoid, pressed>>
codes == <<cdks, file, torn, using, stage, uses, undone, falls>>
shop == <<accounts, lc, inside, sessions, last_sess, ply_price, ply_select, bought, put>>

Parts == {"money", "warps", "repair", "bans", "chat", "loading",
          "menus", "codes", "shop"}

\* what a part that rests may begin with is fixed
AtRest ==
    /\ part = "money" \/ init = 0
    /\ part = "bans" \/ (called = [a \in Account |-> 10 + a] /\ now = 1)
    /\ part = "loading" \/ deps = [m \in Mod |-> <<>>]

ServicesInit ==
    /\ part \in Parts /\ AtRest
    /\ Init /\ Warps!Init /\ Repair!Init /\ Bans!Init /\ Chat!Init /\ LoadInit
    /\ Menus!Init /\ Codes!Init /\ Shop!Init

Rest(p) ==
    /\ part = p /\ UNCHANGED part
    /\ IF p = "money" THEN TRUE ELSE UNCHANGED moneyVars
    /\ IF p = "warps" THEN TRUE ELSE UNCHANGED warps
    /\ IF p = "repair" THEN TRUE ELSE UNCHANGED repair
    /\ IF p = "bans" THEN TRUE ELSE UNCHANGED bans
    /\ IF p = "chat" THEN TRUE ELSE UNCHANGED chat
    /\ IF p = "loading" THEN TRUE ELSE UNCHANGED loadVars
    /\ IF p = "menus" THEN TRUE ELSE UNCHANGED menus
    /\ IF p = "codes" THEN TRUE ELSE UNCHANGED codes
    /\ IF p = "shop" THEN TRUE ELSE UNCHANGED shop

ServicesNext ==
    \/ Rest("money") /\ Next
    \/ Rest("warps") /\ Warps!Next
    \/ Rest("repair") /\ Repair!Next
    \/ Rest("bans") /\ Bans!Next
    \/ Rest("chat") /\ Chat!Next
    \/ Rest("loading") /\ LoadNext
    \/ Rest("menus") /\ Menus!Next
    \/ Rest("codes") /\ Codes!Next
    \/ Rest("shop") /\ Shop!Next

servicesVars ==
    <<part, moneyVars, warps, repair, bans, chat, loadVars, menus, codes, shop>>

ServicesSpec == ServicesInit /\ [][ServicesNext]_servicesVars

-----------------------------------------------------------------------------
(***************************************************************************)
(* Types of the variables of all nine parts: above all, balances stay      *)
(* ints, the ring of messages keeps its size, and no count of dependencies *)
(* goes below zero.                                                        *)
(***************************************************************************)
AllTypeOK ==
    /\ TypeOK /\ LoadTypeOK
    /\ Warps!TypeOK /\ Repair!TypeOK /\ Bans!TypeOK /\ Chat!TypeOK
    /\ Menus!TypeOK /\ Codes!TypeOK /\ Shop!TypeOK

(***************************************************************************)
(* Whenever the process dies, every warp of the saved list has its record. *)
(***************************************************************************)
WarpsSurvive == Warps!WarpsSurvive

(***************************************************************************)
(* A land bought outlives the repair of the database and a death in it.    *)
(***************************************************************************)
LandsSurviveRepair == Repair!LandsSurviveRepair

(***************************************************************************)
(* A repair that ends mends what deaths cut short, and moves no land       *)
(* twice.                                                                  *)
(***************************************************************************)
RepairCures == Repair!RepairCures

(***************************************************************************)
(* Who is banned while he plays stays out under any name.                  *)
(***************************************************************************)
BannedStaysOut == Bans!BannedStaysOut

(***************************************************************************)
(* Who keeps the distance between messages is heard, whatever others say.  *)
(***************************************************************************)
PatientHeard == Chat!PatientHeard

(***************************************************************************)
(* The button that runs is one of the menu that was answered.              *)
(***************************************************************************)
AnswerFromMenuShown == Menus!AnswerFromMenuShown

(***************************************************************************)
(* A code is used once, but for deaths before its use is saved.            *)
(***************************************************************************)
CodesOnce == Codes!CodesOnce

(***************************************************************************)
(* What may be taken out of a shop was paid at the price it was put in     *)
(* for.                                                                    *)
(***************************************************************************)
GoodsPaidFor == Shop!GoodsPaidFor

-----------------------------------------------------------------------------
\* a 4-bit int: amounts that fit, that overflow, negative ones, the lowest one
MCTyped == {-8, -3, -1, 2, 3, 5, 7}

MCInits == {0, 5}

\* in order, and the wrong way round: the remainder is of a negative number
MCBonuses == {[min |-> 1, max |-> 2], [min |-> 7, max |-> 4]}

\* dependencies of mods: none, missing, too new, itself, another, two, one named twice
Needs(n, v) == [name |-> n, version |-> v]

MCDepLists ==
    {<<>>, <<Needs("d", 0)>>, <<Needs("a", 2)>>}
        \cup {<<Needs(m, 1)>> : m \in {"a", "b", "c"}}
        \cup {<<Needs(m, 1), Needs(n, 0)>> : m, n \in {"a", "b", "c"}}

MCPrio == [m \in {"a", "b", "c"} |-> IF m = "c" THEN 1 ELSE 50]

MCVersion == [m \in {"a", "b", "c"} |-> 1]

MCMutes == {-1, 1}
=============================================================================
