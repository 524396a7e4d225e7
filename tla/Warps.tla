------------------------------- MODULE Warps --------------------------------
(***************************************************************************)
(* Warps and homes of tp.mod (mod/tp/main.cpp:34-102, 280-416).  Warps are *)
(* a list of names and a place for each, in memory and in the database;    *)
(* adding and deleting one takes two writes, and the process may die in    *)
(* between.  Loading reads a record for every name of the list and does    *)
(* not look whether there is one.  A player's homes are loaded when he     *)
(* first uses them, and saved in one write.                                *)
(***************************************************************************)
EXTENDS Naturals, SequencesExt, PartialMaps

CONSTANTS
    WarpName,   \* names of warps and homes
    Place,
    HomePlayer, \* players with homes
    MaxHomes,   \* of the configuration
    MaxWarps    \* bound: length of the list of warps

VARIABLES
    warp_list, warp,    \* in memory; warp keeps what del_warp has deleted
    ply_homes,          \* homes of the players who have used theirs
    tp_db,              \* warps: the list saved; warp: the records; home
    write               \* the second write of the command under way

warpVars == <<warp_list, warp, ply_homes, tp_db, write>>

NoWrite == [kind |-> "none"]

Homes == BoundedSeq(WarpName \X Place, MaxHomes)

Init ==
    /\ warp_list = <<>> /\ warp = <<>> /\ ply_homes = <<>>
    /\ tp_db = [warps |-> <<>>, warp |-> <<>>, home |-> [p \in HomePlayer |-> <<>>]]
    /\ write = NoWrite

-----------------------------------------------------------------------------
\* fault: the list is saved first
add_warp_list_first(n, at) ==
    /\ write = NoWrite /\ Len(warp_list) < MaxWarps
    /\ warp_list' = Append(warp_list, n)
    /\ warp' = Put(warp, n, at)
    /\ tp_db' = [tp_db EXCEPT !.warps = Append(warp_list, n)]
    /\ write' = [kind |-> "list"]
    /\ UNCHANGED ply_homes

add_warp(n, at) ==
    /\ write = NoWrite /\ Len(warp_list) < MaxWarps
    /\ warp_list' = Append(warp_list, n)
    /\ warp' = Put(warp, n, at)
    /\ tp_db' = [tp_db EXCEPT !.warp = Put(@, n, at)]
    /\ write' = [kind |-> "list"]
    /\ UNCHANGED ply_homes

\* list::remove: the first i elements, without those that are n
Removed(s, n) ==
    LET left[i \in 0 .. Len(s)] ==
            IF i = 0 THEN <<>> ELSE IF s[i] = n THEN left[i - 1] ELSE Append(left[i - 1], s[i])
    IN  left[Len(s)]

\* every entry of the name leaves the list; the place stays in memory
del_warp(n) ==
    /\ write = NoWrite
    /\ warp_list' = Removed(warp_list, n)
    /\ tp_db' = [tp_db EXCEPT !.warps = warp_list']
    /\ write' = [kind |-> "delete", name |-> n]
    /\ UNCHANGED <<warp, ply_homes>>

SecondWrite ==
    /\ write # NoWrite
    /\ tp_db' = IF write.kind = "list" THEN [tp_db EXCEPT !.warps = warp_list]
                ELSE [tp_db EXCEPT !.warp = Without(@, {write.name})]
    /\ write' = NoWrite
    /\ UNCHANGED <<warp_list, warp, ply_homes>>

HomesOf(p) == IF p \in DOMAIN ply_homes THEN ply_homes[p] ELSE tp_db.home[p]

SaveHomes(p, homes) ==
    /\ ply_homes' = Put(ply_homes, p, homes)
    /\ tp_db' = [tp_db EXCEPT !.home[p] = homes]

\* /home add, del (the first of the name), and ls, go or gui, which only load
Home(p) ==
    /\ write = NoWrite
    /\ \/ /\ Len(HomesOf(p)) < MaxHomes
          /\ \E n \in WarpName, at \in Place : SaveHomes(p, Append(HomesOf(p), <<n, at>>))
       \/ \E i \in DOMAIN HomesOf(p) :
            /\ \A j \in 1 .. i - 1 : HomesOf(p)[j][1] # HomesOf(p)[i][1]
            /\ SaveHomes(p, RemoveAt(HomesOf(p), i))
       \/ ply_homes' = Put(ply_homes, p, HomesOf(p)) /\ UNCHANGED tp_db
    /\ UNCHANGED <<warp_list, warp, write>>

LeaveHomes(p) ==
    /\ write = NoWrite /\ p \in DOMAIN ply_homes
    /\ ply_homes' = Without(ply_homes, {p})
    /\ UNCHANGED <<warp_list, warp, tp_db, write>>

\* the process dies; load_warps_new of the next
DieAndLoad ==
    /\ warp_list' = tp_db.warps
    /\ warp' = [n \in Range(tp_db.warps) \cap DOMAIN tp_db.warp |-> tp_db.warp[n]]
    /\ ply_homes' = <<>> /\ write' = NoWrite
    /\ UNCHANGED tp_db

Next ==
    \/ \E n \in WarpName : del_warp(n) \/ \E at \in Place : add_warp(n, at)
    \/ SecondWrite
    \/ \E p \in HomePlayer : Home(p) \/ LeaveHomes(p)
    \/ DieAndLoad

Spec == Init /\ [][Next]_warpVars

-----------------------------------------------------------------------------
(***************************************************************************)
(* Types of all variables.                                                 *)
(***************************************************************************)
TypeOK ==
    /\ warp_list \in BoundedSeq(WarpName, MaxWarps)
    /\ warp \in PartialMap(WarpName, Place)
    /\ ply_homes \in PartialMap(HomePlayer, Homes)
    /\ tp_db.warps \in BoundedSeq(WarpName, MaxWarps)
    /\ tp_db.warp \in PartialMap(WarpName, Place)
    /\ tp_db.home \in [HomePlayer -> Homes]

(***************************************************************************)
(* Whenever the process dies, what it loads is whole: every name of the    *)
(* saved list has its record.  Between commands memory and database say    *)
(* the same of the warps that are listed and of the homes in use.          *)
(***************************************************************************)
WarpsSurvive ==
    /\ Range(tp_db.warps) \subseteq DOMAIN tp_db.warp
    /\ write = NoWrite =>
        /\ warp_list = tp_db.warps
        /\ \A n \in Range(warp_list) : n \in DOMAIN warp /\ warp[n] = tp_db.warp[n]
        /\ \A p \in DOMAIN ply_homes : ply_homes[p] = tp_db.home[p]
=============================================================================
