------------------------------- MODULE Menus --------------------------------
(***************************************************************************)
(* The menus of cmdhelp.mod (mod/cmdhelp/main.cpp:46-59, 69-85, 117-181)   *)
(* on the forms of gui.mod (gui/main.cpp:55-113, gui.h:20-62).  A menu has *)
(* one form for all players, with the number it was last sent under; the   *)
(* form answered must be the one last sent to the player, under the number *)
(* it has now.  Reading the menus again deletes forms players have open:   *)
(* what is read of those is whatever the memory holds.                     *)
(***************************************************************************)
EXTENDS Naturals, PartialMaps

CONSTANTS
    Viewer,
    Menu,
    MaxForms    \* bound: forms sent

VARIABLES
    running,
    fid,        \* of each menu's form; 0: not sent since it was made
    player_mp,  \* the form last sent to a player; live: not deleted since
    shown,      \* forms on their way back: who answers, the number and menu he was sent
    autoid,
    pressed     \* the last button run: the menu shown, the menu it is of, whether the form was live

menuVars == <<running, fid, player_mp, shown, autoid, pressed>>

NoPress == [shown |-> {}, of |-> {}, live |-> TRUE]

Init ==
    /\ running = TRUE /\ autoid = 0 /\ pressed = NoPress
    /\ fid = [m \in Menu |-> 0] /\ player_mp = <<>> /\ shown = {}

-----------------------------------------------------------------------------
Deleted(p) == p \in DOMAIN player_mp /\ ~player_mp[p].live

\* sendForm; the form before, if any, is asked whether it is to be freed
Send(p, m) ==
    /\ running /\ autoid < MaxForms
    /\ autoid' = autoid + 1
    /\ fid' = [fid EXCEPT ![m] = autoid']
    /\ player_mp' = Put(player_mp, p, [menu |-> m, live |-> TRUE])
    /\ shown' = shown \cup {[who |-> p, id |-> autoid', menu |-> m]}
    /\ running' \in {TRUE, ~Deleted(p)}
    /\ UNCHANGED pressed

\* the form's callback: the command of the menu's button
Press(a, m, live) ==
    /\ pressed' = [shown |-> {a.menu}, of |-> {m}, live |-> live]
    /\ player_mp' = Without(player_mp, {a.who})

\* the form was closed without a button
Close(a) == player_mp' = Without(player_mp, {a.who}) /\ UNCHANGED pressed

\* fault: any answer is taken for one to the form last sent
AnswerAny(a) ==
    /\ running /\ a \in shown /\ shown' = shown \ {a}
    /\ a.who \in DOMAIN player_mp /\ player_mp[a.who].live
    /\ Press(a, player_mp[a.who].menu, TRUE)
    /\ UNCHANGED <<running, fid, autoid>>

Answer(a) ==
    /\ running /\ a \in shown /\ shown' = shown \ {a}
    /\ a.who \in DOMAIN player_mp /\ player_mp[a.who].live
    /\ \/ fid[player_mp[a.who].menu] = a.id /\ Press(a, player_mp[a.who].menu, TRUE)
       \/ fid[player_mp[a.who].menu] = a.id /\ Close(a)
       \/ fid[player_mp[a.who].menu] # a.id /\ UNCHANGED <<player_mp, pressed>>
    /\ UNCHANGED <<running, fid, autoid>>

\* the deleted form's memory may hold no number like it, or a new menu's form with it
AnswerDeleted(a) ==
    /\ running /\ a \in shown /\ shown' = shown \ {a} /\ Deleted(a.who)
    /\ \/ UNCHANGED <<running, player_mp, pressed>>
       \/ Close(a) /\ UNCHANGED running
       \/ \E m \in Menu : Press(a, m, FALSE) /\ UNCHANGED running
       \/ running' = FALSE /\ UNCHANGED <<player_mp, pressed>>
    /\ UNCHANGED <<fid, autoid>>

\* the player has no form open
Drop(a) ==
    /\ running /\ a \in shown /\ shown' = shown \ {a}
    /\ a.who \notin DOMAIN player_mp
    /\ UNCHANGED <<running, fid, player_mp, autoid, pressed>>

Leave(p) ==
    /\ running
    /\ player_mp' = Without(player_mp, {p})
    /\ shown' = {a \in shown : a.who # p}
    /\ running' \in {TRUE, ~Deleted(p)}
    /\ UNCHANGED <<fid, autoid, pressed>>

\* /reload_cmd
Reload ==
    /\ running
    /\ fid' = [m \in Menu |-> 0]
    /\ player_mp' = [p \in DOMAIN player_mp |-> [player_mp[p] EXCEPT !.live = FALSE]]
    /\ UNCHANGED <<running, shown, autoid, pressed>>

Restart ==
    /\ ~running /\ running' = TRUE
    /\ autoid' = 0 /\ fid' = [m \in Menu |-> 0] /\ player_mp' = <<>> /\ shown' = {}
    /\ UNCHANGED pressed

Next ==
    \/ \E p \in Viewer : Leave(p) \/ \E m \in Menu : Send(p, m)
    \/ \E a \in shown : Answer(a) \/ AnswerDeleted(a) \/ Drop(a)
    \/ Reload \/ Restart

Spec == Init /\ [][Next]_menuVars

-----------------------------------------------------------------------------
(***************************************************************************)
(* Types of all variables.                                                 *)
(***************************************************************************)
TypeOK ==
    /\ running \in BOOLEAN /\ autoid \in Nat
    /\ fid \in [Menu -> 0 .. autoid]
    /\ player_mp \in PartialMap(Viewer, [menu : Menu, live : BOOLEAN])
    /\ shown \subseteq [who : Viewer, id : 1 .. autoid, menu : Menu]
    /\ pressed \in [shown : SUBSET Menu, of : SUBSET Menu, live : BOOLEAN]

(***************************************************************************)
(* A button that runs is one of the menu the player answered, however late *)
(* the answer and whatever was sent to him and to others meanwhile, unless *)
(* the menus were read again while he had one open.                        *)
(***************************************************************************)
AnswerFromMenuShown == pressed.live => pressed.shown = pressed.of
=============================================================================
