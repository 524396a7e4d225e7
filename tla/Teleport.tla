------------------------------ MODULE Teleport ------------------------------
(***************************************************************************)
(* Requests of tp.mod (mod/tp/main.cpp: /tpa, its forms, the timeout in a  *)
(* player's tick) on the forms of gui.mod (mod/gui/main.cpp: sendForm, the *)
(* handler of ModalFormResponsePacket; mod/base/PlayerMap.h).              *)
(*                                                                         *)
(* A request waits in tpmap under the name of the player who is asked.  He *)
(* answers by command or with a form, which his client may send back long  *)
(* after it was shown, when the request is gone or another waits.  Players *)
(* come and go; requests stay until answered, cancelled or overdue.        *)
(*                                                                         *)
(* A form gets a number when it is sent.  A form made for one player is    *)
(* named here by its number; 0 names TPGUI, the static form all share.     *)
(* No player's name is the beginning of another's, so getplayer_byname2    *)
(* finds the player meant.                                                 *)
(***************************************************************************)
EXTENDS Integers, FiniteSets

CONSTANTS
    Player,   \* players' names
    Timeout,  \* ticks of the clock after which a request is overdue
    MaxForms  \* bound on the forms sent

ASSUME TeleportAssumption == Timeout \in Nat \ {0} /\ MaxForms \in Nat

VARIABLES
    online,         \* the players on the server
    tpmap,          \* asked -> the request that waits, with the form that told of it
    player_target,  \* asker -> whom he asked last
    gui             \* open: player -> form (player_mp); made: the forms of getForm
                    \* not yet deleted; screen: player -> numbers his client may
                    \* answer; autoid; fid: that of TPGUI

requests == <<tpmap, player_target>>
tpVars == <<online, requests, gui>>

Put(f, k, v) == [x \in DOMAIN f \cup {k} |-> IF x = k THEN v ELSE f[x]]
Without(f, S) == [x \in DOMAIN f \ S |-> f[x]]

TPGUI == 0

Request == [kind |-> "request"]
Choose(dir) == [kind |-> "choose", dir |-> dir, names |-> online]

Init ==
    /\ online = {} /\ tpmap = <<>> /\ player_target = <<>>
    /\ gui = [open |-> <<>>, made |-> <<>>, screen |-> [p \in Player |-> {}],
              autoid |-> 0, fid |-> 0]

-----------------------------------------------------------------------------
(***************************************************************************)
(* gui.mod, as functions of its state g.  sendForm deletes the form the    *)
(* player had open if that was made for him.                               *)
(***************************************************************************)
Closed(g, p) == IF p \in DOMAIN g.open THEN {g.open[p]} ELSE {}

\* fault: the entry of the player is overwritten without being erased
SendOver(g, p, f) ==
    [g EXCEPT !.autoid = @ + 1, !.open = Put(@, p, f), !.screen[p] = @ \cup {g.autoid + 1}]

Send(g, p, f) ==
    [open   |-> Put(g.open, p, f),
     made   |-> Without(g.made, Closed(g, p)),
     screen |-> [g.screen EXCEPT ![p] = @ \cup {g.autoid + 1}],
     autoid |-> g.autoid + 1,
     fid    |-> g.fid]

SendNew(g, p, form) ==
    LET n == g.autoid + 1 IN [Send(g, p, n) EXCEPT !.made = Put(@, n, form)]

SendTPGUI(g, p) == [Send(g, p, TPGUI) EXCEPT !.fid = g.autoid + 1]

\* player_mp drops the entry; the handler still holds the form
Erase(g, p) == [g EXCEPT !.open = Without(@, {p})]

\* relForm
Delete(g, f) == [g EXCEPT !.made = Without(@, {f})]

FidOf(g, f) == IF f = TPGUI THEN g.fid ELSE f

Room(g) == g.autoid < MaxForms

-----------------------------------------------------------------------------
(***************************************************************************)
(* /tpa f (dir "f": brings the player asked here), /tpa t, ac, de, cancel. *)
(* Each says what becomes of the requests, and of g.                       *)
(***************************************************************************)
MayAsk(q) == q \in online /\ q \notin DOMAIN tpmap /\ q \notin DOMAIN player_target

Ask(p, q, dir, g) ==
    /\ MayAsk(q) /\ Room(g)
    /\ player_target' = Put(player_target, p, q)
    /\ tpmap' = Put(tpmap, q, [dir |-> dir, name |-> p, age |-> 0, fid |-> g.autoid + 1])

\* ac and de differ in where the two players then stand, which is not modelled
Conclude(p) ==
    /\ p \in DOMAIN tpmap
    /\ player_target' = Without(player_target, {tpmap[p].name})
    /\ tpmap' = Without(tpmap, {p})

Command(p) ==
    /\ p \in online
    /\ \/ \E q \in Player, dir \in {"f", "t"} :
            Ask(p, q, dir, gui) /\ gui' = SendNew(gui, q, Request)
       \/ Conclude(p) /\ UNCHANGED gui
    /\ UNCHANGED online

Cancel(p) ==
    /\ p \in online /\ p \in DOMAIN player_target
    /\ player_target[p] \in DOMAIN tpmap
    /\ tpmap[player_target[p]].name = p
    /\ tpmap' = Without(tpmap, {player_target[p]})
    /\ UNCHANGED <<online, player_target, gui>>

OpenGui(p) ==
    /\ p \in online /\ Room(gui)
    /\ gui' = SendTPGUI(gui, p)
    /\ UNCHANGED <<online, requests>>

-----------------------------------------------------------------------------
(***************************************************************************)
(* The client of p answers the form numbered id.  It counts if that is the *)
(* number of the form he has open: the form is closed, its callback runs,  *)
(* mostly a command as p, and a form made for him is deleted at the end.   *)
(***************************************************************************)
Callback(p, f, g) ==
    \/ gui' = Delete(g, f) /\ UNCHANGED requests
    \/ /\ f = TPGUI /\ Room(g)
       /\ \E dir \in {"f", "t"} : gui' = SendNew(g, p, Choose(dir))
       /\ UNCHANGED requests
    \/ /\ f # TPGUI /\ gui.made[f].kind = "choose"
       /\ \E q \in gui.made[f].names :
            /\ Ask(p, q, gui.made[f].dir, g)
            /\ gui' = Delete(SendNew(g, q, Request), f)
    \/ /\ f # TPGUI /\ gui.made[f].kind = "request"
       /\ Conclude(p) /\ gui' = Delete(g, f)

Heard(p, id) == p \in DOMAIN gui.open /\ FidOf(gui, gui.open[p]) = id

Seen(g, p, id) == [g EXCEPT !.screen = [g.screen EXCEPT ![p] = @ \ {id}]]

\* fault: the number is not compared
AnswerAny(p, id) ==
    /\ id \in gui.screen[p]
    /\ p \in DOMAIN gui.open
    /\ Callback(p, gui.open[p], Erase(Seen(gui, p, id), p))
    /\ UNCHANGED online

Answer(p, id) ==
    /\ id \in gui.screen[p]
    /\ IF Heard(p, id)
       THEN Callback(p, gui.open[p], Erase(Seen(gui, p, id), p))
       ELSE gui' = Seen(gui, p, id) /\ UNCHANGED requests
    /\ UNCHANGED online

-----------------------------------------------------------------------------
(***************************************************************************)
(* The clock, and the tick of a player that finds his request overdue.     *)
(* The asker is told of it; when he has left, sendText is given a null     *)
(* player: the process may die of it, or not.  What is numbered after that *)
(* death goes on from autoid, so that MaxForms bounds all lives together.  *)
(***************************************************************************)
Older(r) == [dir |-> r.dir, name |-> r.name, fid |-> r.fid,
             age |-> IF r.age < Timeout THEN r.age + 1 ELSE r.age]

Pass ==
    /\ \E q \in DOMAIN tpmap : tpmap[q].age < Timeout
    /\ tpmap' = [q \in DOMAIN tpmap |-> Older(tpmap[q])]
    /\ UNCHANGED <<online, player_target, gui>>

Overdue(q) == q \in online /\ q \in DOMAIN tpmap /\ tpmap[q].age >= Timeout

\* fault: the request is not erased
ExpireKeeping(q) ==
    /\ Overdue(q)
    /\ player_target' = Without(player_target, {tpmap[q].name})
    /\ UNCHANGED <<online, tpmap, gui>>

Expire(q) ==
    /\ Overdue(q)
    /\ player_target' = Without(player_target, {tpmap[q].name})
    /\ tpmap' = Without(tpmap, {q})
    /\ UNCHANGED <<online, gui>>

DieTelling(q) ==
    /\ Overdue(q) /\ tpmap[q].name \notin online
    /\ online' = {} /\ tpmap' = <<>> /\ player_target' = <<>>
    /\ gui' = [gui EXCEPT !.open = <<>>, !.made = <<>>, !.screen = [p \in Player |-> {}]]

Join(p) == p \notin online /\ online' = online \cup {p} /\ UNCHANGED <<requests, gui>>

\* fault: the form of who leaves stays open
LeaveOpen(p) ==
    /\ p \in online
    /\ online' = online \ {p}
    /\ gui' = [gui EXCEPT !.screen[p] = {}]
    /\ UNCHANGED requests

\* ~ServerPlayer: player_mp deletes the player's form; his client is gone
Leave(p) ==
    /\ p \in online
    /\ online' = online \ {p}
    /\ gui' = [Erase(gui, p) EXCEPT !.made = Without(@, Closed(gui, p)),
                                    !.screen = [@ EXCEPT ![p] = {}]]
    /\ UNCHANGED requests

Next ==
    \/ \E p \in Player :
        \/ Join(p) \/ Leave(p)
        \/ Command(p) \/ Cancel(p) \/ OpenGui(p)
        \/ \E id \in 1 .. MaxForms : Answer(p, id)
        \/ Expire(p) \/ DieTelling(p)
    \/ Pass

Fairness == WF_tpVars(Pass) /\ \A p \in Player : WF_tpVars(Expire(p))

Spec == Init /\ [][Next]_tpVars /\ Fairness

-----------------------------------------------------------------------------
(***************************************************************************)
(* Types of all variables: a request was told of by a form already sent,   *)
(* and only players on the server have a form open or on the screen.       *)
(***************************************************************************)
TypeOK ==
    /\ online \subseteq Player
    /\ DOMAIN tpmap \subseteq Player
    /\ tpmap \in [DOMAIN tpmap -> [dir : {"f", "t"}, name : Player, age : 0 .. Timeout,
                                   fid : 1 .. gui.autoid]]
    /\ DOMAIN player_target \subseteq Player
    /\ player_target \in [DOMAIN player_target -> Player]
    /\ gui.autoid \in 0 .. MaxForms /\ gui.fid \in 0 .. gui.autoid
    /\ DOMAIN gui.open \subseteq online
    /\ gui.open \in [DOMAIN gui.open -> 0 .. gui.autoid]
    /\ DOMAIN gui.made \subseteq 1 .. gui.autoid
    /\ \A p \in Player : gui.screen[p] \subseteq (IF p \in online THEN 1 .. gui.autoid ELSE {})

(***************************************************************************)
(* A form made by getForm is owned by exactly one player, who has it open, *)
(* and exists as long: none is leaked, and none that is open was deleted,  *)
(* whatever is sent, answered or left, also from within a callback.        *)
(***************************************************************************)
FormsOwned ==
    /\ {gui.open[p] : p \in DOMAIN gui.open} \ {TPGUI} = DOMAIN gui.made
    /\ \A p, q \in DOMAIN gui.open :
        gui.open[p] = gui.open[q] /\ gui.open[p] # TPGUI => p = q

(***************************************************************************)
(* A late answer is harmless.  The callback of a request's form only runs  *)
(* /tpa ac or /tpa de, which take whatever request waits; still an answer  *)
(* never concludes another request than the one its form told of.          *)
(***************************************************************************)
Answered(p, id) == id \in gui.screen[p] /\ id \notin gui'.screen[p] /\ p \in online'

LateAnswerHarmless ==
    [][\A p \in Player, id \in 1 .. MaxForms : Answered(p, id) =>
         \A q \in DOMAIN tpmap \ DOMAIN tpmap' : q = p /\ tpmap[q].fid = id]_tpVars

(***************************************************************************)
(* A request does not wait for ever on a player who stays, so the player   *)
(* can be asked by others again.                                           *)
(***************************************************************************)
Waits(q, n) == q \in DOMAIN tpmap /\ tpmap[q].fid = n

RequestsEnd ==
    \A q \in Player, n \in 1 .. MaxForms :
        Waits(q, n) ~> (~Waits(q, n) \/ q \notin online)
=============================================================================
