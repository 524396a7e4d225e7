--------------------------- MODULE TeleportProofs ---------------------------
(***************************************************************************)
(* Proofs about the forms of gui.mod and the requests they tell of, for    *)
(* any players, any timeout and any number of forms.                       *)
(***************************************************************************)
EXTENDS Teleport, TLAPS

(***************************************************************************)
(* The forms of g, when the handler of an answer holds one more, f; f is 0 *)
(* when it holds none.                                                     *)
(***************************************************************************)
Shape(g) ==
    /\ g = [open |-> g.open, made |-> g.made, screen |-> g.screen,
            autoid |-> g.autoid, fid |-> g.fid]
    /\ g.autoid \in Nat
    /\ g.screen = [p \in Player |-> g.screen[p]]

OwnedBut(g, f) ==
    /\ f \in Nat /\ f <= g.autoid
    /\ \A n \in DOMAIN g.made : n \in Nat /\ 0 < n /\ n <= g.autoid
    /\ \A n \in DOMAIN g.made : n = f \/ \E p \in DOMAIN g.open : g.open[p] = n
    /\ \A p \in DOMAIN g.open : g.open[p] # 0 => g.open[p] \in DOMAIN g.made /\ g.open[p] # f
    /\ \A p, q \in DOMAIN g.open : g.open[p] = g.open[q] /\ g.open[p] # 0 => p = q

(***************************************************************************)
(* A request's form that is open told of the request that waits, in m.     *)
(***************************************************************************)
Current(g, m) ==
    \A p \in DOMAIN g.open :
        g.open[p] # 0 /\ g.made[g.open[p]].kind = "request" /\ p \in DOMAIN m
            => m[p].fid = g.open[p]

GuiInv ==
    /\ Shape(gui)
    /\ OwnedBut(gui, 0)
    /\ Current(gui, tpmap)
    /\ online \subseteq Player

-----------------------------------------------------------------------------
\* The fields of the state after a form was sent.
LEMMA SendFields ==
    ASSUME NEW g, Shape(g), NEW p \in Player, NEW f
    PROVE  /\ Shape(Send(g, p, f))
           /\ Send(g, p, f).open = Put(g.open, p, f)
           /\ Send(g, p, f).made = Without(g.made, Closed(g, p))
           /\ Send(g, p, f).autoid = g.autoid + 1
           /\ Send(g, p, f).screen = [g.screen EXCEPT ![p] = @ \cup {g.autoid + 1}]
           /\ Send(g, p, f).fid = g.fid
<1>1. Send(g, p, f) = [open |-> Put(g.open, p, f), made |-> Without(g.made, Closed(g, p)),
                       screen |-> [g.screen EXCEPT ![p] = @ \cup {g.autoid + 1}],
                       autoid |-> g.autoid + 1, fid |-> g.fid]
  BY DEF Send
<1>2. [g.screen EXCEPT ![p] = @ \cup {g.autoid + 1}]
        = [q \in Player |-> [g.screen EXCEPT ![p] = @ \cup {g.autoid + 1}][q]]
  BY DEF Shape
<1>3. g.autoid + 1 \in Nat
  BY DEF Shape
<1> HIDE DEF Send
<1> QED  BY <1>1, <1>2, <1>3 DEF Shape

\* Sending a form just made: it is owned, and what the player had open is gone.
LEMMA SendNewOwned ==
    ASSUME NEW g, Shape(g), NEW f, OwnedBut(g, f), NEW p \in Player, NEW form
    PROVE  /\ Shape(SendNew(g, p, form))
           /\ OwnedBut(SendNew(g, p, form), f)
           /\ SendNew(g, p, form).open = Put(g.open, p, g.autoid + 1)
           /\ SendNew(g, p, form).made[g.autoid + 1] = form
           /\ \A q \in DOMAIN g.open \ {p} :
                g.open[q] # 0 => SendNew(g, p, form).made[g.open[q]] = g.made[g.open[q]]
           /\ \A q \in Player : \A i \in g.screen[q] : i \in SendNew(g, p, form).screen[q]
<1> DEFINE n == g.autoid + 1
           s == Send(g, p, n)
           h == SendNew(g, p, form)
<1>1. /\ Shape(s)
      /\ s.open = Put(g.open, p, n)
      /\ s.made = Without(g.made, Closed(g, p))
      /\ s.autoid = n
      /\ s.screen = [g.screen EXCEPT ![p] = @ \cup {n}]
  BY SendFields
<1>2. h = [s EXCEPT !.made = Put(@, n, form)]
  BY DEF SendNew
<1>3. n \in Nat /\ n > g.autoid /\ g.autoid \in Nat
  BY DEF Shape
<1> HIDE DEF s, h, n
<1>4. h = [open |-> s.open, made |-> Put(s.made, n, form), screen |-> s.screen,
           autoid |-> s.autoid, fid |-> s.fid]
  BY <1>1, <1>2 DEF Shape
<1>5. Shape(h)
  BY <1>1, <1>4 DEF Shape
<1>6. /\ h.open = Put(g.open, p, n)
      /\ h.made = Put(Without(g.made, Closed(g, p)), n, form)
      /\ h.autoid = n
  BY <1>1, <1>4
<1>7. /\ DOMAIN h.open = DOMAIN g.open \cup {p}
      /\ h.open[p] = n
      /\ \A q \in DOMAIN g.open \ {p} : h.open[q] = g.open[q]
      /\ DOMAIN h.made = (DOMAIN g.made \ Closed(g, p)) \cup {n}
      /\ h.made[n] = form
      /\ \A m \in DOMAIN g.made \ Closed(g, p) : m # n => h.made[m] = g.made[m]
  BY <1>6 DEF Put, Without
<1>8. \A m \in DOMAIN g.made : m \in Nat /\ 0 < m /\ m # n /\ m <= n
  BY <1>3 DEF OwnedBut
<1>9. ASSUME NEW q \in DOMAIN g.open \ {p}, g.open[q] # 0
      PROVE  /\ g.open[q] \in DOMAIN g.made \ Closed(g, p)
             /\ g.open[q] # f
             /\ h.made[g.open[q]] = g.made[g.open[q]]
  <2>1. g.open[q] \in DOMAIN g.made /\ g.open[q] # f
    BY <1>9 DEF OwnedBut
  <2>2. g.open[q] \notin Closed(g, p)
    BY <1>9 DEF OwnedBut, Closed
  <2> QED  BY <2>1, <2>2, <1>7, <1>8
<1>10. OwnedBut(h, f)
  <2>1. /\ \A m \in DOMAIN h.made : m \in Nat /\ 0 < m /\ m <= h.autoid
        /\ f \in Nat /\ f <= h.autoid
    BY <1>3, <1>6, <1>7, <1>8 DEF OwnedBut
  <2>2. ASSUME NEW m \in DOMAIN h.made
        PROVE  m = f \/ \E q \in DOMAIN h.open : h.open[q] = m
    <3>1. CASE m = n
      BY <3>1, <1>7
    <3>2. CASE m # n
      <4>1. m \in DOMAIN g.made /\ m \notin Closed(g, p)
        BY <3>2, <1>7
      <4>2. CASE \E q \in DOMAIN g.open : g.open[q] = m
        BY <4>1, <4>2, <1>7 DEF Closed
      <4> QED  BY <4>1, <4>2 DEF OwnedBut
    <3> QED  BY <3>1, <3>2
  <2>3. ASSUME NEW q \in DOMAIN h.open, h.open[q] # 0
        PROVE  h.open[q] \in DOMAIN h.made /\ h.open[q] # f
    <3>1. CASE q = p
      <4>1. f # n
        BY <1>3 DEF OwnedBut
      <4> QED  BY <3>1, <4>1, <1>7
    <3>2. CASE q # p
      BY <2>3, <3>2, <1>7, <1>9
    <3> QED  BY <3>1, <3>2
  <2>4. ASSUME NEW q \in DOMAIN h.open, NEW r \in DOMAIN h.open,
               h.open[q] = h.open[r], h.open[q] # 0
        PROVE  q = r
    BY <2>4, <1>7, <1>8, <1>9 DEF OwnedBut
  <2> QED  BY <2>1, <2>2, <2>3, <2>4 DEF OwnedBut
<1>11. \A q \in Player : \A i \in g.screen[q] : i \in h.screen[q]
  BY <1>1, <1>4 DEF Shape
<1> QED  BY <1>5, <1>6, <1>7, <1>9, <1>10, <1>11 DEF n, h

\* Sending the static form: what the player had open is gone, nothing is made.
LEMMA SendTPGUIOwned ==
    ASSUME NEW g, Shape(g), OwnedBut(g, 0), NEW p \in Player
    PROVE  /\ Shape(SendTPGUI(g, p))
           /\ OwnedBut(SendTPGUI(g, p), 0)
           /\ SendTPGUI(g, p).open = Put(g.open, p, 0)
           /\ \A q \in DOMAIN g.open \ {p} :
                g.open[q] # 0 => SendTPGUI(g, p).made[g.open[q]] = g.made[g.open[q]]
           /\ \A q \in Player : \A i \in g.screen[q] : i \in SendTPGUI(g, p).screen[q]
<1> DEFINE s == Send(g, p, 0)
           h == SendTPGUI(g, p)
<1>1. /\ Shape(s)
      /\ s.open = Put(g.open, p, 0)
      /\ s.made = Without(g.made, Closed(g, p))
      /\ s.autoid = g.autoid + 1
      /\ s.screen = [g.screen EXCEPT ![p] = @ \cup {g.autoid + 1}]
  BY SendFields
<1>2. h = [s EXCEPT !.fid = g.autoid + 1]
  BY DEF SendTPGUI, TPGUI
<1> HIDE DEF s, h
<1>3. h = [open |-> s.open, made |-> s.made, screen |-> s.screen,
           autoid |-> s.autoid, fid |-> g.autoid + 1]
  BY <1>1, <1>2 DEF Shape
<1>4. Shape(h)
  BY <1>1, <1>3 DEF Shape
<1>5. /\ h.open = Put(g.open, p, 0)
      /\ h.made = Without(g.made, Closed(g, p))
      /\ h.autoid = g.autoid + 1 /\ g.autoid \in Nat
  BY <1>1, <1>3 DEF Shape
<1>6. /\ DOMAIN h.open = DOMAIN g.open \cup {p}
      /\ h.open[p] = 0
      /\ \A q \in DOMAIN g.open \ {p} : h.open[q] = g.open[q]
      /\ DOMAIN h.made = DOMAIN g.made \ Closed(g, p)
      /\ \A m \in DOMAIN g.made \ Closed(g, p) : h.made[m] = g.made[m]
  BY <1>5 DEF Put, Without
<1>7. ASSUME NEW q \in DOMAIN g.open \ {p}, g.open[q] # 0
      PROVE  g.open[q] \in DOMAIN g.made \ Closed(g, p)
  BY <1>7 DEF OwnedBut, Closed
<1>8. OwnedBut(h, 0)
  <2>1. /\ \A m \in DOMAIN h.made : m \in Nat /\ 0 < m /\ m <= h.autoid
        /\ 0 <= h.autoid
    BY <1>5, <1>6 DEF OwnedBut
  <2>2. ASSUME NEW m \in DOMAIN h.made
        PROVE  \E q \in DOMAIN h.open : h.open[q] = m
    <3>1. m \in DOMAIN g.made /\ m # 0 /\ m \notin Closed(g, p)
      BY <1>6, <2>1
    <3>2. PICK q \in DOMAIN g.open : g.open[q] = m
      BY <3>1 DEF OwnedBut
    <3>3. q # p
      BY <3>1, <3>2 DEF Closed
    <3> QED  BY <3>2, <3>3, <1>6
  <2>3. \A q \in DOMAIN h.open : h.open[q] # 0 => h.open[q] \in DOMAIN h.made
    BY <1>6, <1>7
  <2>4. \A q, r \in DOMAIN h.open : h.open[q] = h.open[r] /\ h.open[q] # 0 => q = r
    BY <1>6 DEF OwnedBut
  <2> QED  BY <2>1, <2>2, <2>3, <2>4 DEF OwnedBut
<1>9. \A q \in Player : \A i \in g.screen[q] : i \in h.screen[q]
  BY <1>1, <1>3 DEF Shape
<1> QED  BY <1>4, <1>5, <1>6, <1>7, <1>8, <1>9 DEF h

\* The handler of an answer takes note of it and erases the player's entry:
\* it then holds the form the player had open.
LEMMA EraseOwned ==
    ASSUME NEW g, Shape(g), OwnedBut(g, 0), NEW p \in DOMAIN g.open, NEW id
    PROVE  /\ Shape(Erase(Seen(g, p, id), p))
           /\ OwnedBut(Erase(Seen(g, p, id), p), g.open[p])
           /\ Erase(Seen(g, p, id), p).open = Without(g.open, {p})
           /\ Erase(Seen(g, p, id), p).made = g.made
           /\ \A q \in Player : \A i \in g.screen[q] :
                i \in Erase(Seen(g, p, id), p).screen[q] \/ (q = p /\ i = id)
<1> DEFINE h == Erase(Seen(g, p, id), p)
           sc == [g.screen EXCEPT ![p] = @ \ {id}]
<1>1. Seen(g, p, id) = [open |-> g.open, made |-> g.made, screen |-> sc,
                        autoid |-> g.autoid, fid |-> g.fid]
  <2>1. PICK s : s = sc
    OBVIOUS
  <2>2. Seen(g, p, id) = [g EXCEPT !.screen = s]
    BY <2>1, Zenon DEF Seen
  <2> HIDE DEF sc
  <2>3. g = [open |-> g.open, made |-> g.made, screen |-> g.screen,
             autoid |-> g.autoid, fid |-> g.fid]
    BY Zenon DEF Shape
  <2>4. [g EXCEPT !.screen = s] = [open |-> g.open, made |-> g.made, screen |-> s,
                                   autoid |-> g.autoid, fid |-> g.fid]
    BY <2>3
  <2> QED  BY <2>1, <2>2, <2>4
<1>2. h = [open |-> Without(g.open, {p}), made |-> g.made, screen |-> sc,
           autoid |-> g.autoid, fid |-> g.fid]
  BY <1>1 DEF Erase
<1>3. sc = [q \in Player |-> sc[q]]
  BY DEF Shape
<1>4. \A q \in Player : \A i \in g.screen[q] : i \in sc[q] \/ (q = p /\ i = id)
  BY DEF Shape
<1> HIDE DEF h, sc
<1>5. Shape(h)
  BY <1>2, <1>3 DEF Shape
<1>6. /\ h.made = g.made /\ h.autoid = g.autoid /\ g.autoid \in Nat
      /\ DOMAIN h.open = DOMAIN g.open \ {p}
      /\ \A q \in DOMAIN h.open : h.open[q] = g.open[q]
  BY <1>2 DEF Without, Shape
<1>7. OwnedBut(h, g.open[p])
  <2>1. g.open[p] \in Nat /\ g.open[p] <= g.autoid
    BY <1>6 DEF OwnedBut
  <2>2. \A m \in DOMAIN g.made : m = g.open[p] \/ \E q \in DOMAIN h.open : h.open[q] = m
    BY <1>6 DEF OwnedBut
  <2>3. \A q \in DOMAIN h.open :
            h.open[q] # 0 => h.open[q] \in DOMAIN h.made /\ h.open[q] # g.open[p]
    BY <1>6 DEF OwnedBut
  <2> QED  BY <2>1, <2>2, <2>3, <1>6 DEF OwnedBut
<1> QED  BY <1>2, <1>4, <1>5, <1>7 DEF h

\* relForm ends what the handler holds.
LEMMA DeleteOwned ==
    ASSUME NEW g, Shape(g), NEW f, OwnedBut(g, f)
    PROVE  /\ Shape(Delete(g, f))
           /\ OwnedBut(Delete(g, f), 0)
           /\ Delete(g, f).open = g.open
           /\ \A q \in DOMAIN g.open :
                g.open[q] # 0 => Delete(g, f).made[g.open[q]] = g.made[g.open[q]]
           /\ Delete(g, f).screen = g.screen
<1> DEFINE h == Delete(g, f)
<1>1. h = [open |-> g.open, made |-> Without(g.made, {f}), screen |-> g.screen,
           autoid |-> g.autoid, fid |-> g.fid]
  BY DEF Delete, Shape
<1> HIDE DEF h
<1>2. Shape(h)
  BY <1>1 DEF Shape
<1>3. /\ h.open = g.open /\ h.autoid = g.autoid /\ g.autoid \in Nat
      /\ DOMAIN h.made = DOMAIN g.made \ {f}
      /\ \A m \in DOMAIN g.made \ {f} : h.made[m] = g.made[m]
  BY <1>1 DEF Without, Shape
<1>4. OwnedBut(h, 0)
  BY <1>3 DEF OwnedBut
<1>5. \A q \in DOMAIN g.open : g.open[q] # 0 => g.open[q] \in DOMAIN g.made \ {f}
  BY DEF OwnedBut
<1> QED  BY <1>1, <1>2, <1>3, <1>4, <1>5 DEF h

-----------------------------------------------------------------------------
\* What a request adds keeps the forms current.
LEMMA AskCurrent ==
    ASSUME NEW g, Shape(g), NEW f, OwnedBut(g, f), Current(g, tpmap),
           NEW p, NEW q \in Player, NEW dir, Ask(p, q, dir, g)
    PROVE  Current(SendNew(g, q, Request), tpmap')
<1> DEFINE h == SendNew(g, q, Request)
<1>1. /\ DOMAIN tpmap' = DOMAIN tpmap \cup {q}
      /\ tpmap'[q].fid = g.autoid + 1
      /\ \A r \in DOMAIN tpmap \ {q} : tpmap'[r] = tpmap[r]
  BY DEF Ask, Put
<1>2. /\ h.open = Put(g.open, q, g.autoid + 1)
      /\ \A r \in DOMAIN g.open \ {q} :
            g.open[r] # 0 => h.made[g.open[r]] = g.made[g.open[r]]
  BY SendNewOwned
<1> HIDE DEF h
<1>3. /\ DOMAIN h.open = DOMAIN g.open \cup {q}
      /\ h.open[q] = g.autoid + 1
      /\ \A r \in DOMAIN g.open \ {q} : h.open[r] = g.open[r]
  BY <1>2 DEF Put
<1>4. Current(h, tpmap')
  BY <1>1, <1>2, <1>3 DEF Current
<1> QED  BY <1>4 DEF h

\* A choice of players tells of no request.
LEMMA ChooseCurrent ==
    ASSUME NEW g, Shape(g), NEW f, OwnedBut(g, f), NEW m, Current(g, m),
           NEW p \in Player, NEW dir
    PROVE  Current(SendNew(g, p, Choose(dir)), m)
<1> DEFINE h == SendNew(g, p, Choose(dir))
<1>1. /\ h.open = Put(g.open, p, g.autoid + 1)
      /\ h.made[g.autoid + 1] = Choose(dir)
      /\ \A r \in DOMAIN g.open \ {p} :
            g.open[r] # 0 => h.made[g.open[r]] = g.made[g.open[r]]
  BY SendNewOwned
<1> HIDE DEF h
<1>2. /\ DOMAIN h.open = DOMAIN g.open \cup {p}
      /\ h.open[p] = g.autoid + 1
      /\ \A r \in DOMAIN g.open \ {p} : h.open[r] = g.open[r]
  BY <1>1 DEF Put
<1>3. h.made[h.open[p]].kind = "choose"
  BY <1>1, <1>2 DEF Choose
<1>4. Current(h, m)
  BY <1>1, <1>2, <1>3 DEF Current
<1> QED  BY <1>4 DEF h

\* A conclusion takes away one request; nothing else happens to them.
LEMMA ConcludeFewer ==
    ASSUME NEW p, Conclude(p) \/ UNCHANGED requests
    PROVE  /\ DOMAIN tpmap' \subseteq DOMAIN tpmap
           /\ \A q \in DOMAIN tpmap' : tpmap'[q].fid = tpmap[q].fid
           /\ DOMAIN tpmap \ DOMAIN tpmap' \subseteq {p}
<1>1. CASE Conclude(p)
  BY <1>1 DEF Conclude, Without
<1>2. CASE UNCHANGED requests
  BY <1>2 DEF requests
<1> QED  BY <1>1, <1>2

\* Fewer requests leave the forms current.
LEMMA FewerCurrent ==
    ASSUME NEW g, Current(g, tpmap), DOMAIN tpmap' \subseteq DOMAIN tpmap,
           \A q \in DOMAIN tpmap' : tpmap'[q].fid = tpmap[q].fid
    PROVE  Current(g, tpmap')
  BY DEF Current

\* Deleting the form that is held keeps the others current.
LEMMA DeleteCurrent ==
    ASSUME NEW g, Shape(g), NEW f, OwnedBut(g, f), NEW m, Current(g, m)
    PROVE  Current(Delete(g, f), m)
<1> DEFINE h == Delete(g, f)
<1>1. /\ h.open = g.open
      /\ \A q \in DOMAIN g.open : g.open[q] # 0 => h.made[g.open[q]] = g.made[g.open[q]]
  BY DeleteOwned
<1> HIDE DEF h
<1>2. Current(h, m)
  BY <1>1 DEF Current
<1> QED  BY <1>2 DEF h

(***************************************************************************)
(* What an answer of p to the form numbered id leaves: the invariant of    *)
(* the forms; no number but id leaves p's screen, and no request ends but  *)
(* p's that the form told of.                                              *)
(***************************************************************************)
Good == Shape(gui') /\ OwnedBut(gui', 0) /\ Current(gui', tpmap')

ScreensBut(screen, p, id) ==
    \A q \in Player : \A i \in gui.screen[q] : i \in screen[q] \/ (q = p /\ i = id)

Ends(p, id) == \A q \in DOMAIN tpmap \ DOMAIN tpmap' : q = p /\ tpmap[q].fid = id

\* A callback.
LEMMA CallbackStep ==
    ASSUME GuiInv, NEW p \in Player, NEW id, Heard(p, id),
           Callback(p, gui.open[p], Erase(Seen(gui, p, id), p))
    PROVE  Good /\ ScreensBut(gui'.screen, p, id) /\ Ends(p, id)
<1> DEFINE f == gui.open[p]
           g == Erase(Seen(gui, p, id), p)
<1>1. /\ p \in DOMAIN gui.open /\ Shape(gui) /\ OwnedBut(gui, 0) /\ Current(gui, tpmap)
      /\ online \subseteq Player
      /\ f # 0 => id = f
  BY DEF Heard, GuiInv, FidOf, TPGUI
<1>2. /\ Shape(g) /\ OwnedBut(g, f)
      /\ g.open = Without(gui.open, {p}) /\ g.made = gui.made
      /\ ScreensBut(g.screen, p, id)
  <2>1. /\ Shape(g) /\ OwnedBut(g, f)
        /\ g.open = Without(gui.open, {p}) /\ g.made = gui.made
        /\ \A q \in Player : \A i \in gui.screen[q] : i \in g.screen[q] \/ (q = p /\ i = id)
    <3>1. p \in DOMAIN gui.open /\ Shape(gui) /\ OwnedBut(gui, 0)
      BY <1>1
    <3> QED  BY <3>1, EraseOwned, Zenon
  <2> HIDE DEF f, g
  <2> QED  BY <2>1 DEF ScreensBut
<1>3. Callback(p, f, g)
  OBVIOUS
<1> HIDE DEF f, g
<1>4. Current(g, tpmap)
  BY <1>1, <1>2 DEF Current, Without
<1>5. CASE gui' = Delete(g, f) /\ UNCHANGED requests
  <2>1. Current(Delete(g, f), tpmap)
    BY <1>2, <1>4, DeleteCurrent
  <2>2. tpmap' = tpmap
    BY <1>5 DEF requests
  <2>3. Shape(gui') /\ OwnedBut(gui', 0) /\ gui'.screen = g.screen
    BY <1>2, <1>5, DeleteOwned
  <2> QED  BY <1>2, <1>5, <2>1, <2>2, <2>3 DEF Good, Ends
<1>6. ASSUME f = TPGUI, NEW dir, gui' = SendNew(g, p, Choose(dir)), UNCHANGED requests
      PROVE  Good /\ ScreensBut(gui'.screen, p, id) /\ Ends(p, id)
  <2>1. OwnedBut(g, 0) /\ tpmap' = tpmap
    BY <1>2, <1>6 DEF TPGUI, requests
  <2>2. Current(gui', tpmap)
    BY <1>2, <1>4, <1>6, ChooseCurrent
  <2>3. /\ Shape(gui') /\ OwnedBut(gui', 0)
        /\ \A q \in Player : \A i \in g.screen[q] : i \in gui'.screen[q]
    BY <1>2, <1>6, <2>1, SendNewOwned
  <2> QED  BY <1>2, <2>1, <2>2, <2>3 DEF Good, Ends, ScreensBut
<1>7. ASSUME NEW q, NEW dir, Ask(p, q, dir, g), gui' = Delete(SendNew(g, q, Request), f)
      PROVE  Good /\ ScreensBut(gui'.screen, p, id) /\ Ends(p, id)
  <2> DEFINE h == SendNew(g, q, Request)
  <2>1. q \in Player
    BY <1>1, <1>7 DEF Ask, MayAsk
  <2>2. Current(h, tpmap')
    BY <1>2, <1>4, <1>7, <2>1, AskCurrent
  <2>3. /\ Shape(h) /\ OwnedBut(h, f)
        /\ \A r \in Player : \A i \in g.screen[r] : i \in h.screen[r]
    BY <1>2, <2>1, SendNewOwned
  <2>4. gui' = Delete(h, f)
    BY <1>7
  <2> HIDE DEF h
  <2>5. Current(gui', tpmap')
    BY <2>2, <2>3, <2>4, DeleteCurrent
  <2>6. Shape(gui') /\ OwnedBut(gui', 0) /\ gui'.screen = h.screen
    BY <2>3, <2>4, DeleteOwned
  <2>7. DOMAIN tpmap \subseteq DOMAIN tpmap'
    BY <1>7 DEF Ask, Put
  <2> QED  BY <1>2, <2>3, <2>5, <2>6, <2>7 DEF Good, Ends, ScreensBut
<1>8. ASSUME f # TPGUI, gui.made[f].kind = "request", Conclude(p), gui' = Delete(g, f)
      PROVE  Good /\ ScreensBut(gui'.screen, p, id) /\ Ends(p, id)
  <2>1. Current(g, tpmap')
    BY <1>4, <1>8, ConcludeFewer, FewerCurrent
  <2>2. Current(gui', tpmap')
    BY <1>2, <1>8, <2>1, DeleteCurrent
  <2>3. Shape(gui') /\ OwnedBut(gui', 0) /\ gui'.screen = g.screen
    BY <1>2, <1>8, DeleteOwned
  <2>4. tpmap[p].fid = id
    BY <1>1, <1>8 DEF Current, Conclude, TPGUI, f
  <2>5. DOMAIN tpmap \ DOMAIN tpmap' \subseteq {p}
    BY <1>8, ConcludeFewer
  <2> QED  BY <1>2, <2>2, <2>3, <2>4, <2>5 DEF Good, Ends
<1> QED  BY <1>1, <1>2, <1>3, <1>5, <1>6, <1>7, <1>8 DEF Callback

-----------------------------------------------------------------------------
\* The server starts without forms.
LEMMA GuiInit == Init => GuiInv
<1> SUFFICES ASSUME Init PROVE GuiInv
  OBVIOUS
<1>1. gui.open = <<>> /\ gui.made = <<>> /\ gui.autoid = 0 /\ gui.fid = 0
      /\ gui.screen = [p \in Player |-> {}]
  BY DEF Init
<1>2. Shape(gui)
  BY <1>1 DEF Init, Shape
<1>3. OwnedBut(gui, 0) /\ Current(gui, tpmap)
  BY <1>1 DEF OwnedBut, Current
<1> QED  BY <1>2, <1>3 DEF Init, GuiInv

(***************************************************************************)
(* Every step keeps the invariant, and ends a request only as it may while *)
(* an answer comes in.                                                     *)
(***************************************************************************)
MayEnd == \A p \in Player, id \in 1 .. MaxForms : Answered(p, id) => Ends(p, id)

Keeps == GuiInv' /\ MayEnd

\* No answer comes in while no number leaves a screen.
LEMMA NoAnswer ==
    ASSUME \A q \in Player : \A i \in gui.screen[q] : i \in gui'.screen[q] \/ q \notin online'
    PROVE  MayEnd
  BY DEF MayEnd, Answered

LEMMA GuiNext == GuiInv /\ [Next]_tpVars => Keeps
<1> SUFFICES ASSUME GuiInv, [Next]_tpVars PROVE Keeps
  OBVIOUS
<1>1. Shape(gui) /\ OwnedBut(gui, 0) /\ Current(gui, tpmap) /\ online \subseteq Player
  BY DEF GuiInv
<1>2. ASSUME UNCHANGED gui, online' \subseteq Player,
             DOMAIN tpmap' \subseteq DOMAIN tpmap,
             \A q \in DOMAIN tpmap' : tpmap'[q].fid = tpmap[q].fid
      PROVE  Keeps
  <2>1. Current(gui, tpmap')
    BY <1>1, <1>2, FewerCurrent
  <2>2. MayEnd
    BY <1>2, NoAnswer
  <2> QED  BY <1>1, <1>2, <2>1, <2>2 DEF Keeps, GuiInv
<1>3. ASSUME NEW p \in Player, Join(p) PROVE Keeps
  <2>1. tpmap' = tpmap /\ UNCHANGED gui /\ online' = online \cup {p}
    BY <1>3 DEF Join, requests
  <2> QED  BY <1>1, <1>2, <2>1
<1>4. ASSUME NEW p \in Player, Leave(p) PROVE Keeps
  <2> DEFINE sc == [gui.screen EXCEPT ![p] = {}]
  <2>1. /\ gui' = [open |-> Without(gui.open, {p}),
                   made |-> Without(gui.made, Closed(gui, p)),
                   screen |-> sc, autoid |-> gui.autoid, fid |-> gui.fid]
        /\ online' = online \ {p} /\ tpmap' = tpmap
    BY <1>1, <1>4 DEF Leave, Erase, Shape, requests
  <2>2. /\ sc = [q \in Player |-> sc[q]]
        /\ \A q \in Player \ {p} : sc[q] = gui.screen[q]
    BY <1>1 DEF Shape
  <2> HIDE DEF sc
  <2>3. Shape(gui')
    BY <1>1, <2>1, <2>2 DEF Shape
  <2>4. /\ DOMAIN gui'.open = DOMAIN gui.open \ {p}
        /\ \A q \in DOMAIN gui'.open : gui'.open[q] = gui.open[q]
        /\ DOMAIN gui'.made = DOMAIN gui.made \ Closed(gui, p)
        /\ \A m \in DOMAIN gui'.made : gui'.made[m] = gui.made[m]
        /\ gui'.autoid = gui.autoid
    BY <2>1 DEF Without
  <2>5. OwnedBut(gui', 0)
    <3>1. \A q \in DOMAIN gui'.open : gui.open[q] # 0 => gui.open[q] \in DOMAIN gui'.made
      BY <1>1, <2>4 DEF OwnedBut, Closed
    <3>2. ASSUME NEW m \in DOMAIN gui'.made PROVE \E q \in DOMAIN gui'.open : gui'.open[q] = m
      <4>1. m \in DOMAIN gui.made /\ m \notin Closed(gui, p) /\ m # 0
        BY <1>1, <2>4 DEF OwnedBut
      <4>2. PICK q \in DOMAIN gui.open : gui.open[q] = m
        BY <1>1, <4>1 DEF OwnedBut
      <4>3. q # p
        BY <4>1, <4>2 DEF Closed
      <4> QED  BY <2>4, <4>2, <4>3
    <3> QED  BY <1>1, <2>4, <3>1, <3>2 DEF OwnedBut
  <2>6. Current(gui', tpmap')
    <3>1. \A q \in DOMAIN gui'.open : gui.open[q] # 0 => gui.open[q] \in DOMAIN gui'.made
      BY <2>5, <2>4 DEF OwnedBut
    <3>2. tpmap' = tpmap
      BY <2>1
    <3> QED  BY <1>1, <2>4, <3>1, <3>2 DEF Current
  <2>7. MayEnd
    BY <2>1, <2>2, NoAnswer
  <2> QED  BY <1>1, <2>1, <2>3, <2>5, <2>6, <2>7 DEF Keeps, GuiInv
<1>5. ASSUME NEW p \in Player, Command(p) PROVE Keeps
  <2>1. ASSUME NEW q \in Player, NEW dir, Ask(p, q, dir, gui), gui' = SendNew(gui, q, Request),
               UNCHANGED online
        PROVE  Keeps
    <3>1. Current(gui', tpmap')
      BY <1>1, <2>1, AskCurrent
    <3>2. /\ Shape(gui') /\ OwnedBut(gui', 0)
          /\ \A r \in Player : \A i \in gui.screen[r] : i \in gui'.screen[r]
      BY <1>1, <2>1, SendNewOwned
    <3>3. MayEnd
      BY <3>2, NoAnswer
    <3> QED  BY <1>1, <2>1, <3>1, <3>2, <3>3 DEF Keeps, GuiInv
  <2>2. ASSUME Conclude(p), UNCHANGED gui, UNCHANGED online PROVE Keeps
    BY <1>1, <1>2, <2>2, ConcludeFewer
  <2> QED  BY <1>5, <2>1, <2>2 DEF Command
<1>6. ASSUME NEW p \in Player, Cancel(p) PROVE Keeps
  BY <1>1, <1>2, <1>6 DEF Cancel, Without
<1>7. ASSUME NEW p \in Player, OpenGui(p) PROVE Keeps
  <2>1. /\ gui' = SendTPGUI(gui, p) /\ UNCHANGED online /\ tpmap' = tpmap
    BY <1>7 DEF OpenGui, requests
  <2>2. /\ Shape(gui') /\ OwnedBut(gui', 0)
        /\ gui'.open = Put(gui.open, p, 0)
        /\ \A q \in DOMAIN gui.open \ {p} :
              gui.open[q] # 0 => gui'.made[gui.open[q]] = gui.made[gui.open[q]]
        /\ \A q \in Player : \A i \in gui.screen[q] : i \in gui'.screen[q]
    BY <1>1, <2>1, SendTPGUIOwned
  <2>3. Current(gui', tpmap')
    BY <1>1, <2>1, <2>2 DEF Current, Put
  <2>4. MayEnd
    BY <2>2, NoAnswer
  <2> QED  BY <1>1, <2>1, <2>2, <2>3, <2>4 DEF Keeps, GuiInv
<1>8. ASSUME NEW p \in Player, NEW id, Answer(p, id) PROVE Keeps
  <2>1. Good /\ ScreensBut(gui'.screen, p, id) /\ Ends(p, id)
    <3>1. CASE Heard(p, id)
      <4>1. Callback(p, gui.open[p], Erase(Seen(gui, p, id), p))
        BY <1>8, <3>1 DEF Answer
      <4> QED  BY <3>1, <4>1, CallbackStep
    <3>2. CASE ~Heard(p, id)
      <4> DEFINE sc == [gui.screen EXCEPT ![p] = @ \ {id}]
      <4>1. gui' = Seen(gui, p, id) /\ tpmap' = tpmap
        BY <1>8, <3>2 DEF Answer, requests
      <4>2. gui' = [open |-> gui.open, made |-> gui.made, screen |-> sc,
                    autoid |-> gui.autoid, fid |-> gui.fid]
        BY <1>1, <4>1 DEF Seen, Shape
      <4>3. /\ sc = [q \in Player |-> sc[q]]
            /\ \A q \in Player : \A i \in gui.screen[q] : i \in sc[q] \/ (q = p /\ i = id)
        BY <1>1 DEF Shape
      <4> HIDE DEF sc
      <4>4. Shape(gui')
        BY <1>1, <4>2, <4>3 DEF Shape
      <4>5. OwnedBut(gui', 0) /\ Current(gui', tpmap')
        BY <1>1, <4>1, <4>2 DEF OwnedBut, Current
      <4> QED  BY <4>1, <4>2, <4>3, <4>4, <4>5 DEF Good, ScreensBut, Ends
    <3> QED  BY <3>1, <3>2
  <2>2. UNCHANGED online
    BY <1>8 DEF Answer
  <2>3. ASSUME NEW q \in Player, NEW i \in 1 .. MaxForms, Answered(q, i) PROVE Ends(q, i)
    <3>1. q = p /\ i = id
      BY <2>1, <2>3 DEF Answered, ScreensBut
    <3> QED  BY <2>1, <3>1
  <2> QED  BY <1>1, <2>1, <2>2, <2>3 DEF Keeps, GuiInv, Good, MayEnd
<1>9. ASSUME NEW p \in Player, Expire(p) PROVE Keeps
  BY <1>1, <1>2, <1>9 DEF Expire, Without
<1>10. ASSUME NEW p \in Player, DieTelling(p) PROVE Keeps
  <2>1. /\ gui' = [open |-> <<>>, made |-> <<>>, screen |-> [q \in Player |-> {}],
                   autoid |-> gui.autoid, fid |-> gui.fid]
        /\ online' = {}
    BY <1>1, <1>10 DEF DieTelling, Shape
  <2>2. Shape(gui')
    BY <1>1, <2>1 DEF Shape
  <2>3. OwnedBut(gui', 0) /\ Current(gui', tpmap')
    BY <1>1, <2>1 DEF OwnedBut, Current, Shape
  <2>4. MayEnd
    BY <2>1, NoAnswer
  <2> QED  BY <2>1, <2>2, <2>3, <2>4 DEF Keeps, GuiInv
<1>11. CASE Pass
  BY <1>1, <1>2, <1>11 DEF Pass, Older
<1>12. CASE UNCHANGED tpVars
  <2>1. tpmap' = tpmap /\ UNCHANGED gui /\ UNCHANGED online
    BY <1>12 DEF tpVars, requests
  <2> QED  BY <1>1, <1>2, <2>1
<1> QED  BY <1>3, <1>4, <1>5, <1>6, <1>7, <1>8, <1>9, <1>10, <1>11, <1>12 DEF Next

\* The invariant holds of every behaviour.
LEMMA GuiInvariant == Spec => []GuiInv
<1>1. GuiInv /\ [Next]_tpVars => GuiInv'
  BY GuiNext DEF Keeps
<1> QED  BY GuiInit, <1>1, PTL DEF Spec

(***************************************************************************)
(* sendForm, the handler of answers and the departure of players (gui      *)
(* main.cpp:84-113, PlayerMap.h) neither leak a form nor leave one open    *)
(* that is deleted, whatever callbacks send on the way.                    *)
(***************************************************************************)
THEOREM FormsAreOwned == Spec => []FormsOwned
<1>1. GuiInv => FormsOwned
  <2> SUFFICES ASSUME GuiInv PROVE FormsOwned
    OBVIOUS
  <2>1. OwnedBut(gui, 0)
    BY DEF GuiInv
  <2>2. {gui.open[p] : p \in DOMAIN gui.open} \ {0} = DOMAIN gui.made
    BY <2>1 DEF OwnedBut
  <2> QED  BY <2>1, <2>2 DEF FormsOwned, TPGUI, OwnedBut
<1> QED  BY <1>1, GuiInvariant, PTL

(***************************************************************************)
(* However late the answer to a form comes, it concludes no other request  *)
(* than the one the form told of (tp main.cpp:151-168, gui 97-110).        *)
(***************************************************************************)
THEOREM LateAnswersAreHarmless == Spec => LateAnswerHarmless
<1>1. GuiInv /\ [Next]_tpVars =>
        [\A p \in Player, id \in 1 .. MaxForms : Answered(p, id) =>
           \A q \in DOMAIN tpmap \ DOMAIN tpmap' : q = p /\ tpmap[q].fid = id]_tpVars
  BY GuiNext DEF Keeps, MayEnd, Ends
<1> QED  BY <1>1, GuiInvariant, PTL DEF Spec, LateAnswerHarmless

-----------------------------------------------------------------------------
(***************************************************************************)
(* Types.  A form to choose a player from knows which command it is for.   *)
(***************************************************************************)
FormsTyped(g, on) ==
    /\ g.autoid \in 0 .. MaxForms /\ g.fid \in 0 .. g.autoid
    /\ DOMAIN g.open \subseteq on /\ g.open \in [DOMAIN g.open -> 0 .. g.autoid]
    /\ DOMAIN g.made \subseteq 1 .. g.autoid
    /\ \A n \in DOMAIN g.made : g.made[n].kind = "choose" => g.made[n].dir \in {"f", "t"}
    /\ \A p \in Player : g.screen[p] \subseteq IF p \in on THEN 1 .. g.autoid ELSE {}

RequestOf(n) == [dir : {"f", "t"}, name : Player, age : 0 .. Timeout, fid : 1 .. n]

WaitingTyped(m, n) == DOMAIN m \subseteq Player /\ m \in [DOMAIN m -> RequestOf(n)]

TargetsTyped == DOMAIN player_target \subseteq Player /\ player_target \in [DOMAIN player_target -> Player]

TypesInv ==
    /\ GuiInv /\ FormsTyped(gui, online)
    /\ WaitingTyped(tpmap, gui.autoid) /\ TargetsTyped

\* Numbers only grow.
LEMMA OlderRequests ==
    ASSUME NEW m, NEW k \in Nat, NEW n \in Nat, k <= n, WaitingTyped(m, k)
    PROVE  WaitingTyped(m, n)
<1>1. 1 .. k \subseteq 1 .. n
  OBVIOUS
<1>2. RequestOf(k) \subseteq RequestOf(n)
  BY <1>1 DEF RequestOf
<1> QED  BY <1>2 DEF WaitingTyped

\* What a form sent changes.
LEMMA SendTyped ==
    ASSUME NEW g, Shape(g), NEW on, FormsTyped(g, on), Room(g), NEW p \in Player, p \in on,
           NEW f \in 0 .. g.autoid + 1
    PROVE  FormsTyped(Send(g, p, f), on) /\ Send(g, p, f).autoid = g.autoid + 1
<1> DEFINE h == Send(g, p, f)
<1>1. /\ h.open = Put(g.open, p, f) /\ h.made = Without(g.made, Closed(g, p))
      /\ h.autoid = g.autoid + 1 /\ h.fid = g.fid
      /\ h.screen = [g.screen EXCEPT ![p] = @ \cup {g.autoid + 1}]
  BY SendFields
<1> HIDE DEF h
<1>2. g.autoid \in Nat /\ g.autoid < MaxForms /\ MaxForms \in Nat
  BY TeleportAssumption DEF Room, FormsTyped
<1>3. h.autoid \in 0 .. MaxForms /\ h.fid \in 0 .. h.autoid
  BY <1>1, <1>2 DEF FormsTyped
<1>4. DOMAIN h.open \subseteq on /\ h.open \in [DOMAIN h.open -> 0 .. h.autoid]
  BY <1>1, <1>2 DEF FormsTyped, Put
<1>5. DOMAIN h.made \subseteq 1 .. h.autoid
  BY <1>1, <1>2 DEF FormsTyped, Without
<1>6. \A n \in DOMAIN h.made : h.made[n].kind = "choose" => h.made[n].dir \in {"f", "t"}
  BY <1>1 DEF FormsTyped, Without
<1>7. ASSUME NEW q \in Player PROVE h.screen[q] \subseteq IF q \in on THEN 1 .. h.autoid ELSE {}
  <2>1. h.screen[q] = IF q = p THEN g.screen[q] \cup {g.autoid + 1} ELSE g.screen[q]
    BY <1>1 DEF Shape
  <2> QED  BY <1>1, <1>2, <2>1 DEF FormsTyped
<1> QED  BY <1>1, <1>3, <1>4, <1>5, <1>6, <1>7 DEF FormsTyped, h

LEMMA SendNewTyped ==
    ASSUME NEW g, Shape(g), NEW on, FormsTyped(g, on), Room(g), NEW p \in Player, p \in on,
           NEW form, form.kind = "choose" => form.dir \in {"f", "t"}
    PROVE  FormsTyped(SendNew(g, p, form), on) /\ SendNew(g, p, form).autoid = g.autoid + 1
<1> DEFINE n == g.autoid + 1
           s == Send(g, p, n)
           h == SendNew(g, p, form)
<1>1. g.autoid \in Nat /\ n \in 0 .. g.autoid + 1
  BY DEF Shape
<1>2. FormsTyped(s, on) /\ s.autoid = n /\ Shape(s)
  <2>1. FormsTyped(s, on) /\ s.autoid = n
    BY <1>1, SendTyped, Zenon
  <2> QED  BY <2>1, SendFields
<1>3. h = [s EXCEPT !.made = Put(@, n, form)]
  BY DEF SendNew
<1> HIDE DEF s, h
<1>4. h = [open |-> s.open, made |-> Put(s.made, n, form), screen |-> s.screen,
           autoid |-> s.autoid, fid |-> s.fid]
  BY <1>2, <1>3 DEF Shape
<1>5. /\ h.open = s.open /\ h.made = Put(s.made, n, form) /\ h.screen = s.screen
      /\ h.autoid = s.autoid /\ h.fid = s.fid
  BY <1>4
<1>6. DOMAIN h.made \subseteq 1 .. h.autoid
  BY <1>1, <1>2, <1>5 DEF FormsTyped, Put
<1>7. \A m \in DOMAIN h.made : h.made[m].kind = "choose" => h.made[m].dir \in {"f", "t"}
  BY <1>2, <1>5 DEF FormsTyped, Put
<1> QED  BY <1>2, <1>5, <1>6, <1>7 DEF FormsTyped, h

LEMMA SendTPGUITyped ==
    ASSUME NEW g, Shape(g), NEW on, FormsTyped(g, on), Room(g), NEW p \in Player, p \in on
    PROVE  FormsTyped(SendTPGUI(g, p), on) /\ SendTPGUI(g, p).autoid = g.autoid + 1
<1> DEFINE s == Send(g, p, 0)
           h == SendTPGUI(g, p)
<1>1. g.autoid \in Nat /\ 0 \in 0 .. g.autoid + 1
  BY DEF Shape
<1>2. FormsTyped(s, on) /\ s.autoid = g.autoid + 1 /\ Shape(s)
  <2>1. FormsTyped(s, on) /\ s.autoid = g.autoid + 1
    BY <1>1, SendTyped, Zenon
  <2> QED  BY <2>1, SendFields
<1>3. h = [s EXCEPT !.fid = g.autoid + 1]
  BY DEF SendTPGUI, TPGUI
<1> HIDE DEF s, h
<1>4. h = [open |-> s.open, made |-> s.made, screen |-> s.screen,
           autoid |-> s.autoid, fid |-> g.autoid + 1]
  BY <1>2, <1>3 DEF Shape
<1>5. /\ h.open = s.open /\ h.made = s.made /\ h.screen = s.screen
      /\ h.autoid = s.autoid /\ h.fid = g.autoid + 1
  BY <1>4
<1> QED  BY <1>1, <1>2, <1>5 DEF FormsTyped, h

\* What an answer and a deletion take away.
LEMMA FewerTyped ==
    ASSUME NEW g, Shape(g), NEW on, FormsTyped(g, on), NEW p \in Player, NEW id, NEW f
    PROVE  /\ FormsTyped(Seen(g, p, id), on) /\ Seen(g, p, id).autoid = g.autoid
           /\ Shape(Seen(g, p, id)) /\ Seen(g, p, id).open = g.open
           /\ FormsTyped(Erase(g, p), on) /\ Erase(g, p).autoid = g.autoid /\ Shape(Erase(g, p))
           /\ FormsTyped(Delete(g, f), on) /\ Delete(g, f).autoid = g.autoid
<1>1. FormsTyped(Seen(g, p, id), on) /\ Seen(g, p, id).autoid = g.autoid
      /\ Shape(Seen(g, p, id)) /\ Seen(g, p, id).open = g.open
  <2> DEFINE h == Seen(g, p, id)
             sc == [g.screen EXCEPT ![p] = @ \ {id}]
  <2>1. h = [open |-> g.open, made |-> g.made, screen |-> sc, autoid |-> g.autoid, fid |-> g.fid]
    BY DEF Seen, Shape
  <2>2. \A q \in Player : sc[q] \subseteq g.screen[q]
    BY DEF Shape
  <2>3. sc = [q \in Player |-> sc[q]]
    BY DEF Shape
  <2> HIDE DEF h, sc
  <2>4. h.open = g.open /\ h.made = g.made /\ h.screen = sc /\ h.autoid = g.autoid /\ h.fid = g.fid
    BY <2>1
  <2>5. Shape(h)
    BY <2>1, <2>3, <2>4 DEF Shape
  <2> QED  BY <2>2, <2>4, <2>5 DEF FormsTyped, h
<1>2. FormsTyped(Erase(g, p), on) /\ Erase(g, p).autoid = g.autoid /\ Shape(Erase(g, p))
  <2> DEFINE h == Erase(g, p)
  <2>1. h = [open |-> Without(g.open, {p}), made |-> g.made, screen |-> g.screen,
             autoid |-> g.autoid, fid |-> g.fid]
    BY DEF Erase, Shape
  <2> HIDE DEF h
  <2>2. /\ h.open = Without(g.open, {p}) /\ h.made = g.made /\ h.screen = g.screen
        /\ h.autoid = g.autoid /\ h.fid = g.fid
    BY <2>1
  <2>3. DOMAIN h.open \subseteq on /\ h.open \in [DOMAIN h.open -> 0 .. h.autoid]
    BY <2>2 DEF Without, FormsTyped
  <2>4. Shape(h)
    BY <2>1, <2>2 DEF Shape
  <2> QED  BY <2>2, <2>3, <2>4 DEF FormsTyped, h
<1>3. FormsTyped(Delete(g, f), on) /\ Delete(g, f).autoid = g.autoid
  <2> DEFINE h == Delete(g, f)
  <2>1. h = [open |-> g.open, made |-> Without(g.made, {f}), screen |-> g.screen,
             autoid |-> g.autoid, fid |-> g.fid]
    BY DEF Delete, Shape
  <2> HIDE DEF h
  <2>2. /\ h.open = g.open /\ h.made = Without(g.made, {f}) /\ h.screen = g.screen
        /\ h.autoid = g.autoid /\ h.fid = g.fid
    BY <2>1
  <2>3. DOMAIN h.made \subseteq DOMAIN g.made /\ \A m \in DOMAIN h.made : h.made[m] = g.made[m]
    BY <2>2 DEF Without
  <2> QED  BY <2>2, <2>3 DEF FormsTyped, h
<1> QED  BY <1>1, <1>2, <1>3

\* Requests come with the number of the form that tells of them, and go.
LEMMA AskTyped ==
    ASSUME TypesInv, NEW g, Shape(g), g.autoid = gui.autoid,
           NEW p \in Player, NEW q, NEW dir \in {"f", "t"}, Ask(p, q, dir, g)
    PROVE  q \in online /\ q \in Player /\ Room(g) /\ WaitingTyped(tpmap', g.autoid + 1) /\ TargetsTyped'
<1>1. q \in online /\ q \in Player /\ Room(g)
  BY DEF Ask, MayAsk, TypesInv, GuiInv
<1>2. g.autoid \in Nat /\ g.autoid + 1 \in Nat
  BY DEF Shape
<1>3. PICK r \in RequestOf(g.autoid + 1) : r = [dir |-> dir, name |-> p, age |-> 0, fid |-> g.autoid + 1]
  <2>1. 0 \in 0 .. Timeout /\ g.autoid + 1 \in 1 .. g.autoid + 1
    BY <1>2, TeleportAssumption
  <2> QED  BY <2>1 DEF RequestOf
<1>4. tpmap' = Put(tpmap, q, r) /\ player_target' = Put(player_target, p, q)
  BY <1>3 DEF Ask
<1>5. WaitingTyped(tpmap, g.autoid + 1)
  BY <1>2, OlderRequests DEF TypesInv
<1>6. WaitingTyped(tpmap', g.autoid + 1)
  BY <1>1, <1>3, <1>4, <1>5 DEF WaitingTyped, Put
<1>7. TargetsTyped'
  BY <1>1, <1>4 DEF TypesInv, TargetsTyped, Put
<1> QED  BY <1>1, <1>6, <1>7

LEMMA ConcludeTyped ==
    ASSUME TypesInv, NEW p, Conclude(p)
    PROVE  WaitingTyped(tpmap', gui.autoid) /\ TargetsTyped'
  BY DEF TypesInv, Conclude, WaitingTyped, TargetsTyped, Without

LEMMA TypesInit == Init => TypesInv
<1> SUFFICES ASSUME Init PROVE TypesInv
  OBVIOUS
<1>1. gui.open = <<>> /\ gui.made = <<>> /\ gui.autoid = 0 /\ gui.fid = 0
      /\ gui.screen = [p \in Player |-> {}]
  BY DEF Init
<1>2. FormsTyped(gui, online)
  BY <1>1, TeleportAssumption DEF FormsTyped, Init
<1> QED  BY <1>2, GuiInit DEF Init, TypesInv, WaitingTyped, TargetsTyped

\* An answer: its callback, or none.
LEMMA AnswerTyped ==
    ASSUME TypesInv, NEW p \in Player, NEW id, Answer(p, id)
    PROVE  FormsTyped(gui', online) /\ WaitingTyped(tpmap', gui'.autoid) /\ TargetsTyped'
<1>1. /\ Shape(gui) /\ OwnedBut(gui, 0) /\ FormsTyped(gui, online)
      /\ WaitingTyped(tpmap, gui.autoid) /\ TargetsTyped /\ gui.autoid \in Nat
  BY DEF TypesInv, GuiInv, Shape
<1>2. p \in online
  BY <1>1 DEF Answer, FormsTyped
<1>3. CASE gui' = Seen(gui, p, id) /\ UNCHANGED requests
  BY <1>1, <1>3, FewerTyped DEF requests, TargetsTyped
<1>4. CASE Heard(p, id)
  <2> DEFINE f == gui.open[p]
             g == Erase(Seen(gui, p, id), p)
  <2>1. Shape(g) /\ FormsTyped(g, online) /\ g.autoid = gui.autoid
    BY <1>1, FewerTyped
  <2>2. f # TPGUI => f \in DOMAIN gui.made
    BY <1>1, <1>4 DEF Heard, OwnedBut, TPGUI
  <2>3. Callback(p, f, g)
    BY <1>4 DEF Answer
  <2> HIDE DEF f, g
  <2>4. CASE gui' = Delete(g, f) /\ UNCHANGED requests
    BY <1>1, <2>1, <2>4, FewerTyped DEF requests, TargetsTyped
  <2>5. ASSUME NEW dir \in {"f", "t"}, Room(g), gui' = SendNew(g, p, Choose(dir)), UNCHANGED requests
        PROVE  FormsTyped(gui', online) /\ WaitingTyped(tpmap', gui'.autoid) /\ TargetsTyped'
    <3>1. Choose(dir).dir \in {"f", "t"}
      BY DEF Choose
    <3>2. FormsTyped(gui', online) /\ gui'.autoid = g.autoid + 1
      BY <1>2, <2>1, <2>5, <3>1, SendNewTyped
    <3>3. WaitingTyped(tpmap, gui'.autoid)
      BY <1>1, <2>1, <3>2, OlderRequests
    <3> QED  BY <1>1, <2>5, <3>2, <3>3 DEF requests, TargetsTyped
  <2>6. ASSUME f # TPGUI, gui.made[f].kind = "choose", NEW q \in gui.made[f].names,
               Ask(p, q, gui.made[f].dir, g), gui' = Delete(SendNew(g, q, Request), f)
        PROVE  FormsTyped(gui', online) /\ WaitingTyped(tpmap', gui'.autoid) /\ TargetsTyped'
    <3> DEFINE h == SendNew(g, q, Request)
    <3>1. PICK dir \in {"f", "t"} : dir = gui.made[f].dir
      BY <1>1, <2>2, <2>6 DEF FormsTyped
    <3>2. Ask(p, q, dir, g)
      BY <2>6, <3>1
    <3>3. q \in online /\ q \in Player /\ Room(g) /\ WaitingTyped(tpmap', g.autoid + 1) /\ TargetsTyped'
      BY <2>1, <3>2, AskTyped
    <3>4. Request.kind # "choose"
      BY DEF Request
    <3>5. FormsTyped(h, online) /\ h.autoid = g.autoid + 1
      BY <2>1, <3>3, <3>4, SendNewTyped
    <3>6. OwnedBut(g, f)
      <4>1. p \in DOMAIN gui.open
        BY <1>4 DEF Heard
      <4> QED  BY <1>1, <4>1, EraseOwned DEF f, g
    <3>7. Shape(h)
      BY <2>1, <3>3, <3>6, SendNewOwned
    <3> HIDE DEF h
    <3>8. FormsTyped(gui', online) /\ gui'.autoid = h.autoid
      BY <2>6, <3>5, <3>7, FewerTyped DEF h
    <3> QED  BY <3>3, <3>5, <3>8
  <2>7. CASE Conclude(p) /\ gui' = Delete(g, f)
    BY <1>1, <2>1, <2>7, FewerTyped, ConcludeTyped
  <2> QED  BY <2>3, <2>4, <2>5, <2>6, <2>7 DEF Callback
<1> QED  BY <1>3, <1>4 DEF Answer

\* A command of a player.
LEMMA CommandTyped ==
    ASSUME TypesInv, NEW p \in Player, Command(p)
    PROVE  FormsTyped(gui', online) /\ WaitingTyped(tpmap', gui'.autoid) /\ TargetsTyped'
<1>1. /\ Shape(gui) /\ FormsTyped(gui, online) /\ gui.autoid \in Nat
  BY DEF TypesInv, GuiInv, Shape
<1>2. ASSUME NEW q \in Player, NEW dir \in {"f", "t"},
             Ask(p, q, dir, gui), gui' = SendNew(gui, q, Request)
      PROVE  FormsTyped(gui', online) /\ WaitingTyped(tpmap', gui'.autoid) /\ TargetsTyped'
  <2>1. q \in online /\ q \in Player /\ Room(gui) /\ WaitingTyped(tpmap', gui.autoid + 1) /\ TargetsTyped'
    BY <1>1, <1>2, AskTyped
  <2>2. Request.kind # "choose"
    BY DEF Request
  <2>3. FormsTyped(gui', online) /\ gui'.autoid = gui.autoid + 1
    BY <1>1, <1>2, <2>1, <2>2, SendNewTyped
  <2> QED  BY <2>1, <2>3
<1>3. CASE Conclude(p) /\ UNCHANGED gui
  BY <1>1, <1>3, ConcludeTyped
<1> QED  BY <1>2, <1>3 DEF Command

\* Every step keeps the types.
LEMMA TypesNext == TypesInv /\ [Next]_tpVars => TypesInv'
<1> SUFFICES ASSUME TypesInv, [Next]_tpVars PROVE TypesInv'
  OBVIOUS
<1>1. /\ GuiInv /\ Shape(gui) /\ FormsTyped(gui, online) /\ gui.autoid \in Nat
      /\ WaitingTyped(tpmap, gui.autoid) /\ TargetsTyped /\ online \subseteq Player
  BY DEF TypesInv, GuiInv, Shape
<1>2. GuiInv'
  BY <1>1, GuiNext DEF Keeps
<1>3. ASSUME NEW p \in Player, Join(p) PROVE TypesInv'
  <2>1. gui' = gui /\ tpmap' = tpmap /\ player_target' = player_target /\ online' = online \cup {p}
    BY <1>3 DEF Join, requests
  <2>2. FormsTyped(gui, online')
    BY <1>1, <2>1 DEF FormsTyped
  <2> QED  BY <1>1, <1>2, <2>1, <2>2 DEF TypesInv, TargetsTyped
<1>4. ASSUME NEW p \in Player, Leave(p) PROVE TypesInv'
  <2> DEFINE sc == [gui.screen EXCEPT ![p] = {}]
             m == Without(gui.made, Closed(gui, p))
             o == Without(gui.open, {p})
  <2>1. tpmap' = tpmap /\ player_target' = player_target /\ online' = online \ {p}
    BY <1>4 DEF Leave, requests
  <2>2. gui' = [open |-> o, made |-> m, screen |-> sc, autoid |-> gui.autoid, fid |-> gui.fid]
    <3>1. PICK e : e = Erase(gui, p)
      OBVIOUS
    <3>2. e = [open |-> o, made |-> gui.made, screen |-> gui.screen,
               autoid |-> gui.autoid, fid |-> gui.fid]
      BY <1>1, <3>1 DEF Erase, Shape
    <3>3. e.made = gui.made /\ e.screen = gui.screen
      BY <3>2
    <3>4. gui' = [e EXCEPT !.made = m, !.screen = sc]
      BY <1>4, <3>1, <3>3 DEF Leave
    <3> HIDE DEF o, m, sc
    <3> QED  BY <3>2, <3>4
  <2>3. \A q \in Player : sc[q] = IF q = p THEN {} ELSE gui.screen[q]
    BY <1>1 DEF Shape
  <2>4. DOMAIN m \subseteq DOMAIN gui.made /\ \A n \in DOMAIN m : m[n] = gui.made[n]
    BY DEF Without
  <2>5. DOMAIN o = DOMAIN gui.open \ {p} /\ o \in [DOMAIN o -> 0 .. gui.autoid]
    BY <1>1 DEF Without, FormsTyped
  <2> HIDE DEF sc, m, o
  <2>6. gui'.open = o /\ gui'.made = m /\ gui'.screen = sc /\ gui'.autoid = gui.autoid
        /\ gui'.fid = gui.fid
    BY <2>2
  <2>7. FormsTyped(gui', online')
    BY <1>1, <2>1, <2>3, <2>4, <2>5, <2>6 DEF FormsTyped
  <2> QED  BY <1>1, <1>2, <2>1, <2>6, <2>7 DEF TypesInv, TargetsTyped
<1>5. ASSUME NEW p \in Player, Command(p) PROVE TypesInv'
  <2>1. UNCHANGED online
    BY <1>5 DEF Command
  <2> QED  BY <1>2, <1>5, <2>1, CommandTyped DEF TypesInv
<1>6. ASSUME NEW p \in Player, Cancel(p) PROVE TypesInv'
  BY <1>1, <1>2, <1>6 DEF Cancel, TypesInv, WaitingTyped, TargetsTyped, Without
<1>7. ASSUME NEW p \in Player, OpenGui(p) PROVE TypesInv'
  <2>1. p \in online /\ Room(gui) /\ gui' = SendTPGUI(gui, p) /\ online' = online
        /\ tpmap' = tpmap /\ player_target' = player_target
    BY <1>7 DEF OpenGui, requests
  <2>2. FormsTyped(gui', online) /\ gui'.autoid = gui.autoid + 1
    BY <1>1, <2>1, SendTPGUITyped
  <2>3. WaitingTyped(tpmap, gui'.autoid)
    BY <1>1, <2>2, OlderRequests
  <2> QED  BY <1>1, <1>2, <2>1, <2>2, <2>3 DEF TypesInv, TargetsTyped
<1>8. ASSUME NEW p \in Player, NEW id, Answer(p, id) PROVE TypesInv'
  <2>1. UNCHANGED online
    BY <1>8 DEF Answer
  <2> QED  BY <1>2, <1>8, <2>1, AnswerTyped DEF TypesInv
<1>9. ASSUME NEW p \in Player, Expire(p) PROVE TypesInv'
  BY <1>1, <1>2, <1>9 DEF Expire, TypesInv, WaitingTyped, TargetsTyped, Without
<1>10. ASSUME NEW p \in Player, DieTelling(p) PROVE TypesInv'
  <2>1. /\ gui' = [open |-> <<>>, made |-> <<>>, screen |-> [q \in Player |-> {}],
                   autoid |-> gui.autoid, fid |-> gui.fid]
        /\ online' = {} /\ tpmap' = <<>> /\ player_target' = <<>>
    BY <1>1, <1>10 DEF DieTelling, Shape
  <2>2. FormsTyped(gui', online')
    BY <1>1, <2>1 DEF FormsTyped
  <2> QED  BY <1>2, <2>1, <2>2 DEF TypesInv, WaitingTyped, TargetsTyped
<1>11. CASE Pass
  <2>1. ASSUME NEW q \in DOMAIN tpmap PROVE Older(tpmap[q]) \in RequestOf(gui.autoid)
    <3>1. PICK r \in RequestOf(gui.autoid) : r = tpmap[q]
      BY <1>1 DEF WaitingTyped
    <3>2. PICK a \in 0 .. Timeout : a = IF r.age < Timeout THEN r.age + 1 ELSE r.age
      BY TeleportAssumption DEF RequestOf
    <3>3. Older(r) = [dir |-> r.dir, name |-> r.name, fid |-> r.fid, age |-> a]
      BY <3>2 DEF Older
    <3> QED  BY <3>1, <3>3 DEF RequestOf
  <2>2. tpmap' = [q \in DOMAIN tpmap |-> Older(tpmap[q])] /\ UNCHANGED <<online, player_target, gui>>
    BY <1>11 DEF Pass
  <2>3. WaitingTyped(tpmap', gui.autoid)
    BY <1>1, <2>1, <2>2 DEF WaitingTyped
  <2> QED  BY <1>1, <1>2, <2>2, <2>3 DEF TypesInv, TargetsTyped
<1>12. CASE UNCHANGED tpVars
  BY <1>1, <1>2, <1>12 DEF tpVars, requests, TypesInv, TargetsTyped
<1> QED  BY <1>3, <1>4, <1>5, <1>6, <1>7, <1>8, <1>9, <1>10, <1>11, <1>12 DEF Next

(***************************************************************************)
(* Every request was told of by a form that was sent, none waits longer    *)
(* than the timeout, and only players on the server have a form open or on *)
(* the screen (tp main.cpp:111-168, 430-445; gui main.cpp:84-113).         *)
(***************************************************************************)
THEOREM TeleportTypes == Spec => []TypeOK
<1>1. TypesInv => TypeOK
  <2> SUFFICES ASSUME TypesInv PROVE TypeOK
    OBVIOUS
  <2>1. online \subseteq Player /\ FormsTyped(gui, online) /\ WaitingTyped(tpmap, gui.autoid) /\ TargetsTyped
    BY DEF TypesInv, GuiInv
  <2> QED  BY <2>1 DEF TypeOK, FormsTyped, WaitingTyped, RequestOf, TargetsTyped
<1> QED  BY <1>1, TypesInit, TypesNext, PTL DEF Spec
=============================================================================
