----------------------------- MODULE ChestShop ------------------------------
(***************************************************************************)
(* Shops in chests (mod/chestShop/main.cpp:26-302).  A player opens and    *)
(* closes chests; what he puts into a shop he sells at the price he set    *)
(* with /cshop sell, and what he tries to take from another's slot he      *)
(* selects and buys with /cshop buy once the chest is closed.  A sale is   *)
(* two accounts and a slot, changed one after the other, and the slots are *)
(* saved to a file that the next start does not read.                      *)
(***************************************************************************)
EXTENDS Accounts, PartialMaps

CONSTANTS
    Box,        \* chests
    Prices,     \* prices typed
    Wealth,     \* money of players who were never paid
    SlotNo,     \* slots of a chest
    MaxGoods    \* bound: things put into shops

VARIABLES
    accounts,   \* the money database
    lc,         \* the chests that are shops, with their slots
    inside,     \* what lies in each slot: who put it there, his price, what its buyer paid
    sessions, last_sess, ply_price,
    ply_select, \* the slot selected; of: the chest it was in
    bought,     \* of the last purchase: the chest, and the one the buyer was told the price of
    put         \* things put into shops

shopVars == <<accounts, lc, inside, sessions, last_sess, ply_select, ply_price, bought, put>>

NoGoods == [by |-> {}, price |-> 0, paid |-> -1]

Free == [owner |-> {}, price |-> 0]

SetShop == -IntHalf     \* the price that stands for the choice of a chest

Init ==
    /\ accounts = <<>> /\ lc = <<>> /\ put = 0
    /\ inside = [b \in Box |-> [s \in SlotNo |-> NoGoods]]
    /\ sessions = <<>> /\ last_sess = <<>> /\ ply_select = <<>> /\ ply_price = <<>>
    /\ bought = <<>>

\* emplace of a map: an entry that is there stays
Emplace(f, k, v) == IF k \in DOMAIN f THEN f ELSE Put(f, k, v)

-----------------------------------------------------------------------------
Sell(p, n) ==
    /\ n > 0 /\ ply_price' = Emplace(ply_price, p, n)
    /\ UNCHANGED <<accounts, lc, inside, sessions, last_sess, ply_select, bought, put>>

Set(p) ==
    /\ ply_price' = Emplace(ply_price, p, SetShop)
    /\ UNCHANGED <<accounts, lc, inside, sessions, last_sess, ply_select, bought, put>>

\* handle_u; a chest that is a shop already keeps its slots, which come first
MakeShop(p, b) ==
    /\ p \in DOMAIN ply_price /\ ply_price[p] = SetShop
    /\ lc' = Emplace(lc, b, [s \in SlotNo |-> Free])
    /\ ply_price' = Without(ply_price, {p})
    /\ UNCHANGED <<accounts, inside, sessions, last_sess, ply_select, bought, put>>

startOpen(p, b) ==
    /\ b \in DOMAIN lc /\ p \notin DOMAIN sessions
    /\ sessions' = Put(sessions, p, b)
    /\ UNCHANGED <<accounts, lc, inside, last_sess, ply_select, ply_price, bought, put>>

stopOpen(p) ==
    /\ p \in DOMAIN sessions
    /\ sessions' = Without(sessions, {p})
    /\ last_sess' = Emplace(last_sess, p, sessions[p])
    /\ UNCHANGED <<accounts, lc, inside, ply_select, ply_price, bought, put>>

\* an item is put into a slot; a price is used up whatever comes of it
Push(p, s) ==
    LET b == sessions[p]
    IN  /\ p \in DOMAIN sessions /\ p \in DOMAIN ply_price
        /\ inside[b][s] = NoGoods /\ put < MaxGoods /\ put' = put + 1
        /\ ply_price' = Without(ply_price, {p})
        /\ IF ply_price[p] > 0 /\ lc[b][s].owner = {}
           THEN /\ lc' = [lc EXCEPT ![b][s] = [owner |-> {p}, price |-> ply_price[p]]]
                /\ inside' = [inside EXCEPT ![b][s] =
                                 [by |-> {p}, price |-> ply_price[p], paid |-> -1]]
           ELSE UNCHANGED <<lc, inside>>
        /\ UNCHANGED <<accounts, sessions, last_sess, ply_select, bought>>

Take(p, s) ==
    LET b == sessions[p]
    IN  /\ p \in DOMAIN sessions /\ lc[b][s].price = 0 /\ lc[b][s].owner = {p}
        /\ inside[b][s] # NoGoods
        /\ lc' = [lc EXCEPT ![b][s].owner = {}]
        /\ inside' = [inside EXCEPT ![b][s] = NoGoods]
        /\ UNCHANGED <<accounts, sessions, last_sess, ply_select, ply_price, bought, put>>

Select(p, s) ==
    LET b == sessions[p]
    IN  /\ p \in DOMAIN sessions /\ lc[b][s].price # 0 /\ inside[b][s] # NoGoods
        /\ ply_select' = Put(ply_select, p, [slot |-> s, of |-> b])
        /\ UNCHANGED <<accounts, lc, inside, sessions, last_sess, ply_price, bought, put>>

MayBuy(p) == p \in DOMAIN ply_select /\ p \notin DOMAIN sessions /\ p \in DOMAIN last_sess

\* fault: whether the money was deducted is not looked at
BuyUnpaid(p) ==
    LET b == last_sess[p]
        s == ply_select[p].slot
        price == lc[b][s].price
        debited == red_money(accounts, Wealth, p, price)
    IN  /\ MayBuy(p)
        /\ ply_select' = Without(ply_select, {p})
        /\ lc[b][s].price # 0
        /\ \E seller \in lc[b][s].owner : accounts' = add_money(debited, Wealth, seller, price)
        /\ lc' = [lc EXCEPT ![b][s] = [owner |-> {p}, price |-> 0]]
        /\ inside' = [inside EXCEPT ![b][s].paid =
                         get_money(accounts, Wealth, p) - get_money(debited, Wealth, p)]
        /\ bought' = <<b, ply_select[p].of>>
        /\ UNCHANGED <<sessions, last_sess, ply_price, put>>

Buy(p) ==
    LET b == last_sess[p]
        s == ply_select[p].slot
        price == lc[b][s].price
        debited == red_money(accounts, Wealth, p, price)
    IN  /\ MayBuy(p)
        /\ ply_select' = Without(ply_select, {p})
        /\ IF price # 0 /\ CanReduce(accounts, Wealth, p, price)
           THEN /\ \E seller \in lc[b][s].owner :
                      accounts' = add_money(debited, Wealth, seller, price)
                /\ lc' = [lc EXCEPT ![b][s] = [owner |-> {p}, price |-> 0]]
                /\ inside' = [inside EXCEPT ![b][s].paid =
                                 get_money(accounts, Wealth, p) - get_money(debited, Wealth, p)]
                /\ bought' = <<b, ply_select[p].of>>
           ELSE UNCHANGED <<accounts, lc, inside, bought>>
        /\ UNCHANGED <<sessions, last_sess, ply_price, put>>

\* the process ends; what it saved in data/ is not what load reads in config/
Restart ==
    /\ lc' = <<>> /\ sessions' = <<>> /\ last_sess' = <<>>
    /\ ply_select' = <<>> /\ ply_price' = <<>> /\ bought' = <<>>
    /\ inside' = [b \in Box |-> [s \in SlotNo |-> NoGoods]]
    /\ UNCHANGED <<accounts, put>>

Next ==
    \/ \E p \in Player :
          \/ Set(p) \/ stopOpen(p) \/ Buy(p)
          \/ \E n \in Prices : Sell(p, n)
          \/ \E b \in Box : MakeShop(p, b) \/ startOpen(p, b)
          \/ \E s \in SlotNo : Push(p, s) \/ Take(p, s) \/ Select(p, s)
    \/ Restart

Spec == Init /\ [][Next]_shopVars

-----------------------------------------------------------------------------
(***************************************************************************)
(* Types of all variables.                                                 *)
(***************************************************************************)
TypeOK ==
    /\ accounts \in Balances
    /\ \A b \in DOMAIN lc, s \in SlotNo :
          lc[b][s] = Free \/ \E p \in Player : lc[b][s].owner = {p}
    /\ sessions \in PartialMap(Player, Box) /\ last_sess \in PartialMap(Player, Box)
    /\ ply_select \in PartialMap(Player, [slot : SlotNo, of : Box])
    /\ ply_price \in PartialMap(Player, Prices \cup {SetShop})

(***************************************************************************)
(* Whoever may take a thing out of a shop has paid, out of his own         *)
(* account, the price at which it was put there; what is not paid stays    *)
(* offered by the one who put it there at that price.                      *)
(***************************************************************************)
GoodsPaidFor ==
    \A b \in DOMAIN lc, s \in SlotNo :
        LET g == inside[b][s]
        IN  g # NoGoods =>
                \/ lc[b][s] = [owner |-> g.by, price |-> g.price]
                \/ lc[b][s].price = 0 /\ g.paid = g.price

(***************************************************************************)
(* /cshop buy buys from the chest whose price the player was told last     *)
(* ("use /cshop buy to buy it").                                           *)
(***************************************************************************)
BuysWhatWasShown == bought # <<>> => bought[1] = bought[2]
=============================================================================
