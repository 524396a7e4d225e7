----------------------------- MODULE LandDeeds ------------------------------
(***************************************************************************)
(* The land commands of land.mod (mod/land/main.cpp): choosing two points, *)
(* buying and selling for money, trusting, untrusting and giving, on top   *)
(* of the store, which is a map of lands here (LandStore implements it),   *)
(* and of money.mod's accounts.                                            *)
(*                                                                         *)
(* Buying takes the money first and adds the land then; selling pays first *)
(* and removes the land then.  The two databases are written one after the *)
(* other, and the process may die in between.                              *)
(***************************************************************************)
EXTENDS LandGeometry, Accounts, SequencesExt

CONSTANTS
    Operators,  \* players with operator level
    Points,     \* [x, z] of the blocks players click on
    Origin,     \* [x, z] of block 0, 0: the point a map makes up for a missing name
    Perms,      \* permission sets typed in /land perm
    InitMoney,  \* INIT_MONEY
    BuyPrice,   \* LAND_PRICE
    SellPrice,  \* LAND_PRICE2
    MaxSide,    \* 4096: a side must be shorter
    MaxArea,    \* 5000000: an area must be smaller
    MaxPrice,   \* 500000000: a price must be lower
    Buyers,     \* bound: players who choose points
    MaxLands,   \* bound: lands ever bought
    MaxOwners,  \* bound: names in an owner list
    MaxCrashes  \* bound: deaths of the process

ASSUME DeedsAssumption ==
    /\ Operators \subseteq Player /\ Buyers \subseteq Player
    /\ Origin \in Points /\ Points \subseteq [x : Nat, z : Nat]
    /\ InitMoney \in Ints /\ BuyPrice \in Ints /\ SellPrice \in Ints
    /\ {MaxSide, MaxArea, MaxPrice, MaxLands, MaxCrashes} \subseteq Nat
    /\ MaxOwners \in Nat \ {0}

VARIABLES
    lands,      \* identifier -> [rect, owners, perm]: the records
    issued,     \* identifiers handed out
    db,         \* the money database
    start,      \* startpos: name -> point A
    end,        \* endpos: name -> point B
    choosing,   \* choose_state: 0 none, 1 point A next, 2 point B next
    half,       \* a purchase or sale between its two writes
    crashes

deedVars == <<lands, issued, db, start, end, choosing, half, crashes>>
selection == <<start, end, choosing>>

Whole == [op |-> "none"]

Put(f, k, v) == [x \in DOMAIN f \cup {k} |-> IF x = k THEN v ELSE f[x]]

Balance(p) == get_money(db, InitMoney, p)

(***************************************************************************)
(* FastLand::chkOwner: 2 for the first name of the owner list, 1 for any   *)
(* other, 0 for a stranger.  Commands are for 2 and for operators.         *)
(***************************************************************************)
chkOwner(l, p) ==
    IF ~Contains(lands[l].owners, p) THEN 0
    ELSE IF lands[l].owners[1] = p THEN 2
    ELSE 1

MayCommand(l, p) == chkOwner(l, p) = 2 \/ p \in Operators

\* the land getFastLand finds at a column, as a set of at most one
LandAt(c) == {l \in DOMAIN lands : Covers(lands[l].rect, c)}

Standing == {[x |-> q.x, z |-> q.z, dim |-> d] : q \in Points, d \in Dims}

(***************************************************************************)
(* The rectangle between two points, its size and its price.               *)
(***************************************************************************)
Least(m, n) == IF m < n THEN m ELSE n
Most(m, n) == IF m < n THEN n ELSE m

Between(a, b, d) ==
    [x |-> Least(a.x, b.x), z |-> Least(a.z, b.z),
     dx |-> Most(a.x, b.x), dz |-> Most(a.z, b.z), dim |-> d]

Area(r) == (r.dx - r.x + 1) * (r.dz - r.z + 1)

\* fault: differences taken for sides, as the refund does
PriceOfDifferences(r) == Wrap((r.dx - r.x) * (r.dz - r.z) * BuyPrice)

Price(r) == Wrap(Area(r) * BuyPrice)

Refund(r) == Wrap((r.dx - r.x) * (r.dz - r.z) * SellPrice)

TooBig(r) ==
    \/ r.dx - r.x + 1 >= MaxSide \/ r.dz - r.z + 1 >= MaxSide
    \/ Area(r) >= MaxArea
    \/ Price(r) <= 0 \/ Price(r) >= MaxPrice

-----------------------------------------------------------------------------
Init ==
    /\ lands = <<>> /\ issued = 0 /\ db = <<>>
    /\ start = <<>> /\ end = <<>> /\ choosing = [p \in Player |-> 0]
    /\ half = Whole /\ crashes = 0

Ready == half = Whole

(***************************************************************************)
(* /land a, /land b, /land exit, and leaving the server, which drops the   *)
(* player's entry of choose_state but not the points kept by name.         *)
(***************************************************************************)
AB_(p, m) ==
    /\ Ready
    /\ choosing' = [choosing EXCEPT ![p] = m]
    /\ UNCHANGED <<lands, issued, db, start, end, half, crashes>>

Exit(p) == AB_(p, 0)

(***************************************************************************)
(* handle_useion of a player who is choosing.  Reading startpos for the    *)
(* size shown with point B makes an entry for a name that has none.        *)
(***************************************************************************)
SelectA(p, q) ==
    /\ Ready /\ choosing[p] = 1
    /\ start' = Put(start, p, q)
    /\ UNCHANGED <<lands, issued, db, end, choosing, half, crashes>>

SelectB(p, q) ==
    /\ Ready /\ choosing[p] = 2
    /\ end' = Put(end, p, q)
    /\ start' = IF p \in DOMAIN start THEN start ELSE Put(start, p, Origin)
    /\ UNCHANGED <<lands, issued, db, choosing, half, crashes>>

(***************************************************************************)
(* /land buy.                                                              *)
(***************************************************************************)
TwoPoints(p) == p \in DOMAIN start /\ p \in DOMAIN end

Wanted(p, d) == Between(start[p], end[p], d)

\* faults: the balance is not compared; the ground is not scanned
CanBuyOnCredit(p, r) ==
    ~TooBig(r) /\ \A l \in DOMAIN lands : Disjoint(r, lands[l].rect)

CanBuyUnscanned(p, r) == ~TooBig(r) /\ Balance(p) >= Price(r)

CanBuy(p, r) ==
    /\ ~TooBig(r)
    /\ Balance(p) >= Price(r)
    /\ \A l \in DOMAIN lands : Disjoint(r, lands[l].rect)

BuyRefused(p, d) ==
    /\ Ready /\ TwoPoints(p) /\ ~CanBuy(p, Wanted(p, d))
    /\ choosing' = [choosing EXCEPT ![p] = 0]
    /\ UNCHANGED <<lands, issued, db, start, end, half, crashes>>

BuyPay(p, d) ==
    /\ Ready /\ issued < MaxLands
    /\ TwoPoints(p) /\ CanBuy(p, Wanted(p, d))
    /\ choosing' = [choosing EXCEPT ![p] = 0]
    /\ db' = set_money(db, p, Wrap(Balance(p) - Price(Wanted(p, d))))
    /\ half' = [op |-> "buy", rect |-> Wanted(p, d), by |-> p]
    /\ UNCHANGED <<lands, issued, start, end, crashes>>

\* fault: the counter of identifiers is not advanced
BuyAddSameId ==
    /\ half.op = "buy"
    /\ lands' = Put(lands, issued + 1, [rect |-> half.rect, owners |-> <<half.by>>, perm |-> {}])
    /\ half' = Whole
    /\ UNCHANGED <<issued, db, selection, crashes>>

BuyAdd ==
    /\ half.op = "buy"
    /\ lands' = Put(lands, issued + 1, [rect |-> half.rect, owners |-> <<half.by>>, perm |-> {}])
    /\ issued' = issued + 1
    /\ half' = Whole
    /\ UNCHANGED <<db, selection, crashes>>

(***************************************************************************)
(* /land sell: whoever sells, owner or operator, gets the money.           *)
(***************************************************************************)
SellPay(p, c) ==
    /\ Ready
    /\ \E l \in LandAt(c) :
        /\ MayCommand(l, p)
        /\ db' = add_money(db, InitMoney, p, Refund(lands[l].rect))
        /\ half' = [op |-> "sell", lid |-> l]
    /\ UNCHANGED <<lands, issued, selection, crashes>>

SellRemove ==
    /\ half.op = "sell"
    /\ lands' = [l \in DOMAIN lands \ {half.lid} |-> lands[l]]
    /\ half' = Whole
    /\ UNCHANGED <<issued, db, selection, crashes>>

(***************************************************************************)
(* /land trust, untrust, perm and give.  addOwner appends a name, or puts  *)
(* it first for give; delOwner takes out its first occurrence.             *)
(***************************************************************************)
Rewrite(p, c, Change(_), Allowed(_)) ==
    /\ Ready
    /\ \E l \in LandAt(c) :
        /\ MayCommand(l, p)
        /\ Allowed(lands[l])
        /\ lands' = [lands EXCEPT ![l] = Change(lands[l])]
    /\ UNCHANGED <<issued, db, selection, half, crashes>>

HasRoom(land) == Len(land.owners) < MaxOwners

\* fault: addOwner puts the trusted name first
TrustAsFirst(p, c, q) ==
    Rewrite(p, c, LAMBDA land : [land EXCEPT !.owners = <<q>> \o land.owners], HasRoom)

Trust(p, c, q) ==
    Rewrite(p, c, LAMBDA land : [land EXCEPT !.owners = Append(land.owners, q)], HasRoom)

Untrust(p, c, q) ==
    Rewrite(p, c, LAMBDA land : [land EXCEPT !.owners = RemoveFirst(land.owners, q)],
            LAMBDA land : TRUE)

Give(p, c, q) ==
    Rewrite(p, c, LAMBDA land : [land EXCEPT !.owners = RemoveFirst(<<q>> \o land.owners, p)],
            HasRoom)

Perm(p, c, s) ==
    Rewrite(p, c, LAMBDA land : [land EXCEPT !.perm = s],
            LAMBDA land : "fly" \in s => p \in Operators)

Crash ==
    /\ crashes < MaxCrashes
    /\ crashes' = crashes + 1
    /\ start' = <<>> /\ end' = <<>> /\ choosing' = [p \in Player |-> 0]
    /\ half' = Whole
    /\ UNCHANGED <<lands, issued, db>>

Next ==
    \/ \E p \in Buyers :
        \/ \E m \in {1, 2} : AB_(p, m)
        \/ Exit(p)
        \/ \E q \in Points : SelectA(p, q) \/ SelectB(p, q)
        \/ \E d \in Dims : BuyRefused(p, d) \/ BuyPay(p, d)
    \/ \E p \in Player, c \in Standing :
        \/ SellPay(p, c)
        \/ \E q \in Player : Trust(p, c, q) \/ Untrust(p, c, q) \/ Give(p, c, q)
        \/ \E s \in Perms : Perm(p, c, s)
    \/ BuyAdd \/ SellRemove
    \/ Crash

Spec == Init /\ [][Next]_deedVars

-----------------------------------------------------------------------------
OwnerLists == BoundedSeq(Player, MaxOwners)

Rects == {Between(a, b, d) : a, b \in Points, d \in Dims}

(***************************************************************************)
(* Types of all variables.                                                 *)
(***************************************************************************)
TypeOK ==
    /\ issued \in 0 .. MaxLands
    /\ DOMAIN lands \subseteq 1 .. issued
    /\ lands \in [DOMAIN lands -> [rect : Rects, owners : OwnerLists, perm : Perms \cup {{}}]]
    /\ db \in Balances
    /\ start \in [DOMAIN start -> Points] /\ DOMAIN start \subseteq Player
    /\ end \in [DOMAIN end -> Points] /\ DOMAIN end \subseteq Player
    /\ choosing \in [Player -> 0 .. 2]
    /\ half \in {Whole} \cup [op : {"buy"}, rect : Rects, by : Player]
                     \cup [op : {"sell"}, lid : DOMAIN lands]
    /\ crashes \in 0 .. MaxCrashes

(***************************************************************************)
(* Ground is worth what it costs.  Trading land never makes a player       *)
(* richer: money and land together are never worth more than the money     *)
(* all players began with, however often they buy, give and sell; a death  *)
(* of the process inside a sale leaves the price of one land too much, and *)
(* no more.                                                                *)
(***************************************************************************)
Held == IF half.op = "sell" THEN DOMAIN lands \ {half.lid} ELSE DOMAIN lands

Ground ==
    SumFunction([l \in Held |-> Area(lands[l].rect) * BuyPrice])
        + (IF half.op = "buy" THEN Area(half.rect) * BuyPrice ELSE 0)

Wealth == SumFunction([p \in Player |-> Balance(p)]) + Ground

NoFreeGround == Wealth <= Cardinality(Player) * InitMoney + crashes * MaxPrice

(***************************************************************************)
(* Nobody is driven into debt by buying.                                   *)
(***************************************************************************)
NoDebt == \A p \in Player : Balance(p) >= 0

(***************************************************************************)
(* The first owner decides: unless an operator acts, whoever is first in a *)
(* land's list stays first until he gives the land away, sells it or takes *)
(* himself off; no trusted player gets there by himself.                   *)
(***************************************************************************)
FirstOwnerDecides ==
    [][\A l \in DOMAIN lands \cap DOMAIN lands' :
         \/ lands[l].owners = <<>>
         \/ lands'[l].owners # <<>> /\ lands'[l].owners[1] = lands[l].owners[1]
         \/ \E c \in Standing : l \in LandAt(c) /\
               \/ \E p \in Operators, q \in Player : Untrust(p, c, q) \/ Give(p, c, q)
               \/ \E q \in Player :
                     \/ Give(lands[l].owners[1], c, q)
                     \/ Untrust(lands[l].owners[1], c, lands[l].owners[1])]_deedVars

(***************************************************************************)
(* These commands use the map of lands as the store provides it: an        *)
(* identifier is fresh and a new land overlaps none.                       *)
(***************************************************************************)
Seen == [l \in DOMAIN lands |->
            [rect |-> lands[l].rect,
             data |-> [owners |-> lands[l].owners, perm |-> lands[l].perm]]]

Map == INSTANCE LandMap WITH
           lands  <- Seen,
           issued <- 1 .. issued,
           Data   <- [owners : OwnerLists, perm : Perms \cup {{}}]

KeepsToTheMap == Map!Spec

(***************************************************************************)
(* "Your land has been sold" (mod/land/main.cpp:164): a sale, deaths of    *)
(* the process included, leaves the seller with the money or the land.     *)
(***************************************************************************)
SoldOnce == Wealth <= Cardinality(Player) * InitMoney

(***************************************************************************)
(* "buy_price: Price per square" (docs/Plugins/Plugin_land.md): the buyer  *)
(* of a rectangle pays the price of a square for each of its squares.      *)
(***************************************************************************)
PaysPerSquare ==
    [][\A p \in Player, d \in Dims : BuyPay(p, d) =>
         Balance(p)' = Balance(p) - Area(Wanted(p, d)) * BuyPrice]_deedVars
=============================================================================
