-------------------------- MODULE LandDeedsProofs ---------------------------
(***************************************************************************)
(* Proofs about the land commands, for any players, points, prices, bounds *)
(* and number of deaths.                                                   *)
(***************************************************************************)
EXTENDS LandDeeds, AccountLemmas, ListLemmas

Deed == [rect : Rects, owners : OwnerLists, perm : Perms \cup {{}}]

(***************************************************************************)
(* The invariant: types, and a purchase that is paid and not yet added     *)
(* still has its ground to itself and its identifier to come.              *)
(***************************************************************************)
PaidGroundIsFree ==
    half.op = "buy" =>
        /\ issued < MaxLands
        /\ \A l \in DOMAIN lands : Disjoint(half.rect, lands[l].rect)

DeedsInv == TypeOK /\ PaidGroundIsFree

\* The three kinds of half-done work are told apart by op.
LEMMA HalfKinds ==
    ASSUME TypeOK
    PROVE  /\ half.op = "none" => half = Whole
           /\ half.op = "buy" => half \in [op : {"buy"}, rect : Rects, by : Player]
           /\ half.op = "sell" => half \in [op : {"sell"}, lid : DOMAIN lands]
  BY DEF TypeOK, Whole

\* Between whole commands nothing is paid for.
LEMMA WholeIsFree == ASSUME half = Whole PROVE PaidGroundIsFree
  BY DEF PaidGroundIsFree, Whole

(***************************************************************************)
(* Prices and refunds are ints, and what a command leaves on an account is *)
(* one.                                                                    *)
(***************************************************************************)
LEMMA RectIsRectangle ==
    ASSUME NEW r \in Rects
    PROVE  r \in [x : Nat, z : Nat, dx : Nat, dz : Nat, dim : Dims]
<1>1. PICK a \in Points, b \in Points, d \in Dims : r = Between(a, b, d)
  BY DEF Rects
<1>2. a \in [x : Nat, z : Nat] /\ b \in [x : Nat, z : Nat]
  BY DeedsAssumption
<1> QED  BY <1>1, <1>2 DEF Between, Least, Most

LEMMA PriceType ==
    ASSUME NEW r \in Rects
    PROVE  Price(r) \in Ints /\ Refund(r) \in Ints
<1>1. PICK w \in Int : w = r.dx - r.x
  BY RectIsRectangle
<1>2. PICK h \in Int : h = r.dz - r.z
  BY RectIsRectangle
<1>3. BuyPrice \in Int /\ SellPrice \in Int
  BY DeedsAssumption DEF Ints
<1>4. (w + 1) * (h + 1) * BuyPrice \in Int /\ w * h * SellPrice \in Int
  BY <1>3
<1> QED  BY <1>1, <1>2, <1>4, WrapType DEF Price, Refund, Area

\* A write of a land under its identifier changes that land only.
LEMMA PutLand ==
    ASSUME TypeOK, NEW l \in 1 .. MaxLands, NEW d \in Deed
    PROVE  /\ DOMAIN Put(lands, l, d) = DOMAIN lands \cup {l}
           /\ Put(lands, l, d) \in [DOMAIN lands \cup {l} -> Deed]
           /\ Put(lands, l, d)[l] = d
           /\ \A m \in DOMAIN lands \ {l} : Put(lands, l, d)[m] = lands[m]
  BY DEF TypeOK, Put, Deed

(***************************************************************************)
(* A trust, an untrust, a gift and a change of permissions rewrite one     *)
(* land at the column, in place.                                           *)
(***************************************************************************)
LEMMA CommandRewrites ==
    ASSUME TypeOK, NEW p \in Player, NEW c,
           \/ \E q \in Player : Trust(p, c, q) \/ Untrust(p, c, q) \/ Give(p, c, q)
           \/ \E s \in Perms : Perm(p, c, s)
    PROVE  /\ Ready /\ UNCHANGED <<issued, db, selection, half, crashes>>
           /\ \E l \in LandAt(c) : \E d \in Deed :
                 d.rect = lands[l].rect /\ lands' = [lands EXCEPT ![l] = d]
<1>1. Ready /\ UNCHANGED <<issued, db, selection, half, crashes>>
  BY DEF Trust, Untrust, Give, Perm, Rewrite
<1> DEFINE Goal == \E l \in LandAt(c) : \E d \in Deed :
                      d.rect = lands[l].rect /\ lands' = [lands EXCEPT ![l] = d]
<1>2. ASSUME NEW l \in LandAt(c), NEW o \in OwnerLists,
             lands' = [lands EXCEPT ![l] = [lands[l] EXCEPT !.owners = o]]
      PROVE  Goal
  <2>1. l \in LandAt(c) /\ lands[l] \in Deed
    BY DEF LandAt, TypeOK, Deed
  <2>2. [lands[l] EXCEPT !.owners = o] \in Deed
        /\ [lands[l] EXCEPT !.owners = o].rect = lands[l].rect
    BY <2>1 DEF Deed
  <2> QED  BY <1>2, <2>2
<1>3. ASSUME NEW l \in LandAt(c)
      PROVE  lands[l].owners \in Seq(Player) /\ Len(lands[l].owners) <= MaxOwners
  <2>1. lands[l].owners \in OwnerLists
    BY DEF LandAt, TypeOK
  <2> QED  BY <2>1, BoundedLists, DeedsAssumption DEF OwnerLists
<1>4. ASSUME NEW o \in Seq(Player), Len(o) <= MaxOwners PROVE o \in OwnerLists
  BY <1>4, BoundedLists, DeedsAssumption DEF OwnerLists
<1>5. ASSUME NEW q \in Player, Trust(p, c, q) PROVE Goal
  <2>1. PICK l \in LandAt(c) :
            /\ Len(lands[l].owners) < MaxOwners
            /\ lands' = [lands EXCEPT ![l] =
                            [lands[l] EXCEPT !.owners = Append(lands[l].owners, q)]]
    BY <1>5 DEF Trust, Rewrite, HasRoom
  <2>2. Append(lands[l].owners, q) \in OwnerLists
    <3>1. /\ Append(lands[l].owners, q) \in Seq(Player)
          /\ Len(Append(lands[l].owners, q)) = Len(lands[l].owners) + 1
      BY <1>3, AppendProperties
    <3>2. Len(lands[l].owners) + 1 <= MaxOwners
      <4>1. \A n \in Nat : n < MaxOwners => n + 1 <= MaxOwners
        BY DeedsAssumption
      <4> QED  BY <1>3, <2>1, <4>1, LenProperties
    <3> QED  BY <1>4, <3>1, <3>2
  <2> QED  BY <1>1, <1>2, <2>1, <2>2
<1>6. ASSUME NEW q \in Player, Untrust(p, c, q) PROVE Goal
  <2>1. PICK l \in LandAt(c) :
            lands' = [lands EXCEPT ![l] =
                         [lands[l] EXCEPT !.owners = RemoveFirst(lands[l].owners, q)]]
    BY <1>6 DEF Untrust, Rewrite
  <2>2. RemoveFirst(lands[l].owners, q) \in OwnerLists
    <3>1. RemoveFirst(lands[l].owners, q) \in Seq(Player)
      BY <1>3, RemoveFirstType
    <3>2. Len(RemoveFirst(lands[l].owners, q)) <= Len(lands[l].owners)
      BY <1>3, RemoveFirstKeeps
    <3>3. Len(RemoveFirst(lands[l].owners, q)) <= MaxOwners
      BY <3>1, <3>2, <1>3, LenProperties, DeedsAssumption
    <3> QED  BY <1>4, <3>1, <3>3
  <2> QED  BY <1>1, <1>2, <2>1, <2>2
<1>7. ASSUME NEW q \in Player, Give(p, c, q) PROVE Goal
  <2>1. PICK l \in LandAt(c) :
            /\ Len(lands[l].owners) < MaxOwners
            /\ lands' = [lands EXCEPT ![l] =
                            [lands[l] EXCEPT !.owners = RemoveFirst(<<q>> \o lands[l].owners, p)]]
    BY <1>7 DEF Give, Rewrite, HasRoom
  <2>2. /\ <<q>> \o lands[l].owners \in Seq(Player)
        /\ Len(<<q>> \o lands[l].owners) = 1 + Len(lands[l].owners)
    BY <1>3, ConcatProperties
  <2>3. RemoveFirst(<<q>> \o lands[l].owners, p) \in OwnerLists
    <3>1. RemoveFirst(<<q>> \o lands[l].owners, p) \in Seq(Player)
      BY <2>2, RemoveFirstType
    <3>2. Len(RemoveFirst(<<q>> \o lands[l].owners, p)) <= Len(<<q>> \o lands[l].owners)
      BY <2>2, RemoveFirstKeeps
    <3>3. Len(RemoveFirst(<<q>> \o lands[l].owners, p)) <= MaxOwners
      BY <2>1, <2>2, <3>1, <3>2, <1>3, LenProperties, DeedsAssumption, SMTT(30)
    <3> QED  BY <1>4, <3>1, <3>3
  <2> QED  BY <1>1, <1>2, <2>1, <2>3
<1>8. ASSUME NEW s \in Perms, Perm(p, c, s) PROVE Goal
  <2>1. PICK l \in LandAt(c) : lands' = [lands EXCEPT ![l] = [lands[l] EXCEPT !.perm = s]]
    BY <1>8 DEF Perm, Rewrite
  <2>2. lands[l] \in Deed
    BY DEF LandAt, TypeOK, Deed
  <2>3. [lands[l] EXCEPT !.perm = s] \in Deed
        /\ [lands[l] EXCEPT !.perm = s].rect = lands[l].rect
    BY <2>2 DEF Deed
  <2> QED  BY <1>1, <2>1, <2>3
<1> QED  BY <1>1, <1>5, <1>6, <1>7, <1>8

-----------------------------------------------------------------------------
\* An empty store is well typed.
LEMMA DeedsInit == Init => DeedsInv
<1> SUFFICES ASSUME Init PROVE DeedsInv
  OBVIOUS
<1>1. db \in [{} -> Ints]
  BY DEF Init
<1>2. db \in Balances
  BY <1>1 DEF Balances
<1>3. TypeOK
  BY <1>2, DeedsAssumption DEF Init, TypeOK
<1> QED  BY <1>3, WholeIsFree DEF Init, DeedsInv

\* Choosing points changes no land, no money and no half-done work.
LEMMA ChoosingKeeps ==
    ASSUME DeedsInv, NEW p \in Buyers,
           \/ \E m \in {1, 2} : AB_(p, m)
           \/ Exit(p)
           \/ \E q \in Points : SelectA(p, q) \/ SelectB(p, q)
           \/ \E d \in Dims : BuyRefused(p, d)
    PROVE  DeedsInv' /\ UNCHANGED <<lands, issued, half>>
<1>1. TypeOK /\ p \in Player
  BY DeedsAssumption DEF DeedsInv
<1>2. UNCHANGED <<lands, issued, db, half, crashes>> /\ Ready
  BY DEF AB_, Exit, SelectA, SelectB, BuyRefused
<1>3. choosing' \in [Player -> 0 .. 2]
  BY <1>1 DEF AB_, Exit, SelectA, SelectB, BuyRefused, TypeOK
<1>4. \A f, q : f \in [DOMAIN f -> Points] /\ DOMAIN f \subseteq Player /\ q \in Points
          => Put(f, p, q) \in [DOMAIN Put(f, p, q) -> Points] /\ DOMAIN Put(f, p, q) \subseteq Player
  BY <1>1 DEF Put
<1>5. /\ start \in [DOMAIN start -> Points] /\ DOMAIN start \subseteq Player
      /\ end \in [DOMAIN end -> Points] /\ DOMAIN end \subseteq Player
  BY <1>1 DEF TypeOK
<1>6. \/ UNCHANGED <<start, end>>
      \/ \E q \in Points : start' = Put(start, p, q) /\ end' = end
      \/ \E q \in Points : end' = Put(end, p, q) /\ (start' = start \/ start' = Put(start, p, Origin))
  BY DEF AB_, Exit, SelectA, SelectB, BuyRefused
<1>7. /\ start' \in [DOMAIN start' -> Points] /\ DOMAIN start' \subseteq Player
      /\ end' \in [DOMAIN end' -> Points] /\ DOMAIN end' \subseteq Player
  <2>1. CASE UNCHANGED <<start, end>>
    BY <2>1, <1>5
  <2>2. ASSUME NEW q \in Points, start' = Put(start, p, q), end' = end PROVE <1>7!:
    BY <2>2, <1>4, <1>5
  <2>3. ASSUME NEW q \in Points, end' = Put(end, p, q), start' = start \/ start' = Put(start, p, Origin)
        PROVE  <1>7!:
    BY <2>3, <1>4, <1>5, DeedsAssumption
  <2> QED  BY <1>6, <2>1, <2>2, <2>3
<1>8. TypeOK'
  BY <1>1, <1>2, <1>3, <1>7 DEF TypeOK
<1> QED  BY <1>2, <1>8 DEF DeedsInv, PaidGroundIsFree

\* A purchase is paid for when the ground was found free.
LEMMA BuyPayKeeps ==
    ASSUME DeedsInv, NEW p \in Buyers, NEW d \in Dims, BuyPay(p, d)
    PROVE  DeedsInv' /\ UNCHANGED <<lands, issued>>
<1>1. TypeOK /\ p \in Player
  BY DeedsAssumption DEF DeedsInv
<1>2. PICK r \in Rects : r = Wanted(p, d)
  <2>1. start[p] \in Points /\ end[p] \in Points
    BY <1>1 DEF BuyPay, TwoPoints, TypeOK
  <2> QED  BY <2>1 DEF Wanted, Rects
<1>3. /\ issued < MaxLands /\ CanBuy(p, r)
      /\ db' = set_money(db, p, Wrap(Balance(p) - Price(r)))
      /\ half' = [op |-> "buy", rect |-> r, by |-> p]
      /\ choosing' = [choosing EXCEPT ![p] = 0]
      /\ UNCHANGED <<lands, issued, start, end, crashes>>
  BY <1>2 DEF BuyPay
<1>4. db' \in Balances
  <2>1. Balance(p) \in Ints /\ Price(r) \in Ints
    BY <1>1, GetType, PriceType, DeedsAssumption DEF TypeOK, Balance
  <2>2. Wrap(Balance(p) - Price(r)) \in Ints
    BY <2>1, WrapType DEF Ints
  <2> QED  BY <1>1, <1>3, <2>2, SetType DEF TypeOK
<1>5. half' \in [op : {"buy"}, rect : Rects, by : Player] /\ half'.rect = r /\ half'.op = "buy"
  BY <1>1, <1>3
<1>6. TypeOK'
  BY <1>1, <1>3, <1>4, <1>5 DEF TypeOK
<1>7. PaidGroundIsFree'
  BY <1>3, <1>5 DEF PaidGroundIsFree, CanBuy
<1> QED  BY <1>3, <1>6, <1>7 DEF DeedsInv

\* The land bought is added under the next identifier.
LEMMA BuyAddKeeps ==
    ASSUME DeedsInv, BuyAdd
    PROVE  /\ DeedsInv'
           /\ half.rect \in Rects /\ <<half.by>> \in OwnerLists
           /\ \A l \in DOMAIN lands : Disjoint(half.rect, lands[l].rect)
<1>1. TypeOK /\ half \in [op : {"buy"}, rect : Rects, by : Player] /\ half.op = "buy"
  BY HalfKinds DEF DeedsInv, BuyAdd
<1>2. half.rect \in Rects /\ <<half.by>> \in OwnerLists
  <2>1. <<half.by>> \in Seq(Player) /\ Len(<<half.by>>) = 1
    BY <1>1
  <2>2. MaxOwners \in Nat /\ 1 <= MaxOwners
    BY DeedsAssumption
  <2>3. <<half.by>> \in OwnerLists
    BY <2>1, <2>2, BoundedLists DEF OwnerLists
  <2> QED  BY <1>1, <2>3
<1>3. issued < MaxLands /\ \A l \in DOMAIN lands : Disjoint(half.rect, lands[l].rect)
  BY <1>1 DEF DeedsInv, PaidGroundIsFree
<1>4. issued' = issued + 1 /\ issued' \in 0 .. MaxLands /\ issued \in Nat
  BY <1>1, <1>3, DeedsAssumption DEF BuyAdd, TypeOK
<1>5. PICK d \in Deed : d = [rect |-> half.rect, owners |-> <<half.by>>, perm |-> {}]
  BY <1>2 DEF Deed
<1>6. lands' = Put(lands, issued + 1, d)
  BY <1>5 DEF BuyAdd
<1>7. issued + 1 \in 1 .. MaxLands
  BY <1>4
<1>8. lands' \in [DOMAIN lands' -> Deed] /\ DOMAIN lands' = DOMAIN lands \cup {issued + 1}
  BY <1>1, <1>6, <1>7, PutLand
<1>9. DOMAIN lands' \subseteq 1 .. issued'
  <2>1. DOMAIN lands \subseteq 1 .. issued
    BY <1>1 DEF TypeOK
  <2>2. 1 .. issued \subseteq 1 .. issued + 1 /\ issued + 1 \in 1 .. issued + 1
    BY <1>4
  <2> QED  BY <1>4, <1>8, <2>1, <2>2
<1>10. half' = Whole /\ UNCHANGED <<db, selection, crashes>>
  BY DEF BuyAdd
<1>11. TypeOK'
  BY <1>1, <1>4, <1>8, <1>9, <1>10 DEF TypeOK, Deed, selection
<1>12. PaidGroundIsFree'
  BY <1>10 DEF PaidGroundIsFree, Whole
<1> QED  BY <1>2, <1>3, <1>11, <1>12 DEF DeedsInv

\* A sale pays first and removes the land then.
LEMMA SaleKeeps ==
    ASSUME DeedsInv, (\E p \in Player, c \in Standing : SellPay(p, c)) \/ SellRemove
    PROVE  DeedsInv'
<1>1. TypeOK
  BY DEF DeedsInv
<1>2. ASSUME NEW p \in Player, NEW c \in Standing, SellPay(p, c) PROVE DeedsInv'
  <2>1. PICK l \in DOMAIN lands :
            /\ db' = add_money(db, InitMoney, p, Refund(lands[l].rect))
            /\ half' = [op |-> "sell", lid |-> l]
    BY <1>2 DEF SellPay, LandAt
  <2>2. lands[l].rect \in Rects
    BY <1>1 DEF TypeOK
  <2>3. db' \in Balances
    BY <1>1, <2>1, <2>2, PriceType, RedType, DeedsAssumption DEF TypeOK
  <2>4. UNCHANGED <<lands, issued, selection, crashes>>
    BY <1>2 DEF SellPay
  <2>5. half' \in [op : {"sell"}, lid : DOMAIN lands] /\ half'.op = "sell"
    BY <2>1
  <2>6. TypeOK'
    BY <1>1, <2>3, <2>4, <2>5 DEF TypeOK, selection
  <2>7. PaidGroundIsFree'
    BY <2>5 DEF PaidGroundIsFree
  <2> QED  BY <2>6, <2>7 DEF DeedsInv
<1>3. CASE SellRemove
  <2>1. /\ lands' = [l \in DOMAIN lands \ {half.lid} |-> lands[l]]
        /\ half' = Whole /\ UNCHANGED <<issued, db, selection, crashes>>
    BY <1>3 DEF SellRemove
  <2>2. TypeOK'
    BY <1>1, <2>1 DEF TypeOK, selection
  <2>3. PaidGroundIsFree'
    BY <2>1 DEF PaidGroundIsFree, Whole
  <2> QED  BY <2>2, <2>3 DEF DeedsInv
<1> QED  BY <1>2, <1>3

\* Rewriting a land in place keeps the types.
LEMMA CommandKeeps ==
    ASSUME DeedsInv, NEW p \in Player, NEW c,
           \/ \E q \in Player : Trust(p, c, q) \/ Untrust(p, c, q) \/ Give(p, c, q)
           \/ \E s \in Perms : Perm(p, c, s)
    PROVE  DeedsInv'
<1>1. TypeOK
  BY DEF DeedsInv
<1>2. Ready /\ UNCHANGED <<issued, db, selection, half, crashes>>
  BY <1>1, CommandRewrites
<1>3. PICK l \in DOMAIN lands, d \in Deed : lands' = [lands EXCEPT ![l] = d]
  BY <1>1, CommandRewrites DEF LandAt
<1>4. lands \in [DOMAIN lands -> Deed]
  BY <1>1 DEF TypeOK, Deed
<1>5. DOMAIN lands' = DOMAIN lands /\ lands' \in [DOMAIN lands' -> Deed]
  BY <1>3, <1>4
<1>6. TypeOK'
  BY <1>1, <1>2, <1>5 DEF TypeOK, Deed, selection
<1>7. PaidGroundIsFree'
  BY <1>2 DEF Ready, PaidGroundIsFree, Whole
<1> QED  BY <1>6, <1>7 DEF DeedsInv

\* A death forgets what is half done and what was chosen.
LEMMA CrashKeeps == ASSUME DeedsInv, Crash PROVE DeedsInv'
<1>1. TypeOK
  BY DEF DeedsInv
<1>2. half' = Whole /\ start' = <<>> /\ end' = <<>> /\ choosing' = [p \in Player |-> 0]
      /\ UNCHANGED <<lands, issued, db>>
  BY DEF Crash
<1>3. crashes' \in 0 .. MaxCrashes
  BY <1>1, DeedsAssumption DEF Crash, TypeOK
<1>4. TypeOK'
  BY <1>1, <1>2, <1>3 DEF TypeOK
<1>5. PaidGroundIsFree'
  BY <1>2 DEF PaidGroundIsFree, Whole
<1> QED  BY <1>4, <1>5 DEF DeedsInv

\* Every command keeps the invariant.
LEMMA DeedsNext == DeedsInv /\ [Next]_deedVars => DeedsInv'
<1> SUFFICES ASSUME DeedsInv, [Next]_deedVars PROVE DeedsInv'
  OBVIOUS
<1>1. CASE UNCHANGED deedVars
  BY <1>1 DEF deedVars, DeedsInv, TypeOK, PaidGroundIsFree
<1>2. CASE \E p \in Buyers :
              \/ \E m \in {1, 2} : AB_(p, m)
              \/ Exit(p)
              \/ \E q \in Points : SelectA(p, q) \/ SelectB(p, q)
              \/ \E d \in Dims : BuyRefused(p, d) \/ BuyPay(p, d)
  BY <1>2, ChoosingKeeps, BuyPayKeeps
<1>3. ASSUME NEW p \in Player, NEW c \in Standing,
             \/ SellPay(p, c)
             \/ \E q \in Player : Trust(p, c, q) \/ Untrust(p, c, q) \/ Give(p, c, q)
             \/ \E s \in Perms : Perm(p, c, s)
      PROVE  DeedsInv'
  BY <1>3, SaleKeeps, CommandKeeps
<1>4. CASE BuyAdd \/ SellRemove \/ Crash
  BY <1>4, BuyAddKeeps, SaleKeeps, CrashKeeps
<1> QED  BY <1>1, <1>2, <1>3, <1>4 DEF Next

\* The invariant holds of every behaviour.
LEMMA DeedsInvariant == Spec => []DeedsInv
  BY DeedsInit, DeedsNext, PTL DEF Spec

(***************************************************************************)
(* Whatever is chosen, typed, bought and sold (main.cpp:83-330), records   *)
(* keep their types, balances stay ints, and a sale under way is of a land *)
(* there is.                                                               *)
(***************************************************************************)
THEOREM DeedsTypes == Spec => []TypeOK
<1>1. DeedsInv => TypeOK
  BY DEF DeedsInv
<1> QED  BY <1>1, DeedsInvariant, PTL

-----------------------------------------------------------------------------
\* What the map of lands, LandMap, sees of a command.
MapStep == [Map!Next]_<<Seen, 1 .. issued>>

\* Nothing is seen of a command that changes neither a land nor the counter.
LEMMA SeesNothing == ASSUME UNCHANGED <<lands, issued>> PROVE MapStep
  BY DEF MapStep, Seen

\* A purchase adds the next identifier over no other land.
LEMMA SeesAdd == ASSUME DeedsInv, BuyAdd PROVE MapStep
<1>1. /\ half.rect \in Rects /\ <<half.by>> \in OwnerLists
      /\ \A l \in DOMAIN lands : Disjoint(half.rect, lands[l].rect)
  BY BuyAddKeeps
<1>2. PICK k, r, o : k = issued + 1 /\ r = half.rect /\ o = <<half.by>>
  OBVIOUS
<1>3. issued \in Nat /\ issued' = k /\ k \in Nat
  BY <1>2 DEF BuyAdd, DeedsInv, TypeOK
<1>4. lands' = Put(lands, k, [rect |-> r, owners |-> o, perm |-> {}])
  BY <1>2 DEF BuyAdd
<1>5. /\ DOMAIN lands' = DOMAIN lands \cup {k}
      /\ \A m \in DOMAIN lands' : lands'[m] = IF m = k THEN [rect |-> r, owners |-> o, perm |-> {}]
                                              ELSE lands[m]
  BY <1>4 DEF Put
<1>6. PICK d \in [owners : OwnerLists, perm : Perms \cup {{}}] : d = [owners |-> o, perm |-> {}]
  BY <1>1, <1>2
<1>7. /\ DOMAIN Seen = DOMAIN lands
      /\ Seen' = [m \in DOMAIN Seen \cup {k} |-> IF m = k THEN [rect |-> r, data |-> d] ELSE Seen[m]]
  <2> DEFINE View(x) == [rect |-> x.rect, data |-> [owners |-> x.owners, perm |-> x.perm]]
  <2>1. View([rect |-> r, owners |-> o, perm |-> {}]) = [rect |-> r, data |-> d]
    BY <1>6
  <2>2. /\ Seen = [m \in DOMAIN lands |-> View(lands[m])]
        /\ Seen' = [m \in DOMAIN lands' |-> View(lands'[m])]
    BY DEF Seen
  <2> HIDE DEF View
  <2>3. \A m \in DOMAIN lands' :
            View(lands'[m]) = IF m = k THEN [rect |-> r, data |-> d] ELSE View(lands[m])
    BY <1>5, <2>1
  <2>4. k \notin DOMAIN lands
    BY <1>2, <1>3 DEF DeedsInv, TypeOK
  <2> QED  BY <1>5, <2>2, <2>3, <2>4
<1>8. \A m \in DOMAIN Seen : Map!Disjoint(r, Seen[m].rect)
  BY <1>1, <1>2 DEF Seen, Map!Disjoint, Disjoint
<1>9. Cardinality(1 .. issued) = issued
  <2>1. Cardinality(1 .. issued) = IF 1 > issued THEN 0 ELSE issued - 1 + 1
    BY <1>3, FS_Interval
  <2> QED  BY <1>3, <2>1
<1>10. k \notin 1 .. issued /\ (1 .. issued)' = (1 .. issued) \cup {k}
  <2>1. \A n \in Nat : n + 1 \notin 1 .. n /\ 1 .. (n + 1) = (1 .. n) \cup {n + 1}
    OBVIOUS
  <2>2. (1 .. issued)' = 1 .. (issued + 1)
    BY <1>2, <1>3
  <2> QED  BY <1>2, <1>3, <2>1, <2>2
<1>11. Map!Add(k)
  <2>1. r \in Rects
    BY <1>1, <1>2
  <2>2. \E q \in Rects, e \in [owners : OwnerLists, perm : Perms \cup {{}}] :
            /\ \A m \in DOMAIN Seen : Map!Disjoint(q, Seen[m].rect)
            /\ Seen' = [m \in DOMAIN Seen \cup {k} |->
                           IF m = k THEN [rect |-> q, data |-> e] ELSE Seen[m]]
    BY <1>7, <1>8, <2>1
  <2> QED  BY <1>10, <2>2 DEF Map!Add
<1>12. Map!Add(Map!Cardinality(1 .. issued) + 1)
  <2>1. Map!Cardinality(1 .. issued) = Cardinality(1 .. issued)
    BY DEF Map!Cardinality, Cardinality
  <2> QED  BY <1>2, <1>9, <1>11, <2>1
<1> QED  BY <1>12 DEF MapStep, Map!Next

\* A sale removes one land.
LEMMA SeesRemove == ASSUME DeedsInv, SellRemove PROVE MapStep
<1>1. PICK l \in DOMAIN lands : l = half.lid
  BY HalfKinds DEF DeedsInv, SellRemove
<1>2. lands' = [m \in DOMAIN lands \ {l} |-> lands[m]] /\ issued' = issued
  BY <1>1 DEF SellRemove
<1>3. l \in DOMAIN Seen /\ Seen' = [m \in DOMAIN Seen \ {l} |-> Seen[m]]
  BY <1>2 DEF Seen
<1>4. Map!Remove(l)
  BY <1>2, <1>3 DEF Map!Remove
<1> QED  BY <1>3, <1>4 DEF MapStep, Map!Next, Seen

\* A trust, an untrust, a gift or new permissions change one land in place.
LEMMA SeesChange ==
    ASSUME DeedsInv, NEW p \in Player, NEW c,
           \/ \E q \in Player : Trust(p, c, q) \/ Untrust(p, c, q) \/ Give(p, c, q)
           \/ \E s \in Perms : Perm(p, c, s)
    PROVE  MapStep
<1>1. TypeOK
  BY DEF DeedsInv
<1>2. PICK l \in DOMAIN lands, e \in Deed :
          e.rect = lands[l].rect /\ lands' = [lands EXCEPT ![l] = e]
  BY <1>1, CommandRewrites DEF LandAt
<1>3. issued' = issued
  BY <1>1, CommandRewrites
<1>4. PICK d \in [owners : OwnerLists, perm : Perms \cup {{}}] :
          d = [owners |-> e.owners, perm |-> e.perm]
  BY DEF Deed
<1>5. DOMAIN lands' = DOMAIN lands /\ \A m \in DOMAIN lands : lands'[m] = IF m = l THEN e ELSE lands[m]
  BY <1>2
<1>6. [Seen EXCEPT ![l].data = d] =
          [m \in DOMAIN lands |-> IF m = l THEN [rect |-> lands[l].rect, data |-> d] ELSE Seen[m]]
  <2>1. DOMAIN Seen = DOMAIN lands
    BY DEF Seen
  <2>2. [Seen[l] EXCEPT !.data = d] = [rect |-> lands[l].rect, data |-> d]
    BY DEF Seen
  <2>3. Seen = [m \in DOMAIN lands |-> Seen[m]]
    BY DEF Seen
  <2>4. [Seen EXCEPT ![l].data = d] =
            [m \in DOMAIN Seen |-> IF m = l THEN [Seen[l] EXCEPT !.data = d] ELSE Seen[m]]
    OBVIOUS
  <2> QED  BY <2>1, <2>2, <2>4
<1>7. Seen' = [Seen EXCEPT ![l].data = d]
  <2>1. Seen' = [m \in DOMAIN lands |-> IF m = l THEN [rect |-> lands[l].rect, data |-> d] ELSE Seen[m]]
    BY <1>2, <1>4, <1>5 DEF Seen
  <2> QED  BY <1>6, <2>1
<1>8. l \in DOMAIN Seen /\ Map!Change(l)
  <2>1. l \in DOMAIN Seen
    BY DEF Seen
  <2>2. UNCHANGED (1 .. issued)
    BY <1>3
  <2> QED  BY <1>7, <2>1, <2>2 DEF Map!Change
<1> QED  BY <1>8 DEF MapStep, Map!Next, Seen

\* Every step of the commands is one step of the map or none.
LEMMA CommandsKeepToTheMap == DeedsInv /\ [Next]_deedVars => MapStep
<1> SUFFICES ASSUME DeedsInv, [Next]_deedVars PROVE MapStep
  OBVIOUS
<1>1. CASE UNCHANGED deedVars
  BY <1>1, SeesNothing DEF deedVars
<1>2. CASE \E p \in Buyers :
              \/ \E m \in {1, 2} : AB_(p, m)
              \/ Exit(p)
              \/ \E q \in Points : SelectA(p, q) \/ SelectB(p, q)
              \/ \E d \in Dims : BuyRefused(p, d) \/ BuyPay(p, d)
  BY <1>2, ChoosingKeeps, BuyPayKeeps, SeesNothing
<1>3. ASSUME NEW p \in Player, NEW c \in Standing,
             \/ \E q \in Player : Trust(p, c, q) \/ Untrust(p, c, q) \/ Give(p, c, q)
             \/ \E s \in Perms : Perm(p, c, s)
      PROVE  MapStep
  BY <1>3, SeesChange
<1>4. ASSUME NEW p \in Player, NEW c \in Standing, SellPay(p, c) PROVE MapStep
  BY <1>4, SeesNothing DEF SellPay
<1>5. CASE Crash
  BY <1>5, SeesNothing DEF Crash
<1> QED  BY <1>1, <1>2, <1>3, <1>4, <1>5, SeesAdd, SeesRemove DEF Next

(***************************************************************************)
(* The commands use the map of lands as the store provides it, whatever    *)
(* they do about money in between and wherever the process dies: a land is *)
(* added over no other, although its ground was looked at before the money *)
(* was taken.                                                              *)
(***************************************************************************)
THEOREM DeedsKeepToTheMap == Spec => KeepsToTheMap
<1>1. Init => Map!Init
  <2> SUFFICES ASSUME Init PROVE Seen = <<>> /\ 1 .. issued = {}
    BY DEF Map!Init
  <2>1. lands = <<>> /\ issued = 0
    BY DEF Init
  <2>2. Seen = <<>>
    BY <2>1 DEF Seen
  <2> QED  BY <2>1, <2>2
<1>2. MapStep => [Map!Next]_(Map!mapVars)
  BY DEF MapStep, Map!mapVars, Seen
<1>3. DeedsInv /\ [Next]_deedVars => [Map!Next]_(Map!mapVars)
  BY <1>2, CommandsKeepToTheMap
<1>4. Spec => Map!Init /\ [][Map!Next]_(Map!mapVars)
  BY <1>1, <1>3, DeedsInvariant, PTL DEF Spec
<1> QED  BY <1>4 DEF KeepsToTheMap, Map!Spec

-----------------------------------------------------------------------------
(***************************************************************************)
(* What a step may do to who is first in a land's list.                    *)
(***************************************************************************)
FirstStays(l) ==
    \/ lands[l].owners = <<>>
    \/ lands'[l].owners # <<>> /\ lands'[l].owners[1] = lands[l].owners[1]

Decided(l) ==
    \E c \in Standing : l \in LandAt(c) /\
        \/ \E p \in Operators, q \in Player : Untrust(p, c, q) \/ Give(p, c, q)
        \/ \E q \in Player :
              \/ Give(lands[l].owners[1], c, q)
              \/ Untrust(lands[l].owners[1], c, lands[l].owners[1])

Decides == \A l \in DOMAIN lands \cap DOMAIN lands' : FirstStays(l) \/ Decided(l)

\* Who may command is an operator or first in the list.
LEMMA CommandersAreFirst ==
    ASSUME NEW l, NEW p, MayCommand(l, p), p \notin Operators
    PROVE  lands[l].owners[1] = p
  BY DEF MayCommand, chkOwner

\* Every step leaves the first owner in his place, or is his own or an operator's.
LEMMA FirstOwnerStep == DeedsInv /\ [Next]_deedVars => Decides
<1> SUFFICES ASSUME DeedsInv, [Next]_deedVars PROVE Decides
  OBVIOUS
<1>1. lands \in [DOMAIN lands -> Deed]
  BY DEF DeedsInv, TypeOK, Deed
<1>2. ASSUME NEW l \in DOMAIN lands
      PROVE  lands[l].owners \in Seq(Player)
  <2>1. lands[l].owners \in OwnerLists
    BY <1>1 DEF Deed
  <2> QED  BY <2>1, BoundedLists, DeedsAssumption DEF OwnerLists
\* a step that rewrites the list of one land at most
<1>3. ASSUME NEW l \in DOMAIN lands, NEW o,
             lands' = [lands EXCEPT ![l] = [lands[l] EXCEPT !.owners = o]],
             \/ lands[l].owners = <<>>
             \/ o # <<>> /\ o[1] = lands[l].owners[1]
             \/ Decided(l)
      PROVE  Decides
  <2>1. lands[l] \in Deed
    BY <1>1
  <2>2. lands'[l].owners = o
    BY <1>1, <1>3, <2>1 DEF Deed
  <2>3. \A m \in DOMAIN lands \ {l} : lands'[m] = lands[m]
    BY <1>3
  <2> QED  BY <1>3, <2>2, <2>3 DEF Decides, FirstStays
<1>4. ASSUME \A m \in DOMAIN lands \cap DOMAIN lands' : lands'[m].owners = lands[m].owners
      PROVE  Decides
  BY <1>4 DEF Decides, FirstStays
<1>5. ASSUME NEW p \in Player, NEW c \in Standing, NEW q \in Player, Trust(p, c, q) PROVE Decides
  <2>1. PICK l \in DOMAIN lands :
            lands' = [lands EXCEPT ![l] = [lands[l] EXCEPT !.owners = Append(lands[l].owners, q)]]
    BY <1>5 DEF Trust, Rewrite, LandAt
  <2>2. PICK o : o = Append(lands[l].owners, q)
    OBVIOUS
  <2>3. lands[l].owners # <<>> => o # <<>> /\ o[1] = lands[l].owners[1]
    BY <1>2, <2>2, AppendProperties, LenProperties, EmptySeq
  <2> QED  BY <1>3, <2>1, <2>2, <2>3
<1>6. ASSUME NEW p \in Player, NEW c \in Standing, NEW q \in Player, Untrust(p, c, q) PROVE Decides
  <2>1. PICK l \in LandAt(c) :
            /\ MayCommand(l, p)
            /\ lands' = [lands EXCEPT ![l] =
                            [lands[l] EXCEPT !.owners = RemoveFirst(lands[l].owners, q)]]
    BY <1>6 DEF Untrust, Rewrite
  <2>2. PICK o : o = RemoveFirst(lands[l].owners, q)
    OBVIOUS
  <2>3. l \in DOMAIN lands
    BY DEF LandAt
  <2>4. CASE lands[l].owners # <<>> /\ lands[l].owners[1] # q
    BY <1>2, <1>3, <2>1, <2>2, <2>3, <2>4, RemoveFirstKeeps
  <2>5. CASE p \in Operators
    BY <1>3, <1>6, <2>1, <2>2, <2>3, <2>5 DEF Decided
  <2>6. CASE p \notin Operators /\ lands[l].owners[1] = q
    <3>1. lands[l].owners[1] = p
      BY <2>1, <2>6, CommandersAreFirst
    <3>2. Untrust(lands[l].owners[1], c, lands[l].owners[1])
      BY <1>6, <2>6, <3>1
    <3>3. Decided(l)
      BY <3>2 DEF Decided
    <3> QED  BY <1>3, <2>1, <2>2, <2>3, <3>3
  <2> QED  BY <1>3, <2>1, <2>2, <2>3, <2>4, <2>5, <2>6
<1>7. ASSUME NEW p \in Player, NEW c \in Standing, NEW q \in Player, Give(p, c, q) PROVE Decides
  <2>1. PICK l \in LandAt(c) :
            /\ MayCommand(l, p)
            /\ lands' = [lands EXCEPT ![l] =
                            [lands[l] EXCEPT !.owners = RemoveFirst(<<q>> \o lands[l].owners, p)]]
    BY <1>7 DEF Give, Rewrite
  <2>2. PICK o : o = RemoveFirst(<<q>> \o lands[l].owners, p)
    OBVIOUS
  <2>3. l \in DOMAIN lands
    BY DEF LandAt
  <2>4. Decided(l)
    <3>1. CASE p \in Operators
      BY <1>7, <3>1 DEF Decided
    <3>2. CASE p \notin Operators
      <4>1. lands[l].owners[1] = p
        BY <2>1, <3>2, CommandersAreFirst
      <4>2. Give(lands[l].owners[1], c, q)
        BY <1>7, <4>1
      <4> QED  BY <4>2 DEF Decided
    <3> QED  BY <3>1, <3>2
  <2> QED  BY <1>3, <2>1, <2>2, <2>3, <2>4
<1>8. ASSUME NEW p \in Player, NEW c \in Standing, NEW s \in Perms, Perm(p, c, s) PROVE Decides
  <2>1. PICK l \in DOMAIN lands : lands' = [lands EXCEPT ![l] = [lands[l] EXCEPT !.perm = s]]
    BY <1>8 DEF Perm, Rewrite, LandAt
  <2>2. [lands[l] EXCEPT !.perm = s].owners = lands[l].owners
    BY <1>1 DEF Deed
  <2> QED  BY <1>4, <2>1, <2>2
<1>9. CASE BuyAdd
  <2>1. issued + 1 \notin DOMAIN lands
    <3>1. issued \in Nat /\ DOMAIN lands \subseteq 1 .. issued
      BY DEF DeedsInv, TypeOK
    <3> QED  BY <3>1
  <2>2. \A m \in DOMAIN lands : lands'[m] = lands[m]
    BY <1>9, <2>1 DEF BuyAdd, Put
  <2> QED  BY <1>4, <2>2
<1>10. CASE SellRemove
  BY <1>4, <1>10 DEF SellRemove
<1>11. CASE UNCHANGED lands
  BY <1>4, <1>11
<1>12. CASE \E p \in Buyers :
              \/ \E m \in {1, 2} : AB_(p, m)
              \/ Exit(p)
              \/ \E q \in Points : SelectA(p, q) \/ SelectB(p, q)
              \/ \E d \in Dims : BuyRefused(p, d) \/ BuyPay(p, d)
  BY <1>11, <1>12, ChoosingKeeps, BuyPayKeeps
<1>13. ASSUME NEW p \in Player, NEW c \in Standing,
              \/ SellPay(p, c)
              \/ \E q \in Player : Trust(p, c, q) \/ Untrust(p, c, q) \/ Give(p, c, q)
              \/ \E s \in Perms : Perm(p, c, s)
       PROVE  Decides
  <2>1. CASE SellPay(p, c)
    BY <1>11, <2>1 DEF SellPay
  <2> QED  BY <1>5, <1>6, <1>7, <1>8, <1>13, <2>1
<1>14. CASE Crash \/ UNCHANGED deedVars
  BY <1>11, <1>14 DEF Crash, deedVars
<1> QED  BY <1>9, <1>10, <1>12, <1>13, <1>14 DEF Next

(***************************************************************************)
(* The first owner decides (FastLand::chkOwner, data.hpp:69-84, and the    *)
(* commands of main.cpp:168-330): unless an operator acts, whoever is      *)
(* first in a land's list stays first until he himself gives the land      *)
(* away, sells it or takes himself off.                                    *)
(***************************************************************************)
THEOREM FirstOwnersDecide == Spec => FirstOwnerDecides
<1> DEFINE Kept ==
      \A l \in DOMAIN lands \cap DOMAIN lands' :
         \/ lands[l].owners = <<>>
         \/ lands'[l].owners # <<>> /\ lands'[l].owners[1] = lands[l].owners[1]
         \/ \E c \in Standing : l \in LandAt(c) /\
               \/ \E p \in Operators, q \in Player : Untrust(p, c, q) \/ Give(p, c, q)
               \/ \E q \in Player :
                     \/ Give(lands[l].owners[1], c, q)
                     \/ Untrust(lands[l].owners[1], c, lands[l].owners[1])
<1>1. DeedsInv /\ [Next]_deedVars => [Kept]_deedVars
  <2>1. Decides => Kept
    BY DEF Decides, FirstStays, Decided
  <2> QED  BY <2>1, FirstOwnerStep
<1>2. Spec => [][Kept]_deedVars
  <2> HIDE DEF Kept
  <2> QED  BY <1>1, DeedsInvariant, PTL DEF Spec
<1> QED  BY <1>2 DEF FirstOwnerDecides

-----------------------------------------------------------------------------
(***************************************************************************)
(* Prices under which no price wraps: what a square costs, times the       *)
(* largest area, fits an int; and a square is not sold dearer than bought. *)
(***************************************************************************)
PricesFit ==
    /\ IsFiniteSet(Player)
    /\ 0 <= SellPrice /\ SellPrice <= BuyPrice
    /\ (MaxArea - 1) * BuyPrice < IntHalf

(***************************************************************************)
(* The invariant: what is traded is never too big, since only what was     *)
(* not was ever bought, and ground is worth what it costs.                 *)
(***************************************************************************)
NoneTooBig ==
    /\ \A l \in DOMAIN lands : ~TooBig(lands[l].rect)
    /\ half.op = "buy" => ~TooBig(half.rect)

Purses == [p \in Player |-> Balance(p)]

Cost(r) == Area(r) * BuyPrice

Costs == [l \in Held |-> Cost(lands[l].rect)]

UnderWay == IF half.op = "buy" THEN Cost(half.rect) ELSE 0

WealthInv == DeedsInv /\ NoneTooBig /\ NoFreeGround

\* What is not too big is paid for in full, and is not worth more when sold.
LEMMA FairPrice ==
    ASSUME PricesFit, NEW r \in Rects, ~TooBig(r)
    PROVE  /\ Cost(r) \in Int /\ Cost(r) >= 0
           /\ Price(r) = Cost(r) /\ Cost(r) <= MaxPrice /\ Cost(r) < IntHalf
           /\ Refund(r) \in 0 .. Cost(r)
<1>1. PICK w \in Nat : w = r.dx - r.x
  <2>1. PICK a \in Points, b \in Points, d \in Dims : r = Between(a, b, d)
    BY DEF Rects
  <2>2. a.x \in Nat /\ b.x \in Nat
    BY DeedsAssumption
  <2>3. r.dx = Most(a.x, b.x) /\ r.x = Least(a.x, b.x)
    BY <2>1 DEF Between
  <2> QED  BY <2>2, <2>3 DEF Most, Least
<1>2. PICK h \in Nat : h = r.dz - r.z
  <2>1. PICK a \in Points, b \in Points, d \in Dims : r = Between(a, b, d)
    BY DEF Rects
  <2>2. a.z \in Nat /\ b.z \in Nat
    BY DeedsAssumption
  <2>3. r.dz = Most(a.z, b.z) /\ r.z = Least(a.z, b.z)
    BY <2>1 DEF Between
  <2> QED  BY <2>2, <2>3 DEF Most, Least
<1>3. /\ BuyPrice \in Int /\ SellPrice \in Int /\ MaxArea \in Int /\ IntHalf \in Nat \ {0}
      /\ 0 <= SellPrice /\ SellPrice <= BuyPrice /\ (MaxArea - 1) * BuyPrice < IntHalf
  BY DeedsAssumption, IntHalfAssumption DEF PricesFit, Ints
<1>4. PICK area \in Nat : area = (w + 1) * (h + 1)
  OBVIOUS
<1>5. PICK sides \in Nat : sides = w * h
  OBVIOUS
<1>6. sides <= area
  <2>1. (w + 1) * (h + 1) = w * h + w + h + 1
    OBVIOUS
  <2> QED  BY <1>4, <1>5, <2>1
<1>7. Area(r) = area /\ Price(r) = Wrap(area * BuyPrice) /\ Refund(r) = Wrap(sides * SellPrice)
  BY <1>1, <1>2, <1>4, <1>5 DEF Area, Price, Refund
<1>8. area <= MaxArea - 1 /\ Price(r) < MaxPrice
  <2>1. ~(area >= MaxArea) /\ ~(Price(r) >= MaxPrice)
    BY <1>7 DEF TooBig
  <2>2. Price(r) \in Int /\ MaxPrice \in Int
    BY PriceType, DeedsAssumption DEF Ints
  <2> QED  BY <1>3, <2>1, <2>2
<1>9. PICK cost \in Nat : cost = area * BuyPrice
  BY <1>3
<1>10. cost < IntHalf
  <2>1. area * BuyPrice <= (MaxArea - 1) * BuyPrice
    BY <1>3, <1>8
  <2> QED  BY <1>3, <1>9, <2>1
<1>11. PICK refund \in Nat : refund = sides * SellPrice
  BY <1>3
<1>12. refund <= cost
  <2>1. sides * SellPrice <= area * SellPrice
    BY <1>3, <1>6
  <2>2. area * SellPrice <= area * BuyPrice
    BY <1>3
  <2>3. sides * SellPrice \in Int /\ area * SellPrice \in Int /\ area * BuyPrice \in Int
    BY <1>3
  <2> QED  BY <1>9, <1>11, <2>1, <2>2, <2>3
<1>13. Price(r) = cost /\ Refund(r) = refund /\ Cost(r) = cost
  <2>1. cost \in Ints /\ refund \in Ints
    BY <1>3, <1>10, <1>12 DEF Ints
  <2> QED  BY <2>1, <1>7, <1>9, <1>11, WrapFits DEF Cost
<1>14. MaxPrice \in Int
  BY DeedsAssumption
<1> QED  BY <1>3, <1>8, <1>10, <1>12, <1>13, <1>14

\* What balances and lands sum to.
LEMMA WealthType ==
    ASSUME PricesFit, TypeOK, NoneTooBig
    PROVE  /\ Purses \in [Player -> Int] /\ SumFunction(Purses) \in Int
           /\ IsFiniteSet(Held) /\ Costs \in [Held -> Int] /\ SumFunction(Costs) \in Int
           /\ \A l \in Held : Costs[l] >= 0
           /\ UnderWay \in Int /\ UnderWay >= 0
           /\ Wealth = SumFunction(Purses) + (SumFunction(Costs) + UnderWay)
<1>1. \A p \in Player : Balance(p) \in Int
  BY GetType, DeedsAssumption DEF TypeOK, Balance, Ints
<1>2. Purses \in [Player -> Int]
  BY <1>1 DEF Purses
<1>3. IsFiniteSet(Held)
  <2>1. Held \subseteq DOMAIN lands /\ DOMAIN lands \subseteq 1 .. issued /\ issued \in Nat
    BY DEF Held, TypeOK
  <2>2. IsFiniteSet(1 .. issued)
    BY <2>1, FS_Interval
  <2> QED  BY <2>1, <2>2, FS_Subset
<1>4. \A l \in Held : Cost(lands[l].rect) \in Int /\ Cost(lands[l].rect) >= 0
  <2>1. \A l \in Held : lands[l].rect \in Rects /\ ~TooBig(lands[l].rect)
    BY DEF Held, TypeOK, NoneTooBig
  <2> QED  BY <2>1, FairPrice
<1>5. Costs \in [Held -> Int] /\ \A l \in Held : Costs[l] >= 0
  BY <1>4 DEF Costs
<1>6. UnderWay \in Int /\ UnderWay >= 0
  <2>1. CASE half.op = "buy"
    <3>1. half.rect \in Rects /\ ~TooBig(half.rect)
      BY <2>1, HalfKinds DEF NoneTooBig
    <3> QED  BY <2>1, <3>1, FairPrice DEF UnderWay
  <2>2. CASE half.op # "buy"
    BY <2>2 DEF UnderWay
  <2> QED  BY <2>1, <2>2
<1>7. IsFiniteSet(Player)
  BY DEF PricesFit
<1>8. SumFunction(Purses) \in Int /\ SumFunction(Costs) \in Int
  BY <1>2, <1>3, <1>5, <1>7, SumType
<1>9. Wealth = SumFunction(Purses) + (SumFunction(Costs) + UnderWay)
  BY DEF Wealth, Ground, Purses, Costs, UnderWay, Cost
<1> QED  BY <1>2, <1>3, <1>5, <1>6, <1>8, <1>9

\* When one balance is written, the sum follows it.
LEMMA PurseWritten ==
    ASSUME PricesFit, TypeOK, TypeOK', NEW p \in Player, NEW v,
           \A q : Balance(q)' = IF q = p THEN v ELSE Balance(q)
    PROVE  SumFunction(Purses)' = SumFunction(Purses) + v - Balance(p)
<1>1. PICK f, g : f = Purses /\ g = Purses'
  OBVIOUS
<1>2. \A q : Balance(q) \in Int /\ Balance(q)' \in Int
  <2>1. db \in Balances /\ db' \in Balances /\ InitMoney \in Ints
    BY DeedsAssumption DEF TypeOK
  <2> QED  BY <2>1, GetType DEF Balance, Ints
<1>3. \A q \in Player : g[q] = Balance(q)' /\ f[q] = Balance(q)
  BY <1>1 DEF Purses
<1>4. f \in [Player -> Int] /\ g \in [Player -> Int]
  BY <1>1, <1>2 DEF Purses
<1>5. SumFunction(g) = SumFunction(f) + g[p] - f[p]
  <2>1. \A q \in Player \ {p} : g[q] = f[q]
    BY <1>3
  <2>2. IsFiniteSet(Player)
    BY DEF PricesFit
  <2> QED  BY <1>4, <2>1, <2>2, SumUpdate
<1>6. SumFunction(Purses)' = SumFunction(g)
  BY <1>1
<1> QED  BY <1>1, <1>3, <1>5, <1>6

\* A buyer has the price and pays it.
LEMMA BuyerPays ==
    ASSUME PricesFit, DeedsInv, NEW p \in Buyers, NEW d \in Dims, BuyPay(p, d)
    PROVE  \E r \in Rects :
              /\ ~TooBig(r) /\ Balance(p) >= Cost(r)
              /\ half = Whole /\ half' = [op |-> "buy", rect |-> r, by |-> p]
              /\ UNCHANGED <<lands, crashes>>
              /\ \A q : Balance(q)' = IF q = p THEN Balance(p) - Cost(r) ELSE Balance(q)
<1>1. TypeOK /\ p \in Player
  BY DeedsAssumption DEF DeedsInv
<1>2. PICK r \in Rects : r = Wanted(p, d)
  <2>1. start[p] \in Points /\ end[p] \in Points
    BY <1>1 DEF BuyPay, TwoPoints, TypeOK
  <2> QED  BY <2>1 DEF Wanted, Rects
<1>3. /\ CanBuy(p, r) /\ half = Whole
      /\ db' = set_money(db, p, Wrap(Balance(p) - Price(r)))
      /\ half' = [op |-> "buy", rect |-> r, by |-> p]
      /\ UNCHANGED <<lands, crashes>>
  BY <1>2 DEF BuyPay, Ready
<1>4. ~TooBig(r) /\ Balance(p) >= Price(r)
  BY <1>3 DEF CanBuy
<1>5. PICK c \in Nat : c = Cost(r) /\ c = Price(r)
  BY <1>4, FairPrice
<1>6. PICK b \in Ints : b = Balance(p)
  BY <1>1, GetType, DeedsAssumption DEF TypeOK, Balance
<1>7. b - c \in Ints
  BY <1>4, <1>5, <1>6, IntHalfAssumption DEF Ints
<1>8. db' = set_money(db, p, b - c)
  BY <1>3, <1>5, <1>6, <1>7, WrapFits
<1>9. \A q : Balance(q)' = IF q = p THEN b - c ELSE Balance(q)
  <2>1. db \in Balances
    BY <1>1 DEF TypeOK
  <2> QED  BY <1>1, <1>7, <1>8, <2>1, SetType DEF Balance
<1> QED  BY <1>3, <1>4, <1>5, <1>6, <1>9

\* A seller is paid no more than what the land has cost.
LEMMA SellerIsPaid ==
    ASSUME PricesFit, DeedsInv, NoneTooBig, NEW p \in Player, NEW c, SellPay(p, c)
    PROVE  \E l \in DOMAIN lands : \E v \in Ints :
              /\ v <= Balance(p) + Cost(lands[l].rect)
              /\ Balance(p) >= 0 /\ Balance(p) + Cost(lands[l].rect) < IntHalf => v >= 0
              /\ half = Whole /\ half' = [op |-> "sell", lid |-> l]
              /\ UNCHANGED <<lands, crashes>>
              /\ \A q : Balance(q)' = IF q = p THEN v ELSE Balance(q)
<1>1. TypeOK
  BY DEF DeedsInv
<1>2. PICK l \in DOMAIN lands :
          /\ db' = add_money(db, InitMoney, p, Refund(lands[l].rect))
          /\ half' = [op |-> "sell", lid |-> l]
  BY DEF SellPay, LandAt
<1>3. lands[l].rect \in Rects /\ ~TooBig(lands[l].rect)
  BY <1>1 DEF TypeOK, NoneTooBig
<1>4. PICK n, cost \in Nat :
          n = Refund(lands[l].rect) /\ cost = Cost(lands[l].rect) /\ n <= cost /\ cost < IntHalf
  <2>1. /\ Cost(lands[l].rect) \in Nat /\ Cost(lands[l].rect) < IntHalf
        /\ Refund(lands[l].rect) \in 0 .. Cost(lands[l].rect)
    BY <1>3, FairPrice
  <2> QED  BY <2>1
<1>5. n \in Ints
  BY <1>4, IntHalfAssumption DEF Ints
<1>6. PICK v \in Ints :
          /\ v = get_money(db, InitMoney, p) + n \/ v <= get_money(db, InitMoney, p)
          /\ get_money(db, InitMoney, p) >= 0 /\ get_money(db, InitMoney, p) + n < IntHalf
                => v = get_money(db, InitMoney, p) + n
          /\ \A q : get_money(add_money(db, InitMoney, p, n), InitMoney, q) =
                        IF q = p THEN v ELSE get_money(db, InitMoney, q)
  <2>1. db \in Balances /\ InitMoney \in Ints /\ n >= 0
    BY <1>1, <1>4, DeedsAssumption DEF TypeOK
  <2> QED  BY <1>5, <2>1, AddPays
<1>7. PICK b \in Int : b = Balance(p)
  BY <1>1, GetType, DeedsAssumption DEF TypeOK, Balance, Ints
<1>8. v \in Int /\ v <= b + cost /\ (b >= 0 /\ b + cost < IntHalf => v >= 0)
  BY <1>4, <1>6, <1>7, IntHalfAssumption DEF Balance, Ints
<1>9. \A q : Balance(q)' = IF q = p THEN v ELSE Balance(q)
  BY <1>2, <1>4, <1>6 DEF Balance
<1>10. half = Whole /\ UNCHANGED <<lands, crashes>>
  BY DEF SellPay, Ready
<1> QED  BY <1>2, <1>4, <1>7, <1>8, <1>9, <1>10

\* A step that makes nobody richer.
Fair == NoneTooBig' /\ Wealth' \in Int /\ Wealth' <= Wealth /\ crashes' = crashes

\* Money becomes ground of the same cost.
LEMMA BuyPayIsFair ==
    ASSUME PricesFit, WealthInv, NEW p \in Buyers, NEW d \in Dims, BuyPay(p, d)
    PROVE  Fair
<1>1. DeedsInv /\ TypeOK /\ NoneTooBig /\ p \in Player
  BY DeedsAssumption DEF WealthInv, DeedsInv
<1>2. DeedsInv' /\ TypeOK'
  BY <1>1, BuyPayKeeps DEF DeedsInv
<1>3. PICK r \in Rects :
          /\ ~TooBig(r)
          /\ half = Whole /\ half' = [op |-> "buy", rect |-> r, by |-> p]
          /\ UNCHANGED <<lands, crashes>>
          /\ \A q : Balance(q)' = IF q = p THEN Balance(p) - Cost(r) ELSE Balance(q)
  BY <1>1, BuyerPays
<1>4. half.op = "none" /\ half'.op = "buy" /\ half'.rect = r
  BY <1>3 DEF Whole
<1>5. NoneTooBig'
  BY <1>1, <1>3, <1>4 DEF NoneTooBig
<1>6. SumFunction(Purses)' = SumFunction(Purses) + (Balance(p) - Cost(r)) - Balance(p)
  BY <1>1, <1>2, <1>3, PurseWritten
<1>7. Costs' = Costs /\ UnderWay = 0 /\ UnderWay' = Cost(r)
  <2>1. Held' = Held
    BY <1>3, <1>4 DEF Held
  <2>2. Costs' = Costs
    BY <1>3, <2>1 DEF Costs
  <2>3. UnderWay' = Cost(r)
    BY <1>4 DEF UnderWay
  <2> QED  BY <1>4, <2>2, <2>3 DEF UnderWay
<1>8. PICK t, c \in Int : t = SumFunction(Purses) /\ c = SumFunction(Costs) /\ Wealth = t + (c + 0)
  BY <1>1, <1>7, WealthType
<1>9. Wealth' = SumFunction(Purses)' + (SumFunction(Costs') + UnderWay')
  BY DEF Wealth, Ground, Purses, Costs, UnderWay, Cost
<1>10. Cost(r) \in Int /\ Balance(p) \in Int
  <2>1. db \in Balances
    BY <1>1 DEF TypeOK
  <2> QED  BY <1>3, <2>1, FairPrice, GetType, DeedsAssumption DEF Balance, Ints
<1>11. Wealth' = (t + (Balance(p) - Cost(r)) - Balance(p)) + (c + Cost(r))
  BY <1>6, <1>7, <1>8, <1>9
<1>12. Wealth' \in Int /\ Wealth' <= Wealth
  BY <1>8, <1>10, <1>11
<1> QED  BY <1>3, <1>5, <1>12 DEF Fair

\* Ground paid for becomes a land of the same cost.
LEMMA BuyAddIsFair == ASSUME PricesFit, WealthInv, BuyAdd PROVE Fair
<1>1. DeedsInv /\ TypeOK /\ NoneTooBig
  BY DEF WealthInv, DeedsInv
<1>2. PICK r \in Rects : r = half.rect /\ ~TooBig(r) /\ half.op = "buy"
  BY <1>1, BuyAddKeeps DEF BuyAdd, NoneTooBig
<1>3. PICK k \in Nat : k = issued + 1 /\ k \notin DOMAIN lands
  BY <1>1 DEF TypeOK
<1>4. /\ DOMAIN lands' = DOMAIN lands \cup {k}
      /\ lands'[k].rect = r /\ \A m \in DOMAIN lands : lands'[m] = lands[m]
      /\ half' = Whole /\ half'.op = "none" /\ UNCHANGED <<db, crashes>>
  BY <1>2, <1>3 DEF BuyAdd, Put, Whole
<1>5. NoneTooBig'
  <2>1. \A m \in DOMAIN lands' : ~TooBig(lands'[m].rect)
    BY <1>1, <1>2, <1>4 DEF NoneTooBig
  <2> QED  BY <1>4, <2>1 DEF NoneTooBig
<1>6. Held = DOMAIN lands /\ Held' = Held \cup {k} /\ k \notin Held
  BY <1>2, <1>3, <1>4 DEF Held
<1>7. UnderWay = Cost(r) /\ UnderWay' = 0 /\ Cost(r) \in Int
  BY <1>2, <1>4, FairPrice DEF UnderWay
<1>8. SumFunction(Costs') = SumFunction(Costs) + Cost(r)
  <2>1. PICK f, g : f = Costs /\ g = Costs'
    OBVIOUS
  <2>2. f \in [Held -> Int] /\ IsFiniteSet(Held)
    BY <1>1, <2>1, WealthType
  <2>3. g = [m \in Held \cup {k} |-> Cost(lands'[m].rect)]
    BY <1>6, <2>1 DEF Costs
  <2>4. g[k] = Cost(r) /\ \A m \in Held : g[m] = f[m]
    BY <1>4, <1>6, <2>1, <2>3 DEF Costs
  <2>5. g \in [Held \cup {k} -> Int]
    BY <1>7, <2>2, <2>3, <2>4
  <2>6. SumFunction(g) = SumFunction(f) + g[k]
    BY <1>6, <2>2, <2>4, <2>5, SumMore
  <2> QED  BY <2>1, <2>4, <2>6
<1>9. SumFunction(Purses)' = SumFunction(Purses)
  BY <1>4 DEF Purses, Balance
<1>10. PICK t, c \in Int :
           t = SumFunction(Purses) /\ c = SumFunction(Costs) /\ Wealth = t + (c + Cost(r))
  BY <1>1, <1>7, WealthType
<1>11. Wealth' = SumFunction(Purses)' + (SumFunction(Costs') + UnderWay')
  BY DEF Wealth, Ground, Purses, Costs, UnderWay, Cost
<1>12. Wealth' = t + ((c + Cost(r)) + 0)
  BY <1>7, <1>8, <1>9, <1>10, <1>11
<1>13. Wealth' \in Int /\ Wealth' <= Wealth
  BY <1>7, <1>10, <1>12
<1> QED  BY <1>4, <1>5, <1>13 DEF Fair

\* A land becomes no more money than it has cost.
LEMMA SellPayIsFair ==
    ASSUME PricesFit, WealthInv, NEW p \in Player, NEW s \in Standing, SellPay(p, s)
    PROVE  Fair
<1>1. DeedsInv /\ TypeOK /\ NoneTooBig
  BY DEF WealthInv, DeedsInv
<1>2. DeedsInv' /\ TypeOK'
  BY <1>1, SaleKeeps DEF DeedsInv
<1>3. PICK l \in DOMAIN lands, v \in Ints :
          /\ v <= Balance(p) + Cost(lands[l].rect)
          /\ half = Whole /\ half' = [op |-> "sell", lid |-> l]
          /\ UNCHANGED <<lands, crashes>>
          /\ \A q : Balance(q)' = IF q = p THEN v ELSE Balance(q)
  BY <1>1, SellerIsPaid
<1>4. half.op = "none" /\ half'.op = "sell" /\ half'.lid = l
  BY <1>3 DEF Whole
<1>5. NoneTooBig'
  BY <1>1, <1>3, <1>4 DEF NoneTooBig
<1>6. SumFunction(Purses)' = SumFunction(Purses) + v - Balance(p)
  BY <1>1, <1>2, <1>3, PurseWritten
<1>7. PICK D : D = Held' /\ Held = D \cup {l} /\ l \notin D
  <2>1. Held = DOMAIN lands /\ Held' = DOMAIN lands \ {l}
    BY <1>3, <1>4 DEF Held
  <2>2. l \in DOMAIN lands
    OBVIOUS
  <2> QED  BY <2>1, <2>2
<1>8. UnderWay = 0 /\ UnderWay' = 0
  BY <1>4 DEF UnderWay
<1>9. IsFiniteSet(Held) /\ Costs \in [Held -> Int]
  BY <1>1, WealthType
<1>10. SumFunction(Costs) = SumFunction(Costs') + Cost(lands[l].rect) /\ SumFunction(Costs') \in Int
  <2>1. PICK f, g : f = Costs' /\ g = Costs
    OBVIOUS
  <2>2. IsFiniteSet(D) /\ g \in [D \cup {l} -> Int]
    BY <1>7, <1>9, <2>1, FS_Subset
  <2>3. f = [m \in D |-> Cost(lands[m].rect)] /\ g = [m \in D \cup {l} |-> Cost(lands[m].rect)]
    BY <1>3, <1>7, <2>1 DEF Costs
  <2>4. f \in [D -> Int] /\ \A m \in D : g[m] = f[m]
    BY <2>2, <2>3
  <2>5. SumFunction(g) = SumFunction(f) + g[l]
    BY <1>7, <2>2, <2>4, SumMore
  <2>6. SumFunction(f) \in Int
    BY <2>2, <2>4, SumType
  <2> QED  BY <2>1, <2>3, <2>5, <2>6
<1>11. PICK t, c \in Int : t = SumFunction(Purses) /\ c = SumFunction(Costs')
  BY <1>1, <1>10, WealthType
<1>12. Cost(lands[l].rect) \in Int /\ Balance(p) \in Int /\ v \in Int
  <2>1. db \in Balances /\ lands[l].rect \in Rects /\ ~TooBig(lands[l].rect)
    BY <1>1 DEF TypeOK, NoneTooBig
  <2> QED  BY <2>1, FairPrice, GetType, DeedsAssumption DEF Balance, Ints
<1>13. Wealth = t + ((c + Cost(lands[l].rect)) + 0)
  BY <1>1, <1>8, <1>10, <1>11, WealthType
<1>14. Wealth' = SumFunction(Purses)' + (SumFunction(Costs') + UnderWay')
  BY DEF Wealth, Ground, Purses, Costs, UnderWay, Cost
<1>15. Wealth' = (t + v - Balance(p)) + (c + 0)
  BY <1>6, <1>8, <1>11, <1>14
<1>16. Wealth' \in Int /\ Wealth' <= Wealth
  BY <1>3, <1>12, <1>13, <1>15
<1> QED  BY <1>3, <1>5, <1>16 DEF Fair

\* What rewrites a land in place leaves what it costs.
LEMMA RewriteIsFair ==
    ASSUME PricesFit, WealthInv, UNCHANGED <<db, half, crashes>>,
           DOMAIN lands' = DOMAIN lands, \A l \in DOMAIN lands : lands'[l].rect = lands[l].rect
    PROVE  Fair
<1>1. NoneTooBig'
  BY DEF WealthInv, NoneTooBig
<1>2. Held' = Held
  BY DEF Held
<1>3. Costs' = Costs
  <2>1. Costs' = [l \in Held |-> Cost(lands'[l].rect)]
    BY <1>2 DEF Costs
  <2>2. Held \subseteq DOMAIN lands
    BY DEF Held
  <2> QED  BY <2>1, <2>2 DEF Costs
<1>4. Purses' = Purses /\ UnderWay' = UnderWay
  BY DEF Purses, Balance, UnderWay
<1>5. Wealth' = SumFunction(Purses') + (SumFunction(Costs') + UnderWay')
  BY DEF Wealth, Ground, Purses, Costs, UnderWay, Cost
<1>6. Wealth' = Wealth
  BY <1>3, <1>4, <1>5 DEF Wealth, Ground, Purses, Costs, UnderWay, Cost
<1>7. Wealth \in Int
  <2>1. TypeOK /\ NoneTooBig
    BY DEF WealthInv, DeedsInv
  <2> QED  BY <2>1, WealthType
<1> QED  BY <1>1, <1>6, <1>7 DEF Fair

\* A land sold is gone.
LEMMA SellRemoveIsFair == ASSUME PricesFit, WealthInv, SellRemove PROVE Fair
<1>1. TypeOK /\ NoneTooBig
  BY DEF WealthInv, DeedsInv
<1>2. /\ half.op = "sell" /\ lands' = [l \in DOMAIN lands \ {half.lid} |-> lands[l]]
      /\ half' = Whole /\ half'.op = "none" /\ UNCHANGED <<db, crashes>>
  BY DEF SellRemove, Whole
<1>3. NoneTooBig'
  BY <1>1, <1>2 DEF NoneTooBig
<1>4. Held' = Held
  BY <1>2 DEF Held
<1>5. Costs' = Costs
  <2>1. Costs' = [l \in Held |-> Cost(lands'[l].rect)]
    BY <1>4 DEF Costs
  <2>2. \A l \in Held : lands'[l] = lands[l]
    BY <1>2 DEF Held
  <2> QED  BY <2>1, <2>2 DEF Costs
<1>6. Purses' = Purses /\ UnderWay' = UnderWay
  BY <1>2 DEF Purses, Balance, UnderWay
<1>7. Wealth' = SumFunction(Purses') + (SumFunction(Costs') + UnderWay')
  BY DEF Wealth, Ground, Purses, Costs, UnderWay, Cost
<1>8. Wealth' = Wealth
  BY <1>5, <1>6, <1>7 DEF Wealth, Ground, Purses, Costs, UnderWay, Cost
<1>9. Wealth \in Int
  BY <1>1, WealthType
<1> QED  BY <1>2, <1>3, <1>8, <1>9 DEF Fair

\* A death drops a purchase that is paid for, or leaves a land that is paid out.
LEMMA CrashIsPaid ==
    ASSUME PricesFit, WealthInv, Crash
    PROVE  /\ NoneTooBig' /\ Wealth' \in Int
           /\ Wealth' <= Wealth + MaxPrice /\ crashes' = crashes + 1
<1>1. TypeOK /\ NoneTooBig
  BY DEF WealthInv, DeedsInv
<1>2. half' = Whole /\ half'.op = "none" /\ UNCHANGED <<lands, db>> /\ crashes' = crashes + 1
  BY DEF Crash, Whole
<1>3. NoneTooBig'
  BY <1>1, <1>2 DEF NoneTooBig
<1>4. Held' = DOMAIN lands /\ UnderWay' = 0
  BY <1>2 DEF Held, UnderWay
<1>5. PICK c, d, u \in Int : c = SumFunction(Costs) /\ d = SumFunction(Costs') /\ u = UnderWay
                          /\ d <= c + MaxPrice /\ u >= 0
  <2>1. /\ SumFunction(Costs) \in Int /\ IsFiniteSet(Held) /\ Costs \in [Held -> Int]
        /\ UnderWay \in Int /\ UnderWay >= 0
    BY <1>1, WealthType
  <2>2. MaxPrice \in Nat
    BY DeedsAssumption
  <2>3. CASE half.op # "sell"
    <3>1. Held' = Held
      BY <1>4, <2>3 DEF Held
    <3>2. Costs' = Costs
      BY <1>2, <3>1 DEF Costs
    <3> QED  BY <2>1, <2>2, <3>2
  <2>4. CASE half.op = "sell"
    <3>1. PICK l \in DOMAIN lands : l = half.lid
      BY <1>1, <2>4, HalfKinds
    <3>2. Held' = Held \cup {l} /\ l \notin Held
      <4>1. Held = DOMAIN lands \ {l}
        BY <2>4, <3>1 DEF Held
      <4>2. l \in DOMAIN lands
        OBVIOUS
      <4> QED  BY <1>4, <4>1, <4>2
    <3>3. PICK f, g : f = Costs /\ g = Costs'
      OBVIOUS
    <3>4. g = [m \in Held \cup {l} |-> Cost(lands[m].rect)]
      BY <1>2, <3>2, <3>3 DEF Costs
    <3>5. /\ Cost(lands[l].rect) \in Int /\ Cost(lands[l].rect) <= MaxPrice
          /\ g[l] = Cost(lands[l].rect) /\ \A m \in Held : g[m] = f[m]
      <4>1. lands[l].rect \in Rects /\ ~TooBig(lands[l].rect)
        BY <1>1 DEF TypeOK, NoneTooBig
      <4> QED  BY <4>1, <3>3, <3>4, FairPrice DEF Costs
    <3>6. g \in [Held \cup {l} -> Int]
      BY <2>1, <3>3, <3>4, <3>5
    <3>7. SumFunction(g) = SumFunction(f) + g[l]
      <4>1. IsFiniteSet(Held) /\ f \in [Held -> Int] /\ l \notin Held /\ \A m \in Held : g[m] = f[m]
        BY <2>1, <3>2, <3>3, <3>5
      <4> QED  BY <3>6, <4>1, SumMore
    <3>8. PICK c, n \in Int : c = SumFunction(Costs) /\ n = g[l] /\ n <= MaxPrice
      BY <2>1, <3>5
    <3>9. SumFunction(Costs') = c + n /\ c + n \in Int /\ c + n <= c + MaxPrice
      BY <2>2, <3>3, <3>7, <3>8
    <3> QED  BY <2>1, <3>8, <3>9
  <2> QED  BY <2>3, <2>4
<1>6. PICK t \in Int : t = SumFunction(Purses) /\ Wealth = t + (c + u)
  BY <1>1, <1>5, WealthType
<1>7. Purses' = Purses
  BY <1>2 DEF Purses, Balance
<1>8. Wealth' = SumFunction(Purses') + (SumFunction(Costs') + UnderWay')
  BY DEF Wealth, Ground, Purses, Costs, UnderWay, Cost
<1>9. Wealth' = t + (d + 0)
  BY <1>4, <1>5, <1>6, <1>7, <1>8
<1>10. Wealth' \in Int /\ Wealth' <= Wealth + MaxPrice
  <2>1. MaxPrice \in Int
    BY DeedsAssumption
  <2> QED  BY <1>5, <1>6, <1>9, <2>1
<1> QED  BY <1>2, <1>3, <1>10

\* In the beginning each player has the initial money and nobody any land.
LEMMA WealthInit == PricesFit /\ Init => WealthInv
<1> SUFFICES ASSUME PricesFit, Init PROVE WealthInv
  OBVIOUS
<1>1. DeedsInv /\ TypeOK
  BY DeedsInit DEF DeedsInv
<1>2. /\ DOMAIN lands = {} /\ DOMAIN db = {} /\ half.op = "none" /\ crashes = 0
  BY DEF Init, Whole
<1>3. NoneTooBig
  BY <1>2 DEF NoneTooBig
<1>4. /\ IsFiniteSet(Held) /\ Costs \in [Held -> Int] /\ Held = {}
      /\ Wealth = SumFunction(Purses) + (SumFunction(Costs) + UnderWay)
  BY <1>1, <1>2, <1>3, WealthType DEF Held
<1>5. SumFunction(Costs) = 0 /\ UnderWay = 0
  BY <1>2, <1>4, SumType DEF UnderWay
<1>6. SumFunction(Purses) = Cardinality(Player) * InitMoney
  <2>1. \A p \in Player : Purses[p] = InitMoney
    BY <1>2 DEF Purses, Balance, get_money
  <2>2. IsFiniteSet(Player) /\ InitMoney \in Int
    BY DeedsAssumption DEF PricesFit, Ints
  <2>3. SumFunctionOnSet(Purses, Player) = Cardinality(Player) * InitMoney
    BY <2>1, <2>2, SumAlike
  <2>4. DOMAIN Purses = Player
    BY DEF Purses
  <2> QED  BY <2>3, <2>4 DEF SumFunction
<1>7. Cardinality(Player) * InitMoney \in Int
  <2>1. Cardinality(Player) \in Nat /\ InitMoney \in Int
    BY FS_CardinalityType, DeedsAssumption DEF PricesFit, Ints
  <2> QED  BY <2>1
<1>8. crashes * MaxPrice = 0
  BY <1>2, DeedsAssumption
<1>9. NoFreeGround
  BY <1>4, <1>5, <1>6, <1>7, <1>8 DEF NoFreeGround
<1> QED  BY <1>1, <1>3, <1>9 DEF WealthInv

\* No step makes anyone richer, but a death by the price of one land.
LEMMA WealthStep ==
    ASSUME PricesFit, WealthInv, [Next]_deedVars
    PROVE  \/ Fair
           \/ /\ NoneTooBig' /\ Wealth' \in Int
              /\ Wealth' <= Wealth + MaxPrice /\ crashes' = crashes + 1
<1>1. DeedsInv /\ TypeOK
  BY DEF WealthInv, DeedsInv
<1>2. CASE UNCHANGED deedVars
  BY <1>2, RewriteIsFair DEF deedVars
<1>3. ASSUME NEW p \in Buyers,
             \/ \E m \in {1, 2} : AB_(p, m)
             \/ Exit(p)
             \/ \E q \in Points : SelectA(p, q) \/ SelectB(p, q)
             \/ \E d \in Dims : BuyRefused(p, d)
      PROVE  Fair
  <2>1. UNCHANGED <<lands, db, half, crashes>>
    BY <1>3 DEF AB_, Exit, SelectA, SelectB, BuyRefused
  <2> QED  BY <2>1, RewriteIsFair
<1>4. ASSUME NEW p \in Player, NEW c \in Standing,
             \/ \E q \in Player : Trust(p, c, q) \/ Untrust(p, c, q) \/ Give(p, c, q)
             \/ \E s \in Perms : Perm(p, c, s)
      PROVE  Fair
  <2>1. /\ UNCHANGED <<db, half, crashes>>
        /\ \E l \in LandAt(c) : \E d \in Deed :
               d.rect = lands[l].rect /\ lands' = [lands EXCEPT ![l] = d]
    BY <1>1, <1>4, CommandRewrites
  <2>2. PICK l \in LandAt(c), d \in Deed :
            d.rect = lands[l].rect /\ lands' = [lands EXCEPT ![l] = d]
    BY <2>1
  <2>3. lands \in [DOMAIN lands -> Deed]
    BY <1>1 DEF TypeOK, Deed
  <2>4. DOMAIN lands' = DOMAIN lands /\ \A m \in DOMAIN lands : lands'[m].rect = lands[m].rect
    BY <2>2, <2>3
  <2> QED  BY <2>1, <2>4, RewriteIsFair
<1> QED  BY <1>2, <1>3, <1>4, BuyPayIsFair, BuyAddIsFair, SellPayIsFair, SellRemoveIsFair,
            CrashIsPaid DEF Next

\* So what there is stays within what there was.
LEMMA WealthNext == PricesFit /\ WealthInv /\ [Next]_deedVars => WealthInv'
<1> SUFFICES ASSUME PricesFit, WealthInv, [Next]_deedVars PROVE WealthInv'
  OBVIOUS
<1>1. DeedsInv /\ TypeOK /\ NoneTooBig /\ NoFreeGround
  BY DEF WealthInv, DeedsInv
<1>2. DeedsInv' /\ TypeOK'
  BY <1>1, DeedsNext DEF DeedsInv
<1>3. NoneTooBig'
  BY WealthStep DEF Fair
<1>4. PICK w, n, k \in Int : w = Wealth /\ n = Cardinality(Player) * InitMoney /\ k = crashes
  <2>1. Wealth \in Int
    BY <1>1, WealthType
  <2>2. Cardinality(Player) \in Nat /\ InitMoney \in Int
    BY FS_CardinalityType, DeedsAssumption DEF PricesFit, Ints
  <2>3. crashes \in Int
    BY <1>1 DEF TypeOK
  <2> QED  BY <2>1, <2>2, <2>3
<1>5. PICK m \in Int : m = MaxPrice
  BY DeedsAssumption
<1>6. w <= n + k * m
  BY <1>1, <1>4, <1>5 DEF NoFreeGround
<1>7. PICK v : v = Wealth'
  OBVIOUS
<1>8. \/ v <= w /\ crashes' = k
      \/ v <= w + m /\ crashes' = k + 1
  BY <1>4, <1>5, <1>7, WealthStep DEF Fair
<1>9. v \in Int
  BY <1>7, WealthStep DEF Fair
<1>10. NoFreeGround'
  <2>1. (k + 1) * m = k * m + m
    OBVIOUS
  <2>2. v <= n + crashes' * m
    BY <1>4, <1>5, <1>6, <1>8, <1>9, <2>1
  <2> QED  BY <1>4, <1>5, <1>7, <2>2 DEF NoFreeGround
<1> QED  BY <1>2, <1>3, <1>10 DEF WealthInv

(***************************************************************************)
(* Ground is worth what it costs (main.cpp:100-164): while prices fit,     *)
(* trading land makes no player richer, for any number of players, lands   *)
(* and points and any order of commands; a death of the process in a sale  *)
(* leaves less than the price of one land too much.                        *)
(***************************************************************************)
THEOREM LandIsWorthItsPrice == PricesFit /\ Spec => []NoFreeGround
<1>1. WealthInv => NoFreeGround
  BY DEF WealthInv
<1> SUFFICES ASSUME PricesFit PROVE Spec => []NoFreeGround
  OBVIOUS
<1>2. (Init => WealthInv) /\ (WealthInv /\ [Next]_deedVars => WealthInv')
  BY WealthInit, WealthNext
<1> QED  BY <1>1, <1>2, PTL DEF Spec

(***************************************************************************)
(* All the money there can be fits an int.                                 *)
(***************************************************************************)
MoneyFits ==
    /\ InitMoney >= 0
    /\ Cardinality(Player) * InitMoney + MaxCrashes * MaxPrice < IntHalf

\* With no debts and no free ground, a balance with the cost of a land fits an int.
LEMMA SaleFits ==
    ASSUME PricesFit, MoneyFits, WealthInv, NoDebt, half = Whole,
           NEW p \in Player, NEW l \in DOMAIN lands
    PROVE  Balance(p) + Cost(lands[l].rect) < IntHalf
<1>1. TypeOK /\ NoneTooBig /\ NoFreeGround
  BY DEF WealthInv, DeedsInv
<1>2. half.op = "none"
  BY DEF Whole
<1>3. Held = DOMAIN lands /\ UnderWay = 0
  BY <1>2 DEF Held, UnderWay
<1>4. PICK t, c \in Int : t = SumFunction(Purses) /\ c = SumFunction(Costs) /\ Wealth = t + (c + 0)
  BY <1>1, <1>3, WealthType
<1>5. Balance(p) <= t
  <2>1. /\ Summands(Purses, Player) /\ SumFunctionOnSet(Purses, Player) = t
        /\ \A q \in Player : Purses[q] >= 0 /\ Purses[p] = Balance(p)
    <3>1. Purses \in [Player -> Int] /\ IsFiniteSet(Player)
      BY <1>1, WealthType DEF PricesFit
    <3>2. Summands(Purses, Player) /\ SumFunction(Purses) = SumFunctionOnSet(Purses, Player)
      BY <3>1 DEF Summands, SumFunction
    <3> QED  BY <1>4, <3>2 DEF Purses, NoDebt
  <2>2. t >= Purses[p]
    BY <2>1, SumAtLeast
  <2>3. Purses[p] \in Int
    BY <2>1 DEF Summands
  <2> QED  BY <1>4, <2>1, <2>2, <2>3
<1>6. Cost(lands[l].rect) <= c /\ Cost(lands[l].rect) \in Int
  <2>1. IsFiniteSet(Held) /\ Costs \in [Held -> Int] /\ \A m \in Held : Costs[m] >= 0
    BY <1>1, WealthType
  <2>2. Summands(Costs, Held) /\ SumFunction(Costs) = SumFunctionOnSet(Costs, Held)
    BY <2>1 DEF Summands, SumFunction
  <2>3. c >= Costs[l] /\ Costs[l] = Cost(lands[l].rect)
    BY <1>3, <1>4, <2>1, <2>2, SumAtLeast DEF Costs
  <2>4. Costs[l] \in Int
    BY <1>3, <2>1
  <2> QED  BY <1>4, <2>3, <2>4
<1>7. PICK n, m, k \in Int : /\ n = Cardinality(Player) * InitMoney /\ m = MaxPrice /\ k = crashes
                             /\ m >= 0 /\ k <= MaxCrashes
  <2>1. Cardinality(Player) \in Nat /\ InitMoney \in Int
    BY FS_CardinalityType, DeedsAssumption DEF PricesFit, Ints
  <2>2. crashes \in Int /\ crashes <= MaxCrashes /\ MaxPrice \in Nat
    BY <1>1, DeedsAssumption DEF TypeOK
  <2> QED  BY <2>1, <2>2
<1>8. MaxCrashes \in Int /\ IntHalf \in Int
  BY DeedsAssumption, IntHalfAssumption
<1>9. k * m <= MaxCrashes * m /\ k * m \in Int /\ MaxCrashes * m \in Int
  BY <1>7, <1>8
<1>10. t + (c + 0) <= n + k * m
  BY <1>1, <1>4, <1>7 DEF NoFreeGround
<1>11. n + MaxCrashes * m < IntHalf
  BY <1>7 DEF MoneyFits
<1>12. Balance(p) \in Int
  BY <1>1, GetType, DeedsAssumption DEF TypeOK, Balance, Ints
<1> QED  BY <1>4, <1>5, <1>6, <1>7, <1>8, <1>9, <1>10, <1>11, <1>12

\* A purchase is of what one has, and a sale fits.
LEMMA DebtNext == PricesFit /\ MoneyFits /\ WealthInv /\ NoDebt /\ [Next]_deedVars => NoDebt'
<1> SUFFICES ASSUME PricesFit, MoneyFits, WealthInv, NoDebt, [Next]_deedVars PROVE NoDebt'
  OBVIOUS
<1>1. DeedsInv /\ TypeOK /\ NoneTooBig
  BY DEF WealthInv, DeedsInv
<1>2. \A p \in Player : Balance(p) \in Int /\ Balance(p) >= 0
  BY <1>1, GetType, DeedsAssumption DEF TypeOK, Balance, Ints, NoDebt
<1>3. ASSUME NEW p \in Buyers, NEW d \in Dims, BuyPay(p, d) PROVE NoDebt'
  <2>1. PICK r \in Rects :
            /\ ~TooBig(r) /\ Balance(p) >= Cost(r)
            /\ \A q : Balance(q)' = IF q = p THEN Balance(p) - Cost(r) ELSE Balance(q)
    BY <1>1, <1>3, BuyerPays
  <2>2. p \in Player /\ Cost(r) \in Int
    BY <2>1, FairPrice, DeedsAssumption
  <2>3. Balance(p) - Cost(r) >= 0
    BY <1>2, <2>1, <2>2
  <2> QED  BY <1>2, <2>1, <2>3 DEF NoDebt
<1>4. ASSUME NEW p \in Player, NEW c \in Standing, SellPay(p, c) PROVE NoDebt'
  <2>1. PICK l \in DOMAIN lands, v \in Ints :
            /\ Balance(p) >= 0 /\ Balance(p) + Cost(lands[l].rect) < IntHalf => v >= 0
            /\ half = Whole
            /\ \A q : Balance(q)' = IF q = p THEN v ELSE Balance(q)
    BY <1>1, <1>4, SellerIsPaid
  <2>2. v >= 0
    BY <1>2, <2>1, SaleFits
  <2> QED  BY <1>2, <2>1, <2>2 DEF NoDebt
<1>5. ASSUME UNCHANGED db PROVE NoDebt'
  BY <1>2, <1>5 DEF NoDebt, Balance
<1>6. ASSUME NEW p \in Player, NEW c \in Standing,
             \/ \E q \in Player : Trust(p, c, q) \/ Untrust(p, c, q) \/ Give(p, c, q)
             \/ \E s \in Perms : Perm(p, c, s)
      PROVE  UNCHANGED db
  BY <1>1, <1>6, CommandRewrites
<1>7. ASSUME NEW p \in Buyers,
             \/ \E m \in {1, 2} : AB_(p, m)
             \/ Exit(p)
             \/ \E q \in Points : SelectA(p, q) \/ SelectB(p, q)
             \/ \E d \in Dims : BuyRefused(p, d)
      PROVE  UNCHANGED db
  BY <1>7 DEF AB_, Exit, SelectA, SelectB, BuyRefused
<1>8. CASE BuyAdd \/ SellRemove \/ Crash \/ UNCHANGED deedVars
  BY <1>5, <1>8 DEF BuyAdd, SellRemove, Crash, deedVars
<1> QED  BY <1>3, <1>4, <1>5, <1>6, <1>7, <1>8 DEF Next

(***************************************************************************)
(* Nobody is driven into debt (main.cpp:125-133, 148, 162): while all the  *)
(* money there can be fits an int, no purchase takes more than there is    *)
(* and no sale overflows the balance it pays into.                         *)
(***************************************************************************)
THEOREM NobodyIsInDebt == PricesFit /\ MoneyFits /\ Spec => []NoDebt
<1> SUFFICES ASSUME PricesFit, MoneyFits PROVE Spec => []NoDebt
  OBVIOUS
<1>1. Init => WealthInv /\ NoDebt
  <2>1. Init => NoDebt
    BY DEF Init, NoDebt, Balance, get_money, MoneyFits
  <2> QED  BY <2>1, WealthInit
<1>2. WealthInv /\ NoDebt /\ [Next]_deedVars => WealthInv' /\ NoDebt'
  BY WealthNext, DebtNext
<1> QED  BY <1>1, <1>2, PTL DEF Spec
=============================================================================
