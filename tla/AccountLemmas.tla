--------------------------- MODULE AccountLemmas ----------------------------
(***************************************************************************)
(* What the account functions of money.mod do, for any players and any     *)
(* width of an int: every mod that deals in money calls them.              *)
(***************************************************************************)
EXTENDS Accounts, TLAPS

(***************************************************************************)
(* What wrapping to the width of an int does.                              *)
(***************************************************************************)
LEMMA WrapType == \A n \in Int : Wrap(n) \in Ints
<1> SUFFICES ASSUME NEW n \in Int PROVE Wrap(n) \in Ints
  OBVIOUS
<1>1. 2 * IntHalf \in Nat \ {0} /\ n + IntHalf \in Int
  BY IntHalfAssumption
<1>2. (n + IntHalf) % (2 * IntHalf) \in 0 .. 2 * IntHalf - 1
  BY <1>1
<1> QED  BY <1>2, IntHalfAssumption DEF Wrap, Ints

\* An int is kept as it is.
LEMMA WrapFits == \A n \in Ints : Wrap(n) = n
<1> SUFFICES ASSUME NEW n \in Ints PROVE Wrap(n) = n
  OBVIOUS
<1> DEFINE m == 2 * IntHalf
           k == n + IntHalf
<1>1. m \in Nat \ {0} /\ k \in 0 .. m - 1
  BY IntHalfAssumption DEF Ints
<1> HIDE DEF m, k
<1>2. k % m = k
  BY <1>1
<1>3. Wrap(n) = (k % m) - IntHalf
  BY DEF Wrap, k, m
<1> QED  BY <1>2, <1>3, IntHalfAssumption DEF k, Ints

\* A number just too large comes out one round of the int lower.
LEMMA WrapOver == \A n \in IntHalf .. 3 * IntHalf - 1 : Wrap(n) = n - 2 * IntHalf
<1> SUFFICES ASSUME NEW n \in IntHalf .. 3 * IntHalf - 1 PROVE Wrap(n) = n - 2 * IntHalf
  OBVIOUS
<1> DEFINE m == 2 * IntHalf
           k == n + IntHalf
<1>1. m \in Nat \ {0} /\ k - m \in 0 .. m - 1 /\ k \in Nat
  BY IntHalfAssumption
<1> HIDE DEF m, k
<1>2. k % m = k - m
  BY <1>1
<1>3. Wrap(n) = (k % m) - IntHalf
  BY DEF Wrap, k, m
<1> QED  BY <1>2, <1>3, IntHalfAssumption DEF k, m

(***************************************************************************)
(* The account functions keep balances in the range of an int.             *)
(***************************************************************************)
LEMMA GetType ==
    ASSUME NEW d \in Balances, NEW i \in Ints, NEW p
    PROVE  get_money(d, i, p) \in Ints
  BY DEF get_money, Balances

\* set_money writes one account and leaves the others.
LEMMA SetType ==
    ASSUME NEW d \in Balances, NEW p \in Player, NEW n \in Ints
    PROVE  /\ set_money(d, p, n) \in Balances
           /\ \A i, q : get_money(set_money(d, p, n), i, q) =
                            IF q = p THEN n ELSE get_money(d, i, q)
<1>1. PICK S \in SUBSET Player : d \in [S -> Ints]
  BY DEF Balances
<1>2. set_money(d, p, n) \in [S \cup {p} -> Ints]
  BY <1>1 DEF set_money
<1>3. \A i, q : get_money(set_money(d, p, n), i, q) = IF q = p THEN n ELSE get_money(d, i, q)
  BY <1>1 DEF set_money, get_money
<1> QED  BY <1>2, <1>3 DEF Balances

\* Deducting and adding keep the database one of ints.
LEMMA RedType ==
    ASSUME NEW d \in Balances, NEW i \in Ints, NEW p \in Player, NEW n \in Ints
    PROVE  /\ red_money(d, i, p, n) \in Balances
           /\ add_money(d, i, p, n) \in Balances
<1>1. ASSUME NEW m \in Ints PROVE red_money(d, i, p, m) \in Balances
  <2>1. Wrap(get_money(d, i, p) - m) \in Ints
    BY GetType, WrapType DEF Ints
  <2> QED  BY <2>1, SetType DEF red_money
<1>2. Wrap(-n) \in Ints
  BY WrapType DEF Ints
<1> QED  BY <1>1, <1>2 DEF add_money

\* Deducting what is there takes exactly that.
LEMMA RedTakes ==
    ASSUME NEW d \in Balances, NEW i \in Ints, NEW p \in Player, NEW n \in Ints,
           n >= 0, CanReduce(d, i, p, n)
    PROVE  \A q : get_money(red_money(d, i, p, n), i, q) =
                      IF q = p THEN get_money(d, i, p) - n ELSE get_money(d, i, q)
<1>1. get_money(d, i, p) \in Ints /\ get_money(d, i, p) >= n
  BY GetType DEF CanReduce
<1>2. get_money(d, i, p) - n \in Ints
  BY <1>1, IntHalfAssumption DEF Ints
<1>3. red_money(d, i, p, n) = set_money(d, p, get_money(d, i, p) - n)
  BY <1>2, WrapFits DEF red_money
<1> QED  BY <1>2, <1>3, SetType

\* Adding writes one account: with the sum, or, when that does not fit, with less than before.
LEMMA AddPays ==
    ASSUME NEW d \in Balances, NEW i \in Ints, NEW p \in Player, NEW n \in Ints, n >= 0
    PROVE  \E v \in Ints :
              /\ v = get_money(d, i, p) + n \/ v <= get_money(d, i, p)
              /\ get_money(d, i, p) >= 0 /\ get_money(d, i, p) + n < IntHalf
                    => v = get_money(d, i, p) + n
              /\ \A q : get_money(add_money(d, i, p, n), i, q) =
                            IF q = p THEN v ELSE get_money(d, i, q)
<1>1. PICK b \in Ints : b = get_money(d, i, p)
  BY GetType
<1>2. Wrap(-n) = -n
  <2>1. -n \in Ints
    BY IntHalfAssumption DEF Ints
  <2> QED  BY <2>1, WrapFits
<1>3. CASE b >= -n
  <2>1. PICK sum \in Int : sum = b + n /\ sum = b - (-n)
    BY DEF Ints
  <2>2. add_money(d, i, p, n) = set_money(d, p, Wrap(sum))
    BY <1>1, <1>2, <1>3, <2>1 DEF add_money, red_money, CanReduce
  <2>3. Wrap(sum) \in Ints
    BY WrapType
  <2>4. \A q : get_money(add_money(d, i, p, n), i, q) =
                   IF q = p THEN Wrap(sum) ELSE get_money(d, i, q)
    BY <2>2, <2>3, SetType
  <2>5. CASE sum \in Ints
    <3>1. Wrap(sum) = b + n
      BY <2>1, <2>5, WrapFits
    <3> QED  BY <1>1, <2>3, <2>4, <3>1
  <2>6. CASE sum \notin Ints
    <3>1. sum \in IntHalf .. 3 * IntHalf - 1
      BY <1>3, <2>1, <2>6, IntHalfAssumption DEF Ints
    <3>2. Wrap(sum) = sum - 2 * IntHalf
      BY <3>1, WrapOver
    <3>3. Wrap(sum) <= b /\ ~(b + n < IntHalf)
      BY <2>1, <3>1, <3>2, IntHalfAssumption DEF Ints
    <3> QED  BY <1>1, <2>3, <2>4, <3>3
  <2> QED  BY <2>5, <2>6
<1>4. CASE ~(b >= -n)
  <2>1. add_money(d, i, p, n) = d
    BY <1>1, <1>2, <1>4 DEF add_money, red_money, CanReduce
  <2>2. b <= b /\ ~(b >= 0)
    BY <1>4 DEF Ints
  <2> QED  BY <1>1, <2>1, <2>2
<1> QED  BY <1>3, <1>4
=============================================================================
