------------------------------ MODULE Accounts ------------------------------
(***************************************************************************)
(* The account functions of money.mod (mod/money/main.cpp:48-68), which    *)
(* every mod that deals in money calls: balances are 32-bit integers in a  *)
(* database keyed by name, and a name that was never written has the       *)
(* configured initial money.                                               *)
(***************************************************************************)
EXTENDS Integers

CONSTANTS
    Player,
    IntHalf     \* 2^31: an int lies in -IntHalf .. IntHalf - 1

ASSUME IntHalfAssumption == IntHalf \in Nat \ {0}

Ints == -IntHalf .. IntHalf - 1

\* what the machine keeps of an integer
Wrap(n) == ((n + IntHalf) % (2 * IntHalf)) - IntHalf

Balances == UNION {[S -> Ints] : S \in SUBSET Player}

get_money(db, init, p) == IF p \in DOMAIN db THEN db[p] ELSE init

set_money(db, p, am) ==
    [q \in DOMAIN db \cup {p} |-> IF q = p THEN am ELSE db[q]]

\* whether red_money deducts, and the database it leaves
CanReduce(db, init, p, am) == get_money(db, init, p) >= am

\* fault: arithmetic wider than the balance that is stored
red_money_wide(db, init, p, am) ==
    IF CanReduce(db, init, p, am)
    THEN set_money(db, p, get_money(db, init, p) - am)
    ELSE db

red_money(db, init, p, am) ==
    IF CanReduce(db, init, p, am)
    THEN set_money(db, p, Wrap(get_money(db, init, p) - am))
    ELSE db

\* a deduction of the opposite amount, whose refusal nobody looks at
add_money(db, init, p, am) == red_money(db, init, p, Wrap(-am))
=============================================================================
