------------------------------- MODULE Money --------------------------------
(***************************************************************************)
(* money.mod: the commands on accounts (mod/money/main.cpp:69-186), and    *)
(* killbonus.mod, which pays for kills (mod/killbonus/main.cpp:54-70).  A  *)
(* payment writes two accounts one after the other, and the process may    *)
(* die between the two writes.                                             *)
(***************************************************************************)
EXTENDS Accounts, FiniteSetsExt

CONSTANTS
    Inits,      \* values init_money takes in the configuration file
    Typed,      \* amounts typed in commands
    Bonuses,    \* entries of killbonus.json: the least and the most a kill pays
    MaxPay,     \* the largest payment, 50000 in the code
    MaxCrashes  \* bound: deaths of the process

ASSUME MoneyAssumption ==
    /\ Inits \subseteq Ints /\ Typed \subseteq Ints
    /\ Bonuses \subseteq [min : Ints, max : Ints]
    /\ MaxPay \in Nat /\ MaxCrashes \in Nat

VARIABLES
    db,         \* the money database
    init,       \* INIT_MONEY
    pay,        \* the payment whose payer is debited and receiver not yet credited
    crashes

moneyVars == <<db, init, pay, crashes>>

NoPay == [to |-> {}, amount |-> 0]

Pays == [to : {{p} : p \in Player}, amount : 1 .. MaxPay] \cup {NoPay}

Balance(p) == get_money(db, init, p)

Init ==
    /\ db = <<>> /\ init \in Inits /\ pay = NoPay /\ crashes = 0

-----------------------------------------------------------------------------
(***************************************************************************)
(* What operators do or allow: /money set, add and rd, /reload_money, and  *)
(* the bonus for a kill, drawn by a remainder of ints (by zero it kills    *)
(* the process: Crash).                                                    *)
(***************************************************************************)
Set(p, n) == pay = NoPay /\ db' = set_money(db, p, n) /\ UNCHANGED <<init, pay, crashes>>

Add(p, n) == pay = NoPay /\ db' = add_money(db, init, p, n) /\ UNCHANGED <<init, pay, crashes>>

Reduce(p, n) == pay = NoPay /\ db' = red_money(db, init, p, n) /\ UNCHANGED <<init, pay, crashes>>

Reload(n) == pay = NoPay /\ init' = n /\ UNCHANGED <<db, pay, crashes>>

Span(b) == Wrap(b.max + 1 - b.min)

Draws(b) == {Wrap(r + b.min) : r \in 0 .. (IF Span(b) < 0 THEN -Span(b) ELSE Span(b)) - 1}

handle_die(p, b) ==
    /\ pay = NoPay /\ Span(b) # 0
    /\ \E addm \in Draws(b) : db' = add_money(db, init, p, addm)
    /\ UNCHANGED <<init, pay, crashes>>

Operator ==
    \/ \E p \in Player, n \in Typed : Set(p, n) \/ Add(p, n) \/ Reduce(p, n)
    \/ \E p \in Player, b \in Bonuses : handle_die(p, b)
    \/ \E n \in Inits : Reload(n)

\* faults: no test for a positive amount; the payer's refusal is not looked at
PayAnyAmount(from, to, n) ==
    /\ pay = NoPay
    /\ n <= MaxPay
    /\ CanReduce(db, init, from, n)
    /\ db' = red_money(db, init, from, n)
    /\ pay' = [to |-> {to}, amount |-> n]
    /\ UNCHANGED <<init, crashes>>

PayUnchecked(from, to, n) ==
    /\ pay = NoPay
    /\ 0 < n /\ n <= MaxPay
    /\ db' = red_money(db, init, from, n)
    /\ pay' = [to |-> {to}, amount |-> n]
    /\ UNCHANGED <<init, crashes>>

(***************************************************************************)
(* /money pay of a player, also what the form of /money paygui runs.       *)
(***************************************************************************)
Pay(from, to, n) ==
    /\ pay = NoPay
    /\ 0 < n /\ n <= MaxPay
    /\ CanReduce(db, init, from, n)
    /\ db' = red_money(db, init, from, n)
    /\ pay' = [to |-> {to}, amount |-> n]
    /\ UNCHANGED <<init, crashes>>

Credit(to) ==
    /\ to \in pay.to
    /\ db' = add_money(db, init, to, pay.amount)
    /\ pay' = NoPay
    /\ UNCHANGED <<init, crashes>>

Crash ==
    /\ crashes < MaxCrashes
    /\ crashes' = crashes + 1
    /\ pay' = NoPay
    /\ UNCHANGED <<db, init>>

Next ==
    \/ Operator
    \/ \E from, to \in Player, n \in Typed : Pay(from, to, n)
    \/ \E to \in Player : Credit(to)
    \/ Crash

Spec == Init /\ [][Next]_moneyVars

-----------------------------------------------------------------------------
(***************************************************************************)
(* Every balance is an int, whatever amounts were typed.                   *)
(***************************************************************************)
TypeOK ==
    /\ db \in Balances
    /\ init \in Ints
    /\ pay \in Pays
    /\ crashes \in 0 .. MaxCrashes

(***************************************************************************)
(* Players cannot make money: unless an operator acts, all balances and    *)
(* the payment under way together never grow, not even across a crash.     *)
(***************************************************************************)
Worth == SumFunction([p \in Player |-> Balance(p)]) + pay.amount

NoMoneyFromPaying == [][Worth' <= Worth \/ Operator]_moneyVars

(***************************************************************************)
(* The same account by account: unless an operator acts, a balance grows   *)
(* only by the amount a payment has already taken from its payer.          *)
(***************************************************************************)
CreditsAreBacked ==
    [][\/ /\ \A p \in Player :
                Balance(p)' > Balance(p) =>
                    p \in pay.to /\ Balance(p)' = Balance(p) + pay.amount /\ pay' = NoPay
          /\ pay' # pay /\ pay' # NoPay =>
                \E p \in Player : Balance(p)' = Balance(p) - pay'.amount
       \/ Operator]_moneyVars
=============================================================================
