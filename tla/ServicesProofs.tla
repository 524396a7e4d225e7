--------------------------- MODULE ServicesProofs ---------------------------
(***************************************************************************)
(* Proofs about the components that share no state, each by itself, for    *)
(* any value of its constants: money.mod, the order in which mods are      *)
(* loaded, and the parts MCServices puts beside them.                      *)
(***************************************************************************)
EXTENDS MCServices, AccountLemmas, ListLemmas

-----------------------------------------------------------------------------
(***************************************************************************)
(* The invariant: types, and the amount under way is one an int can hold.  *)
(***************************************************************************)
MoneyInv == TypeOK /\ pay.amount \in Ints

\* The empty database is well typed.
LEMMA MoneyInit == Init => MoneyInv
<1> SUFFICES ASSUME Init PROVE MoneyInv
  OBVIOUS
<1>1. db \in Balances
  <2>1. db \in [{} -> Ints]
    BY DEF Init
  <2> QED  BY <2>1 DEF Balances
<1> QED
  BY <1>1, MoneyAssumption, IntHalfAssumption DEF Init, MoneyInv, TypeOK, Pays, NoPay, Ints

\* No payment is a payment of nothing to nobody.
LEMMA NoPayType == NoPay \in Pays /\ NoPay.amount = 0 /\ NoPay.to = {} /\ 0 \in Ints
  BY IntHalfAssumption DEF Pays, NoPay, Ints

\* Every command keeps the types.
LEMMA MoneyNext == MoneyInv /\ [Next]_moneyVars => MoneyInv'
<1> SUFFICES ASSUME MoneyInv, [Next]_moneyVars PROVE MoneyInv'
  OBVIOUS
<1>1. db \in Balances /\ init \in Ints /\ pay \in Pays /\ crashes \in 0 .. MaxCrashes /\ pay.amount \in Ints
  BY DEF MoneyInv, TypeOK
<1>2. ASSUME NEW p \in Player, NEW n \in Typed, Set(p, n) \/ Add(p, n) \/ Reduce(p, n)
      PROVE  MoneyInv'
  <2>1. n \in Ints
    BY MoneyAssumption
  <2>2. db' \in Balances
    BY <1>1, <1>2, <2>1, SetType, RedType DEF Set, Add, Reduce
  <2> QED  BY <1>1, <1>2, <2>2 DEF Set, Add, Reduce, MoneyInv, TypeOK
<1>3. ASSUME NEW n \in Inits, Reload(n) PROVE MoneyInv'
  BY <1>1, <1>3, MoneyAssumption DEF Reload, MoneyInv, TypeOK
<1>4. ASSUME NEW from \in Player, NEW to \in Player, NEW n \in Typed, Pay(from, to, n)
      PROVE  MoneyInv'
  <2>1. n \in Ints /\ n \in 1 .. MaxPay
    BY <1>4, MoneyAssumption DEF Pay, Ints
  <2>2. db' \in Balances
    BY <1>1, <1>4, <2>1, RedType DEF Pay
  <2>3. pay' = [to |-> {to}, amount |-> n] /\ UNCHANGED <<init, crashes>>
    BY <1>4 DEF Pay
  <2>4. pay' \in Pays /\ pay'.amount = n
    BY <2>1, <2>3 DEF Pays
  <2> QED  BY <1>1, <2>1, <2>2, <2>3, <2>4 DEF MoneyInv, TypeOK
<1>5. ASSUME NEW to \in Player, Credit(to) PROVE MoneyInv'
  <2>1. db' \in Balances
    BY <1>1, <1>5, RedType DEF Credit
  <2> QED  BY <1>1, <1>5, <2>1, NoPayType DEF Credit, MoneyInv, TypeOK
<1>6. CASE Crash
  <2>1. crashes' \in 0 .. MaxCrashes
    BY <1>1, <1>6, MoneyAssumption DEF Crash
  <2> QED  BY <1>1, <1>6, <2>1, NoPayType DEF Crash, MoneyInv, TypeOK
<1>7. CASE UNCHANGED moneyVars
  BY <1>1, <1>7 DEF moneyVars, MoneyInv, TypeOK
<1>8. ASSUME NEW p \in Player, NEW b \in Bonuses, handle_die(p, b) PROVE MoneyInv'
  <2>1. b.min \in Int
    BY MoneyAssumption DEF Ints
  <2>2. PICK addm \in Draws(b) : db' = add_money(db, init, p, addm)
    BY <1>8 DEF handle_die
  <2>3. addm \in Ints
    BY <2>1, WrapType DEF Draws
  <2>4. db' \in Balances
    BY <1>1, <2>2, <2>3, RedType
  <2> QED  BY <1>1, <1>8, <2>4 DEF handle_die, MoneyInv, TypeOK
<1> QED  BY <1>2, <1>3, <1>4, <1>5, <1>6, <1>7, <1>8 DEF Next, Operator

\* The types hold of every behaviour.
LEMMA MoneyInvariant == Spec => []MoneyInv
<1> QED  BY MoneyInit, MoneyNext, PTL DEF Spec

(***************************************************************************)
(* Whatever is typed, every stored balance is an int                       *)
(* (main.cpp:48-68).                                                       *)
(***************************************************************************)
THEOREM MoneyTypes == Spec => []TypeOK
<1>1. MoneyInv => TypeOK
  BY DEF MoneyInv
<1> QED  BY <1>1, MoneyInvariant, PTL

(***************************************************************************)
(* What a payment does to the balances.                                    *)
(***************************************************************************)
Backed ==
    \/ /\ \A p \in Player :
             Balance(p)' > Balance(p) =>
                 p \in pay.to /\ Balance(p)' = Balance(p) + pay.amount /\ pay' = NoPay
       /\ pay' # pay /\ pay' # NoPay =>
             \E p \in Player : Balance(p)' = Balance(p) - pay'.amount
    \/ Operator

\* A payment takes its amount from the payer.
LEMMA PayDebits ==
    ASSUME MoneyInv, NEW from \in Player, NEW to \in Player, NEW n \in Typed, Pay(from, to, n)
    PROVE  /\ n \in Ints /\ n > 0
           /\ pay = NoPay /\ pay' = [to |-> {to}, amount |-> n]
           /\ \A p : Balance(p)' = IF p = from THEN Balance(from) - n ELSE Balance(p)
<1>1. db \in Balances /\ init \in Ints
  BY DEF MoneyInv, TypeOK
<1>2. /\ n \in Ints /\ n > 0 /\ n >= 0 /\ init' = init /\ CanReduce(db, init, from, n)
      /\ db' = red_money(db, init, from, n)
      /\ pay = NoPay /\ pay' = [to |-> {to}, amount |-> n]
  BY MoneyAssumption DEF Pay, Ints
<1>3. \A p : Balance(p)' = IF p = from THEN Balance(from) - n ELSE Balance(p)
  BY <1>1, <1>2, RedTakes DEF Balance
<1> QED  BY <1>2, <1>3

\* Its receiver is credited with it, or loses by an overflow.
LEMMA CreditPays ==
    ASSUME MoneyInv, NEW to \in Player, Credit(to)
    PROVE  /\ to \in pay.to /\ pay' = NoPay
           /\ \E v \in Ints :
                 /\ v = Balance(to) + pay.amount \/ v <= Balance(to)
                 /\ \A p : Balance(p)' = IF p = to THEN v ELSE Balance(p)
<1>1. db \in Balances /\ init \in Ints /\ pay \in Pays /\ pay.amount \in Ints
  BY DEF MoneyInv, TypeOK
<1>2. PICK am : am = pay.amount
  OBVIOUS
<1>3. to \in pay.to /\ init' = init /\ pay' = NoPay /\ db' = add_money(db, init, to, am)
  BY <1>2 DEF Credit
<1>4. am \in Ints /\ am >= 0
  BY <1>1, <1>2, NoPayType DEF Pays
<1>5. PICK v \in Ints :
          /\ v = get_money(db, init, to) + am \/ v <= get_money(db, init, to)
          /\ \A q : get_money(add_money(db, init, to, am), init, q) =
                        IF q = to THEN v ELSE get_money(db, init, q)
  BY <1>1, <1>4, AddPays
<1>6. \A q : Balance(q)' = IF q = to THEN v ELSE Balance(q)
  BY <1>3, <1>5 DEF Balance
<1>7. v = Balance(to) + pay.amount \/ v <= Balance(to)
  BY <1>2, <1>5 DEF Balance
<1> QED  BY <1>3, <1>6, <1>7

\* Step by step: what is credited was debited before.
LEMMA PaymentsBacked == MoneyInv /\ [Next]_moneyVars => Backed
<1> SUFFICES ASSUME MoneyInv, [Next]_moneyVars PROVE Backed
  OBVIOUS
<1>1. db \in Balances /\ init \in Ints /\ pay \in Pays /\ pay.amount \in Ints
  BY DEF MoneyInv, TypeOK
<1>2. ASSUME NEW p PROVE Balance(p) \in Ints /\ Balance(p) \in Int
  BY <1>1, GetType DEF Balance, Ints
<1>3. ASSUME NEW from \in Player, NEW to \in Player, NEW n \in Typed, Pay(from, to, n)
      PROVE  Backed
  <2>1. /\ n \in Ints /\ n > 0 /\ pay' = [to |-> {to}, amount |-> n]
        /\ \A p : Balance(p)' = IF p = from THEN Balance(from) - n ELSE Balance(p)
    BY <1>3, PayDebits
  <2>2. pay'.amount = n
    BY <2>1
  <2>3. \A p \in Player : ~(Balance(p)' > Balance(p))
    BY <1>2, <2>1 DEF Ints
  <2> QED  BY <2>1, <2>2, <2>3 DEF Backed
<1>4. ASSUME NEW to \in Player, Credit(to) PROVE Backed
  <2>1. to \in pay.to /\ pay' = NoPay
    BY <1>4, CreditPays
  <2>2. PICK v \in Ints :
            /\ v = Balance(to) + pay.amount \/ v <= Balance(to)
            /\ \A p : Balance(p)' = IF p = to THEN v ELSE Balance(p)
    BY <1>4, CreditPays
  <2>3. ASSUME NEW p \in Player, Balance(p)' > Balance(p)
        PROVE  p = to /\ Balance(p)' = Balance(p) + pay.amount
    <3>1. p = to
      BY <2>2, <2>3, <1>2
    <3>2. Balance(to)' = v
      BY <2>2
    <3> QED  BY <3>1, <3>2, <2>2, <2>3, <1>2 DEF Ints
  <2> QED  BY <2>1, <2>3 DEF Backed
<1>5. ASSUME UNCHANGED <<db, init>>, pay' = pay \/ pay' = NoPay PROVE Backed
  <2>1. \A p : Balance(p)' = Balance(p)
    BY <1>5 DEF Balance
  <2> QED  BY <2>1, <1>2, <1>5 DEF Backed
<1>6. CASE Crash
  BY <1>5, <1>6 DEF Crash
<1>7. CASE UNCHANGED moneyVars
  BY <1>5, <1>7 DEF moneyVars
<1>8. CASE Operator
  BY <1>8 DEF Backed
<1> QED  BY <1>3, <1>4, <1>6, <1>7, <1>8 DEF Next

(***************************************************************************)
(* /money pay (main.cpp:139-162): no balance grows but by what a payer has *)
(* been debited, whatever overflows and wherever the process dies.         *)
(***************************************************************************)
THEOREM PaymentsAreBacked == Spec => CreditsAreBacked
<1>1. MoneyInv /\ [Next]_moneyVars => [Backed]_moneyVars
  BY PaymentsBacked
<1>2. Spec => [][Backed]_moneyVars
  BY <1>1, MoneyInvariant, PTL DEF Spec
<1> QED  BY <1>2 DEF CreditsAreBacked, Backed

\* All balances, and all of them together.
Purses == [p \in Player |-> Balance(p)]

NotRicher == Worth' <= Worth \/ Operator

\* Balances are numbers, and so is what they sum to.
LEMMA PursesType ==
    ASSUME IsFiniteSet(Player), MoneyInv
    PROVE  /\ Purses \in [Player -> Int] /\ SumFunction(Purses) \in Int
           /\ Worth = SumFunction(Purses) + pay.amount
           /\ pay.amount \in Int /\ pay.amount >= 0
<1>1. db \in Balances /\ init \in Ints /\ pay \in Pays /\ pay.amount \in Ints
  BY DEF MoneyInv, TypeOK
<1>2. \A p \in Player : Balance(p) \in Int
  BY <1>1, GetType DEF Balance, Ints
<1>3. Purses \in [Player -> Int]
  BY <1>2 DEF Purses
<1>4. pay.amount \in Int /\ pay.amount >= 0
  BY <1>1, NoPayType DEF Pays, Ints
<1> QED  BY <1>3, <1>4, SumType DEF Worth, Purses

\* When one balance is written, the sum follows it.
LEMMA PurseWritten ==
    ASSUME IsFiniteSet(Player), MoneyInv, MoneyInv', NEW p \in Player, NEW v,
           \A q : Balance(q)' = IF q = p THEN v ELSE Balance(q)
    PROVE  SumFunction(Purses)' = SumFunction(Purses) + v - Balance(p)
<1>1. PICK f, g : f = Purses /\ g = Purses'
  OBVIOUS
<1>2. f \in [Player -> Int]
  BY <1>1, PursesType
<1>3. \A q \in Player : g[q] = Balance(q)' /\ f[q] = Balance(q)
  BY <1>1 DEF Purses
<1>4. g \in [Player -> Int]
  <2>1. \A q : Balance(q)' \in Int
    <3>1. db' \in Balances /\ init' \in Ints
      BY DEF MoneyInv, TypeOK
    <3> QED  BY <3>1, GetType DEF Balance, Ints
  <2> QED  BY <1>1, <2>1 DEF Purses
<1>5. SumFunction(g) = SumFunction(f) + g[p] - f[p]
  <2>1. \A q \in Player \ {p} : g[q] = f[q]
    BY <1>3
  <2> QED  BY <1>2, <1>4, <2>1, SumUpdate
<1>6. SumFunction(Purses)' = SumFunction(g)
  BY <1>1
<1> QED  BY <1>1, <1>3, <1>5, <1>6

\* Step by step: the payer loses what is then under way, and the receiver gets no more.
LEMMA NobodyRicher ==
    ASSUME IsFiniteSet(Player), MoneyInv, [Next]_moneyVars
    PROVE  NotRicher
<1>1. MoneyInv'
  BY MoneyNext
<1>2. PICK t, a \in Int : t = SumFunction(Purses) /\ a = pay.amount /\ a >= 0 /\ Worth = t + a
  BY PursesType
<1>3. Worth' = SumFunction(Purses)' + pay'.amount
  BY DEF Worth, Purses
<1>4. \A p : Balance(p) \in Int
  BY GetType DEF MoneyInv, TypeOK, Balance, Ints
<1>5. ASSUME NEW from \in Player, NEW to \in Player, NEW n \in Typed, Pay(from, to, n)
      PROVE  NotRicher
  <2>1. /\ n \in Int /\ pay = NoPay /\ pay' = [to |-> {to}, amount |-> n]
        /\ \A p : Balance(p)' = IF p = from THEN Balance(from) - n ELSE Balance(p)
    BY <1>5, PayDebits DEF Ints
  <2>2. SumFunction(Purses)' = t + (Balance(from) - n) - Balance(from)
    BY <1>1, <1>2, <2>1, PurseWritten
  <2>3. a = 0 /\ pay'.amount = n
    BY <1>2, <2>1 DEF NoPay
  <2> QED  BY <1>2, <1>3, <1>4, <2>1, <2>2, <2>3 DEF NotRicher
<1>6. ASSUME NEW to \in Player, Credit(to) PROVE NotRicher
  <2>1. pay' = NoPay
    BY <1>6, CreditPays
  <2>2. PICK v \in Ints :
            /\ v = Balance(to) + pay.amount \/ v <= Balance(to)
            /\ \A p : Balance(p)' = IF p = to THEN v ELSE Balance(p)
    BY <1>6, CreditPays
  <2>3. SumFunction(Purses)' = t + v - Balance(to)
    BY <1>1, <1>2, <2>2, PurseWritten
  <2>4. pay'.amount = 0 /\ v \in Int /\ (v = Balance(to) + a \/ v <= Balance(to))
    BY <1>2, <2>1, <2>2 DEF NoPay, Ints
  <2> QED  BY <1>2, <1>3, <1>4, <2>3, <2>4 DEF NotRicher
<1>7. ASSUME UNCHANGED <<db, init>>, pay' = pay \/ pay' = NoPay PROVE NotRicher
  <2>1. SumFunction(Purses)' = t
    BY <1>2, <1>7 DEF Purses, Balance
  <2>2. pay'.amount = a \/ pay'.amount = 0
    BY <1>2, <1>7 DEF NoPay
  <2> QED  BY <1>2, <1>3, <2>1, <2>2 DEF NotRicher
<1>8. CASE Crash
  BY <1>7, <1>8 DEF Crash
<1>9. CASE UNCHANGED moneyVars
  BY <1>7, <1>9 DEF moneyVars
<1>10. CASE Operator
  BY <1>10 DEF NotRicher
<1> QED  BY <1>5, <1>6, <1>8, <1>9, <1>10 DEF Next

(***************************************************************************)
(* Players cannot make money (main.cpp:139-162): however many there are,   *)
(* whatever they pay each other and wherever the process dies, the sum of  *)
(* all balances and of the payment under way never grows.                  *)
(***************************************************************************)
THEOREM NobodyMakesMoney == IsFiniteSet(Player) /\ Spec => NoMoneyFromPaying
<1>1. IsFiniteSet(Player) /\ MoneyInv /\ [Next]_moneyVars => [NotRicher]_moneyVars
  BY NobodyRicher
<1>2. IsFiniteSet(Player) /\ Spec => [][NotRicher]_moneyVars
  <2> SUFFICES ASSUME IsFiniteSet(Player) PROVE Spec => [][NotRicher]_moneyVars
    OBVIOUS
  <2>1. MoneyInv /\ [Next]_moneyVars => [NotRicher]_moneyVars
    BY <1>1
  <2> QED  BY <2>1, MoneyInvariant, PTL DEF Spec
<1> QED  BY <1>2 DEF NoMoneyFromPaying, NotRicher

-----------------------------------------------------------------------------
\* The entries of a mod's list that wait for a mod not yet placed.
Left(m) == {i \in DOMAIN deps[m] : deps[m][i].name \notin Range(order)}

(***************************************************************************)
(* What has been placed is placed once and after what it depends on.       *)
(***************************************************************************)
Placed ==
    /\ order \in Seq(Mod)
    /\ IsInjective(order)
    /\ \A k \in 1 .. Len(order) : \A i \in DOMAIN deps[order[k]] :
           \E j \in 1 .. k - 1 : order[j] = deps[order[k]][i].name

(***************************************************************************)
(* In-degrees count the entries left, and the queue holds the mods that    *)
(* are not placed and have none left.                                      *)
(***************************************************************************)
Counting ==
    /\ \A m \in Mod : topo_indeg[m] = Cardinality(Left(m))
    /\ que = {m \in Mod \ Range(order) : topo_indeg[m] = 0}
    /\ Met

OrderInv ==
    /\ deps \in [Mod -> DepLists]
    /\ Placed
    /\ topo_indeg \in [Mod -> Nat] /\ que \subseteq Mod
    /\ phase \in {"check", "sort", "load", "running", "failed", "loop"}
    /\ loaded \in 0 .. Len(order)
    /\ phase = "check" => order = <<>>
    /\ phase \in {"sort", "loop"} => Counting
    /\ phase = "loop" => que = {} /\ Len(order) # Cardinality(Mod)
    /\ phase \in {"load", "running"} => Len(order) = Cardinality(Mod)
    /\ phase = "running" => loaded = Len(order)

-----------------------------------------------------------------------------
\* A mod's entries are those from the first to the last of its list.
LEMMA ListType ==
    ASSUME deps \in [Mod -> DepLists], NEW m \in Mod
    PROVE  /\ Len(deps[m]) \in Nat /\ DOMAIN deps[m] = 1 .. Len(deps[m])
           /\ IsFiniteSet(DOMAIN deps[m])
           /\ Cardinality(DOMAIN deps[m]) = Len(deps[m])
<1>1. deps[m] \in Seq([name : STRING, version : Nat])
  BY DepListsAreLists
<1>2. Len(deps[m]) \in Nat /\ DOMAIN deps[m] = 1 .. Len(deps[m])
  BY <1>1
<1>3. IsFiniteSet(1 .. Len(deps[m])) /\ Cardinality(1 .. Len(deps[m])) = Len(deps[m])
  BY <1>2, FS_Interval, SMTT(30)
<1> QED  BY <1>2, <1>3

\* The entries left are finitely many, and none are left when their number is 0.
LEMMA LeftFinite ==
    ASSUME deps \in [Mod -> DepLists], NEW m \in Mod
    PROVE  /\ IsFiniteSet(Left(m)) /\ Cardinality(Left(m)) \in Nat
           /\ Cardinality(Left(m)) = 0 <=> Left(m) = {}
<1>1. Left(m) \in SUBSET (DOMAIN deps[m])
  BY DEF Left
<1>2. IsFiniteSet(Left(m))
  BY <1>1, ListType, FS_Subset
<1> QED  BY <1>2, FS_CardinalityType, FS_EmptySet

\* In the beginning nothing is placed.
LEMMA OrderInit == LoadInit => OrderInv
<1> SUFFICES ASSUME LoadInit PROVE OrderInv
  OBVIOUS
<1>1. order = <<>> /\ order \in Seq(Mod) /\ Len(order) = 0 /\ DOMAIN order = {}
  BY DEF LoadInit
<1>2. Placed
  BY <1>1 DEF Placed, IsInjective
<1> QED  BY <1>1, <1>2 DEF LoadInit, OrderInv

\* Before the sort every entry is left.
LEMMA EdgesCount ==
    ASSUME OrderInv, BuildEdges
    PROVE  OrderInv'
<1>1. /\ phase = "check" /\ Met /\ phase' = "sort" /\ UNCHANGED <<deps, order, loaded>>
      /\ topo_indeg' = [m \in Mod |-> Len(deps[m])]
      /\ que' = {m \in Mod : Len(deps[m]) = 0}
  BY DEF BuildEdges
<1>2. deps \in [Mod -> DepLists] /\ order = <<>> /\ Placed
  BY <1>1 DEF OrderInv
<1>3. Range(order) = {} /\ Range(order') = {}
  BY <1>1, <1>2 DEF Range
<1>4. ASSUME NEW m \in Mod
      PROVE  /\ topo_indeg'[m] = Len(deps[m]) /\ topo_indeg'[m] \in Nat
             /\ topo_indeg'[m] = Cardinality(Left(m)')
  <2>1. Left(m)' = DOMAIN deps[m]
    BY <1>1, <1>3 DEF Left
  <2> QED  BY <1>1, <1>2, <2>1, ListType
<1>5. que' = {m \in Mod \ Range(order') : topo_indeg'[m] = 0}
  BY <1>1, <1>3, <1>4
<1>6. Met'
  BY <1>1 DEF Met
<1>7. Placed'
  BY <1>1, <1>2 DEF Placed
<1>8. Counting'
  BY <1>4, <1>5, <1>6 DEF Counting
<1>9. topo_indeg' \in [Mod -> Nat] /\ que' \subseteq Mod
  BY <1>1, <1>4
<1> QED  BY <1>1, <1>7, <1>8, <1>9 DEF OrderInv

\* Placing a mod meets the entries that name it.
LEMMA PopCounts ==
    ASSUME OrderInv, NEW m \in Mod, Pop(m)
    PROVE  OrderInv'
<1>1. /\ phase = "sort" /\ m \in que /\ order' = Append(order, m)
      /\ topo_indeg' = [n \in Mod |-> topo_indeg[n] - Cardinality(Entries(n, m))]
      /\ que' = (que \ {m}) \cup {n \in Mod : Entries(n, m) # {} /\ topo_indeg'[n] = 0}
      /\ UNCHANGED <<deps, phase, loaded>>
  BY DEF Pop
<1>2. /\ deps \in [Mod -> DepLists] /\ Placed /\ Counting /\ topo_indeg \in [Mod -> Nat]
      /\ loaded \in 0 .. Len(order)
  BY <1>1 DEF OrderInv
<1>3. order \in Seq(Mod) /\ Len(order) \in Nat /\ DOMAIN order = 1 .. Len(order)
  BY <1>2 DEF Placed
<1>4. /\ order' \in Seq(Mod) /\ Len(order') = Len(order) + 1
      /\ DOMAIN order' = 1 .. Len(order) + 1
      /\ order'[Len(order) + 1] = m
      /\ \A k \in 1 .. Len(order) : order'[k] = order[k]
  BY <1>1, <1>3
<1>5. Range(order') = Range(order) \cup {m}
  BY <1>3, <1>4 DEF Range
<1>6. m \notin Range(order) /\ topo_indeg[m] = 0
  BY <1>1, <1>2 DEF Counting
<1>7. Left(m) = {}
  BY <1>2, <1>6, LeftFinite DEF Counting
<1>8. ASSUME NEW n \in Mod
      PROVE  /\ topo_indeg'[n] = Cardinality(Left(n)') /\ topo_indeg'[n] \in Nat
             /\ Entries(n, m) = {} => topo_indeg'[n] = topo_indeg[n]
             /\ n \in Range(order') => Entries(n, m) = {}
  <2>1. Left(n)' = Left(n) \ Entries(n, m) /\ Entries(n, m) \subseteq Left(n)
    BY <1>1, <1>5, <1>6 DEF Left, Entries
  <2>2. IsFiniteSet(Left(n)) /\ Cardinality(Left(n)) \in Nat
    BY <1>2, LeftFinite
  <2>3. IsFiniteSet(Entries(n, m)) /\ Cardinality(Entries(n, m)) \in Nat
    BY <2>1, <2>2, FS_Subset, FS_CardinalityType
  <2>4. Left(n) \cap Entries(n, m) = Entries(n, m)
    BY <2>1
  <2>5. Cardinality(Left(n)') = Cardinality(Left(n)) - Cardinality(Entries(n, m))
    BY <2>1, <2>2, <2>4, FS_Difference
  <2>6. topo_indeg'[n] = topo_indeg[n] - Cardinality(Entries(n, m))
    BY <1>1
  <2>7. topo_indeg[n] = Cardinality(Left(n))
    BY <1>2 DEF Counting
  <2>8. ASSUME Entries(n, m) = {} PROVE topo_indeg'[n] = topo_indeg[n]
    BY <2>2, <2>6, <2>7, <2>8, FS_EmptySet
  <2>9. ASSUME n \in Range(order') PROVE Entries(n, m) = {}
    <3>1. CASE n = m
      BY <1>7, <2>1, <3>1
    <3>2. CASE n # m
      <4>1. PICK k \in 1 .. Len(order) : order[k] = n
        BY <1>3, <1>5, <2>9, <3>2 DEF Range
      <4>2. ASSUME NEW i \in Entries(n, m) PROVE FALSE
        <5>1. i \in DOMAIN deps[order[k]] /\ deps[order[k]][i].name = m
          BY <4>1, <4>2 DEF Entries
        <5>2. PICK j \in 1 .. k - 1 : order[j] = m
          BY <1>2, <5>1 DEF Placed
        <5>3. j \in DOMAIN order
          BY <1>3, <4>1, <5>2
        <5> QED  BY <1>6, <5>2, <5>3 DEF Range
      <4> QED  BY <4>2
    <3> QED  BY <3>1, <3>2
  <2>10. topo_indeg'[n] = Cardinality(Left(n)')
    BY <2>5, <2>6, <2>7
  <2>11. Cardinality(Left(n)') \in Nat
    <3>1. Left(n)' \in SUBSET Left(n)
      BY <2>1
    <3>2. IsFiniteSet(Left(n)')
      BY <2>2, <3>1, FS_Subset
    <3> QED  BY <3>2, FS_CardinalityType
  <2> QED  BY <2>8, <2>9, <2>10, <2>11
<1>9. que' = {n \in Mod \ Range(order') : topo_indeg'[n] = 0}
  <2>1. que = {n \in Mod \ Range(order) : topo_indeg[n] = 0}
    BY <1>2 DEF Counting
  <2>2. ASSUME NEW n \in que' PROVE n \in Mod \ Range(order') /\ topo_indeg'[n] = 0
    <3>1. CASE n \in Mod /\ Entries(n, m) # {} /\ topo_indeg'[n] = 0
      BY <1>8, <3>1
    <3>2. CASE n \in que \ {m}
      <4>1. n \in Mod \ Range(order) /\ topo_indeg[n] = 0 /\ n # m
        BY <2>1, <3>2
      <4>2. Left(n) = {}
        BY <1>2, <4>1, LeftFinite DEF Counting
      <4>3. Entries(n, m) = {}
        BY <4>2, <1>6 DEF Left, Entries
      <4> QED  BY <1>5, <1>8, <4>1, <4>3
    <3> QED  BY <1>1, <2>2, <3>1, <3>2
  <2>3. ASSUME NEW n \in Mod \ Range(order'), topo_indeg'[n] = 0 PROVE n \in que'
    <3>1. CASE Entries(n, m) # {}
      BY <1>1, <2>3, <3>1
    <3>2. CASE Entries(n, m) = {}
      BY <1>1, <1>5, <1>8, <2>1, <2>3, <3>2
    <3> QED  BY <3>1, <3>2
  <2> QED  BY <2>2, <2>3
<1>10. Counting'
  <2>1. Met'
    BY <1>1, <1>2 DEF Counting, Met
  <2> QED  BY <1>8, <1>9, <2>1 DEF Counting
<1>11. Placed'
  <2>1. IsInjective(order')
    <3>1. ASSUME NEW a \in DOMAIN order', NEW b \in DOMAIN order', order'[a] = order'[b]
          PROVE  a = b
      <4>1. \A k \in 1 .. Len(order) : order'[k] = order[k] /\ order[k] # m
        BY <1>3, <1>4, <1>6 DEF Range
      <4>2. \A c, d \in 1 .. Len(order) : order[c] = order[d] => c = d
        BY <1>2, <1>3 DEF Placed, IsInjective
      <4>3. /\ a \in 1 .. Len(order) \/ a = Len(order) + 1
            /\ b \in 1 .. Len(order) \/ b = Len(order) + 1
        BY <1>3, <1>4, <3>1
      <4> QED  BY <1>4, <3>1, <4>1, <4>2, <4>3
    <3> QED  BY <3>1 DEF IsInjective
  <2>2. ASSUME NEW k \in 1 .. Len(order'), NEW i \in DOMAIN deps[order'[k]]
        PROVE  \E j \in 1 .. k - 1 : order'[j] = deps[order'[k]][i].name
    <3>1. CASE k \in 1 .. Len(order)
      <4>1. order'[k] = order[k]
        BY <1>4, <3>1
      <4>2. PICK j \in 1 .. k - 1 : order[j] = deps[order[k]][i].name
        BY <1>2, <2>2, <3>1, <4>1 DEF Placed
      <4>3. j \in 1 .. Len(order)
        BY <1>3, <3>1, <4>2
      <4> QED  BY <1>4, <4>1, <4>2, <4>3
    <3>2. CASE k = Len(order) + 1
      <4>1. order'[k] = m
        BY <1>4, <3>2
      <4>2. deps[m][i].name \in Range(order)
        BY <1>7, <2>2, <4>1 DEF Left
      <4>3. PICK j \in 1 .. Len(order) : order[j] = deps[m][i].name
        BY <1>3, <4>2 DEF Range
      <4>4. j \in 1 .. k - 1 /\ order'[j] = order[j]
        BY <1>3, <1>4, <3>2, <4>3
      <4> QED  BY <4>1, <4>3, <4>4
    <3> QED  BY <1>3, <1>4, <3>1, <3>2
  <2> QED  BY <1>1, <1>4, <2>1, <2>2 DEF Placed
<1>12. topo_indeg' \in [Mod -> Nat] /\ que' \subseteq Mod
  BY <1>1, <1>8, <1>9
<1>13. loaded' \in 0 .. Len(order')
  BY <1>1, <1>2, <1>3, <1>4
<1> QED  BY <1>1, <1>2, <1>10, <1>11, <1>12, <1>13 DEF OrderInv

\* Every step keeps the invariant.
LEMMA OrderNext == OrderInv /\ [LoadNext]_loadVars => OrderInv'
<1> SUFFICES ASSUME OrderInv, [LoadNext]_loadVars PROVE OrderInv'
  OBVIOUS
<1>1. Len(order) \in Nat
  BY DEF OrderInv, Placed
<1>2. ASSUME UNCHANGED <<deps, topo_indeg, que, order>>
      PROVE  (Placed => Placed') /\ (Counting => Counting')
  BY <1>2 DEF Placed, Counting, Met, Left
<1>3. CASE Refuse
  BY <1>2, <1>3 DEF Refuse, OrderInv
<1>4. CASE BuildEdges
  BY <1>4, EdgesCount
<1>5. CASE Sorted
  BY <1>2, <1>5 DEF Sorted, OrderInv
<1>6. CASE Load
  BY <1>1, <1>2, <1>6 DEF Load, OrderInv
<1>7. CASE LoadFails
  BY <1>2, <1>7 DEF LoadFails, OrderInv
<1>8. CASE AllLoaded
  BY <1>2, <1>8 DEF AllLoaded, OrderInv
<1>9. ASSUME NEW m \in Mod, Pop(m) PROVE OrderInv'
  BY <1>9, PopCounts
<1>10. CASE UNCHANGED loadVars
  BY <1>2, <1>10 DEF loadVars, OrderInv
<1> QED  BY <1>3, <1>4, <1>5, <1>6, <1>7, <1>8, <1>9, <1>10 DEF LoadNext

(***************************************************************************)
(* A mod is loaded after every mod it depends on, and the server runs only *)
(* with all mods loaded, each once (depsolve.cpp:112-162, loader.cpp).     *)
(***************************************************************************)
THEOREM DependenciesFirst == LoadSpec => []NeedsFirst
<1>1. OrderInv => NeedsFirst
  <2> SUFFICES ASSUME OrderInv PROVE NeedsFirst
    OBVIOUS
  <2>1. Placed /\ Len(order) \in Nat /\ loaded \in 0 .. Len(order)
    BY DEF OrderInv, Placed
  <2>2. 1 .. loaded \subseteq 1 .. Len(order)
    BY <2>1
  <2>3. phase = "running" => loaded = Cardinality(Mod) /\ IsInjective(order)
    BY <2>1 DEF OrderInv, Placed
  <2> QED  BY <2>1, <2>2, <2>3 DEF NeedsFirst, Placed
<1> QED  BY <1>1, OrderInit, OrderNext, PTL DEF LoadSpec

(***************************************************************************)
(* When the server gives up for a loop of dependencies, there is one: the  *)
(* mods not placed each depend on another of them (depsolve.cpp:127-130).  *)
(***************************************************************************)
THEOREM LoopsAreThere ==
    ASSUME IsFiniteSet(Mod)
    PROVE  LoadSpec => []LoopsAreReal
<1>1. OrderInv => LoopsAreReal
  <2> SUFFICES ASSUME OrderInv, phase = "loop"
               PROVE  \E S \in SUBSET Mod \ {{}} : \A m \in S : \E n \in S : Entries(m, n) # {}
    BY DEF LoopsAreReal
  <2> DEFINE S == Mod \ Range(order)
  <2>1. /\ Counting /\ Placed /\ que = {} /\ Len(order) # Cardinality(Mod)
        /\ deps \in [Mod -> DepLists]
    BY DEF OrderInv
  <2>2. order \in [1 .. Len(order) -> Mod] /\ Len(order) \in Nat
    BY <2>1 DEF Placed
  <2>3. S # {}
    <3>1. SUFFICES ASSUME S = {} PROVE FALSE
      OBVIOUS
    <3>2. order \in Surjection(1 .. Len(order), Mod)
      BY <2>2, <3>1 DEF Surjection, Range
    <3>3. order \in Injection(1 .. Len(order), Mod)
      BY <2>1, <2>2 DEF Placed, Injection
    <3>4. IsFiniteSet(1 .. Len(order)) /\ Cardinality(1 .. Len(order)) = Len(order)
      <4>1. \A n \in Nat : IsFiniteSet(1 .. n) /\ Cardinality(1 .. n) = n
        BY FS_Interval
      <4> QED  BY <2>2, <4>1
    <3>5. Cardinality(Mod) = Cardinality(1 .. Len(order))
      BY <3>2, <3>3, <3>4, FS_Surjection
    <3> QED  BY <2>1, <3>4, <3>5
  <2>4. ASSUME NEW m \in S PROVE \E n \in S : Entries(m, n) # {}
    <3>1. topo_indeg[m] # 0
      BY <2>1 DEF Counting
    <3>2. PICK i \in Left(m) : TRUE
      BY <2>1, <3>1, LeftFinite DEF Counting
    <3>3. i \in DOMAIN deps[m] /\ deps[m][i].name \notin Range(order)
      BY <3>2 DEF Left
    <3>4. deps[m][i].name \in Mod
      BY <2>1, <3>3 DEF Counting, Met
    <3> QED  BY <3>3, <3>4 DEF Entries
  <2> QED  BY <2>3, <2>4
<1> QED  BY <1>1, OrderInit, OrderNext, PTL DEF LoadSpec

-----------------------------------------------------------------------------
(***************************************************************************)
(* cdk.mod.  The file has the codes in memory and the one under way until  *)
(* it is emptied; a code it still has was run only as often as the process *)
(* died before its use was saved.                                          *)
(***************************************************************************)
Saved == stage \in {"idle", "run", "save"} => ~torn /\ file = cdks \cup using

CodesInv ==
    /\ stage \in {"idle", "run", "save", "write", "down"}
    /\ uses \in [Code -> Nat] /\ undone \in [Code -> Nat]
    /\ cdks \subseteq Code /\ file \subseteq Code /\ using \subseteq Code
    /\ using \cap cdks = {}
    /\ stage \in {"idle", "down"} => using = {}
    /\ stage = "write" => torn
    /\ Saved
    /\ \A c \in Code :
          /\ stage \in {"save", "write"} /\ c \in using => 1 <= uses[c] /\ uses[c] <= 1 + undone[c]
          /\ stage = "run" /\ c \in using => uses[c] <= undone[c]
          /\ stage # "down" /\ c \in cdks => uses[c] <= undone[c]
          /\ stage = "down" /\ ~torn /\ c \in file => uses[c] <= undone[c]
          /\ uses[c] <= 1 + undone[c]
          /\ uses[c] = 0 /\ (stage # "down" \/ ~torn) =>
                IF stage = "down" THEN c \in file ELSE c \in cdks \cup using

\* Counting the code under way.
LEMMA CountUsing ==
    \A c : Codes!Cardinality(using \cap {c}) = IF c \in using THEN 1 ELSE 0
<1> SUFFICES ASSUME NEW c
             PROVE  Codes!Cardinality(using \cap {c}) = IF c \in using THEN 1 ELSE 0
  OBVIOUS
<1>1. Codes!Cardinality(using \cap {c}) = Cardinality(using \cap {c})
  BY DEF Codes!Cardinality, Cardinality
<1>2. CASE c \in using
  <2>1. using \cap {c} = {c}
    BY <1>2
  <2> QED  BY <1>1, <1>2, <2>1, FS_Singleton
<1>3. CASE c \notin using
  <2>1. using \cap {c} = {}
    BY <1>3
  <2> QED  BY <1>1, <1>3, <2>1, FS_EmptySet
<1> QED  BY <1>2, <1>3

\* Every step of a code's use keeps the invariant.
LEMMA CodesStep == CodesInv /\ [Codes!Next]_codes => CodesInv'
<1> SUFFICES ASSUME CodesInv, [Codes!Next]_codes PROVE CodesInv'
  OBVIOUS
<1>1. ASSUME NEW c \in Code, Codes!Use(c) PROVE CodesInv'
  BY <1>1 DEF Codes!Use, CodesInv, Saved
<1>2. CASE Codes!Execute
  <2>1. uses' = [c \in Code |-> IF c \in using THEN uses[c] + 1 ELSE uses[c]]
    <3>1. uses' = [c \in Code |-> uses[c] + Codes!Cardinality(using \cap {c})]
      BY <1>2 DEF Codes!Execute
    <3>2. \A c \in Code : uses[c] + Codes!Cardinality(using \cap {c}) =
                              IF c \in using THEN uses[c] + 1 ELSE uses[c]
      BY CountUsing DEF CodesInv
    <3> QED  BY <3>1, <3>2
  <2> QED  BY <1>2, <2>1 DEF Codes!Execute, CodesInv, Saved
<1>3. CASE Codes!Truncate
  BY <1>3 DEF Codes!Truncate, CodesInv, Saved
<1>4. CASE Codes!Write
  BY <1>4 DEF Codes!Write, CodesInv, Saved
<1>5. CASE Codes!Reload
  BY <1>5 DEF Codes!Reload, CodesInv, Saved
<1>6. CASE Codes!Die
  <2>1. undone' = [c \in Code |-> IF c \in using THEN undone[c] + 1 ELSE undone[c]]
    <3>1. undone' = [c \in Code |-> undone[c] + Codes!Cardinality(using \cap {c})]
      BY <1>6 DEF Codes!Die
    <3>2. \A c \in Code : undone[c] + Codes!Cardinality(using \cap {c}) =
                              IF c \in using THEN undone[c] + 1 ELSE undone[c]
      BY CountUsing DEF CodesInv
    <3> QED  BY <3>1, <3>2
  <2> QED  BY <1>6, <2>1 DEF Codes!Die, CodesInv, Saved
<1>7. CASE Codes!Load
  BY <1>7 DEF Codes!Load, CodesInv, Saved
<1>8. CASE UNCHANGED codes
  BY <1>8 DEF codes, CodesInv, Saved
<1> QED  BY <1>1, <1>2, <1>3, <1>4, <1>5, <1>6, <1>7, <1>8 DEF Codes!Next

LEMMA CodesStart == Codes!Init => CodesInv
  BY DEF Codes!Init, CodesInv, Saved

(***************************************************************************)
(* A code is used once (cdk main.cpp:38-70), and once more only for each   *)
(* death before its use was saved; one not used is not lost, unless the    *)
(* process died while the file was empty.                                  *)
(***************************************************************************)
THEOREM CodesAreUsedOnce == ServicesSpec => []CodesOnce
<1>1. ServicesInit => CodesInv
  BY CodesStart DEF ServicesInit
<1>2. [ServicesNext]_servicesVars => [Codes!Next]_codes
  BY DEF ServicesNext, Rest, servicesVars
<1>3. CodesInv => CodesOnce
  <2> SUFFICES ASSUME CodesInv PROVE CodesOnce
    OBVIOUS
  <2> QED  BY DEF CodesInv, Saved, CodesOnce, Codes!CodesOnce
<1> QED  BY <1>1, <1>2, <1>3, CodesStep, PTL DEF ServicesSpec

-----------------------------------------------------------------------------
(***************************************************************************)
(* cmdhelp.mod.  A number is given once: the form a menu has it for is the *)
(* one it was sent under.                                                  *)
(***************************************************************************)
MenusInv ==
    /\ autoid \in Nat /\ fid \in [Menu -> 0 .. autoid]
    /\ player_mp \in [DOMAIN player_mp -> [menu : Menu, live : BOOLEAN]]
    /\ \A a \in shown : a.id \in 1 .. autoid /\ \A m \in Menu : fid[m] = a.id => a.menu = m
    /\ pressed.live => pressed.shown = pressed.of

LEMMA MenusStart == Menus!Init => MenusInv
  BY DEF Menus!Init, MenusInv, Menus!NoPress

\* Every step of the menus keeps the invariant.
LEMMA MenusStep == MenusInv /\ [Menus!Next]_menus => MenusInv'
<1> SUFFICES ASSUME MenusInv, [Menus!Next]_menus PROVE MenusInv'
  OBVIOUS
<1>1. ASSUME NEW p \in Viewer, NEW m \in Menu, Menus!Send(p, m) PROVE MenusInv'
  <2>1. /\ autoid' = autoid + 1 /\ autoid \in Nat
        /\ fid' = [fid EXCEPT ![m] = autoid + 1]
        /\ shown' = shown \cup {[who |-> p, id |-> autoid + 1, menu |-> m]}
        /\ UNCHANGED pressed
    BY <1>1 DEF Menus!Send, MenusInv
  <2>2. player_mp' \in [DOMAIN player_mp' -> [menu : Menu, live : BOOLEAN]]
    BY <1>1 DEF Menus!Send, Menus!Put, MenusInv
  <2>3. fid' \in [Menu -> 0 .. autoid']
    BY <2>1 DEF MenusInv
  <2>4. \A n \in Menu : fid'[n] = IF n = m THEN autoid + 1 ELSE fid[n]
    BY <2>1 DEF MenusInv
  <2>5. ASSUME NEW a \in shown
        PROVE  a.id \in 1 .. autoid' /\ \A n \in Menu : fid'[n] = a.id => a.menu = n
    <3>1. a.id \in 1 .. autoid /\ \A n \in Menu : fid[n] = a.id => a.menu = n
      BY DEF MenusInv
    <3>2. a.id # autoid + 1 /\ a.id \in 1 .. autoid'
      BY <2>1, <3>1
    <3> QED  BY <2>4, <3>1, <3>2
  <2>6. ASSUME NEW n \in Menu, fid'[n] = autoid + 1 PROVE m = n
    <3>1. fid[n] \in 0 .. autoid
      BY DEF MenusInv
    <3> QED  BY <2>1, <2>4, <2>6, <3>1
  <2>7. \A a \in shown' : a.id \in 1 .. autoid' /\ \A n \in Menu : fid'[n] = a.id => a.menu = n
    BY <2>1, <2>5, <2>6
  <2> QED  BY <2>1, <2>2, <2>3, <2>7 DEF MenusInv
<1>2. ASSUME NEW a \in shown, Menus!Answer(a) PROVE MenusInv'
  <2>1. UNCHANGED <<fid, autoid>> /\ shown' = shown \ {a}
    BY <1>2 DEF Menus!Answer
  <2>2. player_mp' \in [DOMAIN player_mp' -> [menu : Menu, live : BOOLEAN]]
    BY <1>2 DEF Menus!Answer, Menus!Press, Menus!Close, Menus!Without, MenusInv
  <2>3. pressed'.live => pressed'.shown = pressed'.of
    <3>1. CASE UNCHANGED pressed
      BY <3>1 DEF MenusInv
    <3>2. CASE fid[player_mp[a.who].menu] = a.id /\ Menus!Press(a, player_mp[a.who].menu, TRUE)
      <4>1. player_mp[a.who].menu \in Menu
        BY <1>2 DEF Menus!Answer, MenusInv
      <4>2. a.menu = player_mp[a.who].menu
        BY <3>2, <4>1 DEF MenusInv
      <4> QED  BY <3>2, <4>2 DEF Menus!Press
    <3> QED  BY <1>2, <3>1, <3>2 DEF Menus!Answer, Menus!Close
  <2> QED  BY <2>1, <2>2, <2>3 DEF MenusInv
<1>3. ASSUME NEW a \in shown, Menus!AnswerDeleted(a) PROVE MenusInv'
  <2>1. UNCHANGED <<fid, autoid>> /\ shown' = shown \ {a}
    BY <1>3 DEF Menus!AnswerDeleted
  <2>2. player_mp' \in [DOMAIN player_mp' -> [menu : Menu, live : BOOLEAN]]
    <3>1. player_mp' = player_mp \/ player_mp' = Menus!Without(player_mp, {a.who})
      BY <1>3 DEF Menus!AnswerDeleted, Menus!Press, Menus!Close
    <3> QED  BY <3>1 DEF Menus!Without, MenusInv
  <2>3. pressed'.live => pressed'.shown = pressed'.of
    <3>1. pressed' = pressed \/ \E m \in Menu : pressed' = [shown |-> {a.menu}, of |-> {m}, live |-> FALSE]
      BY <1>3 DEF Menus!AnswerDeleted, Menus!Press, Menus!Close
    <3>2. CASE pressed' = pressed
      BY <3>2 DEF MenusInv
    <3> QED  BY <3>1, <3>2
  <2> QED  BY <2>1, <2>2, <2>3 DEF MenusInv
<1>4. ASSUME NEW a \in shown, Menus!Drop(a) PROVE MenusInv'
  BY <1>4 DEF Menus!Drop, MenusInv
<1>5. ASSUME NEW p \in Viewer, Menus!Leave(p) PROVE MenusInv'
  BY <1>5 DEF Menus!Leave, Menus!Without, MenusInv
<1>6. CASE Menus!Reload
  <2>1. UNCHANGED <<shown, autoid, pressed>> /\ fid' = [m \in Menu |-> 0]
    BY <1>6 DEF Menus!Reload
  <2>2. player_mp' \in [DOMAIN player_mp' -> [menu : Menu, live : BOOLEAN]]
    BY <1>6 DEF Menus!Reload, MenusInv
  <2> QED  BY <2>1, <2>2 DEF MenusInv
<1>7. CASE Menus!Restart
  BY <1>7 DEF Menus!Restart, MenusInv
<1>8. CASE UNCHANGED menus
  BY <1>8 DEF menus, MenusInv
<1> QED  BY <1>1, <1>2, <1>3, <1>4, <1>5, <1>6, <1>7, <1>8 DEF Menus!Next

(***************************************************************************)
(* A button that runs is one of the menu the player answered (gui          *)
(* main.cpp:55-113, cmdhelp main.cpp:117-181), whatever was sent to him    *)
(* and to others meanwhile, unless the menus were read again while he had  *)
(* one open.                                                               *)
(***************************************************************************)
THEOREM AnswersAreFromMenuShown == ServicesSpec => []AnswerFromMenuShown
<1>1. ServicesInit => MenusInv
  BY MenusStart DEF ServicesInit
<1>2. [ServicesNext]_servicesVars => [Menus!Next]_menus
  BY DEF ServicesNext, Rest, servicesVars
<1>3. MenusInv => AnswerFromMenuShown
  BY DEF MenusInv, AnswerFromMenuShown, Menus!AnswerFromMenuShown
<1> QED  BY <1>1, <1>2, <1>3, MenusStep, PTL DEF ServicesSpec

-----------------------------------------------------------------------------
(***************************************************************************)
(* bear.mod.  Who was banned while he played, by both writes of the ban,   *)
(* is known by that name as long as he is not banned again.                *)
(***************************************************************************)
BansInv ==
    /\ at \in [Account -> {"away", "authenticated", "in"}]
    /\ DOMAIN banned \subseteq Account /\ DOMAIN tie \subseteq Account
    /\ \A a \in DOMAIN banned : a \in DOMAIN known /\ known[a] = banned[a]

LEMMA BansStart == Bans!Init => BansInv
  BY DEF Bans!Init, BansInv

\* Every step of the bans keeps the invariant.
LEMMA BansStep == BansInv /\ [Bans!Next]_bans => BansInv'
<1> SUFFICES ASSUME BansInv, [Bans!Next]_bans PROVE BansInv'
  OBVIOUS
<1>1. ASSUME NEW a \in Account, UNCHANGED <<banned, tie>>,
             known' = IF a \in DOMAIN known THEN known ELSE Bans!Put(known, a, called[a])
      PROVE  /\ DOMAIN banned' \subseteq Account /\ DOMAIN tie' \subseteq Account
             /\ \A b \in DOMAIN banned' : b \in DOMAIN known' /\ known'[b] = banned'[b]
  BY <1>1 DEF Bans!Put, BansInv
<1>2. ASSUME NEW a \in Account, Bans!Authenticate(a) \/ Bans!Join(a) \/ Bans!DieInLookUp(a)
      PROVE  BansInv'
  <2>1. at' \in [Account -> {"away", "authenticated", "in"}] /\ UNCHANGED <<banned, tie>>
    BY <1>2 DEF Bans!Authenticate, Bans!Join, Bans!DieInLookUp, BansInv
  <2>2. known' = IF a \in DOMAIN known THEN known ELSE Bans!Put(known, a, called[a])
    BY <1>2 DEF Bans!Authenticate, Bans!Join, Bans!DieInLookUp, Bans!LookUp
  <2> QED  BY <1>1, <2>1, <2>2 DEF BansInv
<1>3. ASSUME NEW a \in Account, NEW n, Bans!Leave(a) \/ Bans!Rename(a, n) PROVE BansInv'
  BY <1>3 DEF Bans!Leave, Bans!Rename, BansInv
<1>4. ASSUME NEW n, Bans!Unban(n) \/ Bans!Tick \/ Bans!Die PROVE BansInv'
  BY <1>4 DEF Bans!Unban, Bans!Tick, Bans!Die, BansInv
<1>5. ASSUME NEW n, NEW t, Bans!Ban(n, t) PROVE BansInv'
  BY <1>5 DEF Bans!Ban, Bans!Present, BansInv
<1>6. CASE Bans!BanAccount
  BY <1>6 DEF Bans!BanAccount, Bans!Override, BansInv
<1>7. CASE UNCHANGED bans
  BY <1>7 DEF bans, BansInv
<1> QED  BY <1>2, <1>3, <1>4, <1>5, <1>6, <1>7 DEF Bans!Next

\* Who comes in has joined, and so was looked up by his name and the one he was banned under.
LEMMA WhoComesInJoins ==
    ASSUME BansInv, [Bans!Next]_bans, NEW a \in Account, at[a] # "in", at'[a] = "in"
    PROVE  Bans!Join(a)
<1>1. ASSUME NEW b \in Account, Bans!Authenticate(b) PROVE FALSE
  BY <1>1 DEF Bans!Authenticate, BansInv
<1>2. ASSUME NEW b \in Account, Bans!Join(b) PROVE b = a
  BY <1>2 DEF Bans!Join, BansInv
<1>3. ASSUME NEW b \in Account, NEW n, Bans!Leave(b) \/ Bans!Rename(b, n) PROVE FALSE
  BY <1>3 DEF Bans!Leave, Bans!Rename, BansInv
<1>4. ASSUME NEW n, NEW t, Bans!Unban(n) \/ Bans!Ban(n, t) PROVE FALSE
  BY <1>4 DEF Bans!Unban, Bans!Ban, BansInv
<1>5. ASSUME NEW b \in Account, Bans!BanAccount \/ Bans!Die \/ Bans!DieInLookUp(b) PROVE FALSE
  BY <1>5 DEF Bans!BanAccount, Bans!Die, Bans!DieInLookUp, BansInv
<1>6. CASE Bans!Tick \/ UNCHANGED bans
  BY <1>6 DEF Bans!Tick, bans
<1> QED  BY <1>1, <1>2, <1>3, <1>4, <1>5, <1>6 DEF Bans!Next

\* Who comes in is not banned, and a ban in force ends by /ac unban.
LEMMA BansHold ==
    ASSUME BansInv, [Bans!Next]_bans
    PROVE  /\ \A a \in Account : at[a] # "in" /\ at'[a] = "in" =>
                 /\ ~Bans!isBanned(called[a])
                 /\ a \in DOMAIN banned => ~Bans!isBanned(banned[a])
           /\ \A n \in PlayerName :
                 Bans!isBanned(n) /\ n \notin DOMAIN until' => Bans!Unban(n)
<1>1. ASSUME NEW a \in Account, at[a] # "in", at'[a] = "in"
      PROVE  ~Bans!isBanned(called[a]) /\ (a \in DOMAIN banned => ~Bans!isBanned(banned[a]))
  <2>1. Bans!Join(a)
    BY <1>1, WhoComesInJoins
  <2>2. ~\E n \in Bans!Asked(a) : Bans!isBanned(n)
    BY <1>1, <2>1 DEF Bans!Join, BansInv
  <2>3. ~Bans!isBanned(called[a])
    BY <2>2 DEF Bans!Asked, Bans!Names
  <2>4. ASSUME a \in DOMAIN banned PROVE ~Bans!isBanned(banned[a])
    <3>1. a \in DOMAIN known /\ known[a] = banned[a]
      BY <2>4 DEF BansInv
    <3> QED  BY <2>2, <2>3, <3>1 DEF Bans!Asked, Bans!Names
  <2> QED  BY <2>3, <2>4
<1>2. ASSUME NEW n \in PlayerName, Bans!isBanned(n), n \notin DOMAIN until' PROVE Bans!Unban(n)
  <2>1. n \in DOMAIN until /\ ~Bans!Lapsed(n)
    BY <1>2 DEF Bans!isBanned
  <2>2. ASSUME NEW a, Bans!Authenticate(a) \/ Bans!Join(a) PROVE FALSE
    BY <1>2, <2>1, <2>2 DEF Bans!Authenticate, Bans!Join, Bans!LookUp, Bans!Without
  <2>3. ASSUME NEW a, NEW m,
               Bans!Leave(a) \/ Bans!Rename(a, m) \/ Bans!Tick \/ Bans!Die \/ Bans!BanAccount
        PROVE  FALSE
    BY <1>2, <2>1, <2>3 DEF Bans!Leave, Bans!Rename, Bans!Tick, Bans!Die, Bans!BanAccount
  <2>4. ASSUME NEW m, NEW t, Bans!Ban(m, t) PROVE FALSE
    BY <1>2, <2>1, <2>4 DEF Bans!Ban, Bans!Put
  <2>5. ASSUME NEW m, Bans!Unban(m) PROVE m = n
    BY <1>2, <2>1, <2>5 DEF Bans!Unban, Bans!Without
  <2>6. ASSUME NEW a, Bans!DieInLookUp(a) PROVE FALSE
    BY <1>2, <2>1, <2>6 DEF Bans!DieInLookUp, Bans!Without
  <2>7. CASE UNCHANGED bans
    BY <1>2, <2>1, <2>7 DEF bans
  <2> QED  BY <2>2, <2>3, <2>4, <2>5, <2>6, <2>7 DEF Bans!Next
<1> QED  BY <1>1, <1>2

(***************************************************************************)
(* Who is banned while he plays stays out (bear main.cpp:79-109, 167-177,  *)
(* 449-462), under whatever name he comes back and whoever takes his old   *)
(* name: the ban put down by name is found again by his xuid, from the     *)
(* second write of /ac ban on and whatever deaths come.                    *)
(***************************************************************************)
THEOREM BansAreKept == ServicesSpec => BannedStaysOut
<1> DEFINE Kept ==
       /\ \A a \in Account : at[a] # "in" /\ at'[a] = "in" =>
             /\ ~Bans!isBanned(called[a])
             /\ a \in DOMAIN banned => ~Bans!isBanned(banned[a])
       /\ \A n \in PlayerName :
             Bans!isBanned(n) /\ n \notin DOMAIN until' => Bans!Unban(n)
<1>1. ServicesInit => BansInv
  BY BansStart DEF ServicesInit
<1>2. [ServicesNext]_servicesVars => [Bans!Next]_bans
  BY DEF ServicesNext, Rest, servicesVars
<1>3. BansInv /\ [Bans!Next]_bans => [Kept]_(Bans!banVars)
  BY BansHold
<1>4. ServicesSpec => [][Kept]_(Bans!banVars)
  <2> HIDE DEF Kept
  <2> QED  BY <1>1, <1>2, <1>3, BansStep, PTL DEF ServicesSpec
<1> QED  BY <1>4 DEF BannedStaysOut, Bans!BannedStaysOut

-----------------------------------------------------------------------------
(***************************************************************************)
(* chestShop.mod.  A slot with a price holds what was put there for it;    *)
(* nothing lies in a chest that is no shop.                                *)
(***************************************************************************)
Owners == {{p} : p \in Player}

ShopSlot == {Shop!Free} \cup [owner : Owners, price : 0 .. IntHalf - 1]

Goods == [by : Owners \cup {{}}, price : 0 .. IntHalf - 1, paid : Int]

\* what the slot says of the thing in it, and the thing of the slot
Honest(slot, g) ==
    /\ slot.price # 0 => g # Shop!NoGoods
    /\ g # Shop!NoGoods =>
          \/ slot = [owner |-> g.by, price |-> g.price]
          \/ slot.price = 0 /\ g.paid = g.price

SlotsInv ==
    /\ DOMAIN lc \subseteq Box /\ lc \in [DOMAIN lc -> [SlotNo -> ShopSlot]]
    /\ inside \in [Box -> [SlotNo -> Goods]]
    /\ \A b \in Box, s \in SlotNo :
          IF b \in DOMAIN lc THEN Honest(lc[b][s], inside[b][s]) ELSE inside[b][s] = Shop!NoGoods

SessionsInv ==
    /\ DOMAIN sessions \subseteq Player /\ sessions \in [DOMAIN sessions -> DOMAIN lc]
    /\ DOMAIN last_sess \subseteq Player /\ last_sess \in [DOMAIN last_sess -> DOMAIN lc]
    /\ DOMAIN ply_select \subseteq Player
    /\ ply_select \in [DOMAIN ply_select -> [slot : SlotNo, of : Box]]
    /\ DOMAIN ply_price \subseteq Player
    /\ ply_price \in [DOMAIN ply_price -> Prices \cup {-IntHalf}]

ShopInv == accounts \in Balances /\ SlotsInv /\ SessionsInv

\* The shop's accounts are those of money.mod.
LEMMA ShopAccounts ==
    \A d, i, p, n :
        /\ Shop!get_money(d, i, p) = get_money(d, i, p)
        /\ Shop!CanReduce(d, i, p, n) = (get_money(d, i, p) >= n)
        /\ Shop!red_money(d, i, p, n) = red_money(d, i, p, n)
        /\ Shop!add_money(d, i, p, n) = add_money(d, i, p, n)
<1>1. \A n : Shop!Wrap(n) = Wrap(n)
  BY DEF Shop!Wrap, Wrap
<1>2. \A d, i, p : Shop!get_money(d, i, p) = get_money(d, i, p)
  BY DEF Shop!get_money, get_money
<1>3. \A d, p, n : Shop!set_money(d, p, n) = set_money(d, p, n)
  BY DEF Shop!set_money, set_money
<1>4. \A d, i, p, n : Shop!CanReduce(d, i, p, n) = (get_money(d, i, p) >= n)
  BY <1>2 DEF Shop!CanReduce
<1>5. \A d, i, p, n : Shop!red_money(d, i, p, n) = red_money(d, i, p, n)
  BY <1>1, <1>2, <1>3, <1>4 DEF Shop!red_money, red_money, CanReduce
<1>6. \A d, i, p, n : Shop!add_money(d, i, p, n) = add_money(d, i, p, n)
  BY <1>1, <1>5 DEF Shop!add_money, add_money
<1> QED  BY <1>2, <1>4, <1>5, <1>6

\* A slot without goods has no price, and no goods are honest in it.
LEMMA FreeIsHonest ==
    /\ Shop!Free \in ShopSlot /\ Shop!NoGoods \in Goods
    /\ Honest(Shop!Free, Shop!NoGoods)
  BY IntHalfAssumption DEF ShopSlot, Goods, Honest, Shop!Free, Shop!NoGoods

LEMMA ShopStart == Shop!Init => ShopInv
<1> SUFFICES ASSUME Shop!Init PROVE ShopInv
  OBVIOUS
<1>1. accounts \in [{} -> Ints]
  BY DEF Shop!Init
<1>2. accounts \in Balances
  BY <1>1 DEF Balances
<1> QED  BY <1>2, FreeIsHonest DEF Shop!Init, ShopInv, SlotsInv, SessionsInv

\* Writing one slot and what lies in it.
LEMMA OneSlot ==
    ASSUME SlotsInv, NEW b \in DOMAIN lc, NEW s \in SlotNo, NEW x \in ShopSlot, NEW g \in Goods,
           Honest(x, g), lc' = [lc EXCEPT ![b][s] = x], inside' = [inside EXCEPT ![b][s] = g]
    PROVE  SlotsInv' /\ DOMAIN lc' = DOMAIN lc
<1>1. /\ lc \in [DOMAIN lc -> [SlotNo -> ShopSlot]] /\ DOMAIN lc \subseteq Box
      /\ inside \in [Box -> [SlotNo -> Goods]] /\ b \in Box
  BY DEF SlotsInv
<1>2. DOMAIN lc' = DOMAIN lc /\ lc' \in [DOMAIN lc -> [SlotNo -> ShopSlot]]
      /\ inside' \in [Box -> [SlotNo -> Goods]]
  BY <1>1
<1>3. ASSUME NEW c \in Box, NEW t \in SlotNo
      PROVE  /\ c \in DOMAIN lc => lc'[c][t] = IF c = b /\ t = s THEN x ELSE lc[c][t]
             /\ inside'[c][t] = IF c = b /\ t = s THEN g ELSE inside[c][t]
  BY <1>1
<1>4. ASSUME NEW c \in Box, NEW t \in SlotNo
      PROVE  IF c \in DOMAIN lc' THEN Honest(lc'[c][t], inside'[c][t])
             ELSE inside'[c][t] = Shop!NoGoods
  <2>1. IF c \in DOMAIN lc THEN Honest(lc[c][t], inside[c][t]) ELSE inside[c][t] = Shop!NoGoods
    BY DEF SlotsInv
  <2> QED  BY <1>2, <1>3, <2>1
<1> QED  BY <1>1, <1>2, <1>4 DEF SlotsInv

\* Typing a price, choosing a slot and opening and closing chests touch no slot.
LEMMA ShopVisits ==
    ASSUME ShopInv, NEW p \in Player,
           \/ Shop!Set(p) \/ Shop!stopOpen(p)
           \/ \E n \in Prices : Shop!Sell(p, n)
           \/ \E b \in Box : Shop!startOpen(p, b)
           \/ \E s \in SlotNo : Shop!Select(p, s)
    PROVE  ShopInv'
<1>1. accounts' = accounts /\ lc' = lc /\ inside' = inside
  BY DEF Shop!Set, Shop!stopOpen, Shop!Sell, Shop!startOpen, Shop!Select
<1>2. SlotsInv'
  BY <1>1 DEF ShopInv, SlotsInv
<1>3. SessionsInv
  BY DEF ShopInv
<1>4. ASSUME NEW n \in Prices \cup {-IntHalf}, ply_price' = Shop!Emplace(ply_price, p, n),
             UNCHANGED <<lc, sessions, last_sess, ply_select>>
      PROVE  SessionsInv'
  <2>1. CASE p \in DOMAIN ply_price
    BY <1>3, <1>4, <2>1 DEF Shop!Emplace, SessionsInv
  <2>2. CASE p \notin DOMAIN ply_price
    <3>1. /\ DOMAIN ply_price' = DOMAIN ply_price \cup {p}
          /\ \A q \in DOMAIN ply_price' : ply_price'[q] = IF q = p THEN n ELSE ply_price[q]
          /\ ply_price' = [q \in DOMAIN ply_price' |-> ply_price'[q]]
      BY <1>4, <2>2 DEF Shop!Emplace, Shop!Put
    <3>2. ply_price' \in [DOMAIN ply_price' -> Prices \cup {-IntHalf}]
      BY <1>3, <3>1 DEF SessionsInv
    <3> QED  BY <1>3, <1>4, <3>1, <3>2 DEF SessionsInv
  <2> QED  BY <2>1, <2>2
<1>5. ASSUME NEW n \in Prices, Shop!Sell(p, n) PROVE SessionsInv'
  BY <1>1, <1>4, <1>5 DEF Shop!Sell
<1>7. ASSUME NEW b \in Box, Shop!startOpen(p, b) PROVE SessionsInv'
  BY <1>1, <1>3, <1>7 DEF Shop!startOpen, Shop!Put, SessionsInv
<1>8. ASSUME NEW s \in SlotNo, Shop!Select(p, s) PROVE SessionsInv'
  <2>1. PICK v \in [slot : SlotNo, of : Box] : v = [slot |-> s, of |-> sessions[p]]
    BY <1>3, <1>8 DEF Shop!Select, SessionsInv, ShopInv, SlotsInv
  <2>2. ply_select' = Shop!Put(ply_select, p, v) /\ UNCHANGED <<sessions, last_sess, ply_price>>
    BY <1>8, <2>1 DEF Shop!Select
  <2> QED  BY <1>1, <1>3, <2>2 DEF Shop!Put, SessionsInv
<1>9. SessionsInv'
  <2>1. CASE Shop!Set(p)
    <3>1. PICK n \in Prices \cup {-IntHalf} : n = Shop!SetShop
      BY DEF Shop!SetShop
    <3> QED  BY <1>1, <1>4, <2>1, <3>1 DEF Shop!Set
  <2>2. CASE Shop!stopOpen(p)
    BY <1>1, <1>3, <2>2 DEF Shop!stopOpen, Shop!Emplace, Shop!Put, Shop!Without, SessionsInv
  <2> QED  BY <1>5, <1>7, <1>8, <2>1, <2>2
<1> QED  BY <1>1, <1>2, <1>9 DEF ShopInv

\* A chest made a shop has free slots.
LEMMA ShopMade == ASSUME ShopInv, NEW p, NEW b \in Box, Shop!MakeShop(p, b) PROVE ShopInv'
<1>1. SlotsInv /\ SessionsInv /\ UNCHANGED <<accounts, inside, sessions, last_sess, ply_select>>
  BY DEF ShopInv, Shop!MakeShop
<1>2. PICK f \in [SlotNo -> ShopSlot] : f = [s \in SlotNo |-> Shop!Free]
  BY FreeIsHonest
<1>3. CASE b \in DOMAIN lc
  <2>1. lc' = lc
    BY <1>3 DEF Shop!MakeShop, Shop!Emplace
  <2> QED  BY <1>1, <2>1 DEF ShopInv, SlotsInv, SessionsInv, Shop!MakeShop, Shop!Without
<1>4. CASE b \notin DOMAIN lc
  <2>1. lc' = Shop!Put(lc, b, f)
    BY <1>2, <1>4 DEF Shop!MakeShop, Shop!Emplace
  <2>2. /\ DOMAIN lc' = DOMAIN lc \cup {b} /\ lc' \in [DOMAIN lc' -> [SlotNo -> ShopSlot]]
        /\ lc'[b] = f /\ \A c \in DOMAIN lc : lc'[c] = lc[c]
    BY <1>1, <1>4, <2>1 DEF Shop!Put, SlotsInv
  <2>3. SlotsInv'
    BY <1>1, <1>2, <1>4, <2>2, FreeIsHonest DEF SlotsInv
  <2>4. SessionsInv'
    BY <1>1, <2>2 DEF SessionsInv, Shop!MakeShop, Shop!Without
  <2> QED  BY <1>1, <2>3, <2>4 DEF ShopInv
<1> QED  BY <1>3, <1>4

\* What is put into a free slot is offered at its owner's price.
LEMMA ShopFilled == ASSUME ShopInv, NEW p \in Player, NEW s \in SlotNo, Shop!Push(p, s) PROVE ShopInv'
<1>1. PICK b \in DOMAIN lc : b = sessions[p]
  BY DEF Shop!Push, ShopInv, SessionsInv
<1>2. PICK n \in Prices \cup {-IntHalf} : n = ply_price[p]
  BY DEF Shop!Push, ShopInv, SessionsInv
<1>3. /\ inside[b][s] = Shop!NoGoods
      /\ ply_price' = Shop!Without(ply_price, {p})
      /\ UNCHANGED <<accounts, sessions, last_sess, ply_select>>
      /\ \/ /\ n > 0
            /\ lc' = [lc EXCEPT ![b][s] = [owner |-> {p}, price |-> n]]
            /\ inside' = [inside EXCEPT ![b][s] = [by |-> {p}, price |-> n, paid |-> -1]]
         \/ UNCHANGED <<lc, inside>>
  BY <1>1, <1>2 DEF Shop!Push
<1>4. SlotsInv /\ SessionsInv
  BY DEF ShopInv
<1>5. CASE n > 0 /\ lc' = [lc EXCEPT ![b][s] = [owner |-> {p}, price |-> n]]
           /\ inside' = [inside EXCEPT ![b][s] = [by |-> {p}, price |-> n, paid |-> -1]]
  <2>1. n \in 0 .. IntHalf - 1
    BY <1>5, ShopAssumption, IntHalfAssumption DEF Ints
  <2>2. PICK x \in ShopSlot : x = [owner |-> {p}, price |-> n]
    BY <2>1 DEF ShopSlot, Owners
  <2>3. PICK g \in Goods : g = [by |-> {p}, price |-> n, paid |-> -1]
    <3>1. -1 \in Int /\ {p} \in Owners \cup {{}}
      BY DEF Owners
    <3> QED  BY <2>1, <3>1 DEF Goods
  <2>4. Honest(x, g)
    <3>1. x = [owner |-> g.by, price |-> g.price] /\ g.price = n
      BY <2>2, <2>3
    <3>2. g # Shop!NoGoods
      BY <3>1, <1>5, <2>1 DEF Shop!NoGoods
    <3> QED  BY <3>1, <3>2 DEF Honest
  <2>5. SlotsInv' /\ DOMAIN lc' = DOMAIN lc
    BY <1>4, <1>5, <2>2, <2>3, <2>4, OneSlot
  <2>6. SessionsInv'
    BY <1>3, <1>4, <2>5 DEF SessionsInv, Shop!Without
  <2> QED  BY <1>3, <2>5, <2>6 DEF ShopInv
<1>6. CASE UNCHANGED <<lc, inside>>
  BY <1>3, <1>4, <1>6 DEF ShopInv, SlotsInv, SessionsInv, Shop!Without
<1> QED  BY <1>3, <1>5, <1>6

\* What is taken out leaves the slot free.
LEMMA ShopTaken == ASSUME ShopInv, NEW p \in Player, NEW s \in SlotNo, Shop!Take(p, s) PROVE ShopInv'
<1>1. PICK b \in DOMAIN lc : b = sessions[p]
  BY DEF Shop!Take, ShopInv, SessionsInv
<1>2. /\ lc[b][s].price = 0 /\ lc[b][s].owner = {p}
      /\ lc' = [lc EXCEPT ![b][s].owner = {}]
      /\ inside' = [inside EXCEPT ![b][s] = Shop!NoGoods]
      /\ UNCHANGED <<accounts, sessions, last_sess, ply_select, ply_price>>
  BY <1>1 DEF Shop!Take
<1>3. SlotsInv /\ SessionsInv
  BY DEF ShopInv
<1>4. lc[b][s] \in ShopSlot
  BY <1>3 DEF SlotsInv
<1>5. [lc[b][s] EXCEPT !.owner = {}] = Shop!Free
  <2>1. lc[b][s] # Shop!Free
    BY <1>2 DEF Shop!Free
  <2>2. PICK o \in Owners, n \in 0 .. IntHalf - 1 : lc[b][s] = [owner |-> o, price |-> n]
    BY <1>4, <2>1 DEF ShopSlot
  <2> QED  BY <1>2, <2>2 DEF Shop!Free
<1>6. lc' = [lc EXCEPT ![b][s] = Shop!Free]
  <2>1. PICK x : x = Shop!Free
    OBVIOUS
  <2>2. lc' = [lc EXCEPT ![b] = [lc[b] EXCEPT ![s] = x]]
    BY <1>2, <1>5, <2>1
  <2> QED  BY <2>1, <2>2
<1>7. SlotsInv' /\ DOMAIN lc' = DOMAIN lc
  BY <1>2, <1>3, <1>6, FreeIsHonest, OneSlot
<1>8. SessionsInv'
  BY <1>2, <1>3, <1>7 DEF SessionsInv
<1> QED  BY <1>2, <1>7, <1>8 DEF ShopInv

\* What is bought is paid at the price of the slot, and the buyer's.
LEMMA ShopBought == ASSUME ShopInv, NEW p \in Player, Shop!Buy(p) PROVE ShopInv'
<1>1. PICK b \in DOMAIN lc : b = last_sess[p]
  BY DEF Shop!Buy, Shop!MayBuy, ShopInv, SessionsInv
<1>2. PICK s \in SlotNo : s = ply_select[p].slot
  BY DEF Shop!Buy, Shop!MayBuy, ShopInv, SessionsInv
<1>3. PICK price : price = lc[b][s].price
  OBVIOUS
<1>4. PICK debited : debited = red_money(accounts, Wealth, p, price)
  OBVIOUS
<1>5. /\ ply_select' = Shop!Without(ply_select, {p})
      /\ UNCHANGED <<sessions, last_sess, ply_price>>
      /\ \/ /\ price # 0 /\ get_money(accounts, Wealth, p) >= price
            /\ \E seller \in lc[b][s].owner : accounts' = add_money(debited, Wealth, seller, price)
            /\ lc' = [lc EXCEPT ![b][s] = [owner |-> {p}, price |-> 0]]
            /\ inside' = [inside EXCEPT ![b][s].paid =
                             get_money(accounts, Wealth, p) - get_money(debited, Wealth, p)]
         \/ UNCHANGED <<accounts, lc, inside>>
  <2>1. /\ ply_select' = Shop!Without(ply_select, {p})
        /\ UNCHANGED <<sessions, last_sess, ply_price>>
        /\ IF price # 0 /\ Shop!CanReduce(accounts, Wealth, p, price)
           THEN /\ \E seller \in lc[b][s].owner :
                      accounts' = Shop!add_money(Shop!red_money(accounts, Wealth, p, price),
                                                 Wealth, seller, price)
                /\ lc' = [lc EXCEPT ![b][s] = [owner |-> {p}, price |-> 0]]
                /\ inside' = [inside EXCEPT ![b][s].paid =
                                 Shop!get_money(accounts, Wealth, p)
                                     - Shop!get_money(Shop!red_money(accounts, Wealth, p, price),
                                                      Wealth, p)]
           ELSE UNCHANGED <<accounts, lc, inside, bought>>
    BY <1>1, <1>2, <1>3 DEF Shop!Buy
  <2>2. /\ Shop!CanReduce(accounts, Wealth, p, price) = (get_money(accounts, Wealth, p) >= price)
        /\ Shop!red_money(accounts, Wealth, p, price) = debited
        /\ Shop!get_money(accounts, Wealth, p) = get_money(accounts, Wealth, p)
        /\ Shop!get_money(debited, Wealth, p) = get_money(debited, Wealth, p)
        /\ \A seller : Shop!add_money(debited, Wealth, seller, price)
                          = add_money(debited, Wealth, seller, price)
    BY <1>4, ShopAccounts
  <2> QED  BY <2>1, <2>2
<1>6. accounts \in Balances /\ SlotsInv /\ SessionsInv
  BY DEF ShopInv
<1>7. /\ DOMAIN ply_select' \subseteq Player
      /\ ply_select' \in [DOMAIN ply_select' -> [slot : SlotNo, of : Box]]
  BY <1>5, <1>6 DEF Shop!Without, SessionsInv
<1>8. CASE UNCHANGED <<accounts, lc, inside>>
  BY <1>5, <1>6, <1>7, <1>8 DEF ShopInv, SlotsInv, SessionsInv
<1>9. CASE /\ price # 0 /\ get_money(accounts, Wealth, p) >= price
           /\ \E seller \in lc[b][s].owner : accounts' = add_money(debited, Wealth, seller, price)
           /\ lc' = [lc EXCEPT ![b][s] = [owner |-> {p}, price |-> 0]]
           /\ inside' = [inside EXCEPT ![b][s].paid =
                            get_money(accounts, Wealth, p) - get_money(debited, Wealth, p)]
  <2>1. /\ b \in Box /\ lc[b][s] \in ShopSlot /\ inside[b][s] \in Goods
        /\ Honest(lc[b][s], inside[b][s])
    BY <1>6 DEF SlotsInv
  <2>2. PICK o \in Owners, n \in 0 .. IntHalf - 1 : lc[b][s] = [owner |-> o, price |-> n]
    BY <1>3, <1>9, <2>1 DEF ShopSlot, Shop!Free
  <2>3. n = price /\ price \in 0 .. IntHalf - 1 /\ price > 0 /\ price \in Ints
    BY <1>3, <1>9, <2>2, IntHalfAssumption DEF Ints
  <2>4. PICK g \in Goods : g = inside[b][s]
    BY <2>1
  <2>5. g.price = price
    BY <2>1, <2>2, <2>3, <2>4, <1>9 DEF Honest
  <2>6. PICK have \in Ints : have = get_money(accounts, Wealth, p)
    BY <1>6, GetType, ShopAssumption
  <2>7. debited \in Balances /\ get_money(debited, Wealth, p) = have - price
    <3>1. have - price \in Ints
      BY <1>9, <2>3, <2>6, IntHalfAssumption DEF Ints
    <3>2. debited = set_money(accounts, p, have - price)
      BY <1>4, <1>9, <2>6, <3>1, WrapFits DEF red_money, CanReduce
    <3> QED  BY <1>6, <3>1, <3>2, SetType
  <2>8. have - (have - price) = price
    BY <2>3, <2>6 DEF Ints
  <2>9. PICK seller \in Player : accounts' = add_money(debited, Wealth, seller, price)
    BY <1>9, <2>2 DEF Owners
  <2>10. accounts' \in Balances
    BY <2>3, <2>7, <2>9, RedType, ShopAssumption
  <2>11. PICK x \in ShopSlot : x = [owner |-> {p}, price |-> 0]
    <3>1. {p} \in Owners /\ 0 \in 0 .. IntHalf - 1
      BY IntHalfAssumption DEF Owners
    <3> QED  BY <3>1 DEF ShopSlot
  <2>12. PICK h \in Goods : h = [by |-> g.by, price |-> price, paid |-> price]
    <3>1. price \in Int
      BY <2>3
    <3> QED  BY <2>3, <2>4, <3>1 DEF Goods
  <2>13. Honest(x, h)
    BY <2>3, <2>11, <2>12 DEF Honest, Shop!NoGoods
  <2>14. inside' = [inside EXCEPT ![b][s].paid = price]
    BY <1>9, <2>6, <2>7, <2>8
  <2>15. [g EXCEPT !.paid = price] = h
    BY <2>4, <2>5, <2>12 DEF Goods
  <2>16. inside' = [inside EXCEPT ![b][s] = h]
    BY <2>14, <2>15, <2>4
  <2>17. SlotsInv' /\ DOMAIN lc' = DOMAIN lc
    BY <1>6, <1>9, <2>11, <2>13, <2>16, OneSlot
  <2>18. SessionsInv'
    BY <1>5, <1>6, <1>7, <2>17 DEF SessionsInv
  <2> QED  BY <2>10, <2>17, <2>18 DEF ShopInv
<1> QED  BY <1>5, <1>8, <1>9

\* A restart forgets every shop.
LEMMA ShopRestarted == ASSUME ShopInv, Shop!Restart PROVE ShopInv'
  BY FreeIsHonest DEF ShopInv, SlotsInv, SessionsInv, Shop!Restart

LEMMA ShopStep == ShopInv /\ [Shop!Next]_shop => ShopInv'
<1> SUFFICES ASSUME ShopInv, [Shop!Next]_shop PROVE ShopInv'
  OBVIOUS
<1>1. CASE UNCHANGED shop
  BY <1>1 DEF shop, ShopInv, SlotsInv, SessionsInv
<1>2. CASE Shop!Next
  BY <1>2, ShopVisits, ShopMade, ShopFilled, ShopTaken, ShopBought, ShopRestarted DEF Shop!Next
<1> QED  BY <1>1, <1>2

(***************************************************************************)
(* What may be taken out of a shop was paid by who may take it, out of his *)
(* account and at the price it was put there for; and until then it is     *)
(* offered by the one who put it there (chestShop/main.cpp:192-287): for   *)
(* any players, chests and prices, and an int of any width.                *)
(***************************************************************************)
THEOREM ShopsArePaid == ServicesSpec => []GoodsPaidFor
<1>1. ServicesInit => ShopInv
  BY ShopStart DEF ServicesInit
<1>2. [ServicesNext]_servicesVars => [Shop!Next]_shop
  BY DEF ServicesNext, Rest, servicesVars
<1>3. ShopInv => GoodsPaidFor
  <2> SUFFICES ASSUME ShopInv, NEW b \in DOMAIN lc, NEW s \in SlotNo
      PROVE  inside[b][s] # Shop!NoGoods =>
                \/ lc[b][s] = [owner |-> inside[b][s].by, price |-> inside[b][s].price]
                \/ lc[b][s].price = 0 /\ inside[b][s].paid = inside[b][s].price
    BY DEF GoodsPaidFor, Shop!GoodsPaidFor
  <2>1. Honest(lc[b][s], inside[b][s])
    BY DEF ShopInv, SlotsInv
  <2> QED  BY <2>1 DEF Honest
<1> QED  BY <1>1, <1>2, <1>3, ShopStep, PTL DEF ServicesSpec

-----------------------------------------------------------------------------
(***************************************************************************)
(* The repair of the land database.  Between the reading and the mark,     *)
(* what is in memory and what is written are together what land_old has;   *)
(* what is bought is always in one of the two directories.                 *)
(***************************************************************************)
Sound == {r \in Repair!Record : IF r.ver = 0 THEN r.moved = 0 ELSE r.by = "older" => r.moved = 1}

Directory == UNION {[D -> Sound] : D \in SUBSET Repair!Lid}

Copying == {"counter", "write", "link"}

Serving == {"up", "bought", "sold"}

RepairTypes ==
    /\ DOMAIN land_db = {"rec", "linked", "land_id", "mark"}
    /\ land_db = [rec |-> land_db.rec, linked |-> land_db.linked,
                  land_id |-> land_db.land_id, mark |-> land_db.mark]
    /\ land_db.rec \in Directory /\ old \in Directory /\ lands \in Directory
    /\ land_db.linked \subseteq Repair!Lid /\ land_db.land_id \subseteq Nat
    /\ land_db.mark \in BOOLEAN /\ next_id \subseteq Nat /\ arg \in Repair!Lid
    /\ step \in {"down", "rm", "mv"} \cup Copying \cup Serving
    /\ cut \in {"none", "cut", "repeated"}

CopyInv ==
    /\ step \in {"rm", "mv"} => lands = land_db.rec
    /\ land_db.mark => step \in {"down"} \cup Serving
    /\ land_db.mark \/ step \in Serving =>
          \A l \in DOMAIN land_db.rec : land_db.rec[l].by = "older" => land_db.rec[l].ver = 1
    /\ step \in Copying =>
          /\ DOMAIN old = DOMAIN land_db.rec \cup DOMAIN lands
          /\ \A l \in DOMAIN land_db.rec : land_db.rec[l].ver = 1
    /\ step \in {"counter", "write"} => land_db.linked = DOMAIN land_db.rec
    /\ step = "link" => land_db.linked \cup {arg} = DOMAIN land_db.rec
    /\ step = "bought" => arg \in DOMAIN land_db.rec

WantedInv ==
    /\ cut = "none" => wanted \subseteq IF step \in Copying THEN DOMAIN old ELSE DOMAIN land_db.rec
    /\ cut = "cut" => /\ step \in {"down", "rm"} /\ ~land_db.mark
                      /\ wanted \subseteq DOMAIN land_db.rec \cup DOMAIN old

RepairInv == RepairTypes /\ CopyInv /\ WantedInv

\* Records as the repair leaves them and as it finds them.
LEMMA SoundRecords ==
    \A b \in {"older", "this"}, v \in {0, 1}, m \in 0 .. 1 :
        (IF v = 0 THEN m = 0 ELSE b = "older" => m = 1) => [by |-> b, ver |-> v, moved |-> m] \in Sound
<1> SUFFICES ASSUME NEW b \in {"older", "this"}, NEW v \in {0, 1}, NEW m \in 0 .. 1,
                    IF v = 0 THEN m = 0 ELSE b = "older" => m = 1
    PROVE  [by |-> b, ver |-> v, moved |-> m] \in Sound
  OBVIOUS
<1>1. PICK r \in Repair!Record : r = [by |-> b, ver |-> v, moved |-> m]
  BY DEF Repair!Record
<1>2. r.ver = v /\ r.moved = m /\ r.by = b
  BY <1>1
<1> QED  BY <1>1, <1>2 DEF Sound

LEMMA DirectoryIs ==
    \A f : f \in Directory <=> DOMAIN f \subseteq Repair!Lid /\ f \in [DOMAIN f -> Sound]
  BY DEF Directory

LEMMA EmptyDirectory == <<>> \in Directory /\ DOMAIN <<>> = {}
<1>1. <<>> \in [{} -> Sound]
  OBVIOUS
<1> QED  BY <1>1, DirectoryIs

LEMMA RepairStart == Repair!Init => RepairInv
<1> SUFFICES ASSUME Repair!Init PROVE RepairInv
  OBVIOUS
<1>1. PICK r \in Sound : r = [by |-> "older", ver |-> 0, moved |-> 0]
  BY SoundRecords
<1>2. PICK f \in [Repair!Legacy -> Sound] : f = [l \in Repair!Legacy |-> r]
  BY <1>1
<1>3. land_db = [rec |-> f, linked |-> Repair!Legacy, land_id |-> {OldLands - 1}, mark |-> FALSE]
  BY <1>1, <1>2 DEF Repair!Init, Repair!NoDb
<1>4. Repair!Legacy \subseteq Repair!Lid /\ OldLands - 1 \in Nat /\ 0 \in Repair!Lid
  BY RepairAssumption DEF Repair!Legacy, Repair!Lid
<1>5. /\ land_db.rec = f /\ land_db.linked = Repair!Legacy /\ land_db.land_id = {OldLands - 1}
      /\ land_db.mark = FALSE /\ DOMAIN land_db = {"rec", "linked", "land_id", "mark"}
  BY <1>3
<1>6. f \in Directory /\ <<>> \in Directory /\ DOMAIN f = Repair!Legacy
  BY <1>2, <1>4, DirectoryIs, EmptyDirectory
<1>7. RepairTypes
  BY <1>3, <1>4, <1>5, <1>6 DEF Repair!Init, RepairTypes
<1> QED  BY <1>5, <1>6, <1>7 DEF Repair!Init, RepairInv, CopyInv, WantedInv, Copying, Serving

\* What the starting server does before it writes lands.
LEMMA RepairReads ==
    ASSUME RepairInv, Repair!Start \/ Repair!RemoveOld \/ Repair!Move \/ Repair!PutCounter
    PROVE  RepairInv'
<1> USE DEF RepairInv, RepairTypes, CopyInv, WantedInv, Copying, Serving
<1>1. CASE Repair!Start
  BY <1>1 DEF Repair!Start
<1>2. CASE Repair!RemoveOld
  BY <1>2, EmptyDirectory DEF Repair!RemoveOld
<1>3. CASE Repair!Move
  <2>1. /\ old' = land_db.rec /\ step' = "counter" /\ step = "mv"
        /\ UNCHANGED <<lands, next_id, arg, wanted, cut>>
        /\ land_db' = [rec |-> <<>>, linked |-> {}, land_id |-> {}, mark |-> FALSE]
    BY <1>3 DEF Repair!Move, Repair!NoDb
  <2> QED  BY <2>1, EmptyDirectory
<1>4. CASE Repair!PutCounter
  <2>0. {0} \in SUBSET Nat /\ next_id \in SUBSET Nat
    OBVIOUS
  <2>1. PICK n \in SUBSET Nat : n = IF next_id = {} THEN {0} ELSE next_id
    BY <2>0, Zenon
  <2>2. land_db' = [land_db EXCEPT !.land_id = n]
    BY <1>4, <2>1 DEF Repair!PutCounter
  <2>3. land_db' = [rec |-> land_db.rec, linked |-> land_db.linked, land_id |-> n, mark |-> land_db.mark]
    BY <2>2
  <2> QED  BY <1>4, <2>1, <2>3 DEF Repair!PutCounter
<1> QED  BY <1>1, <1>2, <1>3, <1>4

\* Putting a record into a map of records, and taking one out.
LEMMA DirectoryPut ==
    \A f \in Directory, l \in Repair!Lid, r \in Sound :
        Repair!Put(f, l, r) \in Directory /\ DOMAIN Repair!Put(f, l, r) = DOMAIN f \cup {l}
  BY DirectoryIs DEF Repair!Put

LEMMA DirectoryWithout ==
    \A f \in Directory : \A l :
        Repair!Without(f, {l}) \in Directory /\ DOMAIN Repair!Without(f, {l}) = DOMAIN f \ {l}
  BY DirectoryIs DEF Repair!Without

\* A record that was read is written in the new version, shifted once if it is old.
LEMMA UpgradedSound ==
    ASSUME NEW r \in Sound
    PROVE  Repair!Upgraded(r) \in Sound /\ Repair!Upgraded(r).ver = 1
<1>1. PICK o \in {"older", "this"}, v \in {0, 1}, m \in 0 .. 1 : r = [by |-> o, ver |-> v, moved |-> m]
  BY DEF Sound, Repair!Record
<1>2. CASE v = 0
  <2>1. m = 0 /\ r.ver = 0
    BY <1>1, <1>2 DEF Sound
  <2>2. Repair!Upgraded(r) = [by |-> o, ver |-> 1, moved |-> 1]
    <3>1. Repair!Upgraded(r) = [[r EXCEPT !.ver = 1] EXCEPT !.moved = r.moved + 1]
      BY <2>1, Zenon DEF Repair!Upgraded
    <3>2. [r EXCEPT !.ver = 1] = [by |-> o, ver |-> 1, moved |-> 0]
      BY <1>1, <2>1
    <3>3. r.moved + 1 = 1
      BY <1>1, <2>1
    <3>4. [[by |-> o, ver |-> 1, moved |-> 0] EXCEPT !.moved = 1] = [by |-> o, ver |-> 1, moved |-> 1]
      OBVIOUS
    <3> QED  BY <3>1, <3>2, <3>3, <3>4
  <2> QED  BY <2>2, SoundRecords
<1>3. CASE v = 1
  BY <1>1, <1>3 DEF Sound, Repair!Upgraded
<1> QED  BY <1>2, <1>3

LEMMA RepairWrites ==
    ASSUME RepairInv, (\E l \in Repair!Lid : Repair!WriteRecord(l)) \/ Repair!WriteLink \/ Repair!Mark
    PROVE  RepairInv'
<1>0. /\ DOMAIN land_db = {"rec", "linked", "land_id", "mark"}
      /\ land_db.rec \in Directory /\ lands \in Directory /\ arg \in Repair!Lid /\ land_db.land_id \subseteq Nat
  BY DEF RepairInv, RepairTypes
<1>1. ASSUME NEW l \in Repair!Lid, Repair!WriteRecord(l) PROVE RepairInv'
  <2>1. l \in DOMAIN lands /\ lands[l] \in Sound
    BY <1>0, <1>1, DirectoryIs DEF Repair!WriteRecord
  <2>2. PICK r \in Sound : r = Repair!Upgraded(lands[l]) /\ r.ver = 1
    BY <2>1, UpgradedSound
  <2>3. land_db' = [land_db EXCEPT !.rec = Repair!Put(land_db.rec, l, r)]
    BY <1>1, <2>2 DEF Repair!WriteRecord
  <2>4. /\ land_db'.rec = Repair!Put(land_db.rec, l, r) /\ land_db'.linked = land_db.linked
        /\ land_db'.land_id = land_db.land_id /\ land_db'.mark = land_db.mark
    BY <1>0, <2>3
  <2>5. land_db'.rec \in Directory /\ DOMAIN land_db'.rec = DOMAIN land_db.rec \cup {l}
    <3>1. PICK f : f = land_db.rec /\ f \in Directory
      BY <1>0
    <3>2. Repair!Put(f, l, r) \in Directory /\ DOMAIN Repair!Put(f, l, r) = DOMAIN f \cup {l}
      BY <1>1, <2>2, <3>1, DirectoryPut
    <3> QED  BY <2>4, <3>1, <3>2
  <2>6. \A k \in DOMAIN land_db'.rec : land_db'.rec[k].ver = 1
    BY <1>1, <2>2, <2>4, <2>5 DEF Repair!WriteRecord, Repair!Put,
        RepairInv, CopyInv, Copying, Serving
  <2> QED  BY <1>1, <2>1, <2>3, <2>4, <2>5, <2>6
      DEF Repair!WriteRecord, RepairInv, RepairTypes, CopyInv, WantedInv, Copying, Serving
<1>2. CASE Repair!WriteLink
  <2>1. lands' = Repair!Without(lands, {arg})
    BY <1>2 DEF Repair!WriteLink
  <2>2. lands' \in Directory /\ DOMAIN lands' = DOMAIN lands \ {arg}
    BY <1>0, <2>1, DirectoryWithout
  <2> QED  BY <1>2, <2>2
      DEF Repair!WriteLink, RepairInv, RepairTypes, CopyInv, WantedInv, Copying, Serving
<1>3. CASE Repair!Mark
  <2>1. DOMAIN lands = {}
    BY <1>3 DEF Repair!Mark
  <2> QED  BY <1>3, <2>1
      DEF Repair!Mark, RepairInv, RepairTypes, CopyInv, WantedInv, Copying, Serving
<1> QED  BY <1>1, <1>2, <1>3

\* Handlers run while the server is up, and keep the lands that are wanted.
LEMMA HandlersKeepLands ==
    ASSUME RepairInv,
           \/ Repair!Buy \/ Repair!BuyLink \/ Repair!SellUnlink \/ Repair!Fix
           \/ \E l \in Repair!Lid : Repair!Update(l) \/ Repair!Sell(l)
    PROVE  RepairInv'
<1>0. /\ DOMAIN land_db = {"rec", "linked", "land_id", "mark"}
      /\ land_db.rec \in Directory /\ lands \in Directory /\ arg \in Repair!Lid /\ land_db.land_id \subseteq Nat
  BY DEF RepairInv, RepairTypes
<1>1. CASE Repair!Buy
  <2>1. PICK id : id = IF land_db.land_id = {} THEN 0 ELSE 1 + CHOOSE i \in land_db.land_id : TRUE
    OBVIOUS
  <2>2. id \in Repair!Lid
    BY <1>0, <1>1, <2>1, RepairAssumption DEF Repair!Buy, Repair!Lid
  <2>3. PICK v \in {0, 1} : land_db' = [land_db EXCEPT !.land_id = {id},
                !.rec = Repair!Put(land_db.rec, id, [by |-> "this", ver |-> v, moved |-> 0])]
    BY <1>1, <2>1 DEF Repair!Buy
  <2>4. PICK r \in Sound : r = [by |-> "this", ver |-> v, moved |-> 0]
    BY SoundRecords
  <2>5. /\ land_db'.rec = Repair!Put(land_db.rec, id, r) /\ land_db'.linked = land_db.linked
        /\ land_db'.land_id = {id} /\ land_db'.mark = land_db.mark
    BY <1>0, <2>3, <2>4
  <2>6. land_db'.rec \in Directory /\ DOMAIN land_db'.rec = DOMAIN land_db.rec \cup {id}
    <3>1. PICK f : f = land_db.rec /\ f \in Directory
      BY <1>0
    <3>2. Repair!Put(f, id, r) \in Directory /\ DOMAIN Repair!Put(f, id, r) = DOMAIN f \cup {id}
      BY <2>2, <2>4, <3>1, DirectoryPut
    <3> QED  BY <2>5, <3>1, <3>2
  <2>7. \A k \in DOMAIN land_db'.rec : land_db'.rec[k].by = "older" => land_db'.rec[k].ver = 1
    BY <1>1, <2>4, <2>5, <2>6 DEF Repair!Buy, Repair!Put,
        RepairInv, CopyInv, Copying, Serving
  <2>8. id \in Nat /\ arg' = id
    BY <1>1, <2>1, <2>2 DEF Repair!Lid, Repair!Buy
  <2> QED  BY <1>1, <2>2, <2>3, <2>5, <2>6, <2>7, <2>8
      DEF Repair!Buy, RepairInv, RepairTypes, CopyInv, WantedInv, Copying, Serving
<1>2. CASE Repair!BuyLink
  BY <1>2 DEF Repair!BuyLink, RepairInv, RepairTypes, CopyInv, WantedInv, Copying, Serving
<1>3. CASE Repair!SellUnlink
  BY <1>3 DEF Repair!SellUnlink, RepairInv, RepairTypes, CopyInv, WantedInv, Copying, Serving
<1>4. CASE Repair!Fix
  BY <1>4 DEF Repair!Fix, RepairInv, RepairTypes, CopyInv, WantedInv, Copying, Serving
<1>5. ASSUME NEW l \in Repair!Lid, Repair!Update(l) PROVE RepairInv'
  <2>1. l \in DOMAIN land_db.rec /\ land_db.rec[l] \in Sound
    BY <1>0, <1>5, DirectoryIs DEF Repair!Update
  <2>2. PICK r \in Sound : r = [land_db.rec[l] EXCEPT !.ver = 1] /\ r.ver = 1
    <3>1. PICK o \in {"older", "this"}, v \in {0, 1}, m \in 0 .. 1 :
             land_db.rec[l] = [by |-> o, ver |-> v, moved |-> m]
      BY <2>1 DEF Sound, Repair!Record
    <3>2. o = "older" => v = 1
      BY <1>5, <2>1, <3>1 DEF Repair!Update,
        RepairInv, CopyInv, Copying, Serving
    <3>3. [land_db.rec[l] EXCEPT !.ver = 1] = [by |-> o, ver |-> 1, moved |-> m]
      BY <3>1
    <3>4. [by |-> o, ver |-> 1, moved |-> m] \in Sound
      BY <2>1, <3>1, <3>2 DEF Sound, Repair!Record
    <3> QED  BY <3>3, <3>4
  <2>3. land_db' = [land_db EXCEPT !.rec = [land_db.rec EXCEPT ![l] = r]]
    BY <1>5, <2>2 DEF Repair!Update
  <2>4. /\ land_db'.rec = [land_db.rec EXCEPT ![l] = r] /\ land_db'.linked = land_db.linked
        /\ land_db'.land_id = land_db.land_id /\ land_db'.mark = land_db.mark
    BY <1>0, <2>3
  <2>5. land_db'.rec \in Directory /\ DOMAIN land_db'.rec = DOMAIN land_db.rec
    BY <1>0, <2>1, <2>2, <2>4, DirectoryIs
  <2>6. \A k \in DOMAIN land_db'.rec : land_db'.rec[k].by = "older" => land_db'.rec[k].ver = 1
    BY <1>5, <2>2, <2>4, <2>5 DEF Repair!Update,
        RepairInv, CopyInv, Copying, Serving
  <2> QED  BY <1>5, <2>3, <2>4, <2>5, <2>6
      DEF Repair!Update, RepairInv, RepairTypes, CopyInv, WantedInv, Copying, Serving
<1>6. ASSUME NEW l \in Repair!Lid, Repair!Sell(l) PROVE RepairInv'
  <2>1. land_db' = [land_db EXCEPT !.rec = Repair!Without(land_db.rec, {l})]
    BY <1>6 DEF Repair!Sell
  <2>2. /\ land_db'.rec = Repair!Without(land_db.rec, {l}) /\ land_db'.linked = land_db.linked
        /\ land_db'.land_id = land_db.land_id /\ land_db'.mark = land_db.mark
    BY <1>0, <2>1
  <2>3. land_db'.rec \in Directory /\ DOMAIN land_db'.rec = DOMAIN land_db.rec \ {l}
    <3>1. PICK f : f = land_db.rec /\ f \in Directory
      BY <1>0
    <3> QED  BY <2>2, <3>1, DirectoryWithout
  <2>4. \A k \in DOMAIN land_db'.rec : land_db'.rec[k].by = "older" => land_db'.rec[k].ver = 1
    BY <1>6, <2>2, <2>3 DEF Repair!Sell, Repair!Without,
        RepairInv, CopyInv, Copying, Serving
  <2> QED  BY <1>6, <2>1, <2>2, <2>3, <2>4
      DEF Repair!Sell, RepairInv, RepairTypes, CopyInv, WantedInv, Copying, Serving
<1> QED  BY <1>1, <1>2, <1>3, <1>4, <1>5, <1>6

LEMMA RepairStep == RepairInv /\ [Repair!Next]_repair => RepairInv'
<1> SUFFICES ASSUME RepairInv, [Repair!Next]_repair PROVE RepairInv'
  OBVIOUS
<1>1. CASE UNCHANGED repair
  BY <1>1 DEF repair, RepairInv, RepairTypes, CopyInv, WantedInv
<1>2. CASE Repair!Die
  BY <1>2, EmptyDirectory
     DEF Repair!Die, RepairInv, RepairTypes, CopyInv, WantedInv, Copying, Serving
<1>3. CASE Repair!Next
  BY <1>2, <1>3, RepairReads, RepairWrites, HandlersKeepLands DEF Repair!Next
<1> QED  BY <1>1, <1>3

(***************************************************************************)
(* A land bought is in the database or in land_old wherever the process    *)
(* dies, and in the database whenever the server runs, unless a repair cut *)
(* short is begun again, which removes land_old (land/data.hpp:391-436):   *)
(* for any number of lands, old ones and deaths.                           *)
(***************************************************************************)
THEOREM BoughtLandsSurvive == ServicesSpec => []LandsSurviveRepair
<1>1. ServicesInit => RepairInv
  BY RepairStart DEF ServicesInit
<1>2. [ServicesNext]_servicesVars => [Repair!Next]_repair
  BY DEF ServicesNext, Rest, servicesVars
<1>3. RepairInv => LandsSurviveRepair
  BY DEF RepairInv, RepairTypes, WantedInv, Copying, Serving, LandsSurviveRepair,
         Repair!LandsSurviveRepair
<1> QED  BY <1>1, <1>2, <1>3, RepairStep, PTL DEF ServicesSpec

(***************************************************************************)
(* When the repair writes its mark the lands are those it read, the chunk  *)
(* lists name exactly them, and each has its version and was shifted once  *)
(* if an older version wrote it (land/data.hpp:410-436).                   *)
(***************************************************************************)
THEOREM RepairDoesItsWork == ServicesSpec => RepairCures
<1> DEFINE Cured ==
      land_db'.mark /\ ~land_db.mark =>
        /\ land_db'.linked = DOMAIN land_db'.rec /\ DOMAIN land_db'.rec = DOMAIN old'
        /\ \A l \in DOMAIN land_db'.rec :
              /\ land_db'.rec[l].ver = 1
              /\ land_db'.rec[l].by = "older" => land_db'.rec[l].moved = 1
<1>1. ServicesInit => RepairInv
  BY RepairStart DEF ServicesInit
<1>2. [ServicesNext]_servicesVars => [Repair!Next]_repair
  BY DEF ServicesNext, Rest, servicesVars
<1>3. RepairInv /\ [Repair!Next]_repair => [Cured]_(Repair!repairVars)
  <2> SUFFICES ASSUME RepairInv, [Repair!Next]_repair, land_db'.mark, ~land_db.mark PROVE Cured
    OBVIOUS
  <2> USE DEF RepairInv, RepairTypes
  <2>1. Repair!Mark
    <3>1. CASE Repair!Start \/ Repair!RemoveOld \/ Repair!BuyLink \/ Repair!SellUnlink \/ Repair!Fix
      BY <3>1 DEF Repair!Start, Repair!RemoveOld, Repair!BuyLink, Repair!SellUnlink, Repair!Fix
    <3>2. CASE Repair!Move \/ Repair!PutCounter \/ Repair!WriteLink \/ Repair!Die
      BY <3>2 DEF Repair!Move, Repair!NoDb, Repair!PutCounter, Repair!WriteLink, Repair!Die
    <3>4. CASE Repair!Buy
      <4>1. PICK i : i = IF land_db.land_id = {} THEN 0 ELSE 1 + CHOOSE k \in land_db.land_id : TRUE
        OBVIOUS
      <4>3. PICK v \in {0, 1} : land_db' = [land_db EXCEPT !.land_id = {i},
                    !.rec = Repair!Put(land_db.rec, i, [by |-> "this", ver |-> v, moved |-> 0])]
        BY <3>4, <4>1 DEF Repair!Buy
      <4>2. land_db'.mark = land_db.mark
        BY <4>3
      <4> QED  BY <4>2
    <3>3. CASE \E l \in Repair!Lid : Repair!WriteRecord(l) \/ Repair!Update(l) \/ Repair!Sell(l)
      BY <3>3 DEF Repair!WriteRecord, Repair!Update, Repair!Sell
    <3> QED  BY <3>1, <3>2, <3>3, <3>4 DEF Repair!Next, repair
  <2>2. DOMAIN lands = {} /\ step = "write" /\ UNCHANGED old
        /\ land_db'.rec = land_db.rec /\ land_db'.linked = land_db.linked
    BY <2>1 DEF Repair!Mark
  <2>3. \A l \in DOMAIN land_db.rec : land_db.rec[l] \in Sound
    BY DirectoryIs
  <2> QED  BY <2>2, <2>3 DEF CopyInv, Copying, Sound
<1>4. ServicesSpec => [][Cured]_(Repair!repairVars)
  <2> HIDE DEF Cured
  <2> QED  BY <1>1, <1>2, <1>3, RepairStep, PTL DEF ServicesSpec
<1> QED  BY <1>4 DEF RepairCures, Repair!RepairCures

-----------------------------------------------------------------------------
(***************************************************************************)
(* Warps and homes.  Between the two writes of a command the list of one   *)
(* side may be behind, never the records: what either list names has its   *)
(* record, and the record memory has of it.                                *)
(***************************************************************************)
WarpLists == {t \in Seq(WarpName) : Len(t) <= MaxWarps}

HomeLists == {h \in Seq(WarpName \X Place) : Len(h) <= MaxHomes}

Records == UNION {[D -> Place] : D \in SUBSET WarpName}

WarpTypes ==
    /\ tp_db = [warps |-> tp_db.warps, warp |-> tp_db.warp, home |-> tp_db.home]
    /\ warp_list \in WarpLists /\ tp_db.warps \in WarpLists
    /\ warp \in Records /\ tp_db.warp \in Records
    /\ tp_db.home \in [HomePlayer -> HomeLists]
    /\ write \in {[kind |-> "none"], [kind |-> "list"]} \cup [kind : {"delete"}, name : WarpName]

ListedInv ==
    /\ \A n \in Range(warp_list) : n \in DOMAIN warp /\ n \in DOMAIN tp_db.warp /\ warp[n] = tp_db.warp[n]
    /\ Range(tp_db.warps) \subseteq DOMAIN tp_db.warp
    /\ write.kind # "list" => warp_list = tp_db.warps
    /\ write.kind = "delete" => write.name \notin Range(warp_list)

HomesInv ==
    DOMAIN ply_homes \subseteq HomePlayer /\ ply_homes = [p \in DOMAIN ply_homes |-> tp_db.home[p]]

WarpInv == WarpTypes /\ ListedInv /\ HomesInv

LEMMA RecordsAre ==
    \A f : f \in Records <=> DOMAIN f \subseteq WarpName /\ f \in [DOMAIN f -> Place]
  BY DEF Records

\* Writing the record of a name, and deleting it.
LEMMA RecordPut ==
    \A f \in Records, n \in WarpName, a \in Place : \E r \in Records :
        /\ r = Warps!Put(f, n, a) /\ DOMAIN r = DOMAIN f \cup {n}
        /\ \A m \in DOMAIN r : r[m] = IF m = n THEN a ELSE f[m]
<1> SUFFICES ASSUME NEW f \in Records, NEW n \in WarpName, NEW a \in Place
    PROVE  \E r \in Records :
        /\ r = Warps!Put(f, n, a) /\ DOMAIN r = DOMAIN f \cup {n}
        /\ \A m \in DOMAIN r : r[m] = IF m = n THEN a ELSE f[m]
  OBVIOUS
<1>1. PICK r : r = Warps!Put(f, n, a)
  OBVIOUS
<1>2. /\ DOMAIN r = DOMAIN f \cup {n} /\ r \in [DOMAIN r -> Place] /\ DOMAIN r \subseteq WarpName
      /\ \A m \in DOMAIN r : r[m] = IF m = n THEN a ELSE f[m]
  BY <1>1, RecordsAre DEF Warps!Put
<1> QED  BY <1>1, <1>2, RecordsAre

LEMMA RecordWithout ==
    \A f \in Records : \A n : \E r \in Records :
        /\ r = Warps!Without(f, {n}) /\ DOMAIN r = DOMAIN f \ {n}
        /\ \A m \in DOMAIN r : r[m] = f[m]
<1> SUFFICES ASSUME NEW f \in Records, NEW n
    PROVE  \E r \in Records :
        /\ r = Warps!Without(f, {n}) /\ DOMAIN r = DOMAIN f \ {n}
        /\ \A m \in DOMAIN r : r[m] = f[m]
  OBVIOUS
<1>1. PICK r : r = Warps!Without(f, {n})
  OBVIOUS
<1>2. /\ DOMAIN r = DOMAIN f \ {n} /\ r \in [DOMAIN r -> Place] /\ DOMAIN r \subseteq WarpName
      /\ \A m \in DOMAIN r : r[m] = f[m]
  BY <1>1, RecordsAre DEF Warps!Without
<1> QED  BY <1>1, <1>2, RecordsAre

\* Deleting a name leaves the other names of the list, and no others.
LEMMA RemovedIs ==
    ASSUME NEW s \in WarpLists, NEW n
    PROVE  Warps!Removed(s, n) \in WarpLists /\ Range(Warps!Removed(s, n)) \subseteq Range(s) \ {n}
<1> DEFINE F == [q \in (1 .. Len(s)) \X Seq(WarpName) |->
                    IF s[q[1]] = n THEN q[2] ELSE Append(q[2], s[q[1]])]
           Fold(f) == f = [i \in 0 .. Len(s) |->
                             IF i = 0 THEN <<>>
                             ELSE IF s[i] = n THEN f[i - 1] ELSE Append(f[i - 1], s[i])]
<1>1. s \in Seq(WarpName) /\ Len(s) \in Nat /\ Len(s) <= MaxWarps /\ \A i \in 1 .. Len(s) : s[i] \in WarpName
  BY LenProperties, ElementOfSeq DEF WarpLists
<1>2. F \in [(1 .. Len(s)) \X Seq(WarpName) -> Seq(WarpName)]
  <2>1. ASSUME NEW q \in (1 .. Len(s)) \X Seq(WarpName)
        PROVE  (IF s[q[1]] = n THEN q[2] ELSE Append(q[2], s[q[1]])) \in Seq(WarpName)
    <3>1. q[2] \in Seq(WarpName) /\ s[q[1]] \in WarpName
      BY <1>1
    <3>2. Append(q[2], s[q[1]]) \in Seq(WarpName)
      BY <3>1, AppendProperties
    <3> QED  BY <3>1, <3>2
  <2> QED  BY <2>1
<1>3. PICK f \in [0 .. Len(s) -> Seq(WarpName)] :
         f[0] = <<>> /\ \A i \in 1 .. Len(s) : f[i] = F[<<i, f[i - 1]>>]
  <2>1. PICK S : S = Seq(WarpName)
    OBVIOUS
  <2>0. <<>> \in Seq(WarpName)
    OBVIOUS
  <2>2. PICK a \in S : a = <<>>
    BY <2>0, <2>1
  <2>3. PICK m \in Nat : m = Len(s)
    BY <1>1
  <2> HIDE DEF F
  <2>4. F \in [(1 .. m) \X S -> S]
    BY <1>2, <2>1, <2>3
  <2>5. Stepped(m, S, a, F) # {}
    BY <2>2, <2>3, <2>4, StepByStep
  <2> QED  BY <2>1, <2>2, <2>3, <2>5 DEF Stepped
<1>4. Fold(f)
  <2> DEFINE g == [i \in 0 .. Len(s) |->
                     IF i = 0 THEN <<>>
                     ELSE IF s[i] = n THEN f[i - 1] ELSE Append(f[i - 1], s[i])]
  <2>1. ASSUME NEW i \in 0 .. Len(s) PROVE f[i] = g[i]
    <3>1. CASE i = 0
      BY <1>3, <3>1
    <3>2. CASE i # 0
      <4>1. i \in 1 .. Len(s) /\ f[i - 1] \in Seq(WarpName)
        BY <1>1, <1>3, <3>2
      <4>2. F[<<i, f[i - 1]>>] = IF s[i] = n THEN f[i - 1] ELSE Append(f[i - 1], s[i])
        BY <4>1
      <4> QED  BY <1>3, <3>2, <4>1, <4>2
    <3> QED  BY <3>1, <3>2
  <2> QED  BY <1>3, <2>1
<1>5. PICK left : Fold(left) /\ Warps!Removed(s, n) = left[Len(s)]
  <2>1. Warps!Removed(s, n) = (CHOOSE h : Fold(h))[Len(s)]
    BY DEF Warps!Removed
  <2> HIDE DEF Fold
  <2>2. Fold(CHOOSE h : Fold(h))
    BY <1>4, Zenon
  <2> QED  BY <2>1, <2>2, Zenon
<1>6. PICK t : t = left[Len(s)] /\ t \in Seq(Range(s) \ {n}) /\ Len(t) <= Len(s)
  BY <1>1, <1>5, WithoutElement
<1>7. Len(t) \in Nat /\ \A j \in 1 .. Len(t) : t[j] \in Range(s) \ {n}
  BY <1>6, LenProperties, ElementOfSeq
<1>8. Range(s) \subseteq WarpName
  BY <1>1 DEF Range
<1>9. t \in Seq(WarpName)
  BY <1>6, <1>8
<1>10. Range(t) \subseteq Range(s) \ {n}
  BY <1>6, <1>7 DEF Range
<1> QED  BY <1>1, <1>5, <1>6, <1>7, <1>9, <1>10, WarpAssumption DEF WarpLists

\* The lists the handlers make are lists again.
LEMMA HomeListsGrow ==
    ASSUME NEW h \in HomeLists
    PROVE  /\ Len(h) < MaxHomes => \A x \in WarpName \X Place : Append(h, x) \in HomeLists
           /\ \A i \in DOMAIN h : Warps!RemoveAt(h, i) \in HomeLists
<1>1. h \in Seq(WarpName \X Place) /\ Len(h) <= MaxHomes /\ Len(h) \in Nat
  BY LenProperties DEF HomeLists
<1>2. ASSUME Len(h) < MaxHomes, NEW x \in WarpName \X Place PROVE Append(h, x) \in HomeLists
  <2>1. PICK S : S = WarpName \X Place
    OBVIOUS
  <2>2. h \in Seq(S) /\ x \in S
    BY <1>1, <2>1
  <2>3. Append(h, x) \in Seq(S) /\ Len(Append(h, x)) = Len(h) + 1
    BY <2>2, AppendProperties
  <2> QED  BY <1>1, <1>2, <2>1, <2>3, WarpAssumption DEF HomeLists
<1>3. ASSUME NEW i \in DOMAIN h PROVE Warps!RemoveAt(h, i) \in HomeLists
  <2>1. PICK S : S = WarpName \X Place
    OBVIOUS
  <2>2. RemoveAt(h, i) \in Seq(S) /\ Len(RemoveAt(h, i)) = Len(h) - 1
    BY <1>1, <2>1, CutAt
  <2>3. Warps!RemoveAt(h, i) = RemoveAt(h, i)
    BY DEF Warps!RemoveAt, RemoveAt
  <2> QED  BY <1>1, <2>1, <2>2, <2>3, WarpAssumption DEF HomeLists
<1> QED  BY <1>2, <1>3

LEMMA AppendRange ==
    ASSUME NEW S, NEW t \in Seq(S), NEW n \in S
    PROVE  Append(t, n) \in Seq(S) /\ Len(Append(t, n)) = Len(t) + 1
           /\ Range(Append(t, n)) \subseteq Range(t) \cup {n}
<1>1. /\ Append(t, n) \in Seq(S) /\ Len(Append(t, n)) = Len(t) + 1 /\ Len(t) \in Nat
      /\ \A i \in 1 .. Len(t) : Append(t, n)[i] = t[i]
      /\ Append(t, n)[Len(t) + 1] = n
  BY AppendProperties, LenProperties
<1>2. DOMAIN Append(t, n) = 1 .. Len(t) + 1 /\ DOMAIN t = 1 .. Len(t)
  BY <1>1, LenProperties
<1>3. ASSUME NEW i \in 1 .. Len(t) + 1 PROVE Append(t, n)[i] \in Range(t) \cup {n}
  <2>1. i \in 1 .. Len(t) \/ i = Len(t) + 1
    BY <1>1
  <2> QED  BY <1>1, <1>2, <2>1 DEF Range
<1> QED  BY <1>1, <1>2, <1>3 DEF Range

LEMMA WarpStart == Warps!Init => WarpInv
<1> SUFFICES ASSUME Warps!Init PROVE WarpInv
  OBVIOUS
<1>1. <<>> \in WarpLists /\ <<>> \in HomeLists /\ <<>> \in Records /\ Range(<<>>) = {}
  <2>1. <<>> \in [{} -> Place]
    OBVIOUS
  <2>2. <<>> \in Records
    BY <2>1, RecordsAre
  <2>3. <<>> \in Seq(WarpName) /\ <<>> \in Seq(WarpName \X Place) /\ Len(<<>>) = 0
    OBVIOUS
  <2>4. <<>> \in WarpLists /\ <<>> \in HomeLists
    BY <2>3, WarpAssumption DEF WarpLists, HomeLists
  <2>5. Range(<<>>) = {}
    BY DEF Range
  <2> QED  BY <2>2, <2>4, <2>5
<1>2. PICK h \in [HomePlayer -> HomeLists] : h = [p \in HomePlayer |-> <<>>]
  BY <1>1
<1>3. tp_db = [warps |-> <<>>, warp |-> <<>>, home |-> h]
  BY <1>2 DEF Warps!Init
<1>4. tp_db.warps = <<>> /\ tp_db.warp = <<>> /\ tp_db.home = h
  BY <1>3
<1>5. warp_list = <<>> /\ warp = <<>> /\ ply_homes = <<>> /\ write = [kind |-> "none"]
  BY DEF Warps!Init, Warps!NoWrite
<1>6. HomesInv
  BY <1>5 DEF HomesInv
<1> QED  BY <1>1, <1>3, <1>4, <1>5, <1>6 DEF WarpInv, WarpTypes, ListedInv

LEMMA WarpAdded ==
    ASSUME WarpInv, NEW n \in WarpName, NEW spot \in Place, Warps!add_warp(n, spot)
    PROVE  WarpInv'
<1>1. WarpTypes /\ ListedInv /\ HomesInv
  BY DEF WarpInv
<1>2. PICK r \in Records : r = Warps!Put(tp_db.warp, n, spot) /\ DOMAIN r = DOMAIN tp_db.warp \cup {n}
         /\ \A m \in DOMAIN r : r[m] = IF m = n THEN spot ELSE tp_db.warp[m]
  BY <1>1, RecordPut DEF WarpTypes
<1>3. PICK w \in Records : w = Warps!Put(warp, n, spot) /\ DOMAIN w = DOMAIN warp \cup {n}
         /\ \A m \in DOMAIN w : w[m] = IF m = n THEN spot ELSE warp[m]
  <2>1. PICK w : w = Warps!Put(warp, n, spot)
    OBVIOUS
  <2>2. /\ DOMAIN w = DOMAIN warp \cup {n} /\ w \in [DOMAIN w -> Place] /\ DOMAIN w \subseteq WarpName
        /\ \A m \in DOMAIN w : w[m] = IF m = n THEN spot ELSE warp[m]
    BY <1>1, <2>1, RecordsAre DEF Warps!Put, WarpTypes
  <2> QED  BY <2>1, <2>2, RecordsAre
<1>4. /\ tp_db' = [tp_db EXCEPT !.warp = r] /\ warp' = w /\ write' = [kind |-> "list"]
      /\ warp_list' = Append(warp_list, n) /\ UNCHANGED ply_homes /\ Len(warp_list) < MaxWarps
      /\ write = [kind |-> "none"]
  BY <1>2, <1>3 DEF Warps!add_warp, Warps!NoWrite
<1>5. tp_db' = [warps |-> tp_db.warps, warp |-> r, home |-> tp_db.home]
  BY <1>1, <1>4 DEF WarpTypes
<1>6. tp_db'.warps = tp_db.warps /\ tp_db'.warp = r /\ tp_db'.home = tp_db.home
  BY <1>5
<1>7. PICK t \in WarpLists : t = Append(warp_list, n) /\ Range(t) \subseteq Range(warp_list) \cup {n}
  <2>1. warp_list \in Seq(WarpName) /\ Len(warp_list) \in Nat
    BY <1>1, LenProperties DEF WarpTypes, WarpLists
  <2>2. Append(warp_list, n) \in Seq(WarpName) /\ Len(Append(warp_list, n)) = Len(warp_list) + 1
        /\ Range(Append(warp_list, n)) \subseteq Range(warp_list) \cup {n}
    BY <2>1, AppendRange
  <2>3. Append(warp_list, n) \in WarpLists
    BY <1>4, <2>1, <2>2, WarpAssumption DEF WarpLists
  <2> QED  BY <2>2, <2>3
<1>8. WarpTypes'
  BY <1>1, <1>2, <1>3, <1>4, <1>5, <1>6, <1>7 DEF WarpTypes
<1>9. \A m \in Range(t) : m \in DOMAIN w /\ m \in DOMAIN r /\ w[m] = r[m]
  BY <1>1, <1>2, <1>3, <1>7 DEF ListedInv
<1>10. ListedInv'
  BY <1>1, <1>2, <1>3, <1>4, <1>6, <1>7, <1>9 DEF ListedInv
<1>11. HomesInv'
  BY <1>1, <1>4, <1>6 DEF HomesInv
<1> QED  BY <1>8, <1>10, <1>11 DEF WarpInv

LEMMA WarpDeleted ==
    ASSUME WarpInv, NEW n \in WarpName, Warps!del_warp(n)
    PROVE  WarpInv'
<1>1. WarpTypes /\ ListedInv /\ HomesInv
  BY DEF WarpInv
<1>2. PICK t \in WarpLists : t = Warps!Removed(warp_list, n) /\ Range(t) \subseteq Range(warp_list) \ {n}
  BY <1>1, RemovedIs DEF WarpTypes
<1>3. PICK d \in [kind : {"delete"}, name : WarpName] : d = [kind |-> "delete", name |-> n]
  OBVIOUS
<1>4. /\ warp_list' = t /\ tp_db' = [tp_db EXCEPT !.warps = t] /\ write' = d
      /\ UNCHANGED <<warp, ply_homes>> /\ write = [kind |-> "none"]
  BY <1>2, <1>3 DEF Warps!del_warp, Warps!NoWrite
<1>5. tp_db' = [warps |-> t, warp |-> tp_db.warp, home |-> tp_db.home]
  BY <1>1, <1>4 DEF WarpTypes
<1>6. tp_db'.warps = t /\ tp_db'.warp = tp_db.warp /\ tp_db'.home = tp_db.home
  BY <1>5
<1>7. WarpTypes'
  BY <1>1, <1>2, <1>3, <1>4, <1>5, <1>6 DEF WarpTypes
<1>8. write'.kind = "delete" /\ write'.name = n
  BY <1>3, <1>4
<1>9. ListedInv'
  BY <1>1, <1>2, <1>4, <1>6, <1>8 DEF ListedInv
<1>10. HomesInv'
  BY <1>1, <1>4, <1>6 DEF HomesInv
<1> QED  BY <1>7, <1>9, <1>10 DEF WarpInv

LEMMA WarpWritten == ASSUME WarpInv, Warps!SecondWrite PROVE WarpInv'
<1>1. WarpTypes /\ ListedInv /\ HomesInv
  BY DEF WarpInv
<1>2. write' = [kind |-> "none"] /\ write'.kind = "none" /\ UNCHANGED <<warp_list, warp, ply_homes>>
  BY DEF Warps!SecondWrite, Warps!NoWrite
<1>3. CASE write.kind = "list"
  <2>1. tp_db' = [tp_db EXCEPT !.warps = warp_list]
    BY <1>3 DEF Warps!SecondWrite
  <2>2. tp_db' = [warps |-> warp_list, warp |-> tp_db.warp, home |-> tp_db.home]
    BY <1>1, <2>1 DEF WarpTypes
  <2>3. tp_db'.warps = warp_list /\ tp_db'.warp = tp_db.warp /\ tp_db'.home = tp_db.home
    BY <2>2
  <2> QED  BY <1>1, <1>2, <2>2, <2>3 DEF WarpInv, WarpTypes, ListedInv, HomesInv
<1>4. CASE write.kind # "list"
  <2>1. tp_db' = [tp_db EXCEPT !.warp = Warps!Without(tp_db.warp, {write.name})]
    BY <1>4 DEF Warps!SecondWrite
  <2>2. write.kind = "delete"
    BY <1>1, <1>4 DEF WarpTypes, Warps!SecondWrite, Warps!NoWrite
  <2>3. PICK r \in Records : r = Warps!Without(tp_db.warp, {write.name})
           /\ DOMAIN r = DOMAIN tp_db.warp \ {write.name} /\ \A m \in DOMAIN r : r[m] = tp_db.warp[m]
    BY <1>1, RecordWithout DEF WarpTypes
  <2>4. tp_db' = [warps |-> tp_db.warps, warp |-> r, home |-> tp_db.home]
    BY <1>1, <2>1, <2>3 DEF WarpTypes
  <2>5. tp_db'.warps = tp_db.warps /\ tp_db'.warp = r /\ tp_db'.home = tp_db.home
    BY <2>4
  <2>6. WarpTypes'
    BY <1>1, <1>2, <2>3, <2>4, <2>5 DEF WarpTypes
  <2>7. warp_list = tp_db.warps /\ write.name \notin Range(warp_list)
    BY <1>1, <1>4, <2>2 DEF ListedInv
  <2>8. ListedInv'
    BY <1>1, <1>2, <2>3, <2>5, <2>7 DEF ListedInv
  <2> QED  BY <1>1, <1>2, <2>5, <2>6, <2>8 DEF WarpInv, HomesInv
<1> QED  BY <1>3, <1>4

\* Homes are saved as they are kept.
LEMMA HomeSaved ==
    ASSUME WarpInv, NEW p \in HomePlayer, NEW h \in HomeLists, Warps!SaveHomes(p, h),
           UNCHANGED <<warp_list, warp, write>>
    PROVE  WarpInv'
<1>1. WarpTypes /\ ListedInv /\ HomesInv
  BY DEF WarpInv
<1>2. PICK k \in [HomePlayer -> HomeLists] : k = [tp_db.home EXCEPT ![p] = h]
  BY <1>1 DEF WarpTypes
<1>3. tp_db' = [warps |-> tp_db.warps, warp |-> tp_db.warp, home |-> k]
  BY <1>1, <1>2 DEF WarpTypes, Warps!SaveHomes
<1>4. tp_db'.warps = tp_db.warps /\ tp_db'.warp = tp_db.warp /\ tp_db'.home = k
  BY <1>3
<1>5. WarpTypes' /\ ListedInv'
  BY <1>1, <1>2, <1>3, <1>4 DEF WarpTypes, ListedInv
<1>6. ply_homes' = [q \in DOMAIN ply_homes \cup {p} |-> IF q = p THEN h ELSE ply_homes[q]]
  BY DEF Warps!SaveHomes, Warps!Put
<1>7. \A q \in DOMAIN ply_homes \cup {p} : (IF q = p THEN h ELSE ply_homes[q]) = k[q]
  BY <1>1, <1>2 DEF HomesInv, WarpTypes
<1>8. HomesInv'
  BY <1>1, <1>4, <1>6, <1>7 DEF HomesInv
<1> QED  BY <1>5, <1>8 DEF WarpInv

LEMMA HomesUsed ==
    ASSUME WarpInv, NEW p \in HomePlayer, Warps!Home(p) \/ Warps!LeaveHomes(p)
    PROVE  WarpInv'
<1>1. WarpTypes /\ ListedInv /\ HomesInv
  BY DEF WarpInv
<1>2. PICK h \in HomeLists : h = Warps!HomesOf(p) /\ h = tp_db.home[p]
  BY <1>1 DEF Warps!HomesOf, HomesInv, WarpTypes
<1>3. CASE UNCHANGED <<warp_list, warp, write, tp_db>> /\ ply_homes' = Warps!Put(ply_homes, p, h)
  <2>1. ply_homes' = [q \in DOMAIN ply_homes \cup {p} |-> IF q = p THEN h ELSE ply_homes[q]]
    BY <1>3 DEF Warps!Put
  <2>2. \A q \in DOMAIN ply_homes \cup {p} : (IF q = p THEN h ELSE ply_homes[q]) = tp_db.home[q]
    BY <1>1, <1>2 DEF HomesInv
  <2>3. HomesInv'
    BY <1>1, <1>3, <2>1, <2>2 DEF HomesInv
  <2> QED  BY <1>1, <1>3, <2>3 DEF WarpInv, WarpTypes, ListedInv
<1>4. CASE Warps!LeaveHomes(p)
  BY <1>1, <1>4 DEF Warps!LeaveHomes, Warps!Without, WarpInv, WarpTypes, ListedInv, HomesInv
<1>5. CASE Warps!Home(p)
  <2>1. \/ Len(h) < MaxHomes /\ \E n \in WarpName, spot \in Place : Warps!SaveHomes(p, Append(h, <<n, spot>>))
        \/ \E i \in DOMAIN h : Warps!SaveHomes(p, Warps!RemoveAt(h, i))
        \/ ply_homes' = Warps!Put(ply_homes, p, h) /\ UNCHANGED tp_db
    BY <1>2, <1>5 DEF Warps!Home
  <2>2. UNCHANGED <<warp_list, warp, write>>
    BY <1>5 DEF Warps!Home
  <2>3. ASSUME Len(h) < MaxHomes, NEW n \in WarpName, NEW spot \in Place,
               Warps!SaveHomes(p, Append(h, <<n, spot>>))
        PROVE  WarpInv'
    <3>1. PICK g \in HomeLists : g = Append(h, <<n, spot>>)
      BY <2>3, HomeListsGrow
    <3>2. Warps!SaveHomes(p, g)
      BY <2>3, <3>1
    <3> QED  BY <2>2, <3>2, HomeSaved
  <2>4. ASSUME NEW i \in DOMAIN h, Warps!SaveHomes(p, Warps!RemoveAt(h, i)) PROVE WarpInv'
    <3>1. PICK g \in HomeLists : g = Warps!RemoveAt(h, i)
      BY HomeListsGrow
    <3>2. Warps!SaveHomes(p, g)
      BY <2>4, <3>1
    <3> QED  BY <2>2, <3>2, HomeSaved
  <2> QED  BY <1>3, <2>1, <2>2, <2>3, <2>4
<1> QED  BY <1>4, <1>5

\* A death: what is loaded is what was saved.
LEMMA WarpLoaded == ASSUME WarpInv, Warps!DieAndLoad PROVE WarpInv'
<1>1. WarpTypes /\ ListedInv /\ HomesInv
  BY DEF WarpInv
<1>2. Warps!Range(tp_db.warps) = Range(tp_db.warps)
  BY DEF Warps!Range, Range
<1>3. PICK w \in Records : DOMAIN w = Range(tp_db.warps) /\ (\A n \in DOMAIN w : w[n] = tp_db.warp[n])
         /\ w = [n \in Range(tp_db.warps) \cap DOMAIN tp_db.warp |-> tp_db.warp[n]]
  BY <1>1, RecordsAre DEF WarpTypes, ListedInv
<1>4. /\ warp_list' = tp_db.warps /\ warp' = w /\ ply_homes' = <<>> /\ UNCHANGED tp_db
      /\ write' = [kind |-> "none"] /\ write'.kind = "none"
  BY <1>2, <1>3 DEF Warps!DieAndLoad, Warps!NoWrite
<1>5. WarpTypes'
  BY <1>1, <1>3, <1>4 DEF WarpTypes
<1>6. ListedInv'
  BY <1>1, <1>3, <1>4 DEF ListedInv
<1>7. HomesInv'
  BY <1>4 DEF HomesInv
<1> QED  BY <1>5, <1>6, <1>7 DEF WarpInv

LEMMA WarpStep == WarpInv /\ [Warps!Next]_warps => WarpInv'
<1> SUFFICES ASSUME WarpInv, [Warps!Next]_warps PROVE WarpInv'
  OBVIOUS
<1>1. CASE UNCHANGED warps
  BY <1>1 DEF warps, WarpInv, WarpTypes, ListedInv, HomesInv
<1>2. CASE Warps!Next
  BY <1>2, WarpAdded, WarpDeleted, WarpWritten, HomesUsed, WarpLoaded DEF Warps!Next
<1> QED  BY <1>1, <1>2

(***************************************************************************)
(* Wherever the process dies, every warp of the saved list has its record; *)
(* and between commands memory and database say the same of the warps that *)
(* are listed and of the homes in use (tp/main.cpp:67-102): for any names, *)
(* places and players, and lists of any length.                            *)
(***************************************************************************)
THEOREM WarpsOutliveDeaths == ServicesSpec => []WarpsSurvive
<1>1. ServicesInit => WarpInv
  BY WarpStart DEF ServicesInit
<1>2. [ServicesNext]_servicesVars => [Warps!Next]_warps
  BY DEF ServicesNext, Rest, servicesVars
<1>3. WarpInv => WarpsSurvive
  <2> SUFFICES ASSUME WarpInv PROVE WarpsSurvive
    OBVIOUS
  <2>1. Warps!Range(tp_db.warps) = Range(tp_db.warps) /\ Warps!Range(warp_list) = Range(warp_list)
    BY DEF Warps!Range, Range
  <2>2. write = Warps!NoWrite => write.kind = "none"
    BY DEF Warps!NoWrite
  <2>3. \A p \in DOMAIN ply_homes : ply_homes[p] = tp_db.home[p]
    BY DEF WarpInv, HomesInv
  <2> QED  BY <2>1, <2>2, <2>3 DEF WarpInv, ListedInv, WarpsSurvive, Warps!WarpsSurvive
<1> QED  BY <1>1, <1>2, <1>3, WarpStep, PTL DEF ServicesSpec

-----------------------------------------------------------------------------
(***************************************************************************)
(* The types of all parts, most of them from the invariants above.         *)
(***************************************************************************)
Untils == {0} \cup {c + t : c \in Clock, t \in BanTimes}

BansTypes ==
    /\ BansInv
    /\ DOMAIN until \subseteq PlayerName /\ until \in [DOMAIN until -> Untils]
    /\ DOMAIN known \subseteq Account /\ known \in [DOMAIN known -> PlayerName]
    /\ tie \in [DOMAIN tie -> PlayerName] /\ banned \in [DOMAIN banned -> PlayerName]
    /\ called \in [Account -> PlayerName] /\ now \in Clock

LEMMA BansTypesStart == Bans!Init => BansTypes
<1> SUFFICES ASSUME Bans!Init PROVE BansTypes
  OBVIOUS
<1>1. DOMAIN <<>> = {} /\ <<>> \in [{} -> PlayerName] /\ <<>> \in [{} -> Untils]
  OBVIOUS
<1> QED  BY <1>1, BansStart DEF BansTypes, Bans!Init

LEMMA BansTypesStep == BansTypes /\ [Bans!Next]_bans => BansTypes'
<1> SUFFICES ASSUME BansTypes, [Bans!Next]_bans PROVE BansTypes'
  OBVIOUS
<1>1. BansInv'
  BY BansStep DEF BansTypes
<1>2. ASSUME NEW a \in Account, Bans!Authenticate(a) \/ Bans!Join(a) \/ Bans!DieInLookUp(a)
      PROVE  BansTypes'
  <2>1. called[a] \in PlayerName /\ UNCHANGED <<called, now, tie, banned>>
    BY <1>2 DEF BansTypes, Bans!Authenticate, Bans!Join, Bans!DieInLookUp
  <2>2. \E S : until' = [n \in DOMAIN until \ S |-> until[n]]
    <3>1. CASE until' = until
      <4>1. until = [n \in DOMAIN until \ {} |-> until[n]]
        BY DEF BansTypes
      <4> QED  BY <3>1, <4>1
    <3> QED  BY <1>2, <3>1 DEF Bans!Authenticate, Bans!Join, Bans!DieInLookUp, Bans!LookUp, Bans!Without
  <2>3. DOMAIN until' \subseteq PlayerName /\ until' \in [DOMAIN until' -> Untils]
    BY <2>2 DEF BansTypes
  <2>4. known' = known \/ known' = [b \in DOMAIN known \cup {a} |-> IF b = a THEN called[a] ELSE known[b]]
    BY <1>2 DEF Bans!Authenticate, Bans!Join, Bans!DieInLookUp, Bans!LookUp, Bans!Put
  <2>5. DOMAIN known' \subseteq Account /\ known' \in [DOMAIN known' -> PlayerName]
    BY <2>1, <2>4 DEF BansTypes
  <2> QED  BY <1>1, <2>1, <2>3, <2>5 DEF BansTypes
<1>3. ASSUME NEW a \in Account, Bans!Leave(a) \/ \E n \in PlayerName : Bans!Rename(a, n)
      PROVE  BansTypes'
  BY <1>1, <1>3 DEF BansTypes, Bans!Leave, Bans!Rename
<1>4. ASSUME NEW n \in PlayerName, NEW t \in BanTimes, Bans!Ban(n, t) PROVE BansTypes'
  <2>1. PICK v \in Untils : v = IF t = 0 THEN 0 ELSE now + t
    BY DEF BansTypes, Untils
  <2>2. until' = [m \in DOMAIN until \cup {n} |-> IF m = n THEN v ELSE until[m]]
    BY <1>4, <2>1 DEF Bans!Ban, Bans!Put
  <2>3. DOMAIN until' \subseteq PlayerName /\ until' \in [DOMAIN until' -> Untils]
    BY <2>2 DEF BansTypes
  <2>4. tie' \in [DOMAIN tie' -> PlayerName] /\ UNCHANGED <<known, called, now, banned>>
    BY <1>4 DEF Bans!Ban
  <2> QED  BY <1>1, <2>3, <2>4 DEF BansTypes
<1>5. CASE Bans!BanAccount
  <2>1. /\ known' = [a \in DOMAIN known \cup DOMAIN tie |-> IF a \in DOMAIN tie THEN tie[a] ELSE known[a]]
        /\ banned' = [a \in DOMAIN banned \cup DOMAIN tie |-> IF a \in DOMAIN tie THEN tie[a] ELSE banned[a]]
        /\ tie' = <<>> /\ UNCHANGED <<until, called, now>>
    BY <1>5 DEF Bans!BanAccount, Bans!Override
  <2>2. DOMAIN known' \subseteq Account /\ known' \in [DOMAIN known' -> PlayerName]
    BY <2>1 DEF BansTypes, BansInv
  <2>3. banned' \in [DOMAIN banned' -> PlayerName]
    BY <2>1 DEF BansTypes
  <2>4. tie' \in [DOMAIN tie' -> PlayerName]
    BY <2>1
  <2> QED  BY <1>1, <2>1, <2>2, <2>3, <2>4 DEF BansTypes
<1>6. ASSUME NEW n \in PlayerName, Bans!Unban(n) PROVE BansTypes'
  BY <1>1, <1>6 DEF BansTypes, Bans!Unban, Bans!Without
<1>7. CASE Bans!Tick \/ Bans!Die
  <2>1. UNCHANGED <<until, known, called, banned>> /\ now' \in Clock
    BY <1>7 DEF BansTypes, Bans!Tick, Bans!Die
  <2>2. tie' \in [DOMAIN tie' -> PlayerName]
    <3>1. tie' = tie \/ tie' = <<>>
      BY <1>7 DEF Bans!Tick, Bans!Die
    <3>2. <<>> \in [DOMAIN <<>> -> PlayerName]
      OBVIOUS
    <3> QED  BY <3>1, <3>2 DEF BansTypes
  <2> QED  BY <1>1, <2>1, <2>2 DEF BansTypes
<1>8. CASE UNCHANGED bans
  BY <1>1, <1>8 DEF BansTypes, bans
<1> QED  BY <1>2, <1>3, <1>4, <1>5, <1>6, <1>7, <1>8 DEF Bans!Next

LEMMA BansTypesFollow == BansTypes => Bans!TypeOK
<1> SUFFICES ASSUME BansTypes PROVE Bans!TypeOK
  OBVIOUS
<1>1. {known, tie, banned} \subseteq Bans!PartialMap(Account, PlayerName)
  BY DEF BansTypes, BansInv, Bans!PartialMap
<1> QED  BY <1>1 DEF BansTypes, BansInv, Bans!TypeOK, Untils

CodesTypes == CodesInv /\ torn \in BOOLEAN /\ falls \in Nat

LEMMA CodesTypesStep == CodesTypes /\ [Codes!Next]_codes => CodesTypes'
<1> SUFFICES ASSUME CodesTypes, [Codes!Next]_codes PROVE CodesTypes'
  OBVIOUS
<1>1. CodesInv'
  BY CodesStep DEF CodesTypes
<1>2. torn \in BOOLEAN /\ falls \in Nat
  BY DEF CodesTypes
<1>3. torn' \in BOOLEAN
  BY <1>2 DEF Codes!Next, Codes!Use, Codes!Execute, Codes!Truncate, Codes!Write, Codes!Reload,
              Codes!Die, Codes!Load, codes
<1>4. falls' \in Nat
  BY <1>2 DEF Codes!Next, Codes!Use, Codes!Execute, Codes!Truncate, Codes!Write, Codes!Reload,
              Codes!Die, Codes!Load, codes
<1> QED  BY <1>1, <1>3, <1>4 DEF CodesTypes

MenusTypes ==
    /\ MenusInv /\ running \in BOOLEAN
    /\ DOMAIN player_mp \subseteq Viewer
    /\ shown \subseteq [who : Viewer, id : Int, menu : Menu]
    /\ pressed \in [shown : SUBSET Menu, of : SUBSET Menu, live : BOOLEAN]

LEMMA MenusTypesStep == MenusTypes /\ [Menus!Next]_menus => MenusTypes'
<1> SUFFICES ASSUME MenusTypes, [Menus!Next]_menus PROVE MenusTypes'
  OBVIOUS
<1>1. MenusInv'
  BY MenusStep DEF MenusTypes
<1>2. /\ running \in BOOLEAN /\ DOMAIN player_mp \subseteq Viewer
      /\ shown \subseteq [who : Viewer, id : Int, menu : Menu] /\ autoid \in Nat
      /\ pressed \in [shown : SUBSET Menu, of : SUBSET Menu, live : BOOLEAN]
      /\ player_mp \in [DOMAIN player_mp -> [menu : Menu, live : BOOLEAN]]
  BY DEF MenusTypes, MenusInv
<1>3. ASSUME NEW p \in Viewer, NEW m \in Menu, Menus!Send(p, m) PROVE MenusTypes'
  <2>1. [who |-> p, id |-> autoid', menu |-> m] \in [who : Viewer, id : Int, menu : Menu]
    BY <1>2, <1>3 DEF Menus!Send
  <2>2. DOMAIN player_mp' \subseteq Viewer
    BY <1>2, <1>3 DEF Menus!Send, Menus!Put
  <2>3. running' \in BOOLEAN /\ pressed' = pressed
    BY <1>3 DEF Menus!Send
  <2>4. shown' \subseteq [who : Viewer, id : Int, menu : Menu]
    BY <1>2, <1>3, <2>1 DEF Menus!Send
  <2> QED  BY <1>1, <1>2, <2>2, <2>3, <2>4 DEF MenusTypes
<1>4. ASSUME NEW a \in shown, Menus!Answer(a) \/ Menus!AnswerDeleted(a) \/ Menus!Drop(a)
      PROVE  MenusTypes'
  <2>1. a.menu \in Menu /\ shown' \subseteq shown
    BY <1>2, <1>4 DEF Menus!Answer, Menus!AnswerDeleted, Menus!Drop
  <2>2. running' \in BOOLEAN /\ DOMAIN player_mp' \subseteq Viewer
    BY <1>2, <1>4 DEF Menus!Answer, Menus!AnswerDeleted, Menus!Drop, Menus!Press, Menus!Close,
                      Menus!Without
  <2>3. pressed' = pressed \/ \E m \in Menu, live \in BOOLEAN :
                                 pressed' = [shown |-> {a.menu}, of |-> {m}, live |-> live]
    <3>1. CASE Menus!Answer(a)
      <4>1. PICK m \in Menu : m = player_mp[a.who].menu
        BY <1>2, <3>1 DEF Menus!Answer
      <4> QED  BY <3>1, <4>1 DEF Menus!Answer, Menus!Press, Menus!Close
    <3>2. CASE Menus!AnswerDeleted(a)
      BY <3>2 DEF Menus!AnswerDeleted, Menus!Press, Menus!Close
    <3>3. CASE Menus!Drop(a)
      BY <3>3 DEF Menus!Drop
    <3> QED  BY <1>4, <3>1, <3>2, <3>3
  <2>4. pressed' \in [shown : SUBSET Menu, of : SUBSET Menu, live : BOOLEAN]
    BY <1>2, <2>1, <2>3
  <2> QED  BY <1>1, <1>2, <2>1, <2>2, <2>4 DEF MenusTypes
<1>5. ASSUME NEW p \in Viewer, Menus!Leave(p) PROVE MenusTypes'
  <2>1. running' \in BOOLEAN /\ pressed' = pressed /\ shown' \subseteq shown
        /\ DOMAIN player_mp' \subseteq Viewer
    BY <1>2, <1>5 DEF Menus!Leave, Menus!Without
  <2> QED  BY <1>1, <1>2, <2>1 DEF MenusTypes
<1>6. CASE Menus!Reload \/ Menus!Restart \/ UNCHANGED menus
  <2>1. running' \in BOOLEAN /\ pressed' = pressed /\ shown' \subseteq shown
    BY <1>2, <1>6 DEF Menus!Reload, Menus!Restart, menus
  <2>2. DOMAIN player_mp' \subseteq Viewer
    <3>1. CASE Menus!Reload
      BY <1>2, <3>1 DEF Menus!Reload
    <3>2. CASE Menus!Restart
      <4>1. player_mp' = <<>> /\ DOMAIN <<>> = {}
        BY <3>2 DEF Menus!Restart
      <4> QED  BY <4>1
    <3>3. CASE UNCHANGED menus
      BY <1>2, <3>3 DEF menus
    <3> QED  BY <1>6, <3>1, <3>2, <3>3
  <2> QED  BY <1>1, <1>2, <2>1, <2>2 DEF MenusTypes
<1> QED  BY <1>3, <1>4, <1>5, <1>6 DEF Menus!Next

LEMMA MenusTypesFollow == MenusTypes => Menus!TypeOK
<1> SUFFICES ASSUME MenusTypes PROVE Menus!TypeOK
  OBVIOUS
<1>1. ASSUME NEW a \in shown PROVE a \in [who : Viewer, id : 1 .. autoid, menu : Menu]
  <2>1. a \in [who : Viewer, id : Int, menu : Menu] /\ a.id \in 1 .. autoid
    BY DEF MenusTypes, MenusInv
  <2> QED  BY <2>1
<1>2. player_mp \in Menus!PartialMap(Viewer, [menu : Menu, live : BOOLEAN])
  BY DEF MenusTypes, MenusInv, Menus!PartialMap
<1> QED  BY <1>1, <1>2 DEF MenusTypes, MenusInv, Menus!TypeOK

LEMMA WarpTypesFollow == WarpInv => Warps!TypeOK
<1> SUFFICES ASSUME WarpInv PROVE Warps!TypeOK
  OBVIOUS
<1>1. WarpTypes /\ HomesInv
  BY DEF WarpInv
<1>2. WarpLists \subseteq Warps!BoundedSeq(WarpName, MaxWarps)
  <2>1. ASSUME NEW t \in WarpLists PROVE t \in BoundedSeq(WarpName, MaxWarps)
    BY BoundedLists, WarpAssumption DEF WarpLists
  <2> QED  BY <2>1 DEF BoundedSeq, SeqOf, Warps!BoundedSeq, Warps!SeqOf
<1>3. HomeLists \subseteq Warps!Homes
  <2>1. ASSUME NEW h \in HomeLists PROVE h \in BoundedSeq(WarpName \X Place, MaxHomes)
    <3>1. PICK S : S = WarpName \X Place
      OBVIOUS
    <3>2. h \in Seq(S) /\ Len(h) <= MaxHomes
      BY <3>1 DEF HomeLists
    <3>3. h \in BoundedSeq(S, MaxHomes)
      BY <3>2, BoundedLists, WarpAssumption
    <3> QED  BY <3>1, <3>3
  <2> QED  BY <2>1 DEF BoundedSeq, SeqOf, Warps!BoundedSeq, Warps!SeqOf, Warps!Homes
<1>4. warp \in Warps!PartialMap(WarpName, Place) /\ tp_db.warp \in Warps!PartialMap(WarpName, Place)
  BY <1>1 DEF WarpTypes, Records, Warps!PartialMap
<1>5. tp_db.home \in [HomePlayer -> Warps!Homes]
  BY <1>1, <1>3 DEF WarpTypes
<1>6. ply_homes \in Warps!PartialMap(HomePlayer, Warps!Homes)
  <2>1. ply_homes \in [DOMAIN ply_homes -> Warps!Homes] /\ DOMAIN ply_homes \subseteq HomePlayer
    BY <1>1, <1>5 DEF HomesInv
  <2> QED  BY <2>1 DEF Warps!PartialMap
<1> QED  BY <1>1, <1>2, <1>4, <1>5, <1>6 DEF WarpTypes, Warps!TypeOK

LEMMA RepairTypesFollow == RepairInv => Repair!TypeOK
<1> SUFFICES ASSUME RepairInv PROVE Repair!TypeOK
  OBVIOUS
<1>1. Directory \subseteq Repair!PartialMap(Repair!Lid, Repair!Record)
  <2>1. ASSUME NEW f \in Directory PROVE f \in Repair!PartialMap(Repair!Lid, Repair!Record)
    <3>1. DOMAIN f \subseteq Repair!Lid /\ f \in [DOMAIN f -> Repair!Record]
      BY DirectoryIs DEF Sound
    <3> QED  BY <3>1 DEF Repair!PartialMap
  <2> QED  BY <2>1
<1> QED  BY <1>1 DEF RepairInv, RepairTypes, Repair!TypeOK

LEMMA ShopTypesFollow == ShopInv => Shop!TypeOK
<1> SUFFICES ASSUME ShopInv PROVE Shop!TypeOK
  OBVIOUS
<1>1. accounts \in Balances /\ SlotsInv /\ SessionsInv
  BY DEF ShopInv
<1>2. accounts \in Shop!Balances
  BY <1>1 DEF Balances, Shop!Balances, Ints, Shop!Ints
<1>3. ASSUME NEW b \in DOMAIN lc, NEW s \in SlotNo
      PROVE  lc[b][s] = Shop!Free \/ \E p \in Player : lc[b][s].owner = {p}
  <2>1. lc[b][s] \in ShopSlot
    BY <1>1 DEF SlotsInv
  <2> QED  BY <2>1 DEF ShopSlot, Owners
<1>4. sessions \in Shop!PartialMap(Player, Box) /\ last_sess \in Shop!PartialMap(Player, Box)
  <2>1. sessions \in [DOMAIN sessions -> Box] /\ last_sess \in [DOMAIN last_sess -> Box]
    BY <1>1 DEF SlotsInv, SessionsInv
  <2> QED  BY <1>1, <2>1 DEF SessionsInv, Shop!PartialMap
<1>5. /\ ply_select \in Shop!PartialMap(Player, [slot : SlotNo, of : Box])
      /\ ply_price \in Shop!PartialMap(Player, Prices \cup {Shop!SetShop})
  BY <1>1 DEF SessionsInv, Shop!PartialMap, Shop!SetShop
<1> QED  BY <1>2, <1>3, <1>4, <1>5 DEF Shop!TypeOK

-----------------------------------------------------------------------------
(***************************************************************************)
(* The chat.  The invariant: the ring holds entries, with a clock each.    *)
(***************************************************************************)
Said == [who : Talker, clk : Int, said : BOOLEAN]

ChatInv ==
    /\ pool \in Seq(Said) /\ Len(pool) <= RingSize
    /\ DOMAIN mute_time \subseteq Talker /\ mute_time \in [DOMAIN mute_time -> Int]
    /\ clock \in Int

\* Those of a set of places that are not after one of them.
Upto(own, j) == {k \in own : k <= j}

\* The clocks of such places are a distance apart, the earlier place the later clock.
Apart(c, own, d) == \A i, j \in own : i < j => c[i] - c[j] >= d

\* One time more is one distance more.
LEMMA OneMore == ASSUME NEW q \in Int, NEW d \in Int PROVE (q - 1) * d + d = q * d /\ (q - 1) * d \in Int
  OBVIOUS

\* Of entries a distance apart, each is as far from the first as there are between them.
LEMMA ApartFromFirst ==
    ASSUME NEW n \in Nat, NEW c \in [1 .. n -> Int], NEW d \in Nat,
           NEW own, own \subseteq 1 .. n, 1 \in own, Apart(c, own, d)
    PROVE  \A j \in own : /\ Cardinality(Upto(own, j)) \in Nat
                          /\ c[1] - c[j] >= (Cardinality(Upto(own, j)) - 1) * d
<1> DEFINE Far(j) == /\ IsFiniteSet(Upto(own, j)) /\ Cardinality(Upto(own, j)) \in Nat
                     /\ c[1] - c[j] >= (Cardinality(Upto(own, j)) - 1) * d
           T == {m \in Nat : \A j \in own : j <= m => Far(j)}
<1>0. \A j \in own : j \in Nat /\ 1 <= j /\ c[j] \in Int
  OBVIOUS
<1>1. Far(1)
  <2>1. Upto(own, 1) = {1}
    <3>1. \A k \in own : k <= 1 <=> k = 1
      <4> SUFFICES ASSUME NEW k \in own PROVE k <= 1 <=> k = 1
        OBVIOUS
      <4>1. k \in Nat /\ 1 <= k
        BY <1>0
      <4> QED  BY <4>1
    <3> QED  BY <3>1, Zenon DEF Upto
  <2>2. IsFiniteSet({1}) /\ Cardinality({1}) = 1
    BY FS_Singleton
  <2>3. c[1] \in Int /\ (1 - 1) * d = 0
    BY <1>0
  <2>4. c[1] - c[1] >= (Cardinality(Upto(own, 1)) - 1) * d
    <3>1. Cardinality(Upto(own, 1)) = 1
      BY <2>1, <2>2, Zenon
    <3>2. PICK x \in Int : x = c[1]
      BY <2>3
    <3>3. x - x = 0
      OBVIOUS
    <3> QED  BY <2>3, <3>1, <3>2, <3>3
  <2>5. IsFiniteSet(Upto(own, 1)) /\ Cardinality(Upto(own, 1)) \in Nat
    BY <2>1, <2>2
  <2> QED  BY <2>4, <2>5
<1> HIDE DEF Far
<1>2. ASSUME NEW m \in Nat, m # 0, m + 1 \in own, \A j \in own : j <= m => Far(j) PROVE Far(m + 1)
  <2>1. Upto(own, m) \subseteq 1 .. m /\ 1 \in Upto(own, m)
    <3>1. 1 <= m
      BY <1>2
    <3>2. 1 \in Upto(own, m)
      BY <3>1, Zenon DEF Upto
    <3>3. ASSUME NEW k \in Upto(own, m) PROVE k \in 1 .. m
      <4>1. k \in own /\ k <= m
        BY Zenon DEF Upto
      <4>2. k \in Nat /\ 1 <= k
        BY <1>0, <4>1
      <4> QED  BY <4>1, <4>2
    <3> QED  BY <3>2, <3>3
  <2>2. PICK i \in Upto(own, m) : \A k \in Upto(own, m) : k <= i
    BY <2>1, GreatestPlace
  <2>3. i \in own /\ i \in Nat /\ i <= m /\ i < m + 1
    BY <1>0, <2>2 DEF Upto
  <2>4. \A k \in own : k <= m + 1 <=> (k <= i \/ k = m + 1)
    <3> SUFFICES ASSUME NEW k \in own PROVE k <= m + 1 <=> (k <= i \/ k = m + 1)
      OBVIOUS
    <3>1. k \in Nat /\ (k <= m => k <= i)
      BY <1>0, <2>2 DEF Upto
    <3> QED  BY <2>3, <3>1
  <2>5. Upto(own, m + 1) = Upto(own, i) \cup {m + 1} /\ m + 1 \notin Upto(own, i)
    <3>1. ~(m + 1 <= i)
      BY <2>3
    <3> QED  BY <1>2, <2>4, <3>1 DEF Upto
  <2>6. Far(i)
    BY <1>2, <2>3 DEF Far
  <2>7. IsFiniteSet(Upto(own, m + 1)) /\ Cardinality(Upto(own, m + 1)) = Cardinality(Upto(own, i)) + 1
    BY <2>5, <2>6, FS_AddElement DEF Far
  <2>8. c[i] - c[m + 1] >= d /\ c[1] \in Int /\ c[i] \in Int /\ c[m + 1] \in Int
    BY <1>0, <1>2, <2>3 DEF Apart
  <2>9. PICK q \in Nat : q = Cardinality(Upto(own, i))
    BY <2>6 DEF Far
  <2>10. PICK rest \in Int : rest = (q - 1) * d /\ rest + d = q * d
    BY OneMore
  <2>11. c[1] - c[i] >= rest
    BY <2>6, <2>9, <2>10 DEF Far
  <2>12. c[1] - c[m + 1] >= rest + d
    <3>1. PICK x \in Int, y \in Int, z \in Int : x = c[1] /\ y = c[i] /\ z = c[m + 1]
      BY <2>8
    <3>2. x - y >= rest /\ y - z >= d
      BY <2>8, <2>11, <3>1
    <3>3. x - z >= rest + d
      BY <3>2
    <3> QED  BY <3>1, <3>3
  <2>13. Cardinality(Upto(own, m + 1)) - 1 = q
    BY <2>7, <2>9
  <2>14. c[1] - c[m + 1] >= (Cardinality(Upto(own, m + 1)) - 1) * d
    BY <2>10, <2>12, <2>13
  <2>15. Cardinality(Upto(own, m + 1)) \in Nat
    BY <2>7, <2>9
  <2> QED  BY <2>7, <2>14, <2>15 DEF Far
<1>3. ASSUME NEW m \in Nat, m \in T PROVE m + 1 \in T
  <2>1. ASSUME NEW j \in own, j <= m + 1 PROVE Far(j)
    <3>1. j <= m \/ (j = m + 1 /\ m # 0) \/ j = 1
      BY <1>0, <2>1
    <3>2. \A k \in own : k <= m => Far(k)
      BY <1>3
    <3> QED  BY <1>1, <1>2, <2>1, <3>1, <3>2
  <2> QED  BY <2>1
<1>4. 0 \in T
  BY <1>0
<1>5. Nat \subseteq T
  <2> HIDE DEF T
  <2> QED  BY <1>3, <1>4, SetInduction
<1>6. ASSUME NEW j \in own PROVE Far(j)
  <2>1. j \in T /\ j <= j
    BY <1>0, <1>5
  <2> QED  BY <2>1
<1> QED  BY <1>6 DEF Far

\* What is pushed comes first, and the ring is not longer than it was, but for one.
LEMMA PushedIs ==
    ASSUME ChatInv, NEW p \in Talker
    PROVE  /\ Chat!Pushed(p) \in Seq(Said) /\ Len(Chat!Pushed(p)) \in Nat \ {0}
           /\ Len(Chat!Pushed(p)) <= RingSize
           /\ Chat!Pushed(p)[1] = [who |-> p, clk |-> clock, said |-> FALSE]
<1> DEFINE e == [who |-> p, clk |-> clock, said |-> FALSE]
           all == <<e>> \o pool
           m == Chat!Min({RingSize, Len(pool) + 1})
<1>1. e \in Said /\ pool \in Seq(Said) /\ Len(pool) \in Nat
  BY LenProperties DEF ChatInv, Said
<1> HIDE DEF e
<1>2. all \in Seq(Said) /\ Len(all) = 1 + Len(pool) /\ all[1] = e
  BY <1>1, Prepend
<1>3. m \in Nat \ {0} /\ m <= Len(pool) + 1 /\ m <= RingSize
  <2>1. {RingSize, Len(pool) + 1} \subseteq Nat /\ {RingSize, Len(pool) + 1} # {}
    BY <1>1, ChatAssumption
  <2>2. m = Min({RingSize, Len(pool) + 1})
    BY DEF Chat!Min, Min
  <2>3. m \in {RingSize, Len(pool) + 1} /\ m <= Len(pool) + 1 /\ m <= RingSize
    BY <2>1, <2>2, LeastNatural
  <2> HIDE DEF m
  <2> QED  BY <1>1, <2>3, ChatAssumption
<1> HIDE DEF all, m
<1>4. \A i \in 1 .. m : all[i] \in Said
  <2>1. 1 .. m \subseteq 1 .. Len(all)
    BY <1>1, <1>2, <1>3
  <2> QED  BY <1>2, <2>1, ElementOfSeq
<1>5. /\ SubSeq(all, 1, m) \in Seq(Said)
      /\ Len(SubSeq(all, 1, m)) = IF 1 <= m THEN m - 1 + 1 ELSE 0
      /\ \A i \in 1 .. m - 1 + 1 : SubSeq(all, 1, m)[i] = all[1 + i - 1]
  BY <1>3, <1>4, SubSeqProperties
<1>6. SubSeq(all, 1, m)[1] = all[1]
  <2>1. 1 \in 1 .. m - 1 + 1 /\ 1 + 1 - 1 = 1
    BY <1>3
  <2> QED  BY <1>5, <2>1
<1>7. Chat!Pushed(p) = SubSeq(all, 1, m)
  BY DEF Chat!Pushed, all, m, e
<1>8. Len(SubSeq(all, 1, m)) = m
  BY <1>3, <1>5
<1> QED  BY <1>2, <1>3, <1>5, <1>6, <1>7, <1>8 DEF e

\* The instance counts as this module does.
LEMMA SameCount == ASSUME NEW S PROVE Chat!Cardinality(S) = Cardinality(S)
  BY DEF Chat!Cardinality, Cardinality, Chat!IsFiniteSet, IsFiniteSet

\* A message or a command leaves the ring with the entry pushed, and whether it passed.
LEMMA ChatPushes ==
    ASSUME ChatInv, NEW p \in Talker, Chat!Say(p) \/ Chat!Command(p)
    PROVE  /\ pool' \in Seq(Said) /\ Len(pool') <= RingSize /\ DOMAIN pool' = DOMAIN Chat!Pushed(p)
           /\ \A i \in DOMAIN pool' : /\ pool'[i].who = Chat!Pushed(p)[i].who
                                      /\ pool'[i].clk = Chat!Pushed(p)[i].clk
           /\ (Chat!Say(p) /\ ~Chat!Muted(p)) \/ Chat!Command(p) =>
                 (Chat!Allowed(p, Chat!Pushed(p)) => pool'[1].said)
           /\ clock' = clock
<1>1. PICK ring : ring = Chat!Pushed(p)
  OBVIOUS
<1>2. /\ ring \in Seq(Said) /\ Len(ring) \in Nat \ {0} /\ Len(ring) <= RingSize
      /\ ring[1] = [who |-> p, clk |-> clock, said |-> FALSE]
  BY <1>1, PushedIs
<1>3. PICK v \in BOOLEAN :
         /\ pool' = [ring EXCEPT ![1].said = v]
         /\ (Chat!Say(p) /\ ~Chat!Muted(p)) \/ Chat!Command(p) =>
               (Chat!Allowed(p, ring) => v = TRUE)
  <2>1. CASE Chat!Say(p) /\ Chat!Allowed(p, ring) /\ ~Chat!Muted(p)
    <3>1. pool' = [ring EXCEPT ![1].said = Chat!Allowed(p, ring) /\ ~Chat!Muted(p)]
      BY <1>1, <2>1 DEF Chat!Say
    <3>2. (Chat!Allowed(p, ring) /\ ~Chat!Muted(p)) = TRUE
      BY <2>1
    <3>3. pool' = [ring EXCEPT ![1].said = TRUE]
      BY <3>1, <3>2
    <3> QED  BY <3>3
  <2>2. CASE Chat!Say(p) /\ ~(Chat!Allowed(p, ring) /\ ~Chat!Muted(p)) /\ ~Chat!Command(p)
    <3>1. pool' = [ring EXCEPT ![1].said = Chat!Allowed(p, ring) /\ ~Chat!Muted(p)]
      BY <1>1, <2>2 DEF Chat!Say
    <3>2. (Chat!Allowed(p, ring) /\ ~Chat!Muted(p)) = FALSE
      BY <2>2
    <3>3. pool' = [ring EXCEPT ![1].said = FALSE]
      BY <3>1, <3>2
    <3> QED  BY <2>2, <3>3
  <2>3. CASE Chat!Command(p)
    <3>1. pool' = [ring EXCEPT ![1].said = Chat!Allowed(p, ring)]
      BY <1>1, <2>3 DEF Chat!Command
    <3>2. CASE Chat!Allowed(p, ring)
      <4>1. Chat!Allowed(p, ring) = TRUE
        BY <3>2
      <4>2. pool' = [ring EXCEPT ![1].said = TRUE]
        BY <3>1, <4>1
      <4> QED  BY <4>2
    <3>3. CASE ~Chat!Allowed(p, ring)
      <4>1. Chat!Allowed(p, ring) = FALSE
        BY <3>3
      <4>2. pool' = [ring EXCEPT ![1].said = FALSE]
        BY <3>1, <4>1
      <4> QED  BY <3>3, <4>2
    <3> QED  BY <3>2, <3>3
  <2> QED  BY <2>1, <2>2, <2>3
<1>4. PICK e : e = [who |-> p, clk |-> clock, said |-> v]
  OBVIOUS
<1>5. e \in Said /\ e.who = p /\ e.clk = clock /\ e.said = v
  BY <1>4 DEF Said, ChatInv
<1>6. pool' = [ring EXCEPT ![1] = e]
  <2>1. [ring[1] EXCEPT !.said = v] = e
    BY <1>2, <1>4
  <2>2. pool' = [ring EXCEPT ![1] = [ring[1] EXCEPT !.said = v]]
    BY <1>3
  <2> QED  BY <2>1, <2>2
<1>7. 1 \in 1 .. Len(ring) /\ DOMAIN ring = 1 .. Len(ring)
  BY <1>2, LenProperties
<1>8. /\ pool' \in Seq(Said) /\ DOMAIN pool' = DOMAIN ring
      /\ \A i \in DOMAIN ring : pool'[i] = IF i = 1 THEN e ELSE ring[i]
  BY <1>2, <1>5, <1>6, <1>7, ExceptSeq
<1>9. clock' = clock
  BY DEF Chat!Say, Chat!Command
<1>10. \A i \in DOMAIN pool' : pool'[i].who = ring[i].who /\ pool'[i].clk = ring[i].clk
  <2>1. ring[1].who = p /\ ring[1].clk = clock
    BY <1>2
  <2> QED  BY <1>5, <1>8, <2>1
<1>11. pool'[1].said = v
  BY <1>5, <1>7, <1>8
<1>12. Len(pool') <= RingSize
  <2>1. pool' \in Seq(Said) /\ DOMAIN pool' = DOMAIN ring
    BY <1>8
  <2>2. Len(pool') = Len(ring)
    BY <1>2, <2>1, LenProperties
  <2> QED  BY <1>2, <2>2
<1> QED  BY <1>1, <1>3, <1>8, <1>9, <1>10, <1>11, <1>12

\* Who keeps the distance passes the limiter.
LEMMA PatientPass ==
    ASSUME NEW p \in Talker, NEW ring \in Seq(Said), NEW time \in Int, 1 \in DOMAIN ring,
           ring[1].who = p, ring[1].clk = time,
           \A i, j \in Chat!Of(p, ring) : i < j => ring[i].clk - ring[j].clk >= Delta,
           time = clock
    PROVE  Chat!Allowed(p, ring)
<1>1. PICK own : own = Chat!Of(p, ring)
  OBVIOUS
<1>2. PICK n \in Nat : n = Len(ring) /\ DOMAIN ring = 1 .. n
  BY LenProperties, Zenon
<1>3. own \subseteq 1 .. n /\ 1 \in own
  BY <1>1, <1>2 DEF Chat!Of
<1>4. PICK c : c = [i \in 1 .. n |-> ring[i].clk]
  OBVIOUS
<1>5. c \in [1 .. n -> Int] /\ \A i \in 1 .. n : c[i] = ring[i].clk
  <2>1. \A i \in 1 .. n : ring[i] \in Said
    BY <1>2, ElementOfSeq
  <2> QED  BY <1>4, <2>1 DEF Said
<1>6. Apart(c, own, Delta)
  BY <1>1, <1>3, <1>5 DEF Apart
<1>7. PICK m \in own : \A i \in own : i <= m
  BY <1>3, GreatestPlace
<1>8. Upto(own, m) = own
  BY <1>7 DEF Upto
<1>9. Cardinality(own) \in Nat /\ c[1] - c[m] >= (Cardinality(own) - 1) * Delta
  BY <1>3, <1>5, <1>6, <1>8, ApartFromFirst, ChatAssumption
<1>10. Chat!Max(own) = m
  <2>1. \A x \in own : (\A y \in own : x >= y) => x = m
    <3> SUFFICES ASSUME NEW x \in own, \A y \in own : x >= y PROVE x = m
      OBVIOUS
    <3>1. x >= m /\ x <= m /\ x \in Int /\ m \in Int
      BY <1>3, <1>7
    <3> QED  BY <3>1
  <2>2. \A y \in own : m >= y
    <3> SUFFICES ASSUME NEW y \in own PROVE m >= y
      OBVIOUS
    <3>1. y <= m /\ y \in Int /\ m \in Int
      BY <1>3, <1>7
    <3> QED  BY <3>1
  <2> QED  BY <2>1, <2>2 DEF Chat!Max
<1>11. Chat!Cardinality(own) = Cardinality(own)
  BY SameCount
<1>12. (Cardinality(own) - 1) * Delta <= clock - ring[m].clk
  <2>1. c[1] = clock /\ c[m] = ring[m].clk /\ c[1] \in Int /\ c[m] \in Int
    BY <1>3, <1>5, <1>7
  <2>2. PICK w \in Int : w = (Cardinality(own) - 1) * Delta
    BY <1>9, OneMore, ChatAssumption
  <2>3. c[1] - c[m] >= w
    BY <1>9, <2>2
  <2> QED  BY <2>1, <2>2, <2>3
<1> QED  BY <1>1, <1>10, <1>11, <1>12 DEF Chat!Allowed

\* Whatever is said, the ring holds entries.
LEMMA ChatStep == ChatInv /\ [Chat!Next]_chat => ChatInv'
<1> SUFFICES ASSUME ChatInv, [Chat!Next]_chat PROVE ChatInv'
  OBVIOUS
<1>1. ASSUME NEW p \in Talker, Chat!Say(p) \/ Chat!Command(p) PROVE ChatInv'
  <2>1. pool' \in Seq(Said) /\ Len(pool') <= RingSize /\ clock' = clock
    BY <1>1, ChatPushes
  <2>2. mute_time' = mute_time \/ mute_time' = [q \in DOMAIN mute_time \ {p} |-> mute_time[q]]
    BY <1>1 DEF Chat!Say, Chat!Command, Chat!Without
  <2> QED  BY <2>1, <2>2 DEF ChatInv
<1>2. ASSUME NEW p \in Talker, NEW t \in Mutes, Chat!Mute(p, t) PROVE ChatInv'
  <2>1. PICK over \in Int : over = IF t = -1 THEN 0 ELSE clock + t
    BY ChatAssumption DEF ChatInv
  <2>2. mute_time' = [q \in DOMAIN mute_time \cup {p} |-> IF q = p THEN over ELSE mute_time[q]]
    BY <1>2, <2>1 DEF Chat!Mute, Chat!Put
  <2>3. UNCHANGED <<pool, clock>>
    BY <1>2 DEF Chat!Mute
  <2> QED  BY <2>2, <2>3 DEF ChatInv
<1>3. CASE Chat!Tick
  BY <1>3 DEF Chat!Tick, ChatInv
<1>4. CASE UNCHANGED chat
  BY <1>4 DEF chat, ChatInv
<1> QED  BY <1>1, <1>2, <1>3, <1>4 DEF Chat!Next

\* The ring begins empty.
LEMMA ChatStart == Chat!Init => ChatInv
<1> SUFFICES ASSUME Chat!Init PROVE ChatInv
  OBVIOUS
<1>1. pool = <<>> /\ mute_time = <<>> /\ clock = 1
  BY DEF Chat!Init
<1>2. <<>> \in Seq(Said) /\ Len(<<>>) = 0
  BY EmptySeq
<1>3. <<>> \in [{} -> Int] /\ DOMAIN <<>> = {}
  OBVIOUS
<1> QED  BY <1>1, <1>2, <1>3, ChatAssumption DEF ChatInv

\* One message of a player who keeps the distance is heard.
LEMMA HeardOnce ==
    ASSUME ChatInv, NEW p \in Talker, (Chat!Say(p) /\ ~Chat!Muted(p)) \/ Chat!Command(p), Chat!Patient(p)'
    PROVE  pool'[1].said
<1>1. PICK ring : ring = Chat!Pushed(p)
  OBVIOUS
<1>2. ring \in Seq(Said) /\ Len(ring) \in Nat \ {0} /\ ring[1].who = p /\ ring[1].clk = clock
  <2>1. ring \in Seq(Said) /\ Len(ring) \in Nat \ {0} /\ ring[1] = [who |-> p, clk |-> clock, said |-> FALSE]
    BY <1>1, PushedIs
  <2> QED  BY <2>1
<1>3. 1 \in DOMAIN ring
  BY <1>2, LenProperties
<1>4. /\ DOMAIN pool' = DOMAIN ring
      /\ \A i \in DOMAIN pool' : pool'[i].who = ring[i].who /\ pool'[i].clk = ring[i].clk
      /\ Chat!Allowed(p, ring) => pool'[1].said
  BY <1>1, ChatPushes
<1>5. \A i, j \in Chat!Of(p, ring) : i < j => ring[i].clk - ring[j].clk >= Delta
  <2>1. \A i, j \in {k \in DOMAIN pool' : pool'[k].who = p} : i < j => pool'[i].clk - pool'[j].clk >= Delta
    BY DEF Chat!Patient, Chat!Of
  <2>2. Chat!Of(p, ring) = {k \in DOMAIN pool' : pool'[k].who = p}
    BY <1>4 DEF Chat!Of
  <2>3. \A k \in Chat!Of(p, ring) : pool'[k].clk = ring[k].clk
    BY <1>4 DEF Chat!Of
  <2> QED  BY <2>1, <2>2, <2>3
<1>6. Chat!Allowed(p, ring)
  <2>1. clock \in Int
    BY DEF ChatInv
  <2> QED  BY <1>2, <1>3, <1>5, <2>1, PatientPass
<1> QED  BY <1>4, <1>6

(***************************************************************************)
(* Who keeps the distance between messages and commands is heard, however  *)
(* much others talk and whichever entries the ring of timeq has lost       *)
(* (ChatSan.hpp:12-30), for any ring and any distance.                     *)
(***************************************************************************)
THEOREM PatientAreHeard == ServicesSpec => PatientHeard
<1> DEFINE Heard == \A p \in Talker :
                       ((Chat!Say(p) /\ ~Chat!Muted(p)) \/ Chat!Command(p)) /\ Chat!Patient(p)'
                          => pool'[1].said
<1>1. ServicesInit => ChatInv
  BY ChatStart DEF ServicesInit
<1>2. [ServicesNext]_servicesVars => [Chat!Next]_chat
  BY DEF ServicesNext, Rest, servicesVars
<1>3. ChatInv /\ [Chat!Next]_chat => [Heard]_chat
  BY HeardOnce
<1> HIDE DEF Heard
<1>4. ServicesSpec => [][Heard]_chat
  BY <1>1, <1>2, <1>3, ChatStep, PTL DEF ServicesSpec
<1> QED  BY <1>4 DEF PatientHeard, Chat!PatientHeard, Chat!chatVars, chat, Heard

-----------------------------------------------------------------------------
(***************************************************************************)
(* The types of all nine parts follow from their invariants.               *)
(***************************************************************************)
AllInv ==
    /\ MoneyInv /\ OrderInv
    /\ WarpInv /\ RepairInv /\ BansTypes /\ ChatInv
    /\ MenusTypes /\ CodesTypes /\ ShopInv

LEMMA AllStart == ServicesInit => AllInv
<1> SUFFICES ASSUME ServicesInit PROVE AllInv
  OBVIOUS
<1>1. MoneyInv /\ OrderInv /\ WarpInv /\ RepairInv /\ BansTypes /\ ChatInv /\ ShopInv
  BY MoneyInit, OrderInit, WarpStart, RepairStart, BansTypesStart, ChatStart, ShopStart DEF ServicesInit
<1>2. MenusTypes
  <2>1. Menus!Init
    BY DEF ServicesInit
  <2>2. DOMAIN <<>> = {}
    OBVIOUS
  <2> QED  BY <2>1, <2>2, MenusStart DEF MenusTypes, Menus!Init, Menus!NoPress
<1>3. CodesTypes
  BY CodesStart DEF ServicesInit, CodesTypes, Codes!Init
<1> QED  BY <1>1, <1>2, <1>3 DEF AllInv

LEMMA AllSteps == AllInv /\ [ServicesNext]_servicesVars => AllInv'
<1> SUFFICES ASSUME AllInv, [ServicesNext]_servicesVars PROVE AllInv'
  OBVIOUS
<1>1. MoneyInv'
  <2>1. [Next]_moneyVars
    BY DEF ServicesNext, Rest, servicesVars
  <2> QED  BY <2>1, MoneyNext DEF AllInv
<1>2. OrderInv'
  <2>1. [LoadNext]_loadVars
    BY DEF ServicesNext, Rest, servicesVars
  <2> QED  BY <2>1, OrderNext DEF AllInv
<1>3. WarpInv'
  <2>1. [Warps!Next]_warps
    BY DEF ServicesNext, Rest, servicesVars
  <2> QED  BY <2>1, WarpStep DEF AllInv
<1>4. RepairInv'
  <2>1. [Repair!Next]_repair
    BY DEF ServicesNext, Rest, servicesVars
  <2> QED  BY <2>1, RepairStep DEF AllInv
<1>5. BansTypes'
  <2>1. [Bans!Next]_bans
    BY DEF ServicesNext, Rest, servicesVars
  <2> QED  BY <2>1, BansTypesStep DEF AllInv
<1>6. ChatInv'
  <2>1. [Chat!Next]_chat
    BY DEF ServicesNext, Rest, servicesVars
  <2> QED  BY <2>1, ChatStep DEF AllInv
<1>7. MenusTypes'
  <2>1. [Menus!Next]_menus
    BY DEF ServicesNext, Rest, servicesVars
  <2> QED  BY <2>1, MenusTypesStep DEF AllInv
<1>8. CodesTypes'
  <2>1. [Codes!Next]_codes
    BY DEF ServicesNext, Rest, servicesVars
  <2> QED  BY <2>1, CodesTypesStep DEF AllInv
<1>9. ShopInv'
  <2>1. [Shop!Next]_shop
    BY DEF ServicesNext, Rest, servicesVars
  <2> QED  BY <2>1, ShopStep DEF AllInv
<1> QED  BY <1>1, <1>2, <1>3, <1>4, <1>5, <1>6, <1>7, <1>8, <1>9 DEF AllInv

LEMMA AllTypesFollow == AllInv => AllTypeOK
<1> SUFFICES ASSUME AllInv PROVE AllTypeOK
  OBVIOUS
<1>1. TypeOK
  BY DEF AllInv, MoneyInv
<1>2. LoadTypeOK
  BY DEF AllInv, OrderInv, Placed, LoadTypeOK
<1>3. Chat!TypeOK
  BY DEF AllInv, ChatInv, Said, Chat!TypeOK
<1>4. Codes!TypeOK
  BY DEF AllInv, CodesTypes, CodesInv, Codes!TypeOK
<1>5. Warps!TypeOK /\ Repair!TypeOK /\ Bans!TypeOK /\ Menus!TypeOK /\ Shop!TypeOK
  BY WarpTypesFollow, RepairTypesFollow, BansTypesFollow, MenusTypesFollow, ShopTypesFollow DEF AllInv
<1> QED  BY <1>1, <1>2, <1>3, <1>4, <1>5 DEF AllTypeOK

(***************************************************************************)
(* Whatever is typed, every balance of money.mod and of the shops is an    *)
(* int (money main.cpp:48-68), the ring of the limiter keeps its size      *)
(* (bear ChatSan.hpp:12-30), no count of dependencies goes below zero      *)
(* (depsolve.cpp:111-126), and the variables of all nine parts keep their  *)
(* types.                                                                  *)
(***************************************************************************)
THEOREM ServicesTypes == ServicesSpec => []AllTypeOK
  BY AllStart, AllSteps, AllTypesFollow, PTL DEF ServicesSpec
=============================================================================
