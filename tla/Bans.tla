-------------------------------- MODULE Bans --------------------------------
(***************************************************************************)
(* Bans of bear.mod (mod/bear/main.cpp:79-109, 167-181, 449-462).  One     *)
(* database holds, by name, until when the name is banned (0: for ever),   *)
(* and, by xuid, a name of the account.  A player is looked up by both     *)
(* when he is authenticated and again when he joins; a name may change     *)
(* between visits, and bans may come in between.  Lookups and /ac ban make *)
(* two writes each, and the process may die between them.                  *)
(***************************************************************************)
EXTENDS Integers, PartialMaps

CONSTANTS
    Account,    \* players, as the xuid tells them apart
    PlayerName,
    BanTimes,   \* times typed in /ac ban, small enough for the int they are kept in
    Clock       \* bound: what time(0) may say

VARIABLES
    until, known,   \* ban_data: by name, by xuid
    called,         \* the present name of each account (external)
    at,             \* away, authenticated or in
    now,
    tie,            \* the second write of a ban still to do: an account and its name
    banned          \* history: the name under which an account was last banned when it was in

banVars == <<until, known, called, at, now, tie, banned>>

Init ==
    /\ until = <<>> /\ known = <<>> /\ now \in Clock
    /\ tie = <<>> /\ banned = <<>>
    /\ called \in [Account -> PlayerName]
    /\ \A a, b \in Account : a # b => called[a] # called[b]
    /\ at = [a \in Account |-> "away"]

-----------------------------------------------------------------------------
Lapsed(n) == n \in DOMAIN until /\ until[n] # 0 /\ now > until[n]

isBanned(n) == n \in DOMAIN until /\ ~Lapsed(n)

\* the names an account is looked up by: the second only if the first is not banned
Names(a) == {called[a]} \cup (IF a \in DOMAIN known THEN {known[a]} ELSE {})

Asked(a) == IF isBanned(called[a]) THEN {called[a]} ELSE Names(a)

\* what both hooks do: an account seen first is noted, and lapsed bans asked for go
LookUp(a) ==
    /\ known' = IF a \in DOMAIN known THEN known ELSE Put(known, a, called[a])
    /\ until' = Without(until, {n \in Asked(a) : Lapsed(n)})

Authenticate(a) ==
    /\ at[a] = "away"
    /\ LookUp(a)
    /\ at' = [at EXCEPT ![a] = IF \E n \in Asked(a) : isBanned(n) THEN "away" ELSE "authenticated"]
    /\ UNCHANGED <<called, now, tie, banned>>

Join(a) ==
    /\ at[a] = "authenticated"
    /\ LookUp(a)
    /\ at' = [at EXCEPT ![a] = IF \E n \in Asked(a) : isBanned(n) THEN "away" ELSE "in"]
    /\ UNCHANGED <<called, now, tie, banned>>

Leave(a) ==
    /\ at[a] # "away" /\ at' = [at EXCEPT ![a] = "away"]
    /\ UNCHANGED <<until, known, called, now, tie, banned>>

Rename(a, n) ==
    /\ at[a] = "away" /\ \A b \in Account : called[b] # n
    /\ called' = [called EXCEPT ![a] = n]
    /\ UNCHANGED <<until, known, at, now, tie, banned>>

\* those getuser_byname finds: of the level's players, at most one of a name
Present(n) == {a \in Account : at[a] = "in" /\ called[a] = n}

\* the first write of /ac ban, by name; one who is in is to be tied to the name next
Ban(n, t) ==
    /\ until' = Put(until, n, IF t = 0 THEN 0 ELSE now + t)
    /\ tie' = [a \in Present(n) |-> n]
    /\ UNCHANGED <<known, called, at, now, banned>>

\* fault: he is kicked, but the ban holds for the name only
KickOnly ==
    /\ DOMAIN tie # {}
    /\ at' = [a \in Account |-> IF a \in DOMAIN tie THEN "away" ELSE at[a]]
    /\ banned' = Override(banned, tie) /\ tie' = <<>>
    /\ UNCHANGED <<until, known, called, now>>

\* the second write, by xuid, and the kick
BanAccount ==
    /\ DOMAIN tie # {}
    /\ known' = Override(known, tie)
    /\ at' = [a \in Account |-> IF a \in DOMAIN tie THEN "away" ELSE at[a]]
    /\ banned' = Override(banned, tie) /\ tie' = <<>>
    /\ UNCHANGED <<until, called, now>>

Unban(n) ==
    /\ until' = Without(until, {n})
    /\ UNCHANGED <<known, called, at, now, tie, banned>>

Tick ==
    /\ now' \in {c \in Clock : c > now}
    /\ UNCHANGED <<until, known, called, at, tie, banned>>

\* the process dies and starts again: nobody is in, and a ban half done stays so
Die ==
    /\ at' = [a \in Account |-> "away"] /\ tie' = <<>>
    /\ UNCHANGED <<until, known, called, now, banned>>

\* it dies in a hook, after the first write of the lookup: the note, or else the
\* removal of the lapsed ban of the present name
DieInLookUp(a) ==
    /\ at[a] # "in" /\ DOMAIN tie = {}
    /\ known' = IF a \in DOMAIN known THEN known ELSE Put(known, a, called[a])
    /\ until' = IF a \in DOMAIN known /\ Lapsed(called[a]) THEN Without(until, {called[a]})
                ELSE until
    /\ at' = [b \in Account |-> "away"]
    /\ UNCHANGED <<called, now, tie, banned>>

\* one thread serves the hooks and the commands: nothing of theirs comes between two writes
Next ==
    \/ /\ DOMAIN tie = {}
       /\ \/ \E a \in Account : \/ Authenticate(a) \/ Join(a) \/ Leave(a)
                               \/ \E n \in PlayerName : Rename(a, n)
          \/ \E n \in PlayerName : Unban(n) \/ \E t \in BanTimes : Ban(n, t)
    \/ BanAccount
    \/ Tick
    \/ Die
    \/ \E a \in Account : DieInLookUp(a)

Spec == Init /\ [][Next]_banVars

-----------------------------------------------------------------------------
(***************************************************************************)
(* Types of all variables.                                                 *)
(***************************************************************************)
TypeOK ==
    /\ DOMAIN until \subseteq PlayerName
    /\ \A n \in DOMAIN until : until[n] \in {0} \cup {c + t : c \in Clock, t \in BanTimes}
    /\ {known, tie, banned} \subseteq PartialMap(Account, PlayerName)
    /\ called \in [Account -> PlayerName]
    /\ at \in [Account -> {"away", "authenticated", "in"}]
    /\ now \in Clock

(***************************************************************************)
(* Who is banned while he plays stays out, under whatever name he comes    *)
(* back, and whoever takes his old name, once the ban is written down:     *)
(* nobody comes in while the ban of his name, or of the name he was banned *)
(* under, is in force, and a ban in force ends by time or by /ac unban     *)
(* only, whatever deaths come.                                             *)
(***************************************************************************)
BannedStaysOut ==
    [][/\ \A a \in Account : at[a] # "in" /\ at'[a] = "in" =>
             /\ ~isBanned(called[a])
             /\ a \in DOMAIN banned => ~isBanned(banned[a])
       /\ \A n \in PlayerName :
             isBanned(n) /\ n \notin DOMAIN until' => Unban(n)]_banVars
=============================================================================
