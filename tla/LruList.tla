------------------------------ MODULE LruList -------------------------------
(***************************************************************************)
(* What the cache of chunks promises: it remembers the last Size distinct  *)
(* keys asked for, most recent first, and forgets all of them on a purge.  *)
(***************************************************************************)
EXTENDS Integers, SequencesExt

CONSTANTS
    Key,    \* what is asked for
    NoKey,  \* answer when nothing was asked for yet
    Size    \* how many keys are remembered

VARIABLES
    recent,  \* the keys remembered, the one asked for last first
    answer   \* what the last question was answered with

listVars == <<recent, answer>>

AtMost(s, n) == SubSeq(s, 1, IF Len(s) <= n THEN Len(s) ELSE n)

Init == recent = <<>> /\ answer = NoKey

Ask(k) ==
    /\ recent' = AtMost(<<k>> \o RemoveFirst(recent, k), Size)
    /\ answer' = k

Forget == recent' = <<>> /\ answer' = NoKey

Next == Forget \/ \E k \in Key : Ask(k)

Spec == Init /\ [][Next]_listVars
=============================================================================
