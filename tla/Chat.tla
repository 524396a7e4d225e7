-------------------------------- MODULE Chat --------------------------------
(***************************************************************************)
(* The chat of bear.mod: the limit on messages and commands                *)
(* (mod/bear/ChatSan.hpp:1-35, main_split_1.h:3-21) and mutes              *)
(* (main.cpp:114-125, 139-145, 157-166).  The limiter keeps the last       *)
(* messages of all players in one ring, those refused too, and measures    *)
(* from the oldest of the player's own that is still there.                *)
(***************************************************************************)
EXTENDS Integers, SequencesExt, PartialMaps

CONSTANTS
    Talker,
    RingSize,   \* timeq's size: 6
    Delta,      \* timeq's delta: 0.35 seconds
    Mutes,      \* times typed in /ac mute
    MaxClock    \* bound: the clock

VARIABLES
    pool,       \* the ring, the latest entry first; said: whether it was let through
    mute_time,
    clock

chatVars == <<pool, mute_time, clock>>

Init == pool = <<>> /\ mute_time = <<>> /\ clock = 1

-----------------------------------------------------------------------------
Of(p, ring) == {i \in DOMAIN ring : ring[i].who = p}

\* fault: one message too many is counted
AllowedFewer(p, ring) ==
    LET own == Of(p, ring)
    IN  \/ Cardinality(own) <= 1
        \/ Cardinality(own) * Delta <= clock - ring[Max(own)].clk

\* push, of the ring after the entry
Allowed(p, ring) ==
    LET own == Of(p, ring)
    IN  \/ Cardinality(own) <= 1
        \/ (Cardinality(own) - 1) * Delta <= clock - ring[Max(own)].clk

Muted(p) == p \in DOMAIN mute_time /\ ~(mute_time[p] # 0 /\ clock > mute_time[p])

Pushed(p) ==
    SubSeq(<<[who |-> p, clk |-> clock, said |-> FALSE]>> \o pool, 1,
           Min({RingSize, Len(pool) + 1}))

\* a message passes the limiter, then the mutes; asking lifts a mute that is over
Say(p) ==
    LET passes == Allowed(p, Pushed(p))
    IN  /\ pool' = [Pushed(p) EXCEPT ![1].said = passes /\ ~Muted(p)]
        /\ mute_time' = IF passes /\ ~Muted(p) THEN Without(mute_time, {p}) ELSE mute_time
        /\ UNCHANGED clock

\* a command is not subject to mutes
Command(p) ==
    /\ pool' = [Pushed(p) EXCEPT ![1].said = Allowed(p, Pushed(p))]
    /\ UNCHANGED <<mute_time, clock>>

Mute(p, t) ==
    /\ mute_time' = Put(mute_time, p, IF t = -1 THEN 0 ELSE clock + t)
    /\ UNCHANGED <<pool, clock>>

Tick == clock < MaxClock /\ clock' = clock + 1 /\ UNCHANGED <<pool, mute_time>>

Next ==
    \/ \E p \in Talker : Say(p) \/ Command(p) \/ \E t \in Mutes : Mute(p, t)
    \/ Tick

Spec == Init /\ [][Next]_chatVars

-----------------------------------------------------------------------------
(***************************************************************************)
(* Types of all variables; the ring is never longer than its size.         *)
(***************************************************************************)
TypeOK ==
    /\ pool \in Seq([who : Talker, clk : Int, said : BOOLEAN]) /\ Len(pool) <= RingSize
    /\ DOMAIN mute_time \subseteq Talker /\ mute_time \in [DOMAIN mute_time -> Int]
    /\ clock \in Int

(***************************************************************************)
(* Who keeps the distance is heard, however much others talk: the latest   *)
(* entry of a player, whose entries in the ring are Delta apart, was let   *)
(* through unless he was muted.                                            *)
(***************************************************************************)
Patient(p) ==
    \A i, j \in Of(p, pool) : i < j => pool[i].clk - pool[j].clk >= Delta

PatientHeard ==
    [][\A p \in Talker :
          ((Say(p) /\ ~Muted(p)) \/ Command(p)) /\ Patient(p)' => pool'[1].said]_chatVars

(***************************************************************************)
(* Nobody is heard more than four times a second: what docs say of the     *)
(* limit.  Entries of one reading of the clock are within a second.        *)
(***************************************************************************)
FourASecond ==
    \A p \in Talker :
        Cardinality({i \in Of(p, pool) : pool[i].said /\ pool[i].clk = clock}) <= 4
=============================================================================
