---------------------------- MODULE MCMachinery -----------------------------
(***************************************************************************)
(* Three machines that share no state, side by side: the ring of the chunk *)
(* cache, the wrapper around the server, and the delayed commands.  Each   *)
(* behaviour is one of one of them, fair where its code is.                *)
(***************************************************************************)
EXTENDS ChunkCache

CONSTANTS Shot, Delays, MaxTyped

VARIABLES
    part,
    wrap, srv, halted, sint, full, pend, ctrlc, lvlCorrupt,
    oneshot_timers, top, typed, ticking, ran

\* finitely many places, and seconds typed in /sched
ASSUME SchedulerAssumption == IsFiniteSet(Shot) /\ Delays \subseteq Nat \ {0} /\ MaxTyped \in Nat

Launcher == INSTANCE Launcher
Scheduler == INSTANCE Scheduler

launcher == <<wrap, srv, halted, sint, full, pend, ctrlc, lvlCorrupt>>
scheduler == <<oneshot_timers, top, typed, ticking, ran>>

MachineryInit ==
    /\ part \in {"cache", "launcher", "scheduler"}
    /\ Init /\ Launcher!Init /\ Scheduler!Init

MachineryNext ==
    /\ UNCHANGED part
    /\ \/ part = "cache" /\ Next /\ UNCHANGED <<launcher, scheduler>>
       \/ part = "launcher" /\ Launcher!Next /\ UNCHANGED <<cacheVars, scheduler>>
       \/ part = "scheduler" /\ Scheduler!Next /\ UNCHANGED <<cacheVars, launcher>>

MachinerySpec ==
    /\ MachineryInit /\ [][MachineryNext]_<<part, cacheVars, launcher, scheduler>>
    /\ part = "launcher" => Launcher!Fairness
    /\ part = "scheduler" => Scheduler!Fairness

(***************************************************************************)
(* The wrapper and the server it wraps end.                                *)
(***************************************************************************)
EverythingEnds == Launcher!EverythingEnds

(***************************************************************************)
(* Only the command that has run, or one it scheduled, leaves the heap.    *)
(***************************************************************************)
OthersNeverLost == Scheduler!OthersNeverLost

(***************************************************************************)
(* Every delayed command runs when no more are scheduled.                  *)
(***************************************************************************)
EveryOneshotRuns == Scheduler!EveryOneshotRuns
=============================================================================
