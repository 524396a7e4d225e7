----------------------------- MODULE Scheduler ------------------------------
(***************************************************************************)
(* The delayed commands of cmdhelp.mod (mod/cmdhelp/main.cpp:60-70,        *)
(* 92-116, 182-190): /sched puts a command on a heap whose top is the      *)
(* latest one, and every second the server runs the top while it is due.   *)
(* A command may itself be a /sched.  Times are kept relative to now.      *)
(***************************************************************************)
EXTENDS Integers, FiniteSets

CONSTANTS
    Shot,       \* places for delayed commands; a bound
    Delays,     \* seconds typed in /sched, 1 or more
    MaxTyped    \* bound: commands scheduled by players

Nothing == 0    \* the delay of a command that schedules no other

VARIABLES
    oneshot_timers, \* the places taken, each with the seconds left and the delay of what it schedules
    top,            \* the heap's top, if any
    typed,
    ticking,        \* in the loop of tick
    ran             \* places whose command has run

schedVars == <<oneshot_timers, top, typed, ticking, ran>>

Init == oneshot_timers = {} /\ top = {} /\ typed = 0 /\ ticking = FALSE /\ ran = {}

-----------------------------------------------------------------------------
Taken == {s.place : s \in oneshot_timers}

NewTops(heap) ==
    IF heap = {} THEN {{}} ELSE {{s} : s \in {t \in heap : \A u \in heap : u.left <= t.left}}

\* pushed under a top that is not earlier
TopWith(s) == IF \E t \in top : t.left >= s.left THEN top ELSE {s}

Oneshot(place, delay, next) == [place |-> place, left |-> delay, next |-> next]

Sched(place, delay, next) ==
    LET s == Oneshot(place, delay, next)
    IN  /\ ~ticking /\ typed < MaxTyped /\ place \notin Taken
        /\ Cardinality(Taken) + 1 < Cardinality(Shot)
        /\ oneshot_timers' = oneshot_timers \cup {s}
        /\ top' = TopWith(s)
        /\ typed' = typed + 1 /\ ran' = ran \ {place}
        /\ UNCHANGED ticking

Second ==
    /\ ~ticking /\ ticking' = TRUE
    /\ oneshot_timers' = {[s EXCEPT !.left = IF @ < 0 THEN @ ELSE @ - 1] : s \in oneshot_timers}
    /\ top' = {[s EXCEPT !.left = IF @ < 0 THEN @ ELSE @ - 1] : s \in top}
    /\ UNCHANGED <<typed, ran>>

Due == \E s \in top : s.left <= 0

\* what the command of the top has scheduled when pop is called
Pushed(s) ==
    IF s.next = Nothing THEN {}
    ELSE {Oneshot(CHOOSE p \in Shot : p \notin Taken, s.next, Nothing)}

\* fault: what is removed is the earliest
RunAndPopEarliest ==
    /\ ticking /\ Due
    /\ \E s \in top, gone \in oneshot_timers :
          /\ \A t \in oneshot_timers : gone.left <= t.left
          /\ oneshot_timers' = (oneshot_timers \cup Pushed(s)) \ {gone}
          /\ ran' = ran \cup {s.place}
    /\ top' \in NewTops(oneshot_timers')
    /\ UNCHANGED <<typed, ticking>>

Run ==
    /\ ticking /\ Due
    /\ \E s \in top :
          LET gone == IF \E n \in Pushed(s) : n.left > s.left THEN Pushed(s) ELSE top
          IN  oneshot_timers' = (oneshot_timers \cup Pushed(s)) \ gone
    /\ ran' = ran \cup {s.place : s \in top}
    /\ top' \in NewTops(oneshot_timers')
    /\ UNCHANGED <<typed, ticking>>

EndOfTick ==
    /\ ticking /\ ~Due /\ ticking' = FALSE
    /\ UNCHANGED <<oneshot_timers, top, typed, ran>>

Next ==
    \/ \E p \in Shot, d \in Delays, n \in Delays \cup {Nothing} : Sched(p, d, n)
    \/ Second \/ Run \/ EndOfTick

Fairness == WF_schedVars(Second) /\ WF_schedVars(Run) /\ WF_schedVars(EndOfTick)

Spec == Init /\ [][Next]_schedVars /\ Fairness

-----------------------------------------------------------------------------
(***************************************************************************)
(* The command that pop removes is the one that has just run, or one it    *)
(* has itself scheduled: nobody else's command is lost without having run. *)
(***************************************************************************)
OthersNeverLost ==
    [][\A s \in oneshot_timers :
          s \notin oneshot_timers' /\ ~Second => s \in top /\ s.place \in ran']_schedVars

(***************************************************************************)
(* When no more are scheduled, every delayed command runs, in spite of the *)
(* later ones in front of it, unless one that schedules a later one runs:  *)
(* pop then removes that later one and the same top is run for ever.       *)
(***************************************************************************)
Endless == ticking /\ \E s \in top : s.left <= 0 /\ s.next # Nothing

EveryOneshotRuns ==
    \A p \in Shot : p \in Taken ~> p \in ran \/ Endless

(***************************************************************************)
(* A command whose seconds are over has run when the tick is: what docs    *)
(* say of /sched.                                                          *)
(***************************************************************************)
DueHaveRun == ~ticking => \A s \in oneshot_timers : s.left > 0
=============================================================================
