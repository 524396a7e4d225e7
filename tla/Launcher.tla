------------------------------ MODULE Launcher ------------------------------
(***************************************************************************)
(* The terminal wrapper around the server (launcher/termwrap.c:108-195)    *)
(* and how the server ends (mod/base/base.cpp:61-86, 300-311, 382).  The   *)
(* wrapper copies the server's output from a pty, turns the user's Ctrl-C  *)
(* into an interrupt of the server, and ends with it.  Signals come as     *)
(* records to read; those that come before they are blocked are lost.      *)
(***************************************************************************)
EXTENDS Naturals

VARIABLES
    wrap,       \* setup, poll, wait, done
    srv,        \* starting, loading, running, stopping, zombie, reaped
    halted,     \* the server is stopped by a debugger
    sint,       \* an interrupt was sent to the server and not handled
    full,       \* the pty holds output
    pend,       \* signals to be read by the wrapper
    ctrlc, lvlCorrupt

launchVars == <<wrap, srv, halted, sint, full, pend, ctrlc, lvlCorrupt>>

Alive == srv \in {"starting", "loading", "running", "stopping"}

Init ==
    /\ wrap = "setup" /\ srv = "starting" /\ halted = FALSE /\ sint = FALSE /\ full = FALSE
    /\ pend = {} /\ ctrlc = 0 /\ lvlCorrupt = 0

\* what the wrapper gets when its child changes state
Signalled == IF wrap = "setup" THEN pend ELSE pend \cup {"CHLD"}

Dies == srv' = "zombie" /\ halted' = FALSE /\ sint' = FALSE /\ pend' = Signalled

-----------------------------------------------------------------------------
(***************************************************************************)
(* The wrapper.  Of the signals the lowest number is read first.           *)
(***************************************************************************)
make_sig_handler ==
    /\ wrap = "setup" /\ wrap' = "poll"
    /\ UNCHANGED <<srv, halted, sint, full, pend, ctrlc, lvlCorrupt>>

CopyOutput ==
    /\ wrap = "poll" /\ full /\ full' = FALSE
    /\ UNCHANGED <<wrap, srv, halted, sint, pend, ctrlc, lvlCorrupt>>

UserInterrupts ==
    /\ wrap = "poll" /\ pend' = pend \cup {"INT"}
    /\ UNCHANGED <<wrap, srv, halted, sint, full, ctrlc, lvlCorrupt>>

\* fault: whatever was to be read is taken for the interrupt
ReadInterruptAndAll ==
    /\ wrap = "poll" /\ "INT" \in pend
    /\ pend' = {} /\ sint' = Alive
    /\ UNCHANGED <<wrap, srv, halted, full, ctrlc, lvlCorrupt>>

ReadInterrupt ==
    /\ wrap = "poll" /\ "INT" \in pend
    /\ pend' = pend \ {"INT"} /\ sint' = Alive
    /\ UNCHANGED <<wrap, srv, halted, full, ctrlc, lvlCorrupt>>

ReadChild ==
    /\ wrap = "poll" /\ "CHLD" \in pend /\ "INT" \notin pend
    /\ pend' = pend \ {"CHLD"} /\ wrap' = "wait"
    /\ UNCHANGED <<srv, halted, sint, full, ctrlc, lvlCorrupt>>

\* wait returns for a child that has ended, not for one that is halted
Wait ==
    /\ wrap = "wait" /\ srv = "zombie"
    /\ srv' = "reaped" /\ wrap' = "done"
    /\ UNCHANGED <<halted, sint, full, pend, ctrlc, lvlCorrupt>>

-----------------------------------------------------------------------------
(***************************************************************************)
(* The server.  Before base.mod is loaded an interrupt kills it; writing   *)
(* and stopping, which writes, wait for room in the pty.                   *)
(***************************************************************************)
Runs == Alive /\ ~halted

Handle ==
    /\ Runs /\ sint
    /\ \/ srv = "starting" /\ Dies /\ UNCHANGED ctrlc
       \/ srv # "starting" /\ ctrlc >= 2 /\ Dies /\ ctrlc' = 3
       \/ /\ srv # "starting" /\ ctrlc < 2 /\ ctrlc' = ctrlc + 1 /\ sint' = FALSE
          /\ srv' = IF srv = "loading" THEN srv ELSE "stopping"
          /\ UNCHANGED <<halted, pend>>
    /\ UNCHANGED <<wrap, full, lvlCorrupt>>

GoOn ==
    /\ Runs /\ ~sint
    /\ \/ srv = "starting" /\ srv' = "loading"
       \/ srv = "loading" /\ srv' = "running"
    /\ UNCHANGED <<wrap, halted, sint, full, pend, ctrlc, lvlCorrupt>>

Write == Runs /\ ~full /\ full' = TRUE /\ UNCHANGED <<wrap, srv, halted, sint, pend, ctrlc, lvlCorrupt>>

Stop == Runs /\ srv = "stopping" /\ ~full /\ Dies /\ UNCHANGED <<wrap, full, ctrlc, lvlCorrupt>>

onLevelCorrupt ==
    /\ Runs /\ srv \in {"running", "stopping"} /\ lvlCorrupt <= 3
    /\ lvlCorrupt' = lvlCorrupt + 1
    /\ \/ lvlCorrupt < 3 /\ srv' = "stopping" /\ UNCHANGED <<halted, sint, pend>>
       \/ lvlCorrupt = 3 /\ Dies
    /\ UNCHANGED <<wrap, full, ctrlc>>

\* execv fails, the server crashes
Fail == Alive /\ Dies /\ UNCHANGED <<wrap, full, ctrlc, lvlCorrupt>>

Debugger ==
    /\ Alive /\ halted' = ~halted /\ pend' = Signalled
    /\ UNCHANGED <<wrap, srv, sint, full, ctrlc, lvlCorrupt>>

Next ==
    \/ make_sig_handler \/ CopyOutput \/ ReadInterrupt \/ ReadChild \/ Wait
    \/ UserInterrupts \/ Handle \/ GoOn \/ Write \/ Stop \/ onLevelCorrupt \/ Fail \/ Debugger

Fairness ==
    /\ WF_launchVars(make_sig_handler) /\ WF_launchVars(CopyOutput)
    /\ WF_launchVars(ReadInterrupt) /\ SF_launchVars(ReadChild) /\ WF_launchVars(Wait)
    /\ WF_launchVars(Handle) /\ WF_launchVars(GoOn) /\ SF_launchVars(Stop)

Spec == Init /\ [][Next]_launchVars /\ Fairness

-----------------------------------------------------------------------------
(***************************************************************************)
(* The wrapper ends with the server once it hears of its end, and a server *)
(* that gets an interrupt ends: the one that is still starting, the one    *)
(* that runs, and the one that is told a third time.  A debugger that has  *)
(* halted the server in between is excused: the wrapper then waits for a   *)
(* child that has not ended, and copies no output meanwhile.               *)
(***************************************************************************)
EverythingEnds ==
    /\ srv = "zombie" /\ (wrap = "wait" \/ "CHLD" \in pend) ~> wrap = "done"
    /\ sint /\ srv # "loading" /\ wrap = "poll" /\ ~halted /\ "CHLD" \notin pend
            ~> ~Alive \/ halted
=============================================================================
