------------------------------- MODULE Codes --------------------------------
(***************************************************************************)
(* One-time codes, cdk.mod (mod/cdk/main.cpp:38-70): a code used leaves    *)
(* the map in memory, its commands run, and the map is written over the    *)
(* file, which is empty in between.  The process may die at each point.    *)
(***************************************************************************)
EXTENDS Naturals, FiniteSets

CONSTANTS
    Code,
    MaxFalls    \* bound: deaths of the process

VARIABLES
    cdks,       \* in memory
    file,       \* the codes in config/cdk.json
    torn,       \* the file is empty: the next load exits
    using,      \* the code of the command under way
    at,         \* idle, run, save, write; or down
    uses,       \* how often each code was run
    undone,     \* how often a death came before the use of a code was saved
    falls

codeVars == <<cdks, file, torn, using, at, uses, undone, falls>>

Init ==
    /\ cdks = Code /\ file = Code /\ torn = FALSE /\ using = {} /\ at = "idle"
    /\ uses = [c \in Code |-> 0] /\ undone = [c \in Code |-> 0] /\ falls = 0

-----------------------------------------------------------------------------
Use(c) ==
    /\ at = "idle" /\ c \in cdks
    /\ cdks' = cdks \ {c} /\ using' = {c} /\ at' = "run"
    /\ UNCHANGED <<file, torn, uses, undone, falls>>

Execute ==
    /\ at = "run" /\ at' = "save"
    /\ uses' = [c \in Code |-> uses[c] + Cardinality(using \cap {c})]
    /\ UNCHANGED <<cdks, file, torn, using, undone, falls>>

\* save opens the file, which empties it, and writes
Truncate ==
    /\ at = "save" /\ at' = "write" /\ torn' = TRUE /\ file' = {}
    /\ UNCHANGED <<cdks, using, uses, undone, falls>>

\* fault: the code used is still among those saved
WriteWithUsed ==
    /\ at = "write" /\ at' = "idle" /\ torn' = FALSE
    /\ file' = cdks \cup using /\ using' = {}
    /\ UNCHANGED <<cdks, uses, undone, falls>>

Write ==
    /\ at = "write" /\ at' = "idle" /\ torn' = FALSE
    /\ file' = cdks /\ using' = {}
    /\ UNCHANGED <<cdks, uses, undone, falls>>

\* /reload_cdk
Reload ==
    /\ at = "idle" /\ cdks' = file
    /\ UNCHANGED <<file, torn, using, at, uses, undone, falls>>

Die ==
    /\ at # "down" /\ falls < MaxFalls
    /\ falls' = falls + 1 /\ at' = "down" /\ cdks' = {} /\ using' = {}
    /\ undone' = [c \in Code |-> undone[c] + Cardinality(using \cap {c})]
    /\ UNCHANGED <<file, torn, uses>>

Load ==
    /\ at = "down" /\ ~torn
    /\ at' = "idle" /\ cdks' = file
    /\ UNCHANGED <<file, torn, using, uses, undone, falls>>

Next ==
    \/ \E c \in Code : Use(c)
    \/ Execute \/ Truncate \/ Write \/ Reload \/ Die \/ Load

Spec == Init /\ [][Next]_codeVars

-----------------------------------------------------------------------------
(***************************************************************************)
(* Types of all variables.                                                 *)
(***************************************************************************)
TypeOK ==
    /\ {cdks, file, using} \subseteq SUBSET Code /\ torn \in BOOLEAN
    /\ at \in {"idle", "run", "save", "write", "down"}
    /\ {uses, undone} \subseteq [Code -> Nat] /\ falls \in Nat

(***************************************************************************)
(* A code is used once, and once more only for each time the process died  *)
(* before its use was saved; a code that was not used is not lost, unless  *)
(* the process died while the file was empty.                              *)
(***************************************************************************)
CodesOnce ==
    /\ \A c \in Code : uses[c] <= 1 + undone[c]
    /\ torn \/ \A c \in Code : uses[c] = 0 => c \in file \cup using
=============================================================================
