----------------------------- MODULE LoadOrder ------------------------------
(***************************************************************************)
(* The order in which mods are loaded (preload/depsolve.cpp:90-162,        *)
(* loader.cpp:3-31): a topological sort that counts, for each mod, the     *)
(* entries of its list of dependencies not yet met, and takes the mod of   *)
(* the lowest priority number of those that wait for none.  A list may     *)
(* name a mod twice, itself, one that is not there or too new a version.   *)
(***************************************************************************)
EXTENDS Naturals, SequencesExt

CONSTANTS
    Mod,        \* names of the mods in mods/
    Prio,       \* load_prio of each
    Version,    \* version of each
    DepLists    \* lists of dependencies: sequences of records of a name and a version

ASSUME DepListsAreLists == DepLists \subseteq Seq([name : STRING, version : Nat])

VARIABLES
    deps,       \* the list of each mod
    phase,      \* check, sort, load, running; failed, loop: the process has exited
    topo_indeg, que, order,
    loaded      \* how many of order are loaded

loadVars == <<deps, phase, topo_indeg, que, order, loaded>>

Entries(m, n) == {i \in DOMAIN deps[m] : deps[m][i].name = n}

LoadInit ==
    /\ deps \in [Mod -> DepLists]
    /\ phase = "check" /\ topo_indeg = [m \in Mod |-> 0]
    /\ que = {} /\ order = <<>> /\ loaded = 0

-----------------------------------------------------------------------------
Met == \A m \in Mod : \A i \in DOMAIN deps[m] :
           /\ deps[m][i].name \in Mod
           /\ Version[deps[m][i].name] >= deps[m][i].version

Refuse ==
    /\ phase = "check" /\ ~Met /\ phase' = "failed"
    /\ UNCHANGED <<deps, topo_indeg, que, order, loaded>>

\* steps 1 and 2 of solve, and the first loop of topoSort
BuildEdges ==
    /\ phase = "check" /\ Met /\ phase' = "sort"
    /\ topo_indeg' = [m \in Mod |-> Len(deps[m])]
    /\ que' = {m \in Mod : Len(deps[m]) = 0}
    /\ UNCHANGED <<deps, order, loaded>>

\* fault: a mod not yet placed is ready as soon as one it depends on is
PopEager(m) ==
    /\ phase = "sort" /\ m \in que /\ \A n \in que : Prio[m] <= Prio[n]
    /\ order' = Append(order, m)
    /\ topo_indeg' = [n \in Mod |-> topo_indeg[n] - Cardinality(Entries(n, m))]
    /\ que' = (que \ {m}) \cup {n \in Mod \ Range(order') : Entries(n, m) # {}}
    /\ UNCHANGED <<deps, phase, loaded>>

\* fault: the in-degree is lowered once for a mod named twice
PopOnce(m) ==
    /\ phase = "sort" /\ m \in que /\ \A n \in que : Prio[m] <= Prio[n]
    /\ order' = Append(order, m)
    /\ topo_indeg' = [n \in Mod |-> topo_indeg[n] - (IF Entries(n, m) = {} THEN 0 ELSE 1)]
    /\ que' = (que \ {m}) \cup {n \in Mod : Entries(n, m) # {} /\ topo_indeg'[n] = 0}
    /\ UNCHANGED <<deps, phase, loaded>>

Pop(m) ==
    /\ phase = "sort" /\ m \in que /\ \A n \in que : Prio[m] <= Prio[n]
    /\ order' = Append(order, m)
    /\ topo_indeg' = [n \in Mod |-> topo_indeg[n] - Cardinality(Entries(n, m))]
    /\ que' = (que \ {m}) \cup {n \in Mod : Entries(n, m) # {} /\ topo_indeg'[n] = 0}
    /\ UNCHANGED <<deps, phase, loaded>>

Sorted ==
    /\ phase = "sort" /\ que = {}
    /\ phase' = IF Len(order) # Cardinality(Mod) THEN "loop" ELSE "load"
    /\ UNCHANGED <<deps, topo_indeg, que, order, loaded>>

\* load_helper: the front of the list is loaded, and its mod_init loads the rest
Load ==
    /\ phase = "load" /\ loaded < Len(order)
    /\ loaded' = loaded + 1
    /\ UNCHANGED <<deps, phase, topo_indeg, que, order>>

LoadFails ==
    /\ phase = "load" /\ loaded < Len(order) /\ phase' = "failed"
    /\ UNCHANGED <<deps, topo_indeg, que, order, loaded>>

AllLoaded ==
    /\ phase = "load" /\ loaded = Len(order) /\ phase' = "running"
    /\ UNCHANGED <<deps, topo_indeg, que, order, loaded>>

LoadNext ==
    \/ Refuse \/ BuildEdges \/ Sorted \/ Load \/ LoadFails \/ AllLoaded
    \/ \E m \in Mod : Pop(m)

LoadSpec == LoadInit /\ [][LoadNext]_loadVars

-----------------------------------------------------------------------------
(***************************************************************************)
(* Types of all variables: above all, no count of entries left goes below  *)
(* zero, however often a list names a mod.                                 *)
(***************************************************************************)
LoadTypeOK ==
    /\ deps \in [Mod -> DepLists]
    /\ phase \in {"check", "sort", "load", "running", "failed", "loop"}
    /\ topo_indeg \in [Mod -> Nat] /\ que \subseteq Mod
    /\ order \in Seq(Mod) /\ loaded \in 0 .. Len(order)

(***************************************************************************)
(* A mod is loaded after every mod it depends on, and the server runs only *)
(* with all mods loaded, each once.                                        *)
(***************************************************************************)
NeedsFirst ==
    /\ \A k \in 1 .. loaded : \A i \in DOMAIN deps[order[k]] :
           \E j \in 1 .. k - 1 : order[j] = deps[order[k]][i].name
    /\ phase = "running" => loaded = Cardinality(Mod) /\ IsInjective(order)

(***************************************************************************)
(* When the server refuses to start for a loop of dependencies there is    *)
(* one: some mods each depend on another of them.                          *)
(***************************************************************************)
LoopsAreReal ==
    phase = "loop" =>
        \E S \in SUBSET Mod \ {{}} : \A m \in S : \E n \in S : Entries(m, n) # {}
=============================================================================
