------------------------------ MODULE LandMap -------------------------------
(***************************************************************************)
(* What land.mod's store promises the rest of the mod: a set of lands that *)
(* never overlap, each with an identifier no other land ever had, that are *)
(* added, changed and removed one at a time.  No key, index or cache is    *)
(* visible here.                                                           *)
(***************************************************************************)
EXTENDS LandGeometry

CONSTANTS
    Rects,  \* the rectangles players select
    Data    \* what a record says besides its place: owners and permissions

VARIABLES
    lands,  \* identifier -> [rect, data], for the lands there are
    issued  \* identifiers handed out so far

mapVars == <<lands, issued>>

Init == lands = <<>> /\ issued = {}

Add(l) ==
    /\ l \notin issued
    /\ issued' = issued \cup {l}
    /\ \E r \in Rects, d \in Data :
        /\ \A m \in DOMAIN lands : Disjoint(r, lands[m].rect)
        /\ lands' = [m \in DOMAIN lands \cup {l} |->
                        IF m = l THEN [rect |-> r, data |-> d] ELSE lands[m]]

Change(l) ==
    /\ UNCHANGED issued
    /\ \E d \in Data : lands' = [lands EXCEPT ![l].data = d]

Remove(l) ==
    /\ UNCHANGED issued
    /\ lands' = [m \in DOMAIN lands \ {l} |-> lands[m]]

\* identifiers are handed out one after another, from 1
Next ==
    \/ Add(Cardinality(issued) + 1)
    \/ \E l \in DOMAIN lands : Remove(l) \/ Change(l)

Spec == Init /\ [][Next]_mapVars
=============================================================================
