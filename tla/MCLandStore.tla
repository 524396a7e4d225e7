---------------------------- MODULE MCLandStore -----------------------------
(***************************************************************************)
(* Ground around a corner of four chunks.                                  *)
(***************************************************************************)
EXTENDS LandStoreProps

At(x, z) == [x |-> x, z |-> z, dim |-> 0]

Box(x, z, dx, dz) == [x |-> x, z |-> z, dx |-> dx, dz |-> dz, dim |-> 0]

MCDims == {0}

\* over a corner of four chunks; two neighbours that overlap it; a row across three chunks
MCRects == {Box(14, 15, 17, 16), Box(14, 15, 15, 15), Box(17, 14, 18, 15), Box(15, 17, 32, 17)}

\* inside, on and beyond the edges of those, on both sides of the borders
MCProbes == {At(14, 15), At(16, 15), At(15, 16), At(18, 14), At(20, 17), At(33, 17)}

\* chunks of four columns: three lands of one column and one over two chunks fill a chunk
MCTinyRects == {Box(0, 0, 0, 0), Box(0, 1, 0, 1), Box(1, 0, 1, 0), Box(1, 1, 2, 1)}

MCTinyProbes == {At(0, 0), At(1, 0), At(1, 1), At(2, 1)}

\* memory nobody wrote: zeros, or some ground
MCGarbage ==
    {[rect |-> r, data |-> d] : r \in {Box(0, 0, 0, 0), Box(1, 1, 2, 1)}, d \in Data}

\* a chunk caches a land nobody bought; the garbage was written under its own identifier
MCWreckage ==
    {[rec |-> <<>>, index |-> <<>>, landId |-> 0, job |-> Idle,
      lru |-> <<[chunk |-> At(0, 0), lids |-> <<0>>]>>,
      fast |-> [l \in {0} |-> [land |-> g, ref |-> 1]]] : g \in MCGarbage}
    \cup
    {[rec |-> [l \in {MaxLands} |-> g], index |-> <<>>, landId |-> 0, job |-> Idle,
      lru |-> <<>>, fast |-> <<>>] : g \in MCGarbage}
=============================================================================
