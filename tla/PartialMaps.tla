---------------------------- MODULE PartialMaps -----------------------------
(***************************************************************************)
(* Maps whose keys come and go: the hash maps and LevelDB databases of the *)
(* mods.                                                                   *)
(***************************************************************************)
Put(f, k, v) == [x \in DOMAIN f \cup {k} |-> IF x = k THEN v ELSE f[x]]

Override(f, g) ==
    [x \in DOMAIN f \cup DOMAIN g |-> IF x \in DOMAIN g THEN g[x] ELSE f[x]]

Without(f, S) == [x \in DOMAIN f \ S |-> f[x]]

PartialMap(S, T) == UNION {[D -> T] : D \in SUBSET S}
=============================================================================
