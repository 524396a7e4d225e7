---------------------------- MODULE MCLandDeeds -----------------------------
EXTENDS LandDeeds

MCDims == {0}

MCOrigin == [x |-> 0, z |-> 0]

MCPoints == {MCOrigin, [x |-> 1, z |-> 1], [x |-> 3, z |-> 0]}

MCPerms == {{"build"}}
=============================================================================
