---------------------------- MODULE LandGeometry ----------------------------
(***************************************************************************)
(* The plane the lands of land.mod lie on, as mod/land/data.hpp computes   *)
(* with it: columns, the chunks they belong to, the rectangles players     *)
(* buy, the chunks a rectangle touches and the part of a chunk a cached    *)
(* chunk paints for it.                                                    *)
(*                                                                         *)
(* A coordinate is the program's lpos_t: the block coordinate with its top *)
(* bit flipped, which keeps the order of the integers, so it is a natural  *)
(* number here.  Rectangles are closed: x..dx by z..dz.                    *)
(***************************************************************************)
EXTENDS Integers, FiniteSets, Sequences

CONSTANTS
    ChunkSize,  \* columns along one side of a chunk: 16 in the game
    Dims        \* dimensions: overworld, nether, end

ASSUME ChunkSizeAssumption == ChunkSize \in Nat \ {0}

Column == [x : Nat, z : Nat, dim : Dims]

ChunkKey == [x : Nat, z : Nat, dim : Dims]

Rectangle ==
    {r \in [x : Nat, z : Nat, dx : Nat, dz : Nat, dim : Dims] :
        r.x <= r.dx /\ r.z <= r.dz}

ChunkPart(p) == p \div ChunkSize    \* p >> 4

OffsetPart(p) == p % ChunkSize      \* p & 15

ChunkOf(c) == [x |-> ChunkPart(c.x), z |-> ChunkPart(c.z), dim |-> c.dim]

Covers(r, c) ==
    /\ c.dim = r.dim
    /\ r.x <= c.x /\ c.x <= r.dx
    /\ r.z <= c.z /\ c.z <= r.dz

Disjoint(r, s) ==
    \/ r.dim # s.dim
    \/ r.dx < s.x \/ s.dx < r.x
    \/ r.dz < s.z \/ s.dz < r.z

(***************************************************************************)
(* The chunks proc_chunk_add and proc_chunk_del visit for a rectangle, as  *)
(* a rectangle of chunk coordinates.                                       *)
(***************************************************************************)
ChunkSpan(r) ==
    [x  |-> ChunkPart(r.x),  z  |-> ChunkPart(r.z),
     dx |-> ChunkPart(r.dx), dz |-> ChunkPart(r.dz), dim |-> r.dim]

Touches(r, k) == Covers(ChunkSpan(r), k)

(***************************************************************************)
(* The nested loops of the code run over an area with x outside and z      *)
(* inside.  A loop is a cursor: where it starts, whether it is at its last *)
(* iteration, and where it goes next.                                      *)
(***************************************************************************)
First(area) == [x |-> area.x, z |-> area.z, dim |-> area.dim]

AtEnd(area, c) == c.x = area.dx /\ c.z = area.dz

\* faults: z not set back for the next row; x not advanced
AfterWithoutReset(area, c) ==
    IF c.z < area.dz THEN [c EXCEPT !.z = c.z + 1] ELSE [c EXCEPT !.x = c.x + 1]

AfterOnOneRow(area, c) ==
    IF c.z < area.dz THEN [c EXCEPT !.z = c.z + 1] ELSE [c EXCEPT !.z = area.z]

After(area, c) ==
    IF c.z < area.dz THEN [c EXCEPT !.z = c.z + 1]
    ELSE [c EXCEPT !.x = c.x + 1, !.z = area.z]

\* c comes before d in the order of the loops
Before(c, d) == c.x < d.x \/ (c.x = d.x /\ c.z < d.z)

(***************************************************************************)
(* ChunkLandManager::init paints, for a land of the chunk's list, every    *)
(* offset between two bounds: the land's own edge where that edge lies in  *)
(* the chunk, the edge of the chunk otherwise.                             *)
(***************************************************************************)
PaintFrom(edge, k) == IF ChunkPart(edge) = k THEN OffsetPart(edge) ELSE 0

\* fault: the loop stops before the edge
PaintToShort(edge, k) == IF ChunkPart(edge) = k THEN OffsetPart(edge) - 1 ELSE ChunkSize - 1

PaintTo(edge, k) == IF ChunkPart(edge) = k THEN OffsetPart(edge) ELSE ChunkSize - 1

Paints(r, k, c) ==
    /\ PaintFrom(r.x, k.x) <= OffsetPart(c.x)
    /\ OffsetPart(c.x) <= PaintTo(r.dx, k.x)
    /\ PaintFrom(r.z, k.z) <= OffsetPart(c.z)
    /\ OffsetPart(c.z) <= PaintTo(r.dz, k.z)

(***************************************************************************)
(* CLCache identifies a cached chunk by a 64-bit word made of the three    *)
(* parts of its key: x << 32 | dim << 29 | z.                              *)
(***************************************************************************)
HashDim == 536870912    \* 2^29

HashX == 8 * HashDim    \* 2^32

ChunkHash(x, z, dim) == x * HashX + dim * HashDim + z
=============================================================================
