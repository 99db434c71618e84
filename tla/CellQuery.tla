------------------------------ MODULE CellQuery ------------------------------
(***************************************************************************)
(* Range queries of a cell index: the grid of                              *)
(* crates/sectorsync-core/src/spatial.rs, and query_aabb_into with its     *)
(* CellQueryScratch in spatial_index.rs.                                   *)
(*                                                                         *)
(* An entity is listed in every cell its bounds touch, so a query meets it *)
(* more than once.  The scratch, which its caller keeps between queries    *)
(* (of one index or of several), tells what this query has met: a marker   *)
(* of epoch and generation per slot below MaxDense, and a set for the rest *)
(* and for slots met under two generations.                                *)
(*                                                                         *)
(* Space has two axes here; the code has a third loop of the same kind.    *)
(* Coordinates are integers, the rounding of f32 is left out.              *)
(***************************************************************************)
EXTENDS Integers, Sequences, SequencesExt, FiniteSets, Ordered

CONSTANTS
    Handles,       \* handles that are indexed, of any index and generation
    Axis,          \* cell coordinates of an axis
    CellSize,
    Boxes,         \* bounds that entities take: AABBs
    Regions,       \* AABBs that are asked for
    MaxDense,      \* MAX_DENSE_DEDUP_SLOTS
    EpochLimit     \* 2^32, where query_epoch wraps

VARIABLES
    listed_cells, listed,              \* entity_cells and cells of the index
    box,                               \* history: handle -> its bounds
    query_epoch, seen_dense, seen_collisions   \* CellQueryScratch

scratchVars == <<query_epoch, seen_dense, seen_collisions>>
queryVars == <<listed_cells, listed, box, scratchVars>>

GridCells == Axis \X Axis

\* cell_at: the floor of each coordinate over the cell size.
CellAt(point) == <<point[1] \div CellSize, point[2] \div CellSize>>

\* Aabb3::overlaps, and cell_in_range for the cells of two corners.
Within(p, min, max) == \A axis \in 1 .. 2 : min[axis] <= p[axis] /\ p[axis] <= max[axis]
Overlaps(a, b) == \A axis \in 1 .. 2 : a.min[axis] <= b.max[axis] /\ a.max[axis] >= b.min[axis]

\* cells_for_aabb.
CellsForAabb(aabb) == {c \in GridCells : Within(c, CellAt(aabb.min), CellAt(aabb.max))}

Listing == INSTANCE CellIndex WITH
    Cells <- GridCells, Footprint <- CellsForAabb, entity_cells <- listed_cells, cells <- listed

\* Handles are those of station.rs.  Bounds have a lower and an upper corner of
\* integers whose cells lie on the axis.  There are two epochs at least.
ASSUME QueryAssumption ==
    /\ Handles \subseteq [index : Nat, generation : Nat]
    /\ IsFiniteSet(Axis) /\ Axis \subseteq Int
    /\ CellSize \in Nat \ {0} /\ MaxDense \in Nat /\ EpochLimit \in Nat \ {0, 1}
    /\ \A aabb \in Boxes \cup Regions :
          /\ {aabb.min, aabb.max} \subseteq Int \X Int /\ Within(aabb.min, aabb.min, aabb.max)
          /\ {CellAt(aabb.min), CellAt(aabb.max)} \subseteq GridCells

Slots == {h.index : h \in Handles}
Unmarked == [epoch |-> 0, generation |-> 0]

QueryInit ==
    /\ Listing!IndexInit
    /\ box = [h \in Handles |-> {}]
    /\ query_epoch = 0
    /\ seen_dense = [i \in Slots |-> Unmarked]
    /\ seen_collisions = [i \in Slots |-> 0]

\* upsert with bounds, and remove.
UpsertBox(h, aabb) ==
    /\ Listing!IndexUpsert(h, aabb)
    /\ box' = [box EXCEPT ![h] = {aabb}]
    /\ UNCHANGED scratchVars

RemoveBox(h) ==
    /\ Listing!IndexRemove(h)
    /\ box' = [box EXCEPT ![h] = {}]
    /\ UNCHANGED scratchVars

-----------------------------------------------------------------------------
(* Queries. *)

\* The volume of a range of cells, which nothing may occupy.
Volume(min, max) ==
    LET extent(axis) == IF max[axis] < min[axis] THEN 0 ELSE max[axis] - min[axis] + 1
    IN extent(1) * extent(2)

\* The nested loops of a grid query, and the order CellCoord3 derives.
Before(c, d) == c[1] < d[1] \/ (c[1] = d[1] /\ c[2] < d[2])

\* The cells a query collects, in its order: each cell of the range, or those of
\* the occupied cells that lie in it, when they are fewer.
Collected(region) ==
    LET min == CellAt(region.min)
        max == CellAt(region.max)
        occupied == {c \in GridCells : listed[c] # <<>>}
        inRange == {c \in GridCells : Within(c, min, max)}
    IN Sorted(IF Volume(min, max) <= Cardinality(occupied) THEN inRange
                                                           ELSE occupied \cap inRange,
              {x \in GridCells \X GridCells : Before(x[1], x[2])})

\* Mutated: markers of 2^32 queries ago are taken for this one's.
BegunUncleared ==
    LET next == (query_epoch + 1) % EpochLimit
    IN [epoch |-> IF next = 0 THEN 1 ELSE next, dense |-> seen_dense,
        collisions |-> seen_collisions, sparse |-> {}, handles |-> <<>>]

\* begin_query: the next epoch; when it wraps, markers are cleared.
Begun ==
    LET next == (query_epoch + 1) % EpochLimit
    IN [epoch |-> IF next = 0 THEN 1 ELSE next,
        dense |-> IF next = 0 THEN [i \in Slots |-> Unmarked] ELSE seen_dense,
        collisions |-> IF next = 0 THEN [i \in Slots |-> 0] ELSE seen_collisions,
        sparse |-> {}, handles |-> <<>>]

Kept(s, h) == [s EXCEPT !.handles = Append(@, h)]

\* The set takes a handle it does not hold.
MetSparsely(s, h) ==
    IF h \in s.sparse THEN s ELSE Kept([s EXCEPT !.sparse = @ \cup {h}], h)

\* insert_seen, and the push of a handle it takes: the first of its slot in this
\* query, or one of several generations, which the set tells apart from then on.
Met(s, h) ==
    LET i == h.index
        previous == s.dense[i]
    IN IF i >= MaxDense THEN MetSparsely(s, h)
       ELSE IF previous.epoch # s.epoch
            THEN Kept([s EXCEPT !.dense[i] = [epoch |-> s.epoch, generation |-> h.generation]], h)
       ELSE IF s.collisions[i] = s.epoch THEN MetSparsely(s, h)
       ELSE IF previous.generation = h.generation THEN s
       ELSE MetSparsely(
               [s EXCEPT !.collisions[i] = s.epoch,
                         !.sparse = @ \cup {[index |-> i, generation |-> previous.generation]}],
               h)

\* collect_cell.
CollectCell(s, c) == Loop(Met, s, listed[c])[Len(listed[c])]

\* query_aabb_into: the scratch it leaves, its handles included.
Answer(region) ==
    Loop(CollectCell, Begun, Collected(region))[Len(Collected(region))]

Query(region) ==
    /\ query_epoch' = Answer(region).epoch
    /\ seen_dense' = Answer(region).dense
    /\ seen_collisions' = Answer(region).collisions
    /\ UNCHANGED <<listed_cells, listed, box>>

QueryNext ==
    \/ \E h \in Handles : RemoveBox(h) \/ \E aabb \in Boxes : UpsertBox(h, aabb)
    \/ \E region \in Regions : Query(region)

QuerySpec == QueryInit /\ [][QueryNext]_queryVars

-----------------------------------------------------------------------------
(* Whatever was asked before with the same scratch, a query finds every entity *)
(* whose bounds reach into the region, once, and none that shares no cell with *)
(* it.                                                                         *)
QueriesExact ==
    \A region \in Regions :
        LET found == Answer(region).handles
        IN /\ \A h \in Handles :
                 /\ (\E aabb \in box[h] : Overlaps(aabb, region)) => h \in ToSet(found)
                 /\ h \in ToSet(found) => listed_cells[h] \cap CellsForAabb(region) # {}
           /\ Len(found) = Cardinality(ToSet(found))
=============================================================================
