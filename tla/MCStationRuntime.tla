-------------------------- MODULE MCStationRuntime --------------------------
(* Instances, for TLC, of StationRuntime, of the queries of its cell index and   *)
(* of the columns its components lie in.  A behaviour is about one of them:      *)
(* a query changes nothing but the scratch of its caller, and what StationRuntime *)
(* keeps of the components is who has which.                                     *)
EXTENDS StationRuntime, CellQuery, ComponentStore

VARIABLE part

\* Two cells: position 1 lies in the first, position 2 spans both.
MCCells == {1, 2}
MCFootprint(p) == 1 .. p

EntitySymmetry == Permutations(Entities)

\* Two generations of one slot with a dense marker, and a slot beyond those.
QueryHandles ==
    {[index |-> 0, generation |-> 0], [index |-> 0, generation |-> 1],
     [index |-> 1, generation |-> 0]}

\* Cells of size 2 on either side of the origin: a point at a cell's edge, a box
\* over two cells and one over all four.
QueryBoxes ==
    {[min |-> <<0, 0>>, max |-> <<0, 0>>], [min |-> <<-1, -2>>, max |-> <<0, -1>>],
     [min |-> <<-2, -1>>, max |-> <<1, 1>>]}

\* A point, one whole cell, one side of the origin, and everything.
QueryRegions ==
    {[min |-> <<-1, -1>>, max |-> <<-1, -1>>], [min |-> <<0, 0>>, max |-> <<1, 1>>],
     [min |-> <<-1, -1>>, max |-> <<-1, 1>>], [min |-> <<-2, -2>>, max |-> <<1, 1>>]}

QueryAxis == {-1, 0}

\* Component 1 lies in the vector and component 2 in the map.
Schema(id, name, storage, migration, fields) ==
    [id |-> id, name |-> name, storage |-> storage, migration |-> migration,
     max_bytes |-> 2, fields |-> fields]
Field(name, offset, bytes) == [name |-> name, offset |-> offset, size |-> bytes]

\* Schemas that share an id, share a name, overlap, and reach beyond their blob.
ComponentSchemas ==
    {Schema(1, "a", "SparseBlob", "Copy", <<Field("x", 0, 1), Field("y", 1, 1)>>),
     Schema(1, "b", "External", "Copy", <<>>),
     Schema(2, "a", "SparseBlob", "Drop", <<Field("x", 0, 2), Field("y", 1, 1)>>),
     Schema(2, "a", "SparseBlob", "Copy", <<Field("x", 1, 2)>>),
     Schema(2, "b", "SparseBlob", "Copy", <<Field("x", 0, 2), Field("y", 2, 0)>>),
     Schema(2, "b", "SparseBlob", "Drop", <<>>)}

MCInit ==
    /\ part \in {"Calls", "Queries", "Components"}
    /\ Init /\ QueryInit /\ ComponentInit

MCNext ==
    /\ UNCHANGED part
    /\ \/ part = "Calls" /\ Next /\ UNCHANGED <<queryVars, componentVars>>
       \/ part = "Queries" /\ QueryNext /\ UNCHANGED <<vars, componentVars>>
       \/ part = "Components" /\ ComponentNext /\ UNCHANGED <<vars, queryVars>>

MCSpec == MCInit /\ [][MCNext]_<<vars, part, queryVars, componentVars>>
=============================================================================
