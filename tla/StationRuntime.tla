--------------------------- MODULE StationRuntime ---------------------------
(***************************************************************************)
(* The product-path Station: crates/sectorsync/src/station.rs.             *)
(*                                                                         *)
(* StationRuntime owns a Station, its CellIndex and its ComponentStore and *)
(* keeps them coherent: each method below is the Station method followed,  *)
(* in the same call, by the index and component work.  Callers keep        *)
(* handles for as long as they like, so every method that takes a handle   *)
(* is offered every handle ever issued, the stale ones included.           *)
(*                                                                         *)
(* issued and seen are history: the entity each handle was issued for, and *)
(* the position an observer read when it last cleared the TRANSFORM bit of *)
(* a live handle.                                                          *)
(***************************************************************************)
EXTENDS Station, Ordered

CONSTANTS Cells, Footprint(_), ComponentIds

\* GridSpec::cell_at and the bounds loop yield cells of the grid.
ASSUME FootprintAssumption == \A p \in Positions : Footprint(p) \subseteq Cells

VARIABLES entity_cells, cells, components, issued, seen

INSTANCE CellIndex WITH Handles <- Handle

runtimeVars == <<entity_cells, cells, components, issued, seen>>
vars == <<size, records, generations, free, by_id,
          entity_cells, cells, components, issued, seen>>

\* Storage, indexes, blobs and the handles given out keep their types.
TypeOK ==
    /\ StationTypeOK
    /\ IndexTypeOK
    /\ components \in SUBSET (Handle \X ComponentIds)
    /\ issued \in SUBSET (Handle \X Entities)
    /\ seen \in [Handle -> Positions \cup {NoRecord}]

\* StationRuntime::new.
Init ==
    /\ StationInit
    /\ IndexInit
    /\ components = {}
    /\ issued = {}
    /\ seen = [h \in Handle |-> NoRecord]

\* Handles a caller can present.
Known == {pair[1] : pair \in issued}

\* The handle an insertion or refresh of e returns.
ReturnedHandle(e) == IF by_id[e] = NoHandle THEN AllocatedHandle ELSE by_id[e]

Return(e) == issued' = issued \cup {<<ReturnedHandle(e), e>>}

\* spawn_owned.
SpawnOwned(e, p) ==
    /\ StationSpawnOwned(e, p)
    /\ IndexUpsert(AllocatedHandle, p)
    /\ Return(e)
    /\ UNCHANGED <<components, seen>>

\* upsert_ghost.
UpsertGhost(e, p) ==
    /\ StationUpsertGhost(e, p)
    /\ IndexUpsert(ReturnedHandle(e), p)
    /\ Return(e)
    /\ UNCHANGED <<components, seen>>

\* move_owned.
MoveOwned(h, p) ==
    /\ StationMoveOwned(h, p)
    /\ IndexUpsert(h, p)
    /\ UNCHANGED <<components, issued, seen>>

\* Mutated: the index keeps what it knows of the entity.
DespawnIndexed(h) ==
    /\ StationRemove(h)
    /\ components' = {b \in components : b[1] # h}
    /\ seen' = [seen EXCEPT ![h] = NoRecord]
    /\ UNCHANGED <<entity_cells, cells, issued>>

\* despawn: Station::remove, CellIndex::remove, ComponentStore::clear_entity.
Despawn(h) ==
    /\ StationRemove(h)
    /\ IndexRemove(h)
    /\ components' = {b \in components : b[1] # h}
    /\ seen' = [seen EXCEPT ![h] = NoRecord]
    /\ UNCHANGED issued

\* set_tags.
SetTags(h, t) ==
    /\ StationSetTags(h, t)
    /\ UNCHANGED runtimeVars

\* set_component_blob: ensure_owned, then ComponentStore::set_blob_from_slice
\* (a blob the descriptor refuses changes nothing).
SetComponentBlob(h, c) ==
    /\ Resolves(h)
    /\ RecordOf(h).owned
    /\ components' = components \cup {<<h, c>>}
    /\ UNCHANGED <<stationVars, entity_cells, cells, issued, seen>>

\* Station::clear_dirty, after the observer has read the record.
ClearDirty(h, mask) ==
    /\ StationClearDirty(h, mask)
    /\ seen' = IF TRANSFORM \in mask
               THEN [seen EXCEPT ![h] = RecordOf(h).position]
               ELSE seen
    /\ UNCHANGED <<entity_cells, cells, components, issued>>

\* prewarm_handoff_ghost for a transfer addressed to this station.
PrewarmHandoffGhost(captured) ==
    /\ StationPrewarmHandoffGhost(captured)
    /\ IndexUpsert(ReturnedHandle(captured.id), captured.position)
    /\ Return(captured.id)
    /\ UNCHANGED <<components, seen>>

\* commit_incoming_handoff for a transfer addressed to this station.
CommitIncomingHandoff(captured) ==
    /\ StationCommitIncomingHandoff(captured)
    /\ IndexUpsert(ReturnedHandle(captured.id), captured.position)
    /\ Return(captured.id)
    /\ UNCHANGED <<components, seen>>

\* commit_outgoing_handoff of a transfer this station prepared.
CommitOutgoingHandoff(e) ==
    /\ StationCommitOutgoingHandoff(e)
    /\ Return(e)
    /\ UNCHANGED <<entity_cells, cells, components, seen>>

\* An upgrade through low_level_parts_mut: the station is replaced by what
\* restore makes of its own migrated snapshot, which leaves the index and the
\* components to the caller.  It indexes the new handles in their order, starts
\* with empty columns, and gives up the handles of the old station, which may
\* resolve to other entities of the new one.
Upgrade(n, from) ==
    LET slots == 0 .. n - 1
        at(i) == Footprint(records[from[i]].position)
    IN /\ StationRestore(n, from)
       /\ entity_cells' = [h \in Handle |->
                              IF h.index \in slots /\ h.generation = 0
                              THEN at(h.index) ELSE {}]
       /\ cells' = [c \in Cells |->
                       LET listed == InOrder({i \in slots : c \in at(i)})
                       IN [k \in DOMAIN listed |-> FirstHandle(listed[k])]]
       /\ components' = {}
       /\ issued' = {<<FirstHandle(i), records[from[i]].id>> : i \in slots}
       /\ seen' = [h \in Handle |->
                      IF h.index \in slots /\ h.generation = 0
                      THEN seen[records[from[h.index]].handle] ELSE NoRecord]

\* The record another station captures in a HandoffTransfer: authoritative
\* there, under a handle of that station, in any state the owner left it.
Captured == [id : Entities, handle : {[index |-> MaxSlots - 1, generation |-> 0]},
             position : Positions, tags : Tags, owned : {TRUE}, dirty : DirtyMask]

Next ==
    \/ \E e \in Entities, p \in Positions : SpawnOwned(e, p) \/ UpsertGhost(e, p)
    \/ \E h \in Known :
          \/ \E p \in Positions : MoveOwned(h, p)
          \/ Despawn(h)
          \/ \E t \in Tags : SetTags(h, t)
          \/ \E c \in ComponentIds : SetComponentBlob(h, c)
          \/ \E mask \in DirtyMask \ {{}} : ClearDirty(h, mask)
    \/ \E captured \in Captured :
          PrewarmHandoffGhost(captured) \/ CommitIncomingHandoff(captured)
    \/ \E e \in Entities : CommitOutgoingHandoff(e)
    \/ \E n \in 0 .. size : \E from \in Migrations(n) : Upgrade(n, from)

Spec == Init /\ [][Next]_vars

-----------------------------------------------------------------------------
(* Properties. *)

\* No component blob outlives its entity: a recycled slot never inherits one.
ComponentsFollowStation == \A b \in components : Resolves(b[1])

\* Spatial index, components and Station agree after every call, their types
\* included: the index lists exactly the live handles, each in the cells of its
\* current position.
IndexFollowsStation ==
    /\ TypeOK
    /\ CellMapsInverse
    /\ ComponentsFollowStation
    /\ \A h \in Handle :
          entity_cells[h] = IF Resolves(h) THEN Footprint(RecordOf(h).position) ELSE {}

\* A handle issued for one entity never reaches another one: once the entity is
\* gone the generation check of get/get_mut refuses it, however often the slot
\* is reused, as long as the slot's generation has not saturated.
HandleIdentity ==
    \A pair \in issued :
        pair[1].generation < MaxGeneration /\ Resolves(pair[1])
            => RecordOf(pair[1]).id = pair[2]

\* A transform the observer has not read is marked: no path that writes a
\* position forgets the TRANSFORM bit that replication planning reads.
TransformChangeMarked ==
    \A h \in Handle :
        /\ Resolves(h)
        /\ RecordOf(h).position # seen[h]
        => TRANSFORM \in RecordOf(h).dirty
=============================================================================
