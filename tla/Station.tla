------------------------------ MODULE Station ------------------------------
(***************************************************************************)
(* Station-local entity storage: crates/sectorsync-core/src/station.rs.    *)
(*                                                                         *)
(* A Station is a dense slot array (records, generations), a LIFO stack of *)
(* recycled slots (free) and an index from the stable entity id to the     *)
(* current handle (by_id).  A handle names a slot and the generation the   *)
(* slot had when the handle was issued.                                    *)
(*                                                                         *)
(* Every operator below is the effect of one method on those fields;       *)
(* StationRuntime composes them with the spatial index and the components. *)
(* A call that returns an error changes nothing, so it is no action here.  *)
(* Owner epochs and ghost expiry play no part in storage: Handoff has      *)
(* them.  Bounds and policy travel with the position and are folded into   *)
(* it.                                                                     *)
(***************************************************************************)
EXTENDS Integers, Sequences

CONSTANTS
    Entities,       \* stable entity ids
    Positions,      \* positions (with bounds and policy)
    Tags,           \* tag bit sets
    NoTags,         \* EntityTags::EMPTY
    MaxSlots,       \* bound on record slots (u32 indexes in the code)
    MaxGeneration,  \* u32::MAX, where the generation saturates
    NoRecord,       \* a vacant slot (None)
    NoHandle        \* an id with no record (None)

ASSUME StationAssumption ==
    /\ MaxSlots \in Nat \ {0}
    /\ MaxGeneration \in Nat
    /\ NoTags \in Tags

Index == 0 .. MaxSlots - 1
Generation == 0 .. MaxGeneration
Handle == [index : Index, generation : Generation]

\* The bits of DirtyMask that Station itself sets.
TRANSFORM == "TRANSFORM"
TAGS == "TAGS"
DirtyMask == SUBSET {TRANSFORM, TAGS}

EntityRecord == [id : Entities, handle : Handle, position : Positions,
                 tags : Tags, owned : BOOLEAN, dirty : DirtyMask]

ASSUME NoneAssumption ==
    /\ NoRecord \notin EntityRecord
    /\ NoHandle \notin Handle

VARIABLES
    size,           \* records.len()
    records,        \* slot -> record or NoRecord
    generations,    \* slot -> generation of its next or current handle
    free,           \* recycled slots, last in first out
    by_id           \* entity id -> handle or NoHandle

stationVars == <<size, records, generations, free, by_id>>

\* Slots, generations, the free stack and the id index keep their types.
StationTypeOK ==
    /\ size \in 0 .. MaxSlots
    /\ records \in [Index -> EntityRecord \cup {NoRecord}]
    /\ generations \in [Index -> Generation]
    /\ free \in Seq(Index)
    /\ by_id \in [Entities -> Handle \cup {NoHandle}]

\* Station::with_capacity.
StationInit ==
    /\ size = 0
    /\ records = [i \in Index |-> NoRecord]
    /\ generations = [i \in Index |-> 0]
    /\ free = <<>>
    /\ by_id = [e \in Entities |-> NoHandle]

\* get and get_mut succeed: the generation matches and the slot is occupied.
Resolves(h) ==
    /\ h.index < size
    /\ generations[h.index] = h.generation
    /\ records[h.index] # NoRecord

\* The record a resolving handle names.
RecordOf(h) == records[h.index]

\* allocate_handle pops the recycled slot pushed last, or appends a new slot.
CanAllocate == free # <<>> \/ size < MaxSlots

AllocatedHandle ==
    IF free # <<>>
    THEN [index |-> free[Len(free)], generation |-> generations[free[Len(free)]]]
    ELSE [index |-> size, generation |-> 0]

\* Mutated: reuses the slot pushed last but takes the oldest off the stack.
InsertAllocatedWrongEnd(h, record) ==
    /\ CanAllocate
    /\ IF free # <<>>
       THEN /\ free' = Tail(free)
            /\ UNCHANGED <<size, generations>>
       ELSE /\ size' = size + 1
            /\ generations' = [generations EXCEPT ![size] = 0]
            /\ UNCHANGED free
    /\ by_id' = [by_id EXCEPT ![record.id] = h]
    /\ records' = [records EXCEPT ![h.index] = record]

\* allocate_handle followed by insert_allocated.
InsertAllocated(h, record) ==
    /\ CanAllocate
    /\ IF free # <<>>
       THEN /\ free' = SubSeq(free, 1, Len(free) - 1)
            /\ UNCHANGED <<size, generations>>
       ELSE /\ size' = size + 1
            /\ generations' = [generations EXCEPT ![size] = 0]
            /\ UNCHANGED free
    /\ by_id' = [by_id EXCEPT ![record.id] = h]
    /\ records' = [records EXCEPT ![h.index] = record]

UpdateRecord(h, record) ==
    /\ records' = [records EXCEPT ![h.index] = record]
    /\ UNCHANGED <<size, generations, free, by_id>>

\* EntityRecord::owned and EntityRecord::ghost.
NewRecord(e, h, p, owned) ==
    [id |-> e, handle |-> h, position |-> p, tags |-> NoTags,
     owned |-> owned, dirty |-> {TRANSFORM}]

\* spawn_owned: refused for an id already held, as owner or as ghost.
StationSpawnOwned(e, p) ==
    /\ by_id[e] = NoHandle
    /\ InsertAllocated(AllocatedHandle, NewRecord(e, AllocatedHandle, p, TRUE))

\* upsert_ghost: refreshes the record whatever its role was, or inserts one.
StationUpsertGhost(e, p) ==
    \/ /\ by_id[e] # NoHandle
       /\ LET h == by_id[e]
              r == RecordOf(h)
          IN UpdateRecord(h, IF Resolves(h)
                             THEN [r EXCEPT !.position = p, !.owned = FALSE,
                                            !.dirty = @ \cup {TRANSFORM}]
                             ELSE r)
    \/ /\ by_id[e] = NoHandle
       /\ InsertAllocated(AllocatedHandle, NewRecord(e, AllocatedHandle, p, FALSE))

\* move_owned.
StationMoveOwned(h, p) ==
    /\ Resolves(h)
    /\ RecordOf(h).owned
    /\ UpdateRecord(h, [RecordOf(h) EXCEPT !.position = p,
                                           !.dirty = @ \cup {TRANSFORM}])

\* set_tags.
StationSetTags(h, t) ==
    /\ Resolves(h)
    /\ RecordOf(h).owned
    /\ UpdateRecord(h, [RecordOf(h) EXCEPT !.tags = t, !.dirty = @ \cup {TAGS}])

\* clear_dirty, which a ghost accepts too.
StationClearDirty(h, mask) ==
    /\ Resolves(h)
    /\ UpdateRecord(h, [RecordOf(h) EXCEPT !.dirty = @ \ mask])

\* Mutated: a generation that never changes.
NextGenerationSame(g) == g

\* saturating_add on the u32 generation.
NextGeneration(g) == IF g < MaxGeneration THEN g + 1 ELSE g

\* remove (remove_by_id resolves the id first and then calls it).
StationRemove(h) ==
    /\ Resolves(h)
    /\ by_id' = [by_id EXCEPT ![RecordOf(h).id] = NoHandle]
    /\ records' = [records EXCEPT ![h.index] = NoRecord]
    /\ generations' = [generations EXCEPT ![h.index] = NextGeneration(@)]
    /\ free' = Append(free, h.index)
    /\ UNCHANGED size

\* prewarm_handoff_ghost on the target: upsert_ghost with the captured state.
StationPrewarmHandoffGhost(captured) ==
    StationUpsertGhost(captured.id, captured.position)

\* Mutated: the source's handle is kept, or the change of place not marked.
AdoptedHandle(captured, h) ==
    [captured EXCEPT !.owned = TRUE, !.dirty = @ \cup {TRANSFORM}]
AdoptedUnmarked(captured, h) == [captured EXCEPT !.handle = h, !.owned = TRUE]

\* The record commit_incoming_handoff installs under the target's own handle.
Adopted(captured, h) ==
    [captured EXCEPT !.handle = h, !.owned = TRUE, !.dirty = @ \cup {TRANSFORM}]

\* commit_incoming_handoff on the target.
StationCommitIncomingHandoff(captured) ==
    \/ /\ by_id[captured.id] # NoHandle
       /\ LET h == by_id[captured.id]
          IN /\ Resolves(h)
             /\ ~RecordOf(h).owned
             /\ UpdateRecord(h, Adopted(captured, h))
    \/ /\ by_id[captured.id] = NoHandle
       /\ InsertAllocated(AllocatedHandle, Adopted(captured, AllocatedHandle))

\* commit_outgoing_handoff on the source: the owner becomes a ghost.
StationCommitOutgoingHandoff(e) ==
    /\ by_id[e] # NoHandle
    /\ LET h == by_id[e]
       IN /\ Resolves(h)
          /\ RecordOf(h).owned
          /\ UpdateRecord(h, [RecordOf(h) EXCEPT !.owned = FALSE,
                                                 !.dirty = @ \cup {TRANSFORM}])

\* The slots snapshot_into exports, in their order.
Live == {i \in 0 .. size - 1 : records[i] # NoRecord}

\* What an upgrade hook makes of a snapshot of which it returns n records: the
\* old slot of each, in the order it returns them.
Migrations(n) ==
    {from \in [0 .. n - 1 -> Live] :
        \A i, j \in 0 .. n - 1 : from[i] = from[j] => i = j}

\* The handle of a slot in a new station.
FirstHandle(i) == [index |-> i, generation |-> 0]

\* Station::restore_tracked: the records enter a new station one after another.
\* (One that contains an id twice is refused and replaces nothing.)
StationRestore(n, from) ==
    LET holds(i, e) == records[from[i]].id = e
    IN /\ size' = n
       /\ records' = [i \in Index |->
                         IF i < n THEN [records[from[i]] EXCEPT !.handle = FirstHandle(i)]
                         ELSE NoRecord]
       /\ generations' = [i \in Index |-> 0]
       /\ free' = <<>>
       /\ by_id' = [e \in Entities |->
                       IF \E i \in 0 .. n - 1 : holds(i, e)
                       THEN FirstHandle(CHOOSE i \in 0 .. n - 1 : holds(i, e))
                       ELSE NoHandle]

-----------------------------------------------------------------------------
(* What the storage promises. *)

\* by_id and the slots describe the same entities: an id maps to the handle of
\* the one slot that holds its record, under that slot's current generation,
\* and the record carries the same handle (a record adopted from another
\* station included).
IdIndexCoherent ==
    /\ \A e \in Entities : by_id[e] # NoHandle =>
          /\ Resolves(by_id[e])
          /\ RecordOf(by_id[e]).id = e
    /\ \A i \in Live :
          /\ by_id[records[i].id] = records[i].handle
          /\ records[i].handle = [index |-> i, generation |-> generations[i]]

\* The free stack holds every vacant slot exactly once, so no slot leaks and
\* none is handed out while it is occupied.
FreeStackExact ==
    /\ \A i \in Index : records[i] # NoRecord => i < size
    /\ \A i \in 0 .. size - 1 :
          (records[i] = NoRecord) <=> (\E k \in 1 .. Len(free) : free[k] = i)
    /\ \A k \in 1 .. Len(free) : free[k] < size
    /\ \A j, k \in 1 .. Len(free) : free[j] = free[k] => j = k
=============================================================================
