----------------------------- MODULE CellIndex -----------------------------
(***************************************************************************)
(* Station-local cell index: crates/sectorsync-core/src/spatial_index.rs.  *)
(*                                                                         *)
(* Two maps that must stay each other's inverse: entity_cells, the cells a *)
(* handle occupies, and cells, the handles listed in a cell in insertion   *)
(* order.  An absent map entry is the empty set or the empty sequence.     *)
(* Which cells a position (with its bounds) touches is the constant        *)
(* Footprint, the result of GridSpec::cell_at over the bounds.             *)
(***************************************************************************)
EXTENDS Sequences, SequencesExt

CONSTANTS Handles, Cells, Footprint(_)

VARIABLES entity_cells, cells

indexVars == <<entity_cells, cells>>

\* Both maps of the index keep their types.
IndexTypeOK ==
    /\ entity_cells \in [Handles -> SUBSET Cells]
    /\ cells \in [Cells -> Seq(Handles)]

IndexInit ==
    /\ entity_cells = [h \in Handles |-> {}]
    /\ cells = [c \in Cells |-> <<>>]

\* apply_membership_diff: cells in both keep their entry where it is, the ones
\* left lose the first entry of the handle, the new ones append it.
MembershipDiff(h, previous, next) ==
    [c \in Cells |-> CASE c \in previous \ next -> RemoveFirst(cells[c], h)
                       [] c \in next \ previous -> Append(cells[c], h)
                       [] OTHER -> cells[c]]

\* upsert_with_scratch and upsert_point.  The early return for an unchanged
\* footprint is the diff of two equal sets.
IndexUpsert(h, p) ==
    /\ cells' = MembershipDiff(h, entity_cells[h], Footprint(p))
    /\ entity_cells' = [entity_cells EXCEPT ![h] = Footprint(p)]

\* remove.
IndexRemove(h) ==
    /\ cells' = MembershipDiff(h, entity_cells[h], {})
    /\ entity_cells' = [entity_cells EXCEPT ![h] = {}]

\* The two maps are inverse, and no cell lists a handle twice (the push in the
\* diff never looks whether the handle is already there).
CellMapsInverse ==
    \A c \in Cells :
        /\ \A h \in Handles : c \in entity_cells[h] <=> h \in ToSet(cells[c])
        /\ Len(cells[c]) = Cardinality(ToSet(cells[c]))
=============================================================================
