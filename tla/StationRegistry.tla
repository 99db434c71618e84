--------------------------- MODULE StationRegistry ---------------------------
(***************************************************************************)
(* StationSet and StationIndexSet of crates/sectorsync-runtime/src/lib.rs: *)
(* the ordered collections that a node's stations and their indexes are    *)
(* looked up in by id.                                                     *)
(*                                                                         *)
(* A small collection is searched from its front.  From a threshold on a   *)
(* map of positions answers, and goes on answering when the collection     *)
(* shrinks again, until it is empty.  Positions shift when an element is   *)
(* removed.  A set of stations takes several of one id, of which only the  *)
(* first is ever found; a set of indexes replaces.                         *)
(***************************************************************************)
EXTENDS Integers, Sequences, SequencesExt, FiniteSetsExt

CONSTANTS
    StationIds,
    LookupIndexThreshold,   \* STATION_LOOKUP_INDEX_THRESHOLD
    MaxPushed               \* bound: elements of a collection

VARIABLES
    station_list, station_positions,   \* StationSet: the ids of its stations
    index_list, index_positions        \* StationIndexSet: those of its indexes

stationSetVars == <<station_list, station_positions>>
indexSetVars == <<index_list, index_positions>>
registryVars == <<stationSetVars, indexSetVars>>

RegistryInit ==
    /\ station_list = <<>> /\ station_positions = <<>>
    /\ index_list = <<>> /\ index_positions = <<>>

-----------------------------------------------------------------------------
(* What both collections do. *)

\* The first element of each id: entry(id).or_insert(position), element by element.
FirstPositions(list) ==
    [id \in ToSet(list) |->
        Min({k \in DOMAIN list : list[k] = id})]

\* position; 0 for none.
Position(list, positions, id) ==
    IF positions = <<>>
    THEN SelectInSeq(list, LAMBDA element : element = id)
    ELSE IF id \in DOMAIN positions THEN positions[id] ELSE 0

\* activate_lookup_for the collection with one more element.
ActivatedFor(list, positions) ==
    IF Len(list) + 1 < LookupIndexThreshold \/ positions # <<>>
    THEN positions ELSE FirstPositions(list)

\* Mutated: a removal leaves the positions of the others as they were.
RebuiltWithoutShift(list, positions) ==
    [id \in DOMAIN positions \cap ToSet(list) |-> positions[id]]

\* rebuild_positions.
Rebuilt(list, positions) == IF positions = <<>> THEN positions ELSE FirstPositions(list)

\* An active map takes the position of an element that is about to be appended:
\* or_insert keeps the one it has.
WithNext(list, positions, id) ==
    IF positions = <<>> THEN positions
    ELSE [x \in DOMAIN positions \cup {id} |->
             IF x \in DOMAIN positions THEN positions[x] ELSE Len(list) + 1]

\* get_pair_mut: split at the later of two positions; none for equal ids.
Pair(list, positions, left, right) ==
    LET l == Position(list, positions, left)
        r == Position(list, positions, right)
    IN IF left = right \/ l = 0 \/ r = 0 THEN <<>>
       ELSE IF l < r THEN <<list[l], SubSeq(list, r, Len(list))[1]>>
       ELSE <<SubSeq(list, l, Len(list))[1], list[r]>>

-----------------------------------------------------------------------------
(* StationSet. *)

SetPush(id) ==
    /\ Len(station_list) < MaxPushed
    /\ station_positions' =
          WithNext(station_list, ActivatedFor(station_list, station_positions), id)
    /\ station_list' = Append(station_list, id)
    /\ UNCHANGED indexSetVars

SetRemove(id) ==
    LET at == Position(station_list, station_positions, id)
    IN /\ at # 0
       /\ station_list' = RemoveAt(station_list, at)
       /\ station_positions' = Rebuilt(station_list', station_positions)
       /\ UNCHANGED indexSetVars

-----------------------------------------------------------------------------
(* StationIndexSet. *)

\* insert: the index of a known id is replaced in place.
IndexSetInsert(id) ==
    LET at == Position(index_list, index_positions, id)
        active == ActivatedFor(index_list, index_positions)
    IN /\ at = 0 => Len(index_list) < MaxPushed
       /\ IF at # 0
          THEN UNCHANGED indexSetVars
          ELSE /\ index_list' = Append(index_list, id)
               /\ index_positions' = WithNext(index_list, active, id)
       /\ UNCHANGED stationSetVars

IndexSetRemove(id) ==
    LET at == Position(index_list, index_positions, id)
    IN /\ at # 0
       /\ index_list' = RemoveAt(index_list, at)
       /\ index_positions' = Rebuilt(index_list', index_positions)
       /\ UNCHANGED stationSetVars

RegistryNext ==
    \E id \in StationIds :
        \/ SetPush(id) \/ SetRemove(id)
        \/ IndexSetInsert(id) \/ IndexSetRemove(id)

RegistrySpec == RegistryInit /\ [][RegistryNext]_registryVars

-----------------------------------------------------------------------------
(* Properties. *)

\* A lookup by id names the first element of that id, and none when there is none.
FindsFirst(list, positions) ==
    \A id \in StationIds :
        LET at == Position(list, positions, id)
            all == {k \in DOMAIN list : list[k] = id}
        IN IF all = {} THEN at = 0 ELSE at = Min(all)

\* Whichever way a collection is searched, after any pushes, replacements and
\* removals a lookup names what a search from the front would; the two halves of a
\* pair are the two that were asked for.
LookupsAgree ==
    /\ FindsFirst(station_list, station_positions)
    /\ FindsFirst(index_list, index_positions)
    /\ \A a, b \in StationIds :
          LET pair == Pair(station_list, station_positions, a, b)
          IN pair # <<>> => pair = <<a, b>> /\ a # b
=============================================================================
