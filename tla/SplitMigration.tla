---------------------------- MODULE SplitMigration ----------------------------
(***************************************************************************)
(* Relieving hot stations: SplitExecutor of crates/sectorsync/src/         *)
(* maintenance.rs over SplitScheduler, CellOwnershipTable and              *)
(* CellMigrationExecutor of crates/sectorsync-runtime/src/lib.rs and the   *)
(* HotspotPlanner of crates/sectorsync-core/src/hotspot.rs.                *)
(*                                                                         *)
(* A plan is made from samples of one moment and executed later: entities  *)
(* may have moved, and a station or its index may have been taken out of   *)
(* its registry, which makes a pass fail in the middle.  Each call is one  *)
(* step, for it borrows all it works on.                                   *)
(*                                                                         *)
(* Load is entities only: no subscribers, no queued events, and a sampler  *)
(* whose estimates of bytes and tick cost weigh nothing.                   *)
(* The two-phase handoff of an entity is the module Handoff.               *)
(***************************************************************************)
EXTENDS Integers, FiniteSets, Sequences, SequencesExt, FiniteSetsExt, Ordered

CONSTANTS
    Stations,         \* station ids, as numbers: they break ties
    Cells,            \* cells, as numbers: likewise
    Entities,
    MaxEntities,      \* thresholds.max_station_entities
    MaxPressure,      \* thresholds.max_cell_pressure
    MaxActions,       \* config.max_actions_per_pass
    MaxCells,         \* config.max_cells_per_action
    MinImprovement,   \* config.min_score_improvement
    MaxTargetScore,   \* config.max_target_score_after_move
    AllowWarm,        \* config.allow_warm_targets
    Cooldown,         \* config.split_cooldown_ticks
    Removable,        \* stations whose registrations come and go
    LastTick,         \* bound on ticks (u64)
    MaxChanges,       \* bound on movements of entities and removals
    Nobody,           \* no record of an entity, no owner of a cell
    NoSplit             \* no split so far

ASSUME SplitAssumption ==
    /\ Stations \subseteq Nat /\ Cells \subseteq Nat
    /\ IsFiniteSet(Stations) /\ IsFiniteSet(Cells) /\ IsFiniteSet(Entities)
    /\ {MaxEntities, MaxPressure, MaxActions, MaxCells, MinImprovement,
        MaxTargetScore, Cooldown, LastTick, MaxChanges} \subseteq Nat
    /\ AllowWarm \in BOOLEAN
    /\ Removable \subseteq Stations

Footprints == (SUBSET Cells) \ {{}}
Record == [owned : BOOLEAN, cells : Footprints]

ASSUME NobodyAssumption == Nobody \notin Record \cup Stations /\ NoSplit \notin Nat

SplitAction == [source : Stations, target : Stations, cells : Seq(Cells)]

VARIABLES
    stations,         \* ids in the StationSet, in its order
    indexes,          \* ids in the StationIndexSet
    records,          \* station -> entity -> Record or Nobody
    index,            \* station -> entity -> cells its index lists it in
    owner_of,         \* cell -> station or Nobody: the CellOwnershipTable
    plan,             \* actions of the last plan
    planned_at,       \* tick of the last plan
    last_split_at,    \* station -> tick or NoSplit
    clock,
    changes           \* number of those

registry == <<stations, indexes>>
world == <<records, index, owner_of>>
executor == <<plan, planned_at, last_split_at>>
splitVars == <<registry, world, executor, clock, changes>>

\* Registries, records and plans keep their types; a plan holds at most
\* max_actions_per_pass actions of stations and cells there are.
SplitTypeOK ==
    /\ stations \in Seq(Stations) /\ IsInjective(stations)
    /\ indexes \subseteq Stations
    /\ records \in [Stations -> [Entities -> Record \cup {Nobody}]]
    /\ index \in [Stations -> [Entities -> SUBSET Cells]]
    /\ owner_of \in [Cells -> Stations \cup {Nobody}]
    /\ plan \in Seq(SplitAction) /\ Len(plan) <= MaxActions
    /\ planned_at \in 0 .. clock
    /\ last_split_at \in [Stations -> (0 .. clock) \cup {NoSplit}]
    /\ clock \in 0 .. LastTick
    /\ changes \in 0 .. MaxChanges

\* Any stations with entities in them; no cell is assigned explicitly yet.
SplitInit ==
    /\ stations = InOrder(Stations) /\ indexes = Stations
    /\ \E home \in [Entities -> Stations], place \in [Entities -> Cells] :
          /\ records = [s \in Stations |-> [e \in Entities |->
                           IF home[e] = s THEN [owned |-> TRUE, cells |-> {place[e]}]
                           ELSE Nobody]]
          /\ index = [s \in Stations |-> [e \in Entities |->
                           IF home[e] = s THEN {place[e]} ELSE {}]]
    /\ owner_of = [c \in Cells |-> Nobody]
    /\ plan = <<>>
    /\ planned_at = 0
    /\ last_split_at = [s \in Stations |-> NoSplit]
    /\ clock = 0
    /\ changes = 0

Owns(s, e) == records[s][e] # Nobody /\ records[s][e].owned

-----------------------------------------------------------------------------
(* StationLoadSampler and HotspotPlanner, on the current state. *)

\* station_load_score and pressure_score, by their weights for an entity.
Score(s) == 8 * Cardinality({e \in Entities : records[s][e] # Nobody})
Pressure(s, c) == 10 * Cardinality({e \in Entities : c \in index[s][e]})

\* A station without index has no cells in its sample.
SampledCells(s) ==
    {c \in Cells : s \in indexes /\ \E e \in Entities : c \in index[s][e]}

\* evaluate_into: the number of exceeded thresholds.
Severity(s) ==
    (IF Score(s) > 8 * MaxEntities THEN 1 ELSE 0)
    + (IF \E c \in SampledCells(s) : Pressure(s, c) > MaxPressure THEN 1 ELSE 0)

Hot(s) == Severity(s) >= 2

\* Pairs of cells of a station, the hotter one first: prioritize_cell_samples.
Hotter(s) ==
    {x \in Cells \X Cells :
        \/ Pressure(s, x[1]) > Pressure(s, x[2])
        \/ Pressure(s, x[1]) = Pressure(s, x[2]) /\ x[1] < x[2]}

\* propose_cell_split_into: the cells of highest pressure.
ProposedCells(s) ==
    LET ranked == Sorted(SampledCells(s), Hotter(s))
    IN SubSeq(ranked, 1, IF MaxCells < Len(ranked) THEN MaxCells ELSE Len(ranked))

MovedPressure(s) == FoldLeft(LAMBDA n, c : n + Pressure(s, c), 0, ProposedCells(s))

-----------------------------------------------------------------------------
(* SplitScheduler. *)

\* select_split_target: the targets that pass its guards...
TargetStations(s) ==
    {t \in ToSet(stations) \ {s} :
        /\ ~Hot(t)
        /\ Severity(t) = 1 => AllowWarm
        /\ MinImprovement = 0 \/ Score(s) - Score(t) >= MinImprovement
        /\ Score(t) + MovedPressure(s) <= MaxTargetScore}

\* ... and the one it prefers.
Preferred(t, u) ==
    \/ Severity(t) < Severity(u)
    \/ Severity(t) = Severity(u) /\ Score(t) < Score(u)
    \/ Severity(t) = Severity(u) /\ Score(t) = Score(u) /\ t <= u

Target(s) == CHOOSE t \in TargetStations(s) : \A u \in TargetStations(s) : Preferred(t, u)

InCooldown(s) == last_split_at[s] # NoSplit /\ clock - last_split_at[s] < Cooldown

Splits(s) == Hot(s) /\ ~InCooldown(s) /\ ProposedCells(s) # <<>> /\ TargetStations(s) # {}

Split(s) == [source |-> s, target |-> Target(s), cells |-> ProposedCells(s)]

\* plan of the executor, over samples of this moment.
Plan ==
    /\ LET sources == Picked(stations, {i \in DOMAIN stations : Splits(stations[i])})
           planned == SubSeq(sources, 1, IF MaxActions < Len(sources) THEN MaxActions ELSE Len(sources))
       IN plan' = [i \in DOMAIN planned |-> Split(planned[i])]
    /\ planned_at' = clock
    /\ UNCHANGED <<registry, world, last_split_at, clock, changes>>

(* A pass is a state of its own: what it has changed so far, and whether it *)
(* stopped at an error.                                                     *)
Pass == [owner_of |-> owner_of, records |-> records, index |-> index, failed |-> FALSE]

\* apply_split_into: the cells whose owner changes.
MovedCells(x, a) == {c \in ToSet(a.cells) : x.owner_of[c] # a.target}

Assigned(x, a) ==
    [x EXCEPT !.owner_of = [c \in Cells |-> IF c \in ToSet(a.cells) THEN a.target ELSE x.owner_of[c]]]

\* Mutated: an entity moves only when all its cells do.
MovingWhole(x, a, cells) ==
    {e \in Entities : /\ x.records[a.source][e] # Nobody
                      /\ x.records[a.source][e].owned
                      /\ x.index[a.source][e] \in (SUBSET cells) \ {{}}}

\* migrate_cells_into: the owned entities the source's index lists in cells.
Moving(x, a, cells) ==
    {e \in Entities : /\ x.records[a.source][e] # Nobody
                      /\ x.records[a.source][e].owned
                      /\ x.index[a.source][e] \cap cells # {}}

\* The records after entities of the source became the target's, and ghosts at
\* the source.
Handed(x, a, moving) ==
    [s \in Stations |-> [e \in Entities |->
        IF e \in moving /\ s \in {a.source, a.target}
        THEN [x.records[a.source][e] EXCEPT !.owned = (s = a.target)]
        ELSE x.records[s][e]]]

\* Mutated: only the source's index is updated.
MigratedUnlisted(x, a, moving) == [x EXCEPT !.records = Handed(x, a, moving)]

\* Both indexes are updated with the records.
Migrated(x, a, moving) ==
    [x EXCEPT !.records = Handed(x, a, moving),
              !.index = [s \in Stations |-> [e \in Entities |->
                            IF e \in moving /\ s \in {a.source, a.target}
                            THEN x.records[a.source][e].cells ELSE x.index[s][e]]]]

Failed(x) == [x EXCEPT !.failed = TRUE]

\* execute_actions_into, one action: an error of the migration comes after the
\* cells were assigned.
Execute(x, a) ==
    LET moving == Moving(x, a, MovedCells(x, a)) IN
    IF x.failed THEN x
    ELSE IF ~({a.source, a.target} \subseteq indexes) THEN Failed(x)
    ELSE IF a.source \in ToSet(stations) /\ (moving # {} => a.target \in ToSet(stations))
         THEN Migrated(Assigned(x, a), a, moving)
         ELSE Failed(Assigned(x, a))

Executed == Loop(Execute, Pass, plan)[Len(plan)]

Sources == {plan[i].source : i \in DOMAIN plan}

SplitsRecorded(log, sources) == [s \in Stations |-> IF s \in sources THEN planned_at ELSE log[s]]

\* execute_planned.
ExecutePlanned ==
    /\ plan # <<>>
    /\ records' = Executed.records /\ index' = Executed.index /\ owner_of' = Executed.owner_of
    /\ last_split_at' = IF Executed.failed THEN last_split_at
                        ELSE SplitsRecorded(last_split_at, Sources)
    /\ UNCHANGED <<registry, plan, planned_at, clock, changes>>

-----------------------------------------------------------------------------
(* What the application does between passes: it keeps each index in step    *)
(* with its station.                                                        *)

MoveEntity(s, e, cells) ==
    /\ s \in ToSet(stations) \cap indexes /\ Owns(s, e)
    /\ changes < MaxChanges
    /\ records' = [records EXCEPT ![s][e].cells = cells]
    /\ index' = [index EXCEPT ![s][e] = cells]
    /\ changes' = changes + 1
    /\ UNCHANGED <<registry, owner_of, executor, clock>>

ExpireGhost(s, e) ==
    /\ s \in ToSet(stations) \cap indexes
    /\ records[s][e] # Nobody /\ ~Owns(s, e)
    /\ records' = [records EXCEPT ![s][e] = Nobody]
    /\ index' = [index EXCEPT ![s][e] = {}]
    /\ UNCHANGED <<registry, owner_of, executor, clock, changes>>

\* StationSet::remove and push: a station that comes back is the last.
RemoveStation(s) ==
    /\ s \in ToSet(stations)
    /\ changes < MaxChanges
    /\ changes' = changes + 1
    /\ stations' = Picked(stations, {i \in DOMAIN stations : stations[i] # s})
    /\ UNCHANGED <<indexes, world, executor, clock>>

PushStation(s) ==
    /\ s \notin ToSet(stations)
    /\ stations' = Append(stations, s)
    /\ UNCHANGED <<indexes, world, executor, clock, changes>>

\* StationIndexSet::remove and insert.
RemoveIndex(s) ==
    /\ s \in indexes
    /\ changes < MaxChanges
    /\ changes' = changes + 1
    /\ indexes' = indexes \ {s}
    /\ UNCHANGED <<stations, world, executor, clock>>

InsertIndex(s) ==
    /\ s \notin indexes
    /\ indexes' = indexes \cup {s}
    /\ UNCHANGED <<stations, world, executor, clock, changes>>

SplitTick ==
    /\ clock < LastTick
    /\ clock' = clock + 1
    /\ UNCHANGED <<registry, world, executor, changes>>

SplitNext ==
    \/ Plan
    \/ ExecutePlanned
    \/ \E s \in Stations, e \in Entities, cells \in Footprints : MoveEntity(s, e, cells)
    \/ \E s \in Stations, e \in Entities : ExpireGhost(s, e)
    \/ \E s \in Removable : \/ RemoveStation(s) \/ PushStation(s)
                            \/ RemoveIndex(s) \/ InsertIndex(s)
    \/ SplitTick

SplitSpec == SplitInit /\ [][SplitNext]_splitVars

-----------------------------------------------------------------------------
(* Properties. *)

\* Passes that fail between two actions, plans that are executed late or twice
\* and cells that go back and forth leave every entity with exactly one owner:
\* migrate_entity demotes and promotes together.
OneOwner == \A e \in Entities : Cardinality({s \in Stations : Owns(s, e)}) = 1

\* The index of each station lists an entity where its record says it is, at
\* both ends of a migration: migrate_cells_into updates the indexes of source
\* and target with every entity.
IndexesFollow ==
    /\ SplitTypeOK
    /\ \A s \in Stations, e \in Entities :
          index[s][e] = IF records[s][e] = Nobody THEN {} ELSE records[s][e].cells

\* The three tables that say where an entity is agree: authority, record, index.
EntitiesPlaced == OneOwner /\ IndexesFollow

\* After a pass that succeeds, the source of an action owns nothing that touches
\* a cell the action took, if no earlier action of the pass took it: entities
\* that straddle cells leave with each of them, and no later action of the pass
\* makes a source a target, for a hot station never is one.
VacatedCells ==
    [][ExecutePlanned /\ ~Executed.failed =>
         \A i \in DOMAIN plan : \A c \in ToSet(plan[i].cells) :
             /\ owner_of[c] # plan[i].target
             /\ \A j \in 1 .. i - 1 : c \notin ToSet(plan[j].cells)
             => \A e \in Entities :
                    ~(Owns(plan[i].source, e)' /\ c \in index'[plan[i].source][e])]_splitVars

=============================================================================
