---------------------------- MODULE Replication ----------------------------
(***************************************************************************)
(* Replication to clients: crates/sectorsync-core/src/replication.rs (the  *)
(* planner, the cadence and the tracker), the bounded frame encoder of     *)
(* crates/sectorsync-wire/src/lib.rs and the send path of                  *)
(* crates/sectorsync-runtime/src/lib.rs.                                   *)
(*                                                                         *)
(* Once per tick the caller plans a batch of viewers, then sends the plans *)
(* in viewer order, each one encoded when its turn comes, and records what *)
(* it has sent; the next plans read those records for their cadence.  A    *)
(* plan is a sequence of handles and outlives the state it was made from:  *)
(* entities move, change or go between the plan and its send.  A transport *)
(* error ends the batch at the viewer it hits.                             *)
(*                                                                         *)
(* Distances are those of points on a line.  All entities have one policy, *)
(* so the priority is the distance, then the handle.  What an entity's     *)
(* components weigh is not known to the plan, so how many of its entities  *)
(* fit the frame is any number.  last_sent is kept as its age in ticks,    *)
(* which stops at the longest interval, where every comparison the code    *)
(* makes is decided.                                                       *)
(***************************************************************************)
EXTENDS Station, FiniteSetsExt, Ordered

CONSTANTS
    Cells, Footprint(_),
    QueryRange(_),   \* viewer -> the cells its sphere touches, in query order
    Viewers,         \* the viewers of a batch, in the caller's order
    Modes,           \* subset of {Throughput, Prioritized}
    InterestRadius, MinHz, MaxHz,   \* the sync policy
    TickRateHz,
    BudgetEntities,  \* entity and estimated-byte budget of a plan
    MaxEntries,      \* ReplicationTrackerConfig::max_entries
    RecycledSlots,   \* bound: slots whose entities are despawned
    NoFrame

VARIABLES
    entity_cells, cells,
    dirty,      \* handles with a dirty component blob
    tracker,    \* <<client, handle>> -> age of last_sent
    batch,      \* plans of this tick that are still to be sent
    planned,    \* whether this tick's batch has been planned
    frame       \* the frame the last step handed to the transport

INSTANCE CellIndex WITH Handles <- Handle

worldVars == <<stationVars, entity_cells, cells, dirty>>
replicationVars == <<worldVars, tracker, batch, planned, frame>>

ASSUME ReplicationAssumption ==
    /\ InterestRadius \in Nat \ {0}
    /\ MinHz \in Nat \ {0} /\ MaxHz \in Nat /\ MinHz <= MaxHz
    /\ TickRateHz \in Nat \ {0}
    /\ BudgetEntities \in Nat /\ MaxEntries \in Nat
    /\ Positions \subseteq Int
    /\ \A p \in Positions : Footprint(p) \subseteq Cells

\* Each client has one viewer in a batch.
ASSUME ViewerAssumption ==
    /\ Viewers \in Seq(Range(Viewers))
    /\ \A v \in Range(Viewers) :
          /\ v.position \in Int /\ {v.radius, v.max_entities} \subseteq Nat
          /\ QueryRange(v) \in Seq(Cells)
    /\ \A i, j \in DOMAIN Viewers : Viewers[i].client = Viewers[j].client => i = j

Client == {Viewers[i].client : i \in DOMAIN Viewers}
Distance(p, q) == IF p < q THEN q - p ELSE p - q

\* ReplicationCadence::target_hz: from max_hz at the viewer down to min_hz at
\* the interest radius, rounded to the nearest frequency.
TargetHz(d) ==
    LET R == InterestRadius * InterestRadius
        far == Min({d * d, R})
    IN (2 * (MinHz * R + (MaxHz - MinHz) * (R - far)) + R) \div (2 * R)

\* interval_ticks: tick_rate.div_ceil(target_hz).
IntervalTicks(d) == (TickRateHz + TargetHz(d) - 1) \div TargetHz(d)

LongestInterval == IntervalTicks(InterestRadius)

Plan == [client : Client, entities : Seq(Handle), ids : SUBSET Entities]
Frame == [client : Client, entities : SUBSET Entities]

\* Indexes, records, plans and frames keep their types, and the tracker stays
\* within max_entries, records of gone entities included.
ReplicationTypeOK ==
    /\ StationTypeOK
    /\ IndexTypeOK
    /\ dirty \subseteq Handle
    /\ DOMAIN tracker \subseteq Client \X Handle
    /\ Cardinality(DOMAIN tracker) <= MaxEntries
    /\ \A pair \in DOMAIN tracker : tracker[pair] \in 0 .. LongestInterval
    /\ batch \in Seq(Plan)
    /\ planned \in BOOLEAN
    /\ frame \in Frame \cup {NoFrame}

ReplicationInit ==
    /\ StationInit
    /\ IndexInit
    /\ dirty = {}
    /\ tracker = <<>>
    /\ batch = <<>>
    /\ planned = FALSE
    /\ frame = NoFrame

-----------------------------------------------------------------------------
(* The station's entities change, also while plans wait to be sent. *)

Unsent == frame' = NoFrame /\ UNCHANGED <<tracker, batch, planned>>

Spawn(e, p) ==
    /\ StationSpawnOwned(e, p)
    /\ IndexUpsert(AllocatedHandle, p)
    /\ dirty' = dirty \cup {AllocatedHandle}
    /\ Unsent

Move(h, p) ==
    /\ StationMoveOwned(h, p)
    /\ IndexUpsert(h, p)
    /\ dirty' = dirty \cup {h}
    /\ Unsent

\* Bounded to slots that get recycled, below the generation at which a slot
\* stops telling its entities apart.
Despawn(h) ==
    /\ h.index \in RecycledSlots /\ h.generation < MaxGeneration
    /\ StationRemove(h)
    /\ IndexRemove(h)
    /\ dirty' = dirty \ {h}
    /\ Unsent

\* ComponentStore::clear_dirty_for_entity, at the caller's discretion.
ClearDirtyForEntity(h) ==
    /\ h \in dirty
    /\ dirty' = dirty \ {h}
    /\ Unsent
    /\ UNCHANGED <<stationVars, entity_cells, cells>>

-----------------------------------------------------------------------------
(* Planning. *)

\* Mutated: the interval ends a tick early.
ShouldSendEarly(c, h, d) ==
    <<c, h>> \in DOMAIN tracker => tracker[<<c, h>>] + 1 >= IntervalTicks(d)

\* should_send: never sent, or the interval has elapsed.
ShouldSend(c, h, d) ==
    <<c, h>> \in DOMAIN tracker => tracker[<<c, h>>] >= IntervalTicks(d)

\* The filters in front of the budget: a handle that still resolves, within the
\* policy's and the viewer's radius, due, and eligible (the caller's rule:
\* has_dirty_selected).
Selectable(v, h) ==
    /\ Resolves(h)
    /\ LET d == Distance(RecordOf(h).position, v.position)
       IN /\ d <= InterestRadius
          /\ d <= v.radius
          /\ ShouldSend(v.client, h, d)
    /\ h \in dirty

\* What query_aabb_into finds in the cells of the range, and passes.
Found(v) ==
    {h \in Handle :
        /\ \E k \in DOMAIN QueryRange(v) : h \in ToSet(cells[QueryRange(v)[k]])
        /\ Selectable(v, h)}

\* It finds them cell by cell, each in insertion order, and a handle where it is
\* met first.
FirstCell(v, h) == Min({k \in DOMAIN QueryRange(v) : h \in ToSet(cells[QueryRange(v)[k]])})
FirstPlace(c, h) == Min({i \in DOMAIN cells[c] : cells[c][i] = h})

MetBefore(v, g, h) ==
    LET k == FirstCell(v, g)
        l == FirstCell(v, h)
    IN \/ k < l
       \/ k = l /\ FirstPlace(QueryRange(v)[k], g) < FirstPlace(QueryRange(v)[l], h)

\* compare_prioritized_candidates.
Precedes(v, g, h) ==
    LET d(x) == Distance(RecordOf(x).position, v.position)
    IN \/ d(g) < d(h)
       \/ d(g) = d(h) /\ g.index < h.index
       \/ d(g) = d(h) /\ g.index = h.index /\ g.generation < h.generation

\* First fit in candidate order, or the best of all candidates.
Preference(v, mode) ==
    {pair \in Handle \X Handle :
        IF mode = "Prioritized" THEN Precedes(v, pair[1], pair[2])
        ELSE MetBefore(v, pair[1], pair[2])}

\* Mutated: the budget is spent on candidates before the cadence looks at them.
SelectedCutFirst(v, mode) ==
    LET candidates == {h \in Handle :
                          /\ \E k \in DOMAIN QueryRange(v) : h \in ToSet(cells[QueryRange(v)[k]])
                          /\ Resolves(h)}
        first == SubSeq(Sorted(candidates, Preference(v, mode)), 1,
                        Min({v.max_entities, BudgetEntities, Cardinality(candidates)}))
    IN Picked(first, {i \in DOMAIN first : first[i] \in Found(v)})

Selected(v, mode) ==
    SubSeq(Sorted(Found(v), Preference(v, mode)), 1,
           Min({v.max_entities, BudgetEntities, Cardinality(Found(v))}))

\* plan_for_viewers_configured_into, in the mode its caller asks for.  ids is
\* history: who the handles meant.
PlanBatch(mode) ==
    /\ ~planned
    /\ planned' = TRUE
    /\ batch' = [i \in DOMAIN Viewers |->
                    [client |-> Viewers[i].client,
                     entities |-> Selected(Viewers[i], mode),
                     ids |-> {RecordOf(h).id : h \in ToSet(Selected(Viewers[i], mode))}]]
    /\ frame' = NoFrame
    /\ UNCHANGED <<worldVars, tracker>>

-----------------------------------------------------------------------------
(* Sending. *)

\* Mutated: whoever occupies a planned slot is taken for the planned entity.
EncodableBySlot(plan) ==
    LET current(i) == records[plan.entities[i].index]
        written == {i \in DOMAIN plan.entities :
                       current(i) # NoRecord /\ current(i).handle \in dirty}
        places == Picked([i \in DOMAIN plan.entities |-> i], written)
    IN [k \in DOMAIN places |-> current(places[k]).handle]

\* What of a plan encode_binary_bounded_into can write: planned entities that
\* are gone or have nothing dirty are passed over.
Encodable(plan) ==
    LET written == {i \in DOMAIN plan.entities :
                       Resolves(plan.entities[i]) /\ plan.entities[i] \in dirty}
    IN Picked(plan.entities, written)

HasCapacityFor(pairs) ==
    Cardinality(DOMAIN tracker) + Cardinality(pairs \ DOMAIN tracker) <= MaxEntries

\* record_plan_sent: all entities of the plan, or none.
Recorded(plan) ==
    LET pairs == {plan.client} \X ToSet(plan.entities)
    IN IF HasCapacityFor(pairs)
       THEN [pair \in DOMAIN tracker \cup pairs |->
                IF pair \in pairs THEN 0 ELSE tracker[pair]]
       ELSE tracker

\* send_plan.  The frame ends before the first entity that does not fit its
\* bytes, after n entities; an empty one is not sent.  What was sent its sender
\* records, by the plan.
SendPlan(n) ==
    /\ batch # <<>>
    /\ n <= Len(Encodable(Head(batch)))
    /\ IF n = 0
       THEN frame' = NoFrame /\ UNCHANGED tracker
       ELSE /\ frame' = [client |-> Head(batch).client,
                         entities |-> {RecordOf(Encodable(Head(batch))[i]).id : i \in 1 .. n}]
            /\ tracker' = Recorded(Head(batch))
    /\ batch' = Tail(batch)
    /\ UNCHANGED <<worldVars, planned>>

\* The transport refuses the frame: the batch ends before the later viewers.
SendFails ==
    /\ batch # <<>>
    /\ Encodable(Head(batch)) # <<>>
    /\ batch' = <<>>
    /\ frame' = NoFrame
    /\ UNCHANGED <<worldVars, tracker, planned>>

-----------------------------------------------------------------------------
(* The tick and the upkeep of the tracker. *)

ReplicationTick ==
    /\ planned /\ batch = <<>>
    /\ planned' = FALSE
    /\ tracker' = [pair \in DOMAIN tracker |->
                      Min({tracker[pair] + 1, LongestInterval})]
    /\ frame' = NoFrame
    /\ UNCHANGED <<worldVars, batch>>

Keep(pairs) ==
    /\ tracker' = [pair \in pairs |-> tracker[pair]]
    /\ pairs # DOMAIN tracker
    /\ frame' = NoFrame
    /\ UNCHANGED <<worldVars, batch, planned>>

\* prune_sent_before the longest interval: what it drops is due in any case.
PruneSentBefore == Keep({pair \in DOMAIN tracker : tracker[pair] < LongestInterval})

\* clear_client, when a client leaves.
ClearClient(c) == Keep({pair \in DOMAIN tracker : pair[1] # c})

ReplicationNext ==
    \/ \E e \in Entities, p \in Positions : Spawn(e, p)
    \/ \E h \in Handle :
          \/ \E p \in Positions : Move(h, p)
          \/ Despawn(h)
          \/ ClearDirtyForEntity(h)
    \/ \E mode \in Modes : PlanBatch(mode)
    \/ \E n \in 0 .. BudgetEntities : SendPlan(n)
    \/ SendFails
    \/ ReplicationTick \/ PruneSentBefore
    \/ \E c \in Client : ClearClient(c)

ReplicationSpec == ReplicationInit /\ [][ReplicationNext]_replicationVars

\* The caller's loop: every tick plans a batch and sends it, and prunes.  A step of
\* PlanBatch, in whichever mode, is one that sets planned, and it can always be taken
\* while planned is not set.
Fairness ==
    /\ WF_planned(~planned /\ planned' = TRUE)
    /\ WF_replicationVars(\E n \in 0 .. BudgetEntities : SendPlan(n))
    /\ WF_replicationVars(ReplicationTick) /\ WF_replicationVars(PruneSentBefore)

ReplicationFairSpec == ReplicationSpec /\ Fairness

-----------------------------------------------------------------------------
(* Properties. *)

\* A frame shows its client only entities that were selected for it, whatever
\* took their slots between the plan and its encoding; the tracker stays within
\* max_entries (ReplicationTypeOK).
FrameShowsPlanned ==
    /\ []ReplicationTypeOK
    /\ [][frame' # NoFrame => /\ frame'.client = Head(batch).client
                           /\ frame'.entities \subseteq Head(batch).ids]_replicationVars

\* The interval of the place nearest to the client's viewer.
ShortestInterval(c) ==
    Min({IntervalTicks(Distance(p, v.position)) :
            p \in Positions, v \in {w \in Range(Viewers) : w.client = c}})

\* An entity is not sent to a client again before the shortest interval it can
\* have there is over, as far as the tracker still knows of the last send:
\* plans that wait, fail or are cut off included.
CadenceKept ==
    [][frame' # NoFrame =>
          \A h \in ToSet(Head(batch).entities) :
             /\ Resolves(h)
             /\ RecordOf(h).id \in frame'.entities
             /\ <<frame'.client, h>> \in DOMAIN tracker
             => tracker[<<frame'.client, h>>] >= ShortestInterval(frame'.client)]_replicationVars

\* e is there to be sent to viewer v.
Waiting(v, e) ==
    /\ by_id[e] # NoHandle
    /\ by_id[e] \in dirty
    /\ LET d == Distance(RecordOf(by_id[e]).position, v.position)
       IN d <= InterestRadius /\ d <= v.radius

\* The loop runs as it should: a plan that is sent reaches the transport whole and
\* fits the tracker, records go only once they are over, no entity is despawned
\* (its next handle would be due at once), and nothing is marked clean while plans
\* wait (such a plan is spent on nothing and leaves no record).
Calm ==
    [][/\ batch # <<>> /\ batch' # batch /\ Encodable(Head(batch)) # <<>> =>
             /\ frame' # NoFrame
             /\ Cardinality(frame'.entities) = Len(Encodable(Head(batch)))
             /\ HasCapacityFor({frame'.client} \X ToSet(Head(batch).entities))
       /\ \A pair \in DOMAIN tracker \ DOMAIN tracker' : tracker[pair] = LongestInterval
       /\ \A e \in Entities : by_id[e] # NoHandle => by_id'[e] = by_id[e]
       /\ batch # <<>> => dirty \subseteq dirty']_replicationVars

\* How many entities the budget can serve in turn: that many places come up before
\* the cadence lets an entity be sent to v again.
Servable(v) == Min({v.max_entities, BudgetEntities}) * ShortestInterval(v.client)

\* The cadence makes the budget go round: while an entity keeps waiting for a
\* viewer, it is sent to it again and again, however the others move and change,
\* once the caller's loop is calm, unless as many others as the budget has turns
\* come back for more again and again.  Under such a load both modes may pick the
\* same ones whenever they fall due, and nothing ever sends the entity.
EveryoneServed ==
    <>Calm => \A i \in DOMAIN Viewers : \A e \in Entities :
        <>[]Waiting(Viewers[i], e) =>
            \/ []<>(frame # NoFrame /\ frame.client = Viewers[i].client
                                    /\ e \in frame.entities)
            \/ \E others \in kSubset(Servable(Viewers[i]), Entities \ {e}) :
                  \A o \in others : []<>Waiting(Viewers[i], o)
=============================================================================
