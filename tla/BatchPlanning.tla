---------------------------- MODULE BatchPlanning ----------------------------
(***************************************************************************)
(* Parallel replication: ReplicationThreadPool of                          *)
(* crates/sectorsync-runtime/src/parallel.rs, the batch kernel with its    *)
(* cache of query ranges of crates/sectorsync-core/src/replication.rs, and *)
(* ParallelReplicationExecutor of crates/sectorsync/src/replication.rs.    *)
(*                                                                         *)
(* A call takes batches of viewers, one per station, deals them out to     *)
(* lanes in contiguous chunks and, when every lane is through, sends the   *)
(* plans in the order of its input.  Output slots with their caches are    *)
(* kept between calls, for whatever batch comes next; between calls the    *)
(* stations change.                                                        *)
(*                                                                         *)
(* What a plan selects from its candidates is the subject of Replication:  *)
(* here a viewer takes the first of those it wants.  That a query range    *)
(* decides the candidates is how CellQuery's queries go.                   *)
(***************************************************************************)
EXTENDS Integers, SequencesExt, FiniteSetsExt, Ordered

CONSTANTS
    RequestedThreads, MaxThreads, Available,   \* ReplicationThreadPoolConfig, the host
    BatchStations, QueryRanges, BatchHandles,
    BatchViewers,    \* [client, range, wants, max_entities]
    Worlds,          \* what the indexes may answer: station -> range -> handles
    Inputs,          \* what a call may be given: sequences of batches
    MaxCachedQueryRanges

Batch == [station : BatchStations, viewers : Seq(BatchViewers)]

ASSUME BatchAssumption ==
    /\ {RequestedThreads, MaxThreads, Available, MaxCachedQueryRanges} \subseteq Nat
    /\ \A v \in BatchViewers : v.range \in QueryRanges /\ v.max_entities \in Nat
    /\ Worlds \subseteq [BatchStations -> [QueryRanges -> Seq(BatchHandles)]]
    /\ Inputs \subseteq Seq(Batch)

VARIABLES
    index,       \* one of Worlds
    batches,     \* the input of the call
    phase,       \* of the call
    progress,    \* lane -> batches of its chunk that are planned
    slots,       \* ParallelReplicationScratch::batches
    active_batches,
    frames_sent, \* packets of this call
    completed    \* viewers_completed

batchVars == <<index, batches, phase, progress, slots, active_batches, frames_sent, completed>>

DivCeil(a, b) == (a + b - 1) \div b

\* ReplicationThreadPoolConfig::resolve.
Threads ==
    LET available == Max({Available, 1})
        requested == IF RequestedThreads = 0 THEN DivCeil(available, 2) ELSE RequestedThreads
        bound == Min({Max({MaxThreads, 1}), available})
    IN Min({Max({requested, 1}), bound})

\* The lanes of a call, and the batches of a lane: those of the chunk it is
\* zipped with.
Lanes == Min({Threads, Len(batches)})
ChunkSize == DivCeil(Len(batches), Lanes)
Chunk(lane) ==
    {k \in DOMAIN batches : (k - 1) \div ChunkSize = lane - 1}

EmptyStats == [viewers |-> 0, unique |-> 0, reused |-> 0]
EmptySlot == [plans |-> <<>>, active_plans |-> 0, stats |-> EmptyStats,
              query_cache_index |-> <<>>, query_cache |-> <<>>, active_query_cache |-> 0]

BatchInit ==
    /\ index \in Worlds
    /\ batches = <<>> /\ phase = "idle" /\ progress = <<>>
    /\ slots = <<>> /\ active_batches = 0
    /\ frames_sent = <<>> /\ completed = 0

-----------------------------------------------------------------------------
(* The batch kernel. *)

\* A sequence of at least n elements.
Resized(seq, n, element) ==
    seq \o [k \in 1 .. Max({n - Len(seq), 0}) |-> element]

\* What a viewer takes from its candidates.
PlanOf(viewer, candidates) ==
    LET wanted == Picked(candidates, {i \in DOMAIN candidates : candidates[i] \in viewer.wants})
    IN SubSeq(wanted, 1, Min({viewer.max_entities, Len(wanted)}))

\* Mutated: ranges of the slot's last batch are taken for this one's.
PreparedUncleared(slot, viewers) ==
    [slot EXCEPT !.plans = Resized(@, Len(viewers), <<>>),
                 !.active_plans = Len(viewers),
                 !.stats = [EmptyStats EXCEPT
                               !.unique = Cardinality({v.range : v \in Range(viewers)})],
                 !.active_query_cache = 0]

\* prepare and prepare_query_ranges: slots and entries stay, to be overwritten.
Prepared(slot, viewers) ==
    [slot EXCEPT !.plans = Resized(@, Len(viewers), <<>>),
                 !.active_plans = Len(viewers),
                 !.stats = [EmptyStats EXCEPT
                               !.unique = Cardinality({v.range : v \in Range(viewers)})],
                 !.query_cache_index = <<>>,
                 !.active_query_cache = 0]

\* cache_query: the next entry, if there may be one more.
Cached(slot, key, handles) ==
    IF slot.active_query_cache >= MaxCachedQueryRanges THEN slot
    ELSE LET at == slot.active_query_cache + 1
         IN [slot EXCEPT !.query_cache = [Resized(@, at, <<>>) EXCEPT ![at] = handles],
                         !.query_cache_index =
                           [k \in DOMAIN @ \cup {key} |-> IF k = key THEN at ELSE @[k]],
                         !.active_query_cache = at]

\* One turn of the loop over viewers: the candidates are cached, or asked for and
\* cached when their range is met again in the batch.
ViewerPlanned(slot, batch, i) ==
    LET viewer == batch.viewers[i]
        key == viewer.range
        reuses == key \in DOMAIN slot.query_cache_index
        repeats == \E j \in DOMAIN batch.viewers : j # i /\ batch.viewers[j].range = key
        candidates == IF reuses THEN slot.query_cache[slot.query_cache_index[key]]
                      ELSE index[batch.station][key]
        kept == IF ~reuses /\ repeats THEN Cached(slot, key, candidates) ELSE slot
    IN [kept EXCEPT !.plans[i] = PlanOf(viewer, candidates),
                    !.stats.viewers = @ + 1,
                    !.stats.reused = @ + (IF reuses THEN 1 ELSE 0)]

\* plan_for_viewers_configured_into.
BatchPlanned(slot, batch) ==
    LET planned(s, i) == ViewerPlanned(s, batch, i)
        turns == [i \in DOMAIN batch.viewers |-> i]
    IN Loop(planned, Prepared(slot, batch.viewers), turns)[Len(turns)]

-----------------------------------------------------------------------------
(* A call. *)

\* prepare_lanes, prepare_output.
Begin(input) ==
    /\ phase = "idle"
    /\ phase' = "planning"
    /\ batches' = input
    /\ progress' = [lane \in 1 .. Min({Threads, Len(input)}) |-> 0]
    /\ slots' = Resized(slots, Len(input), EmptySlot)
    /\ active_batches' = Len(input)
    /\ frames_sent' = <<>> /\ completed' = 0
    /\ UNCHANGED index

\* A lane plans the next batch of its chunk into the slot of the same place.
PlanNext(lane) ==
    /\ phase = "planning"
    /\ progress[lane] < Cardinality(Chunk(lane))
    /\ LET k == (lane - 1) * ChunkSize + progress[lane] + 1
       IN slots' = [slots EXCEPT ![k] = BatchPlanned(@, batches[k])]
    /\ progress' = [progress EXCEPT ![lane] = @ + 1]
    /\ UNCHANGED <<index, batches, phase, active_batches, frames_sent, completed>>

\* All lanes are through: reusable_view.
Join ==
    /\ phase = "planning"
    /\ \A lane \in DOMAIN progress : progress[lane] = Cardinality(Chunk(lane))
    /\ phase' = "sending"
    /\ UNCHANGED <<index, batches, progress, slots, active_batches, frames_sent, completed>>

\* reusable_view: active plans of active slots, and the sum of their statistics.
View == [k \in 1 .. active_batches |-> SubSeq(slots[k].plans, 1, slots[k].active_plans)]
Sum(field) == Total([k \in 1 .. active_batches |-> slots[k].stats[field]])

\* Packets to send, in input order: batches and views zipped, viewers and plans.
Outgoing ==
    Joined([k \in DOMAIN batches |->
        [i \in 1 .. Min({Len(batches[k].viewers), Len(View[k])}) |->
            [client |-> batches[k].viewers[i].client, entities |-> View[k][i]]]])

\* send_plan for the next viewer: an empty frame is not sent; the transport
\* may refuse, which ends the call.
SendNext(fails) ==
    /\ phase = "sending"
    /\ completed < Len(Outgoing)
    /\ LET packet == Outgoing[completed + 1]
           skips == packet.entities = <<>>
       IN /\ fails => ~skips
          /\ frames_sent' = IF fails \/ skips THEN frames_sent ELSE Append(frames_sent, packet)
          /\ completed' = IF fails THEN completed ELSE completed + 1
          /\ phase' = IF fails THEN "idle" ELSE phase
    /\ UNCHANGED <<index, batches, progress, slots, active_batches>>

Return ==
    /\ phase = "sending" /\ completed = Len(Outgoing)
    /\ phase' = "idle"
    /\ UNCHANGED <<index, batches, progress, slots, active_batches, frames_sent, completed>>

\* Between calls, the stations change.
Change(world) ==
    /\ phase = "idle" /\ batches # <<>>
    /\ index' = world
    /\ batches' = <<>> /\ progress' = <<>> /\ frames_sent' = <<>> /\ completed' = 0
    /\ UNCHANGED <<phase, slots, active_batches>>

BatchNext ==
    \/ \E input \in Inputs : Begin(input)
    \/ \E lane \in DOMAIN progress : PlanNext(lane)
    \/ Join
    \/ \E fails \in BOOLEAN : SendNext(fails)
    \/ Return
    \/ \E world \in Worlds : Change(world)

BatchSpec == BatchInit /\ [][BatchNext]_batchVars

-----------------------------------------------------------------------------
(* Properties. *)

\* What each viewer would be planned by itself, in input order.
PlannedAlone ==
    Joined([k \in DOMAIN batches |->
        [i \in DOMAIN batches[k].viewers |->
            LET viewer == batches[k].viewers[i]
            IN [client |-> viewer.client,
                entities |-> PlanOf(viewer, index[batches[k].station][viewer.range])]]])

\* However batches were dealt out and whatever the slots held before, each viewer
\* gets the plan it would get by itself; what has been sent is those plans in
\* input order, up to the viewer that is reported, and the statistics add up.
BatchAsAlone ==
    phase # "planning" /\ batches # <<>> =>
        /\ Outgoing = PlannedAlone
        /\ frames_sent = Picked(PlannedAlone,
                                {i \in 1 .. completed : PlannedAlone[i].entities # <<>>})
        /\ Sum("viewers") = Len(PlannedAlone)
        /\ Sum("reused") <= Sum("viewers") - Sum("unique")
=============================================================================
