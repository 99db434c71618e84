----------------------------- MODULE EventQueues -----------------------------
(***************************************************************************)
(* The bounded event queues of one station: EventQueues of                 *)
(* crates/sectorsync-core/src/event.rs.  A value q maps each priority to   *)
(* its queue; the operations are operators on it.                          *)
(***************************************************************************)
EXTENDS Integers, FiniteSets, Sequences, SequencesExt, Ordered

CONSTANTS
    Targets,     \* station ids, as numbers
    MaxEvents,   \* bound on event ids
    MaxTick,     \* bound on ticks (u64)
    Limits       \* EventQueueLimits: priority -> capacity

Priorities == {"Critical", "Important", "BestEffort"}
Reliable == {"Critical", "Important"}

ASSUME EventAssumption ==
    /\ Targets \subseteq Nat /\ IsFiniteSet(Targets)
    /\ {MaxEvents, MaxTick} \subseteq Nat
    /\ Limits \in [Priorities -> Nat]

Event ==
    [id : 1 .. MaxEvents, target : Targets, priority : Priorities,
     target_tick : 0 .. MaxTick]

Queues == [Priorities -> Seq(Event)]

EmptyQueues == [p \in Priorities |-> <<>>]

\* Every event the queues hold.
Held(q) == UNION {ToSet(q[p]) : p \in Priorities}

Full(q, p) == Len(q[p]) >= Limits[p]

\* push returns QueueFull: for the reliable priorities only.
Refuses(q, event) == event.priority \in Reliable /\ Full(q, event.priority)

\* What pop_front takes to make room for a best-effort event.
Evicted(q, event) ==
    IF event.priority = "BestEffort" /\ Full(q, "BestEffort") /\ q["BestEffort"] # <<>>
    THEN {Head(q["BestEffort"])} ELSE {}

\* push of an event that is not refused.
Pushed(q, event) ==
    LET queue == q[event.priority]
        kept == IF Evicted(q, event) = {} THEN queue ELSE Tail(queue)
    IN [q EXCEPT ![event.priority] = Append(kept, event)]

\* Mutated: the tick an event is due at is not enough.
IsReadyLate(event, tick) == event.target_tick < tick

IsReady(event, tick) == event.target_tick <= tick

\* The entries of a queue that are due, or those that are not, in their order.
Due(queue, tick) == Picked(queue, {i \in DOMAIN queue : IsReady(queue[i], tick)})
Delayed(queue, tick) == Picked(queue, {i \in DOMAIN queue : ~IsReady(queue[i], tick)})

\* drain_ready_into: what it appends to the caller's events ...
Ready(q, tick) ==
    Due(q["Critical"], tick) \o Due(q["Important"], tick) \o Due(q["BestEffort"], tick)

\* Mutated: delayed events go back in front of each other.
RetainedReversed(q, tick) == [p \in Priorities |-> Reverse(Delayed(q[p], tick))]

\* ... and what it retains, in place.
Retained(q, tick) == [p \in Priorities |-> Delayed(q[p], tick)]
=============================================================================
