----------------------------- MODULE CommandQueues -----------------------------
(***************************************************************************)
(* The bounded command queues of one station: CommandQueues of             *)
(* crates/sectorsync-core/src/command.rs, as a record whose operations are *)
(* operators.                                                              *)
(***************************************************************************)
EXTENDS Integers, Sequences, SequencesExt, Ordered

CONSTANTS
    Clients,
    MaxSequence,   \* bound on sequence numbers (u64 in the code)
    Limits         \* CommandQueueLimits: priority -> capacity

Priorities == {"High", "Normal", "Low"}

ASSUME LimitsAssumption ==
    /\ Limits \in [Priorities -> Nat]
    /\ MaxSequence \in Nat

Command == [client : Clients, sequence : 1 .. MaxSequence, priority : Priorities]

Queues == [ready : [Priorities -> Seq(Command)], barrier_buffer : Seq(Command)]

EmptyQueues == [ready |-> [p \in Priorities |-> <<>>], barrier_buffer |-> <<>>]

BufferCapacity == Limits["High"] + Limits["Normal"] + Limits["Low"]

Bounded(q) ==
    /\ \A p \in Priorities : Len(q.ready[p]) <= Limits[p]
    /\ Len(q.barrier_buffer) <= BufferCapacity

\* Every command the queues hold.
Held(q) == (UNION {ToSet(q.ready[p]) : p \in Priorities}) \cup ToSet(q.barrier_buffer)

HasReadyCapacity(q, p) == Len(q.ready[p]) < Limits[p]

\* The states of a barrier in which ingress is closed.
Closed == {"Requested", "WaitingTickBoundary", "Frozen"}

\* What push does with a command: queued, buffered, or refused.
Accepts(q, command, ingress) ==
    IF ingress.state \in Closed
    THEN ingress.mode = "Buffer" /\ Len(q.barrier_buffer) < BufferCapacity
    ELSE HasReadyCapacity(q, command.priority)

Pushed(q, command, ingress) ==
    IF ingress.state \in Closed
    THEN [q EXCEPT !.barrier_buffer = Append(@, command)]
    ELSE [q EXCEPT !.ready[command.priority] = Append(@, command)]

\* The places of the commands of one priority among the first n of a list.
Entering(list, n, p) == {i \in 1 .. n : list[i].priority = p}

\* The i-th of a list of commands still has room behind the ones before it.
Fits(q, list, i) ==
    LET p == list[i].priority
    IN Len(q.ready[p]) + Cardinality(Entering(list, i - 1, p)) < Limits[p]

\* Commands that a loop over a list queues before the first one that is blocked.
FitCount(q, list) ==
    Cardinality({i \in DOMAIN list : \A j \in 1 .. i : Fits(q, list, j)})

\* The ready queues once the first n of a list are queued.
WithReady(q, list, n) ==
    [p \in Priorities |-> q.ready[p] \o Picked(list, Entering(list, n, p))]

\* Mutated: the blocked command is popped before its queue is looked at.
ReleasedDroppingBlocked(q) ==
    LET n == FitCount(q, q.barrier_buffer)
    IN [ready |-> WithReady(q, q.barrier_buffer, n),
        barrier_buffer |-> SubSeq(q.barrier_buffer, n + 2, Len(q.barrier_buffer))]

\* Mutated: nothing is released unless everything can be.
ReleasedWhole(q) ==
    IF FitCount(q, q.barrier_buffer) < Len(q.barrier_buffer) THEN q
    ELSE [ready |-> WithReady(q, q.barrier_buffer, Len(q.barrier_buffer)), barrier_buffer |-> <<>>]

\* release_barrier_buffer.
Released(q) ==
    LET n == FitCount(q, q.barrier_buffer)
    IN [ready |-> WithReady(q, q.barrier_buffer, n),
        barrier_buffer |-> SubSeq(q.barrier_buffer, n + 1, Len(q.barrier_buffer))]

\* clear_barrier_buffer.
Cleared(q) == [q EXCEPT !.barrier_buffer = <<>>]

\* pop_next: High before Normal before Low.
NextPriority(q) ==
    IF q.ready["High"] # <<>> THEN "High"
    ELSE IF q.ready["Normal"] # <<>> THEN "Normal" ELSE "Low"

CanPop(q) == \E p \in Priorities : q.ready[p] # <<>>
NextCommand(q) == Head(q.ready[NextPriority(q)])
Popped(q) == [q EXCEPT !.ready[NextPriority(q)] = Tail(@)]
=============================================================================
