-------------------------- MODULE ReliableEndpoint --------------------------
(***************************************************************************)
(* Both ends of a reliable link, ReliableStationSender and                 *)
(* ReliableStationReceiver of crates/sectorsync-transport/src/lib.rs, and  *)
(* their twins for clients: the sender's window of packets in flight and   *)
(* the heap of their retry deadlines, and the delivery history of each     *)
(* target's receiver.  What becomes of frames is left to the module of the *)
(* transport.                                                              *)
(*                                                                         *)
(* Ticks only matter as "due or not" and in the order of the deadline      *)
(* heap.  Every push is retry_after_ticks ahead of the current tick, so    *)
(* the heap pops in the order of the pushes, those of one tick by target   *)
(* and sequence: retry_deadlines is that order, each entry with the ticks  *)
(* left until it is due (0 once it is).  last_sent_tick is likewise the    *)
(* ticks left until the packet is due.                                     *)
(***************************************************************************)
EXTENDS Integers, Sequences, FiniteSets, FiniteSetsExt, SequencesExt, Ordered

CONSTANTS
    Targets,       \* station or client ids, as numbers: the heap orders them
    MaxSequence,   \* bound on sequence numbers (u64 in the code)
    MaxInFlight,   \* config.max_in_flight_per_target, .._per_peer
    RetryAfter,    \* config.retry_after_ticks
    MaxAttempts,   \* config.max_attempts
    Multiple,      \* RETRY_DEADLINE_COMPACTION_MULTIPLE
    MaxHistory,    \* config.max_delivered_history
    NoPacket       \* a key with nothing in flight (None)

ASSUME EndpointAssumption ==
    /\ Targets \subseteq Nat /\ IsFiniteSet(Targets)
    /\ {MaxSequence, MaxInFlight, MaxHistory} \subseteq Nat
    /\ {RetryAfter, MaxAttempts, Multiple} \subseteq Nat \ {0}

Keys == Targets \X (1 .. MaxSequence)
Wait == 0 .. RetryAfter

Packet == [attempts : 1 .. MaxAttempts, wait : Wait]

ASSUME NoPacketAssumption == NoPacket \notin Packet

VARIABLES
    next_sequence,        \* target -> next sequence number
    in_flight,            \* key -> Packet or NoPacket
    in_flight_by_target,  \* target -> number of packets in flight
    retry_deadlines,      \* the deadline heap in popping order
    status,               \* history: key -> what became of the packet
    delivered_order,      \* target -> sequence numbers its receiver remembers
    handed                \* history: key -> times the receiver handed it over

receiver == <<delivered_order, handed>>
sender == <<next_sequence, in_flight, in_flight_by_target, retry_deadlines, status>>

Deadline == [key : Keys, wait : Wait]

\* No window outgrows max_in_flight_per_target, no packet max_attempts and no
\* receiver max_delivered_history.
EndpointTypeOK ==
    /\ next_sequence \in [Targets -> 1 .. MaxSequence + 1]
    /\ in_flight \in [Keys -> Packet \cup {NoPacket}]
    /\ in_flight_by_target \in [Targets -> 0 .. MaxInFlight]
    /\ retry_deadlines \in Seq(Deadline)
    /\ status \in [Keys -> {"unsent", "pending", "acknowledged", "timed out"}]
    /\ delivered_order \in [Targets -> Seq(1 .. MaxSequence)]
    /\ \A t \in Targets : Len(delivered_order[t]) <= MaxHistory
    /\ handed \in [Keys -> Nat]

EndpointInit ==
    /\ next_sequence = [t \in Targets |-> 1]
    /\ in_flight = [k \in Keys |-> NoPacket]
    /\ in_flight_by_target = [t \in Targets |-> 0]
    /\ retry_deadlines = <<>>
    /\ status = [k \in Keys |-> "unsent"]
    /\ delivered_order = [t \in Targets |-> <<>>]
    /\ handed = [k \in Keys |-> 0]

-----------------------------------------------------------------------------
(* Sender. *)

InFlight == {k \in Keys : in_flight[k] # NoPacket}

\* Keys whose deadlines fall on one tick as the BinaryHeap pops them: by target
\* and sequence.
Before ==
    {p \in Keys \X Keys : \/ p[1][1] < p[2][1]
                          \/ p[1][1] = p[2][1] /\ p[1][2] < p[2][2]}
Popping == [keys \in SUBSET Keys |-> Sorted(keys, Before)]

\* schedule_retry for each of the keys, at the current tick: behind the entries
\* of earlier ticks, in order among those of this one.
Scheduled(deadlines, keys) ==
    LET earlier == Cardinality({i \in DOMAIN deadlines : deadlines[i].wait < RetryAfter})
        sameTick == {deadlines[i].key : i \in earlier + 1 .. Len(deadlines)}
        pushed == Popping[sameTick \cup keys]
    IN SubSeq(deadlines, 1, earlier)
       \o [i \in DOMAIN pushed |-> [key |-> pushed[i], wait |-> RetryAfter]]

\* Mutated: packets that settle keep their place in the window.
ReleasedNever(keys) == in_flight_by_target

\* remove_in_flight of each of the keys: the count of its target.
Released(keys) ==
    [t \in Targets |-> in_flight_by_target[t] - Cardinality({k \in keys : k[1] = t})]

\* send is refused with WindowFull otherwise.
HasWindow(t) == in_flight_by_target[t] < MaxInFlight /\ next_sequence[t] <= MaxSequence

NextKey(t) == <<t, next_sequence[t]>>

\* allocate_sequence.
AllocateSequence(t) == next_sequence' = [next_sequence EXCEPT ![t] = @ + 1]

\* send, once the transport has taken the frame.
Sent(t) ==
    /\ AllocateSequence(t)
    /\ in_flight' = [in_flight EXCEPT ![NextKey(t)] = [attempts |-> 1, wait |-> RetryAfter]]
    /\ in_flight_by_target' = [in_flight_by_target EXCEPT ![t] = @ + 1]
    /\ retry_deadlines' = Scheduled(retry_deadlines, {NextKey(t)})
    /\ status' = [status EXCEPT ![NextKey(t)] = "pending"]

\* send when the transport returns an error: the sequence number is spent.
SequenceSpent(t) ==
    /\ AllocateSequence(t)
    /\ UNCHANGED <<in_flight, in_flight_by_target, retry_deadlines, status>>

\* compact_retry_deadlines_if_stale, rebuilding from the packets in flight.
Compacted(deadlines, alive) ==
    IF Len(deadlines) > Multiple * Cardinality(alive)
    THEN Picked(deadlines, {i \in DOMAIN deadlines : deadlines[i].key \in alive})
    ELSE deadlines

\* Mutated: an ACK settles the packets of that number to every target.
SettledByNumber(k) == {x \in InFlight : x[2] = k[2]}

\* What an ACK settles; one that is late settles nothing.
SettledBy(k) == {k} \cap InFlight

\* acknowledge.
Acknowledged(k) ==
    LET settled == SettledBy(k)
    IN /\ in_flight' = [x \in Keys |-> IF x \in settled THEN NoPacket ELSE in_flight[x]]
       /\ in_flight_by_target' = Released(settled)
       /\ retry_deadlines' = IF settled = {} THEN retry_deadlines
                             ELSE Compacted(retry_deadlines, InFlight \ settled)
       /\ status' = [x \in Keys |-> IF x \in settled THEN "acknowledged" ELSE status[x]]
       /\ UNCHANGED next_sequence

\* A deadline of a packet still in flight that was not sent since.
Current(d) == d.key \in InFlight /\ in_flight[d.key].wait = d.wait

Exhausted(d) == in_flight[d.key].attempts >= MaxAttempts

Due == {i \in 1 .. Len(retry_deadlines) : retry_deadlines[i].wait = 0}

\* Due entries whose packets a pass sends again.
Resending == {i \in Due : Current(retry_deadlines[i]) /\ ~Exhausted(retry_deadlines[i])}

\* The keys sent again by a pass that takes the first entries of the heap.
Resent(end) == {retry_deadlines[i].key : i \in {j \in Resending : j <= end}}

\* Mutated: the entries behind a failing one are not put back.
KeptNotDue(end) ==
    SubSeq(retry_deadlines, Cardinality(Due) + 1, Len(retry_deadlines))

\* The heap after a pass that took its first entries.
Kept(end) == SubSeq(retry_deadlines, end + 1, Len(retry_deadlines))

\* What a pass takes: due entries in heap order, up to the first of those the
\* transport returns an error for; that one and the ones after it are put back.
Taken(failing) == IF failing = {} THEN Cardinality(Due) ELSE Min(failing) - 1

\* retry_due_into.
Passed(end) ==
    LET expired == {retry_deadlines[i].key : i \in
                       {j \in Due : /\ j <= end
                                    /\ Current(retry_deadlines[j])
                                    /\ Exhausted(retry_deadlines[j])}}
    IN /\ in_flight' =
             [k \in Keys |->
                 CASE k \in expired -> NoPacket
                   [] k \in Resent(end) -> [attempts |-> in_flight[k].attempts + 1,
                                            wait |-> RetryAfter]
                   [] OTHER -> in_flight[k]]
       /\ in_flight_by_target' = Released(expired)
       /\ retry_deadlines' = Scheduled(Kept(end), Resent(end))
       /\ status' = [k \in Keys |-> IF k \in expired THEN "timed out" ELSE status[k]]
       /\ UNCHANGED next_sequence

\* The caller's tick advances.
Aged ==
    /\ retry_deadlines' =
          [i \in DOMAIN retry_deadlines |->
              [retry_deadlines[i] EXCEPT !.wait = IF @ > 0 THEN @ - 1 ELSE 0]]
    /\ in_flight' =
          [k \in Keys |-> IF in_flight[k] = NoPacket THEN NoPacket
                          ELSE [in_flight[k] EXCEPT !.wait = IF @ > 0 THEN @ - 1 ELSE 0]]
    /\ UNCHANGED <<next_sequence, in_flight_by_target, status>>

-----------------------------------------------------------------------------
(* Receiver. *)

\* Mutated: only the last packet is known for a duplicate.
RemembersLast(k) ==
    delivered_order[k[1]] # <<>> /\ Last(delivered_order[k[1]]) = k[2]

\* record_unique: remembers a new sequence number, forgetting the oldest beyond
\* the history.  No history, no suppression.
Remembers(k) == k[2] \in ToSet(delivered_order[k[1]])

Remember(k) ==
    delivered_order' =
        [delivered_order EXCEPT ![k[1]] =
            IF MaxHistory = 0 THEN @
            ELSE IF Len(@) = MaxHistory THEN Append(Tail(@), k[2]) ELSE Append(@, k[2])]

\* handle_data, once the ACK is sent: a duplicate is suppressed.
Received(k) ==
    IF Remembers(k)
    THEN UNCHANGED receiver
    ELSE Remember(k) /\ handed' = [handed EXCEPT ![k] = @ + 1]

-----------------------------------------------------------------------------
(* Parts of the properties of the links. *)

\* A packet in flight is never forgotten: the heap has one deadline that will
\* take it up again, through failed passes and compactions.
NothingForgotten ==
    \A k \in InFlight :
        Cardinality({i \in DOMAIN retry_deadlines :
                        retry_deadlines[i].key = k /\ Current(retry_deadlines[i])}) = 1

\* in_flight_by_target, which decides on WindowFull, never drifts from what is
\* in flight: no packet settles without giving its place back.
WindowExact ==
    \A t \in Targets :
        in_flight_by_target[t] = Cardinality({k \in InFlight : k[1] = t})

\* ACKs leave deadlines behind, yet those are never more than the packets the
\* windows hold times the multiple that starts a compaction, less one.
StaleBounded ==
    Len(retry_deadlines) - Cardinality(InFlight)
        <= (Multiple - 1) * MaxInFlight * Cardinality(Targets)

\* Both links implement the channel, as long as the history of a receiver is not
\* outgrown: whatever a network loses, repeats and reorders, and over a hub that
\* loses whole queues.
Channel == INSTANCE ReliableChannel
ReliableDelivery == Channel!Spec
=============================================================================
