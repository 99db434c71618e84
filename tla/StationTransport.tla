--------------------------- MODULE StationTransport ---------------------------
(***************************************************************************)
(* InMemoryStationTransport of crates/sectorsync-transport/src/lib.rs: one *)
(* bounded FIFO of packets per registered station.  A value inbox maps     *)
(* each station to its queue, or to NoQueue.                               *)
(***************************************************************************)
EXTENDS Integers, Sequences

CONSTANTS
    MaxQueued,   \* limits.max_queued_packets_per_station
    NoQueue      \* a station that is not registered (None)

ASSUME TransportAssumption == MaxQueued \in Nat

IsRegistered(inbox, s) == inbox[s] # NoQueue

\* register_station: a station that is registered keeps its packets.
WithStation(inbox, s) ==
    [inbox EXCEPT ![s] = IF IsRegistered(inbox, s) THEN @ ELSE <<>>]

\* unregister_station: the packets are discarded.
WithoutStation(inbox, s) == [inbox EXCEPT ![s] = NoQueue]

\* send_station returns no MissingTarget and no QueueFull.
CanSend(inbox, target) ==
    IsRegistered(inbox, target) /\ Len(inbox[target]) < MaxQueued

Sent(inbox, target, packet) == [inbox EXCEPT ![target] = Append(@, packet)]

\* try_recv_station of a station that has packets, n times.
CanReceive(inbox, s) == IsRegistered(inbox, s) /\ inbox[s] # <<>>

AfterReceiving(inbox, s, n) == [inbox EXCEPT ![s] = SubSeq(@, n + 1, Len(@))]
=============================================================================
