------------------------------ MODULE ClientLink ------------------------------
(***************************************************************************)
(* Frames on their way from the server to its clients: the senders         *)
(* (BarrierTransportBridge, and whoever sends ACKs and replication frames) *)
(* over a BudgetedTransport, and the receivers, ClientTransportBridge and  *)
(* ReplicationReceiveBridge of crates/sectorsync-runtime/src/lib.rs.       *)
(*                                                                         *)
(* A client takes packets off its queue in order and stops at the first    *)
(* one it cannot use, which is gone.  Other endpoints of the transport may *)
(* send it anything; to a client that does not expect a source they send   *)
(* nothing it would take for its own.  Clients stay registered with their  *)
(* transport (TransportHub has the rest), whose queues are bounded.        *)
(***************************************************************************)
EXTENDS WireCodec, SequencesExt, FiniteSetsExt

CONSTANTS
    ClientIds,       \* client ids, as numbers
    ChecksSource,    \* clients whose config has an expected_source
    Foreign,         \* packets of other endpoints
    PacketLimit,     \* max_packet_bytes of the BudgetedTransport
    ClientQueue,     \* bound of a client's queue
    MaxPackets,      \* max_packets of a pump
    MaxSent          \* bound on the calls that send

ASSUME LinkAssumption ==
    /\ ClientIds \subseteq Nat /\ ChecksSource \subseteq ClientIds
    /\ {PacketLimit, ClientQueue, MaxPackets, MaxSent} \subseteq Nat

VARIABLES
    inbox,    \* client -> packets queued for it
    calls,    \* sends so far; also the id a frame is told apart by
    sent_to,  \* history: client -> frames the transport took for it
    handed,   \* history: client -> frames given to the application
    lost      \* history: client -> frames of the server taken and not given

linkVars == <<inbox, calls, sent_to, handed, lost>>

LinkInit ==
    /\ inbox = [c \in ClientIds |-> <<>>]
    /\ calls = 0
    /\ sent_to = [c \in ClientIds |-> <<>>]
    /\ handed = [c \in ClientIds |-> <<>>]
    /\ lost = [c \in ClientIds |-> {}]

-----------------------------------------------------------------------------
(* Senders. *)

\* The frames of the n-th call.
AckFrame(c, n) == [kind |-> "CommandAck", client |-> c, command |-> n,
                   accepted |-> TRUE, reason_code |-> 0]
UpdateFrame(c, n) ==
    [kind |-> "Replication", client |-> c,
     entities |-> <<[entity_id |-> n,
                     components |-> <<[component_id |-> 0, bytes |-> <<0>>]>>]>>]
BarrierFrame(c, n) == [kind |-> "Barrier", client |-> c, barrier |-> n, state |-> 3]

\* BudgetedTransport::send and the transport under it: refused otherwise.
HasRoomFor(c, frame) ==
    /\ Len(Encode(frame)) <= PacketLimit
    /\ Len(inbox[c]) < ClientQueue

\* The transport takes a frame for each of some clients: client -> frame.
Delivered(frames) ==
    /\ calls < MaxSent
    /\ calls' = calls + 1
    /\ inbox' = [c \in ClientIds |->
                    IF c \in DOMAIN frames
                    THEN Append(inbox[c], [from_server |-> TRUE, bytes |-> Encode(frames[c])])
                    ELSE inbox[c]]
    /\ sent_to' = [c \in ClientIds |->
                      IF c \in DOMAIN frames THEN Append(sent_to[c], frames[c])
                      ELSE sent_to[c]]
    /\ UNCHANGED <<handed, lost>>

\* An ACK or a replication frame; one the transport refuses is gone.
SendFrame(c, frame) == HasRoomFor(c, frame) /\ Delivered([x \in {c} |-> frame])

\* broadcast_barrier, in the order of the client ids: it ends at the first client
\* the transport refuses, and the ones before have been told.
BroadcastBarrier ==
    LET refused == {c \in ClientIds : ~HasRoomFor(c, BarrierFrame(c, calls))}
        told == {c \in ClientIds : \A x \in refused : c < x}
    IN Delivered([c \in told |-> BarrierFrame(c, calls)])

\* The frame kinds a bridge takes.
Taking(bridge) ==
    IF bridge = "Replication" THEN {"Replication"}
    ELSE {"Replication", "CommandAck", "Barrier"}

\* A decoded frame is of such a kind and for this client.
Meant(c, frame, bridge) == frame.kind \in Taking(bridge) /\ frame.client = c

\* Another endpoint sends to the client.
ForeignSend(c, bytes) ==
    /\ Len(inbox[c]) < ClientQueue
    /\ Meant(c, Decode(bytes), "Client") => c \in ChecksSource
    /\ inbox' = [inbox EXCEPT ![c] = Append(@, [from_server |-> FALSE, bytes |-> bytes])]
    /\ UNCHANGED <<calls, sent_to, handed, lost>>

-----------------------------------------------------------------------------
(* Receivers. *)

\* Mutated: the target inside the frame is not looked at.
UsableByAnyTarget(c, packet, bridge) ==
    /\ c \in ChecksSource => packet.from_server
    /\ Decode(packet.bytes).kind \in Taking(bridge)

\* A packet passes: its source, its decoding, its kind and its target.
Usable(c, packet, bridge) ==
    /\ c \in ChecksSource => packet.from_server
    /\ Meant(c, Decode(packet.bytes), bridge)

\* Packets a pump of at most n takes before one it cannot use.
Run(c, bridge, n) ==
    Max({k \in 0 .. Min({n, Len(inbox[c])}) :
            \A i \in 1 .. k : Usable(c, inbox[c][i], bridge)})

\* The pump meets a packet it cannot use: that one is taken and ends it.
Stumbles(c, bridge, n) == Run(c, bridge, n) < Min({n, Len(inbox[c])})

Frames(packets) == [i \in DOMAIN packets |-> Decode(packets[i].bytes)]

\* The packets of other endpoints do not count.
FromServer(packets) == Outside(packets, {p \in ToSet(packets) : ~p.from_server})

\* The packets of a pump leave the queue; some frames reach the application.
Received(c, taken, given) ==
    LET packets == SubSeq(inbox[c], 1, taken)
    IN /\ taken > 0
       /\ inbox' = [inbox EXCEPT ![c] = Drop(@, taken)]
       /\ handed' = [handed EXCEPT ![c] = @ \o given]
       /\ lost' = [lost EXCEPT ![c] = @ \cup (ToSet(Frames(FromServer(packets))) \ ToSet(given))]
       /\ UNCHANGED <<calls, sent_to>>

TakenBy(c, bridge, n) == Run(c, bridge, n) + (IF Stumbles(c, bridge, n) THEN 1 ELSE 0)

\* The frames pump visits (a visitor that fails at a frame ends the pump there,
\* as a smaller max_packets does).
Heard(c, bridge, n) == Frames(SubSeq(inbox[c], 1, Run(c, bridge, n)))

\* pump.
Pump(c, bridge, n) == Received(c, TakenBy(c, bridge, n), Heard(c, bridge, n))

\* pump_owned: an error drops the frames collected so far.
Collected(c, bridge, n) ==
    IF Stumbles(c, bridge, n) THEN <<>>
    ELSE Frames(SubSeq(inbox[c], 1, Run(c, bridge, n)))

PumpOwned(c, bridge, n) == Received(c, TakenBy(c, bridge, n), Collected(c, bridge, n))

LinkNext ==
    \/ \E c \in ClientIds :
          \/ SendFrame(c, AckFrame(c, calls)) \/ SendFrame(c, UpdateFrame(c, calls))
          \/ \E bytes \in Foreign : ForeignSend(c, bytes)
          \/ \E bridge \in {"Client", "Replication"}, n \in 1 .. MaxPackets :
                Pump(c, bridge, n) \/ PumpOwned(c, bridge, n)
    \/ BroadcastBarrier

LinkSpec == LinkInit /\ [][LinkNext]_linkVars

-----------------------------------------------------------------------------
(* Properties. *)

\* What a client's application was given, and what still waits for it, are the
\* frames the server sent it, in order and unaltered, without the lost ones and
\* without any of another sender or for another client.
GivenInOrder ==
    \A c \in ClientIds :
        Outside(sent_to[c], lost[c]) = handed[c] \o Frames(FromServer(inbox[c]))

\* Frames are handed in order, and the mixed visitor pump loses nothing, whatever
\* else is in the queue.  (The others do: pump_owned drops what it collected before
\* an error, and a replication bridge takes the ACKs and notifications it meets
\* off the queue.)
FramesHanded ==
    [][/\ GivenInOrder'
       /\ \A c \in ClientIds, n \in 1 .. MaxPackets :
             Pump(c, "Client", n) => UNCHANGED lost]_linkVars
=============================================================================
