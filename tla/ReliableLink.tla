---------------------------- MODULE ReliableLink ----------------------------
(***************************************************************************)
(* Reliable packets over an unreliable transport: ReliableStationSender,   *)
(* ReliableStationReceiver and ReliableStationEndpoint of                  *)
(* crates/sectorsync-transport/src/lib.rs.                                 *)
(*                                                                         *)
(* One sender and the receivers of its targets.  The network between them  *)
(* may lose, delay, reorder and, with Duplicating, repeat frames; besides, *)
(* send_station itself may return an error for the targets in down.        *)
(***************************************************************************)
EXTENDS ReliableEndpoint

CONSTANTS
    Breakable,     \* targets for which send_station may return an error
    Duplicating    \* the network may deliver a frame again

ASSUME LinkAssumption ==
    /\ Breakable \subseteq Targets
    /\ Duplicating \in BOOLEAN

VARIABLES
    data,                 \* data frames under way: <<key, attempt>>
    acks,                 \* ACK frames under way: the key
    down                  \* targets for which send_station returns an error

vars == <<sender, receiver, data, acks, down>>

TypeOK ==
    /\ EndpointTypeOK
    /\ data \subseteq Keys \X (1 .. MaxAttempts)
    /\ acks \subseteq Keys
    /\ down \subseteq Breakable

Init ==
    /\ EndpointInit
    /\ data = {}
    /\ acks = {}
    /\ down = {}

-----------------------------------------------------------------------------
(* Sender. *)

\* send.
Send(t) ==
    /\ HasWindow(t) /\ t \notin down
    /\ Sent(t)
    /\ data' = data \cup {<<NextKey(t), 1>>}
    /\ UNCHANGED <<receiver, acks, down>>

\* send when the transport returns an error.
SendFails(t) ==
    /\ HasWindow(t) /\ t \in down
    /\ SequenceSpent(t)
    /\ UNCHANGED <<receiver, data, acks, down>>

\* A frame that was received; it may come again if the network duplicates.
Arrived(frames, frame) == IF Duplicating THEN frames ELSE frames \ {frame}

\* An ACK arrives.
Acknowledge(k) ==
    /\ k \in acks
    /\ acks' = Arrived(acks, k)
    /\ Acknowledged(k)
    /\ UNCHANGED <<receiver, data, down>>

\* retry_due_into.
RetryDue ==
    /\ Due # {}
    /\ LET end == Taken({i \in Resending : retry_deadlines[i].key[1] \in down})
       IN /\ Passed(end)
          /\ data' = data \cup {<<k, in_flight[k].attempts + 1>> : k \in Resent(end)}
    /\ UNCHANGED <<receiver, acks, down>>

\* The caller's tick advances.
Tick == Aged /\ UNCHANGED <<receiver, data, acks, down>>

-----------------------------------------------------------------------------
(* Receiver and transport. *)

\* handle_data: the ACK goes out first, for a duplicate too.
ReceiveData(f) ==
    /\ f \in data
    /\ data' = Arrived(data, f)
    /\ acks' = acks \cup {f[1]}
    /\ Received(f[1])
    /\ UNCHANGED <<sender, down>>

\* handle_data when the ACK cannot be sent: the frame is gone, nothing is
\* recorded.  Also a frame the network loses.
LoseData(f) ==
    /\ f \in data
    /\ data' = Arrived(data, f)
    /\ UNCHANGED <<sender, receiver, acks, down>>

Break(t) ==
    /\ down' = down \cup {t}
    /\ UNCHANGED <<sender, receiver, data, acks>>

Repair(t) ==
    /\ down' = down \ {t}
    /\ UNCHANGED <<sender, receiver, data, acks>>

Next ==
    \/ \E t \in Targets : Send(t) \/ SendFails(t)
    \/ \E k \in acks : Acknowledge(k)
    \/ RetryDue
    \/ Tick
    \/ \E f \in data : ReceiveData(f) \/ LoseData(f)
    \/ \E t \in Breakable : Break(t) \/ Repair(t)

Spec == Init /\ [][Next]_vars

\* sdk-integration.md asks for retry_due from the maintenance loop, and ticks
\* go on.  Nothing is assumed of the network.
FairSpec == Spec /\ WF_vars(RetryDue) /\ WF_vars(Tick)

-----------------------------------------------------------------------------
(* Properties. *)

\* Through failed passes, late ACKs and compactions the sender keeps a deadline
\* for every packet in flight, exact counts of its windows and few deadlines of
\* settled packets.
LinkSound == TypeOK /\ NothingForgotten /\ WindowExact /\ StaleBounded

\* send: "stores it until acknowledged or timed out".  Once the transport returns
\* no more errors, no packet stays in flight for ever, however many passes
\* failed before.
PacketsSettle ==
    <>[](down = {}) =>
        \A k \in Keys : in_flight[k] # NoPacket ~> in_flight[k] = NoPacket
=============================================================================
