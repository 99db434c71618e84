------------------------- MODULE ReliableClientLink -------------------------
(***************************************************************************)
(* Reliable packets to clients over the in-memory hub:                     *)
(* ReliableClientEndpoint over InMemoryTransportEndpoint, both of          *)
(* crates/sectorsync-transport/src/lib.rs.                                 *)
(*                                                                         *)
(* One sender, Local, which stays registered, and its peers (Targets).     *)
(* Their threads share the hub: a peer opens an endpoint in the two steps  *)
(* of InMemoryTransportHub::endpoint, may take the address of another one, *)
(* open again or leave, and loses what is queued for it when it does.  It  *)
(* keeps its ReliableClientEndpoint all the while.  Frames are their keys: *)
(* data in the queue of a peer, ACKs in the queue of Local.                *)
(*                                                                         *)
(* The names of ReliableLink are kept out of it, so that one module can    *)
(* hold the proofs about both.                                             *)
(***************************************************************************)
EXTENDS ReliableEndpoint, TransportHub

CONSTANTS Local, LocalAddress

ASSUME LocalAssumption ==
    /\ Local \notin Targets /\ LocalAddress \in Addresses
    /\ Clients = Targets \cup {Local}
    /\ NoClient \notin Registration(Keys) /\ MaxRegistrations # 0

VARIABLES
    endpoint,    \* client -> the token of its handle
    opening      \* peers between the two steps of endpoint()

clientVars == <<sender, receiver, hub, endpoint, opening>>

ClientTypeOK ==
    /\ EndpointTypeOK
    /\ HubTypeOK(Keys)
    /\ endpoint \in [Clients -> Tokens \cup {NoToken}]
    /\ opening \subseteq Targets

\* Local is registered with the first token.
ClientInit ==
    /\ EndpointInit
    /\ clients = [c \in Clients |->
                     IF c = Local THEN [remote_addr |-> LocalAddress, registration_token |-> 1,
                                        queue |-> <<>>]
                     ELSE NoClient]
    /\ addr_to_client = [a \in Addresses |-> IF a = LocalAddress THEN Local ELSE NoClient]
    /\ next_registration_token = 2
    /\ endpoint = [c \in Clients |-> IF c = Local THEN 1 ELSE NoToken]
    /\ opening = {}

-----------------------------------------------------------------------------
(* Endpoints. *)

\* The first step of endpoint(): register_client.
Open(p, addr) ==
    /\ p \notin opening
    /\ RegisterClient(p, addr)
    /\ opening' = opening \cup {p}
    /\ UNCHANGED <<sender, receiver, endpoint>>

\* The second one: endpoint_for_registered, whoever is registered by then.
Opened(p) ==
    /\ p \in opening
    /\ endpoint' = [endpoint EXCEPT ![p] = CurrentToken(p)]
    /\ opening' = opening \ {p}
    /\ UNCHANGED <<sender, receiver, hub>>

\* unregister_client.
Close(p) ==
    /\ UnregisterClient(p)
    /\ UNCHANGED <<sender, receiver, endpoint, opening>>

-----------------------------------------------------------------------------
(* Reliable packets. *)

Reaches(p, frames) == HasRoom(Local, endpoint[Local], p, frames)

\* send.
SendToPeer(p) ==
    /\ HasWindow(p) /\ Reaches(p, 1)
    /\ Sent(p)
    /\ Enqueued([x \in {p} |-> <<NextKey(p)>>])
    /\ UNCHANGED <<receiver, addr_to_client, next_registration_token, endpoint, opening>>

\* send when the hub refuses the frame.
SendToPeerFails(p) ==
    /\ HasWindow(p) /\ ~Reaches(p, 1)
    /\ SequenceSpent(p)
    /\ UNCHANGED <<receiver, hub, endpoint, opening>>

\* Frames a pass that takes the first entries of the heap sends to p, in order.
Frames(p, end) ==
    LET again == Picked(retry_deadlines,
                        {i \in Resending : i <= end /\ retry_deadlines[i].key[1] = p})
    IN [n \in DOMAIN again |-> again[n].key]

\* Due entries the hub refuses a frame of: the frames before it fill the queue.
Refused ==
    {i \in Resending :
        LET p == retry_deadlines[i].key[1] IN ~Reaches(p, Len(Frames(p, i)))}

\* retry_due_into.
RetryPeers ==
    /\ Due # {}
    /\ LET end == Taken(Refused)
       IN /\ Passed(end)
          /\ Enqueued([p \in Targets |-> Frames(p, end)])
    /\ UNCHANGED <<receiver, addr_to_client, next_registration_token, endpoint, opening>>

\* The caller's tick advances.
ClientTick == Aged /\ UNCHANGED <<receiver, hub, endpoint, opening>>

\* try_recv by a peer, and handle_inbound of the data frame it took: the ACK goes
\* out first, for a duplicate too; if the hub refuses it, the frame is gone and
\* nothing is recorded.  (That the peer or its place in Local's queue may be lost
\* between the two calls adds nothing: it may be before the first one.)
PeerReceives(p) ==
    /\ HasFrame(p, endpoint[p])
    /\ LET k == Head(Queue(p))
           rest == [clients EXCEPT ![p].queue = Tail(@)]
       IN IF HasRoom(p, endpoint[p], Local, 1)
          THEN /\ clients' = [rest EXCEPT ![Local].queue = Append(@, k)]
               /\ Received(k)
          ELSE clients' = rest /\ UNCHANGED receiver
    /\ UNCHANGED <<sender, addr_to_client, next_registration_token, endpoint, opening>>

\* try_recv by Local, and handle_inbound of the ACK it took.
LocalReceives ==
    /\ HasFrame(Local, endpoint[Local])
    /\ clients' = [clients EXCEPT ![Local].queue = Tail(@)]
    /\ Acknowledged(Head(Queue(Local)))
    /\ UNCHANGED <<receiver, addr_to_client, next_registration_token, endpoint, opening>>

ClientNext ==
    \/ \E p \in Targets :
          \/ \E addr \in Addresses \ {LocalAddress} : Open(p, addr)
          \/ Opened(p) \/ Close(p)
          \/ SendToPeer(p) \/ SendToPeerFails(p)
          \/ PeerReceives(p)
    \/ RetryPeers
    \/ ClientTick
    \/ LocalReceives

ClientSpec == ClientInit /\ [][ClientNext]_clientVars

-----------------------------------------------------------------------------
(* Properties. *)

\* Whoever registers, is evicted, leaves and comes back: addresses and clients
\* lead to each other, queues stay within their limit, and the sender keeps a
\* deadline for every packet in flight, exact counts of its windows and few stale
\* deadlines.
HubSound ==
    /\ ClientTypeOK
    /\ AddressesExact
    /\ \A c \in Clients : Registered(c) => Len(Queue(c)) <= QueueLimit
    /\ NothingForgotten /\ WindowExact /\ StaleBounded
=============================================================================
