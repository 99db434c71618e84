---------------------------- MODULE TransportHub ----------------------------
(***************************************************************************)
(* InMemoryTransportHub of crates/sectorsync-transport/src/lib.rs: the     *)
(* clients registered with it, each with an address and a bounded queue,   *)
(* shared by every endpoint handle under one lock.  Every operator that    *)
(* primes is one critical section.  A handle is the registration token it  *)
(* was given out with.                                                     *)
(***************************************************************************)
EXTENDS Integers, Sequences

CONSTANTS
    Clients,           \* client ids
    Addresses,         \* remote addresses
    QueueLimit,        \* limits.max_queued_packets_per_client
    MaxRegistrations,  \* bound on registration tokens (u64 in the code)
    NoClient           \* no such client (None)

ASSUME HubAssumption ==
    /\ {QueueLimit, MaxRegistrations} \subseteq Nat
    /\ NoClient \notin Clients

VARIABLES
    clients,                 \* client id -> its registration, or NoClient
    addr_to_client,          \* address -> client id, or NoClient
    next_registration_token

hub == <<clients, addr_to_client, next_registration_token>>

\* The token of a handle that was given out for a client that was not registered.
NoToken == 0

Tokens == 1 .. MaxRegistrations

Registration(Frames) ==
    [remote_addr : Addresses, registration_token : Tokens, queue : Seq(Frames)]

HubTypeOK(Frames) ==
    /\ clients \in [Clients -> {NoClient} \cup Registration(Frames)]
    /\ addr_to_client \in [Addresses -> Clients \cup {NoClient}]
    /\ next_registration_token \in 1 .. MaxRegistrations + 1

HubInit ==
    /\ clients = [c \in Clients |-> NoClient]
    /\ addr_to_client = [a \in Addresses |-> NoClient]
    /\ next_registration_token = 1

Registered(c) == clients[c] # NoClient

Queue(c) == clients[c].queue

\* Mutated: the address a client had stays with it.
AddressesKept(c) == addr_to_client

\* The addresses without the one c had.
AddressesWithout(c) ==
    IF Registered(c) THEN [addr_to_client EXCEPT ![clients[c].remote_addr] = NoClient]
    ELSE addr_to_client

\* register_client: c loses its queue and its handles, and the client that had
\* the address loses its registration.
RegisterClient(c, addr) ==
    LET rest == AddressesWithout(c)
        registration == [remote_addr |-> addr,
                         registration_token |-> next_registration_token, queue |-> <<>>]
    IN /\ next_registration_token \in Tokens
       /\ next_registration_token' = next_registration_token + 1
       /\ addr_to_client' = [rest EXCEPT ![addr] = c]
       /\ clients' = [x \in Clients |-> CASE x = c -> registration
                                          [] x # c /\ x = rest[addr] -> NoClient
                                          [] OTHER -> clients[x]]

\* endpoint_for_registered: the token of a new handle.
CurrentToken(c) == IF Registered(c) THEN clients[c].registration_token ELSE NoToken

\* unregister_client.
UnregisterClient(c) ==
    /\ Registered(c)
    /\ clients' = [clients EXCEPT ![c] = NoClient]
    /\ addr_to_client' = AddressesWithout(c)
    /\ UNCHANGED next_registration_token

\* Sends and receives are refused with MissingLocal otherwise.
IsLocal(c, token) == Registered(c) /\ clients[c].registration_token = token

\* send_locked is refused with MissingLocal, MissingTarget or QueueFull otherwise.
HasRoom(c, token, target, frames) ==
    /\ IsLocal(c, token)
    /\ Registered(target)
    /\ Len(Queue(target)) + frames <= QueueLimit

\* send_locked of a sequence of frames for each of the clients.
Enqueued(frames) ==
    clients' = [c \in Clients |-> IF c \in DOMAIN frames /\ frames[c] # <<>>
                                  THEN [clients[c] EXCEPT !.queue = @ \o frames[c]]
                                  ELSE clients[c]]

\* The next frame of c, which try_recv takes.
HasFrame(c, token) == IsLocal(c, token) /\ Queue(c) # <<>>

-----------------------------------------------------------------------------

\* Each address in use leads to the client registered with it, and to no other,
\* so that a registration evicts nobody but the client it takes the address of.
AddressesExact ==
    \A a \in Addresses, c \in Clients :
        addr_to_client[a] = c <=> Registered(c) /\ clients[c].remote_addr = a
=============================================================================
