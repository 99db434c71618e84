---------------------------- MODULE GatewaySessions ----------------------------
(***************************************************************************)
(* The session and route table of a gateway: GatewaySessionTable of        *)
(* crates/sectorsync-core/src/gateway.rs, with the clients whose commands  *)
(* it admits.                                                              *)
(*                                                                         *)
(* Every call names the current tick and ticks never go back.  The heap of *)
(* expiry deadlines is a bag of (client, since): an entry is due           *)
(* Grace + 1 ticks after since, and all the entries that are due are       *)
(* popped together, so their order does not matter.  connected_at,         *)
(* last_seen and the statistics decide nothing and are left out.           *)
(*                                                                         *)
(* A command carries its client and sequence number only.  The network may *)
(* delay, reorder, repeat or lose commands: any command ever sent may      *)
(* arrive at any time.                                                     *)
(***************************************************************************)
EXTENDS Integers, FiniteSets

CONSTANTS
    Clients, Stations,
    MaxSessions,     \* config.max_sessions
    Grace,           \* config.reconnect_grace_ticks
    MaxCommands,     \* config.max_commands_per_tick
    MaxTick,         \* bound on ticks (u64 in the code)
    MaxSequence,     \* bound on sequence numbers (u64)
    MaxConnections,  \* bound on generations (u64)
    MaxEpoch,        \* bound on route epochs (u64)
    Connected,       \* GatewaySessionState::Connected, in place of a since tick
    NoSession        \* a client without session

Ticks == 0 .. MaxTick
Generations == 1 .. MaxConnections
Sequences == 1 .. MaxSequence

\* last_sequence is 0 for None.
Session ==
    [station_id : Stations, generation : Generations, route_epoch : 1 .. MaxEpoch,
     since : Ticks \cup {Connected}, last_sequence : 0 .. MaxSequence,
     command_tick : Ticks, commands_this_tick : 0 .. MaxCommands]

ASSUME GatewayAssumption ==
    /\ {MaxSessions, Grace, MaxCommands, MaxTick, MaxSequence} \subseteq Nat
    /\ {MaxConnections, MaxEpoch} \subseteq Nat \ {0}
    /\ IsFiniteSet(Clients)
    /\ Connected \notin Ticks
    /\ NoSession \notin Session

VARIABLES
    now,
    sessions,           \* client -> Session or NoSession
    expiry_deadlines,   \* <<client, since>> -> entries in the heap
    sent,               \* client -> generation -> last sequence number sent
    admitted_now        \* history: client -> commands admitted in this tick

vars == <<now, sessions, expiry_deadlines, sent, admitted_now>>

Tracked(c) == sessions[c] # NoSession
IsConnected(c) == Tracked(c) /\ sessions[c].since = Connected
IsDisconnected(c) == Tracked(c) /\ sessions[c].since # Connected

\* Entries of the heap, repeated ones included.
HeapSize(deadlines) ==
    Cardinality(UNION {{e} \X (1 .. deadlines[e]) : e \in Clients \X Ticks})

\* max_sessions.max(1).saturating_mul(2).
MaxHeap == 2 * (IF MaxSessions > 1 THEN MaxSessions ELSE 1)

\* Tables keep their types; max_sessions holds, and clients that come and go
\* leave at most two deadlines per session in the heap.
TypeOK ==
    /\ now \in Ticks
    /\ sessions \in [Clients -> Session \cup {NoSession}]
    /\ Cardinality({c \in Clients : Tracked(c)}) <= MaxSessions
    /\ expiry_deadlines \in [Clients \X Ticks -> Nat]
    /\ HeapSize(expiry_deadlines) <= MaxHeap
    /\ sent \in [Clients -> [Generations -> 0 .. MaxSequence]]
    /\ admitted_now \in [Clients -> Nat]

Init ==
    /\ now = 0
    /\ sessions = [c \in Clients |-> NoSession]
    /\ expiry_deadlines = [e \in Clients \X Ticks |-> 0]
    /\ sent = [c \in Clients |-> [g \in Generations |-> 0]]
    /\ admitted_now = [c \in Clients |-> 0]

-----------------------------------------------------------------------------
(* What a call makes of one session. *)

NewSession(station) ==
    [station_id |-> station, generation |-> 1, route_epoch |-> 1, since |-> Connected,
     last_sequence |-> 0, command_tick |-> now, commands_this_tick |-> 0]

\* The station of a connected session changes.
Routed(s, station) ==
    IF s.station_id = station THEN s
    ELSE [s EXCEPT !.station_id = station, !.route_epoch = @ + 1]

PastGrace(s) == now - s.since > Grace

\* A session that returns after its grace starts anew.
Replaced(s) ==
    [s EXCEPT !.generation = @ + 1, !.route_epoch = @ + 1, !.since = Connected,
              !.last_sequence = 0, !.command_tick = now, !.commands_this_tick = 0]

\* Mutated: a return within the grace starts anew too.
ResumedAnew(s) == [s EXCEPT !.since = Connected, !.last_sequence = 0]

Resumed(s) == [s EXCEPT !.since = Connected]

Returned(s) == IF PastGrace(s) THEN Replaced(s) ELSE Resumed(s)

\* The count of commands starts again with each tick.
Counted(s) ==
    IF s.command_tick = now THEN s
    ELSE [s EXCEPT !.command_tick = now, !.commands_this_tick = 0]

Store(c, s) ==
    /\ s.generation <= MaxConnections
    /\ s.route_epoch <= MaxEpoch
    /\ sessions' = [sessions EXCEPT ![c] = s]

-----------------------------------------------------------------------------
(* Operations of the table. *)

ConnectNew(c, station) ==
    /\ ~Tracked(c)
    /\ Cardinality({d \in Clients : Tracked(d)}) < MaxSessions
    /\ Store(c, NewSession(station))
    /\ UNCHANGED <<now, expiry_deadlines, sent, admitted_now>>

\* connect_existing.  A return changes the station without a new route epoch.
ConnectExisting(c, station) ==
    /\ Tracked(c)
    /\ Store(c, IF IsConnected(c) THEN Routed(sessions[c], station)
                ELSE [Returned(sessions[c]) EXCEPT !.station_id = station])
    /\ UNCHANGED <<now, expiry_deadlines, sent, admitted_now>>

\* reconnect: only with the session's generation, and to its station.
Reconnect(c, generation) ==
    /\ IsDisconnected(c)
    /\ sessions[c].generation = generation
    /\ Store(c, Returned(sessions[c]))
    /\ UNCHANGED <<now, expiry_deadlines, sent, admitted_now>>

\* Mutated: the heap is rebuilt from the table as it was before the call.
CompactedBefore(deadlines, table) ==
    IF HeapSize(deadlines) <= MaxHeap
    THEN deadlines
    ELSE [e \in Clients \X Ticks |-> IF Tracked(e[1]) /\ sessions[e[1]].since = e[2] THEN 1 ELSE 0]

\* compact_expiry_deadlines_if_needed.
Compacted(deadlines, table) ==
    IF HeapSize(deadlines) <= MaxHeap
    THEN deadlines
    ELSE [e \in Clients \X Ticks |->
             IF table[e[1]] # NoSession /\ table[e[1]].since = e[2] THEN 1 ELSE 0]

\* disconnect, of a session that is disconnected already as well.
Disconnect(c) ==
    /\ Tracked(c)
    /\ sessions' = [sessions EXCEPT ![c].since = now]
    /\ expiry_deadlines' =
          Compacted([expiry_deadlines EXCEPT ![<<c, now>>] = @ + 1], sessions')
    /\ UNCHANGED <<now, sent, admitted_now>>

\* Mutated: an entry is due one tick later than it says.
DueLate(e) == expiry_deadlines[e] > 0 /\ e[2] + Grace + 1 < now

\* expiry_deadline: an entry in the heap whose tick has come.
Due(e) == expiry_deadlines[e] > 0 /\ e[2] + Grace + 1 <= now

\* Mutated: a popped entry removes the client's session, whatever became of it.
ExpiresStale(c, e) == Due(e) /\ e[1] = c /\ IsDisconnected(c)

\* The popped entry e is the one of client c's session.
Expires(c, e) ==
    /\ Due(e)
    /\ e[1] = c /\ IsDisconnected(c) /\ sessions[c].since = e[2]
    /\ PastGrace(sessions[c])

\* expire_disconnected: pops every entry that is due.
ExpireDisconnected ==
    /\ \E e \in DOMAIN expiry_deadlines : Due(e)
    /\ expiry_deadlines' =
          [e \in DOMAIN expiry_deadlines |-> IF Due(e) THEN 0 ELSE expiry_deadlines[e]]
    /\ sessions' =
          [c \in Clients |->
              IF \E e \in DOMAIN expiry_deadlines : Expires(c, e) THEN NoSession
              ELSE sessions[c]]
    /\ UNCHANGED <<now, sent, admitted_now>>

\* reroute.
Reroute(c, station) ==
    /\ IsConnected(c)
    /\ Store(c, Routed(sessions[c], station))
    /\ UNCHANGED <<now, expiry_deadlines, sent, admitted_now>>

\* admit_sequence of a command the client sent under the given generation:
\* neither ReplayOrStale nor, unless the count is at its limit, RateLimited.
AdmitCommand(c, generation, sequence) ==
    /\ sequence <= sent[c][generation]
    /\ IsConnected(c)
    /\ sequence > sessions[c].last_sequence
    /\ LET s == Counted(sessions[c])
       IN IF s.commands_this_tick + 1 > MaxCommands
          THEN Store(c, s) /\ UNCHANGED admitted_now
          ELSE /\ Store(c, [s EXCEPT !.commands_this_tick = @ + 1,
                                     !.last_sequence = sequence])
               /\ admitted_now' = [admitted_now EXCEPT ![c] = @ + 1]
    /\ UNCHANGED <<now, expiry_deadlines, sent>>

\* The client of a connected session sends its next command.
SendCommand(c) ==
    /\ IsConnected(c)
    /\ LET g == sessions[c].generation
       IN /\ sent[c][g] < MaxSequence
          /\ sent' = [sent EXCEPT ![c][g] = @ + 1]
    /\ UNCHANGED <<now, sessions, expiry_deadlines, admitted_now>>

Tick ==
    /\ now < MaxTick
    /\ now' = now + 1
    /\ admitted_now' = [c \in Clients |-> 0]
    /\ UNCHANGED <<sessions, expiry_deadlines, sent>>

Next ==
    \/ \E c \in Clients :
          \/ \E station \in Stations :
                \/ ConnectNew(c, station)
                \/ ConnectExisting(c, station)
                \/ Reroute(c, station)
          \/ \E g \in Generations : Reconnect(c, g)
          \/ Disconnect(c)
          \/ \E g \in Generations, s \in Sequences : AdmitCommand(c, g, s)
          \/ SendCommand(c)
    \/ ExpireDisconnected
    \/ Tick

Spec == Init /\ [][Next]_vars

\* Ticks go on and the owner of the table calls expire_disconnected.
FairSpec == Spec /\ WF_vars(Tick) /\ WF_vars(ExpireDisconnected)

-----------------------------------------------------------------------------
(* Properties. *)

\* Whatever reconnects and compactions came before, a disconnected session has
\* its own deadline in the heap: none is kept for ever.  The heap stays in
\* proportion to the table (TypeOK), and max_commands_per_tick holds for the
\* client, through returns, expiries and new sessions within the tick.
DisconnectedTracked ==
    /\ TypeOK
    /\ \A c \in Clients :
          /\ IsDisconnected(c) => expiry_deadlines[<<c, sessions[c].since>>] > 0
          /\ admitted_now[c] <= MaxCommands

\* A session is removed only after its whole grace: not for the deadline of an
\* earlier disconnect, and not at the grace boundary.  While it is kept with its
\* generation, through returns and reroutes, its last sequence does not go back,
\* so the replay check of a generation is never weakened.
SessionsKept ==
    [][\A c \in Clients :
          Tracked(c) =>
             IF ~Tracked(c)' THEN IsDisconnected(c) /\ PastGrace(sessions[c])
             ELSE sessions'[c].generation = sessions[c].generation
                     => sessions'[c].last_sequence >= sessions[c].last_sequence]_vars

\* A session left alone after disconnecting, with time to run out of grace, does
\* not stay disconnected since then for ever.
DisconnectedSettles ==
    \A c \in Clients, t \in {x \in Ticks : x + Grace < MaxTick} :
        Tracked(c) /\ sessions[c].since = t ~> ~(Tracked(c) /\ sessions[c].since = t)
=============================================================================
