---------------------------- MODULE Clients_proofs ----------------------------
(***************************************************************************)
(* What a server keeps for each of its clients.                            *)
(*                                                                         *)
(* A gateway keeps every session for its whole grace and none for ever,    *)
(* its heap of deadlines in proportion to the table, and its limit on      *)
(* commands: for every number of clients and stations and every limit.     *)
(*                                                                         *)
(* Replication shows a client what was planned for it and nothing else, no *)
(* sooner than its cadence allows and within the limit of the tracker: for *)
(* all entities, viewers, budgets and policies, however the world changes  *)
(* between a plan and its frame.                                           *)
(*                                                                         *)
(* Planned in parallel, with slots and caches kept from call to call, each *)
(* viewer gets the plan it would get by itself: for every number of lanes, *)
(* stations and batches and every limit of the cache.                      *)
(***************************************************************************)
EXTENDS GatewaySessions, Replication, BatchPlanning, Ordered_proofs

-----------------------------------------------------------------------------
(* Sessions. *)

\* The types of the table, its heap and what the clients sent.
SessionTypes ==
    /\ now \in Ticks
    /\ sessions \in [Clients -> Session \cup {NoSession}]
    /\ expiry_deadlines \in [Clients \X Ticks -> Nat]
    /\ sent \in [Clients -> [Generations -> 0 .. MaxSequence]]
    /\ admitted_now \in [Clients -> Nat]

\* The table is within its limit, and so is its heap.
SessionsBounded == Cardinality({c \in Clients : Tracked(c)}) <= MaxSessions

HeapBounded == HeapSize(expiry_deadlines) <= MaxHeap

\* A disconnected session has its own deadline in the heap.
DeadlineKept ==
    \A c \in Clients :
        IsDisconnected(c) => expiry_deadlines[<<c, sessions[c].since>>] > 0

\* The commands a session has counted in the current tick.
CountedNow(c) ==
    IF Tracked(c) /\ sessions[c].command_tick = now
    THEN sessions[c].commands_this_tick ELSE 0

\* The session has counted every command admitted from its client in this
\* tick.  A client whose session can have run out of its grace has none: its
\* session was disconnected before the tick began.
AdmittedCounted ==
    \A c \in Clients :
        /\ admitted_now[c] <= CountedNow(c)
        /\ IsDisconnected(c) /\ sessions[c].since < now => admitted_now[c] = 0

SessionInv ==
    SessionTypes /\ SessionsBounded /\ HeapBounded /\ DeadlineKept /\ AdmittedCounted

\* The bounds of the table and what the assumptions say of them.
LEMMA Bounds ==
    /\ MaxSessions \in Nat /\ Grace \in Nat /\ MaxCommands \in Nat /\ MaxTick \in Nat
    /\ MaxSequence \in Nat /\ MaxConnections \in Nat /\ MaxEpoch \in Nat
    /\ MaxConnections >= 1 /\ MaxEpoch >= 1
    /\ MaxHeap \in Nat /\ MaxSessions <= MaxHeap
    /\ Connected \notin Ticks /\ NoSession \notin Session
    /\ IsFiniteSet(Clients)
BY GatewayAssumption DEF MaxHeap

-----------------------------------------------------------------------------
(* The heap. *)

\* The entries of the heap, each with its number among those that are equal.
Entries(deadlines) == UNION {{e} \X (1 .. deadlines[e]) : e \in Clients \X Ticks}

\* The heap is finite.
LEMMA HeapFinite ==
    ASSUME NEW deadlines \in [Clients \X Ticks -> Nat]
    PROVE  IsFiniteSet(Entries(deadlines))
<1> DEFINE Group == [e \in Clients \X Ticks |-> {e} \X (1 .. deadlines[e])]
           Groups == {{e} \X (1 .. deadlines[e]) : e \in Clients \X Ticks}
<1>1. IsFiniteSet(Clients \X Ticks)
  <2>1. IsFiniteSet(Ticks)
    BY Bounds, FS_Interval DEF Ticks
  <2> QED
    BY <2>1, Bounds, FS_Product
<1>2. Group \in Surjection(Clients \X Ticks, Groups)
  BY DEF Surjection
<1>3. IsFiniteSet(Groups)
  BY <1>1, <1>2, FS_Surjection
<1>4. \A G \in Groups : IsFiniteSet(G)
  <2> SUFFICES ASSUME NEW e \in Clients \X Ticks
               PROVE  IsFiniteSet({e} \X (1 .. deadlines[e]))
    OBVIOUS
  <2>1. IsFiniteSet({e})
    BY FS_Singleton
  <2>2. IsFiniteSet(1 .. deadlines[e])
    BY FS_Interval
  <2> QED
    BY <2>1, <2>2, FS_Product
<1> QED
  BY <1>3, <1>4, FS_UNION DEF Entries

\* Popping entries does not make the heap larger.
LEMMA HeapShrinks ==
    ASSUME NEW more \in [Clients \X Ticks -> Nat], NEW fewer \in [Clients \X Ticks -> Nat],
           \A e \in Clients \X Ticks : fewer[e] <= more[e]
    PROVE  HeapSize(fewer) <= HeapSize(more)
<1>1. Entries(fewer) \subseteq Entries(more)
  <2> SUFFICES ASSUME NEW e \in Clients \X Ticks, NEW n \in {e} \X (1 .. fewer[e])
               PROVE  n \in {e} \X (1 .. more[e])
    BY DEF Entries
  <2> QED
    OBVIOUS
<1> QED
  BY <1>1, HeapFinite, FS_Subset DEF HeapSize, Entries

\* The table rebuilds the heap with at most one entry for each session.
LEMMA RebuiltBounded ==
    ASSUME NEW table \in [Clients -> Session \cup {NoSession}],
           NEW rebuilt \in [Clients \X Ticks -> Nat],
           \A e \in Clients \X Ticks :
              /\ rebuilt[e] <= 1
              /\ rebuilt[e] > 0 => table[e[1]] # NoSession /\ table[e[1]].since = e[2]
    PROVE  HeapSize(rebuilt) <= Cardinality({c \in Clients : table[c] # NoSession})
<1> DEFINE Kept == {c \in Clients : table[c] # NoSession}
           Owner == [n \in Entries(rebuilt) |-> n[1][1]]
<1>1. IsFiniteSet(Kept)
  BY Bounds, FS_Subset
<1>2. \A n \in Entries(rebuilt) :
        /\ n = <<n[1], 1>> /\ n[1] = <<n[1][1], n[1][2]>>
        /\ n[1][1] \in Kept /\ table[n[1][1]].since = n[1][2]
  <2> SUFFICES ASSUME NEW e \in Clients \X Ticks, NEW n \in {e} \X (1 .. rebuilt[e])
               PROVE  /\ n = <<n[1], 1>> /\ n[1] = <<n[1][1], n[1][2]>>
                      /\ n[1][1] \in Kept /\ table[n[1][1]].since = n[1][2]
    BY DEF Entries
  <2>1. rebuilt[e] \in Nat /\ rebuilt[e] <= 1 /\ rebuilt[e] > 0
    OBVIOUS
  <2>2. n[1] = e /\ n[2] = 1
    BY <2>1
  <2> QED
    BY <2>1, <2>2
<1>3. Owner \in Injection(Entries(rebuilt), Kept)
  <2>1. Owner \in [Entries(rebuilt) -> Kept]
    BY <1>2
  <2>2. \A m, n \in Entries(rebuilt) : Owner[m] = Owner[n] => m = n
    BY <1>2
  <2> QED
    BY <2>1, <2>2 DEF Injection, IsInjective
<1>4. Cardinality(Entries(rebuilt)) <= Cardinality(Kept)
  BY <1>1, <1>3, FS_Injection
<1> QED
  BY <1>4 DEF HeapSize, Entries

-----------------------------------------------------------------------------
(* Sessions. *)

\* A fresh session is well formed.
LEMMA NewSessionTypes ==
    ASSUME SessionTypes, NEW station \in Stations
    PROVE  NewSession(station) \in Session
BY Bounds DEF SessionTypes, NewSession, Session, Generations

\* A session that returns is connected, keeps what it has counted in this tick
\* unless it starts anew, and its sequence unless its generation is new.
LEMMA ReturnedSession ==
    ASSUME SessionTypes, NEW s \in Session, s.since # Connected,
           Returned(s).generation <= MaxConnections, Returned(s).route_epoch <= MaxEpoch
    PROVE  /\ Returned(s) \in Session
           /\ Returned(s).since = Connected
           /\ ~PastGrace(s) => /\ Returned(s).command_tick = s.command_tick
                               /\ Returned(s).commands_this_tick = s.commands_this_tick
           /\ Returned(s).generation = s.generation
                => Returned(s).last_sequence = s.last_sequence
<1> USE Bounds DEF SessionTypes, Session, Generations
<1>1. CASE PastGrace(s)
  <2>1. Returned(s) = Replaced(s)
    BY <1>1 DEF Returned
  <2>2. /\ s.station_id \in Stations /\ s.generation \in Nat /\ s.route_epoch \in Nat
        /\ s.generation >= 1 /\ s.route_epoch >= 1
    OBVIOUS
  <2> DEFINE r == Replaced(s)
  <2>3. /\ r.generation = s.generation + 1 /\ r.route_epoch = s.route_epoch + 1
        /\ r.since = Connected
    BY DEF Replaced
  <2>4. r.generation <= MaxConnections /\ r.route_epoch <= MaxEpoch
    BY <2>1
  <2>5. r \in Session
    <3>1. /\ s.generation + 1 \in 1 .. MaxConnections /\ s.route_epoch + 1 \in 1 .. MaxEpoch
          /\ 0 \in 0 .. MaxSequence /\ 0 \in 0 .. MaxCommands /\ now \in Ticks
      BY <2>2, <2>3, <2>4
    <3> QED
      BY <3>1 DEF Replaced
  <2>6. r.generation # s.generation
    BY <2>2, <2>3
  <2> QED
    BY <1>1, <2>1, <2>3, <2>5, <2>6
<1>2. CASE ~PastGrace(s)
  <2>1. Returned(s) = Resumed(s)
    BY <1>2 DEF Returned
  <2> QED
    BY <1>2, <2>1 DEF Resumed
<1> QED
  BY <1>1, <1>2

\* So is a connected session that is rerouted, which keeps all it has counted.
LEMMA RoutedSession ==
    ASSUME NEW s \in Session, NEW station \in Stations,
           Routed(s, station).route_epoch <= MaxEpoch
    PROVE  /\ Routed(s, station) \in Session
           /\ Routed(s, station).since = s.since
           /\ Routed(s, station).command_tick = s.command_tick
           /\ Routed(s, station).commands_this_tick = s.commands_this_tick
           /\ Routed(s, station).last_sequence = s.last_sequence
<1>1. CASE s.station_id = station
  BY <1>1 DEF Routed
<1>2. CASE s.station_id # station
  <2>1. Routed(s, station) = [s EXCEPT !.station_id = station, !.route_epoch = @ + 1]
    BY <1>2 DEF Routed
  <2>2. s.route_epoch + 1 \in 1 .. MaxEpoch
    BY <2>1, Bounds DEF Session
  <2> QED
    BY <2>1, <2>2 DEF Session
<1> QED
  BY <1>1, <1>2

\* A session disconnected before the tick began is one whose grace may be over.
LEMMA GracePast ==
    ASSUME SessionTypes, NEW s \in Session, s.since # Connected, PastGrace(s)
    PROVE  s.since < now
BY Bounds DEF SessionTypes, Session, PastGrace, Ticks

\* Whatever a call makes of one session that stays connected or becomes so, the
\* invariant holds if the session is well formed, the table has room for it and
\* it has counted the commands of the tick.
LEMMA StoreKeeps ==
    ASSUME SessionInv, NEW c \in Clients, NEW s \in Session,
           Tracked(c) \/ Cardinality({d \in Clients : Tracked(d)}) < MaxSessions,
           s.since = Connected,
           sessions' = [sessions EXCEPT ![c] = s],
           admitted_now' \in [Clients -> Nat],
           \A d \in Clients \ {c} : admitted_now'[d] = admitted_now[d],
           admitted_now'[c] <= (IF s.command_tick = now THEN s.commands_this_tick ELSE 0),
           sent' \in [Clients -> [Generations -> 0 .. MaxSequence]],
           UNCHANGED <<now, expiry_deadlines>>
    PROVE  SessionInv'
<1> USE Bounds DEF SessionInv, Tracked, IsDisconnected
<1>1. SessionTypes'
  BY DEF SessionTypes
<1>2. /\ sessions'[c] = s /\ s # NoSession
      /\ \A d \in Clients \ {c} : sessions'[d] = sessions[d]
  BY DEF SessionTypes
<1>3. SessionsBounded'
  <2> DEFINE Kept == {d \in Clients : sessions[d] # NoSession}
  <2>1. {d \in Clients : sessions'[d] # NoSession} = Kept \cup {c}
    BY <1>2
  <2>2. IsFiniteSet(Kept) /\ Cardinality(Kept) \in Nat
    BY FS_Subset, FS_CardinalityType
  <2>3. Cardinality(Kept \cup {c}) = IF c \in Kept THEN Cardinality(Kept)
                                     ELSE Cardinality(Kept) + 1
    BY <2>2, FS_AddElement
  <2>4. Cardinality(Kept) <= MaxSessions
    BY DEF SessionsBounded
  <2>5. c \in Kept \/ Cardinality(Kept) < MaxSessions
    OBVIOUS
  <2>6. Cardinality(Kept \cup {c}) <= MaxSessions
    BY <2>2, <2>3, <2>4, <2>5
  <2> QED
    BY <2>1, <2>6 DEF SessionsBounded
<1>4. HeapBounded'
  BY DEF HeapBounded, HeapSize
<1>5. DeadlineKept'
  BY <1>2 DEF DeadlineKept
<1>6. AdmittedCounted'
  <2> SUFFICES ASSUME NEW d \in Clients
               PROVE  /\ admitted_now'[d] <= CountedNow(d)'
                      /\ IsDisconnected(d)' /\ sessions'[d].since < now'
                            => admitted_now'[d] = 0
    BY DEF AdmittedCounted
  <2>1. CASE d = c
    BY <1>2, <2>1 DEF CountedNow
  <2>2. CASE d # c
    BY <1>2, <2>2 DEF CountedNow, AdmittedCounted
  <2> QED
    BY <2>1, <2>2
<1> QED
  BY <1>1, <1>3, <1>4, <1>5, <1>6

-----------------------------------------------------------------------------
(* Steps. *)

\* A client that is not tracked gets a session that has counted nothing.
LEMMA ConnectNewKeeps ==
    ASSUME SessionInv, NEW c \in Clients, NEW station \in Stations, ConnectNew(c, station)
    PROVE  SessionInv'
<1> DEFINE s == NewSession(station)
<1>1. s \in Session /\ s.since = Connected
  BY NewSessionTypes DEF SessionInv, NewSession
<1>2. admitted_now[c] = 0
  BY DEF SessionInv, SessionTypes, AdmittedCounted, CountedNow, ConnectNew
<1>3. admitted_now'[c] <= (IF s.command_tick = now THEN s.commands_this_tick ELSE 0)
  BY <1>2 DEF ConnectNew, NewSession
<1> QED
  BY <1>1, <1>3, StoreKeeps DEF ConnectNew, Store, SessionInv, SessionTypes

\* A session that comes back within the tick of its disconnect keeps its count;
\* one that starts anew had no command admitted in this tick.
LEMMA ReturnKeeps ==
    ASSUME SessionInv, NEW c \in Clients, IsDisconnected(c), NEW s,
           Store(c, s),
           s = Returned(sessions[c])
           \/ \E station \in Stations :
                 s = [Returned(sessions[c]) EXCEPT !.station_id = station],
           UNCHANGED <<now, expiry_deadlines, sent, admitted_now>>
    PROVE  /\ SessionInv' /\ s \in Session
           /\ s.generation = sessions[c].generation
                => s.last_sequence = sessions[c].last_sequence
<1> DEFINE old == sessions[c]
           r == Returned(old)
<1>1. old \in Session /\ old.since # Connected /\ Tracked(c)
  BY DEF SessionInv, SessionTypes, IsDisconnected, Tracked
<1>2. r.generation <= MaxConnections /\ r.route_epoch <= MaxEpoch
  <2>1. /\ s.generation = r.generation /\ s.route_epoch = r.route_epoch
    BY <1>1 DEF Returned, Replaced, Resumed, Session
  <2> QED
    BY <2>1 DEF Store
<1>3. /\ r \in Session /\ r.since = Connected
      /\ ~PastGrace(old) => /\ r.command_tick = old.command_tick
                            /\ r.commands_this_tick = old.commands_this_tick
      /\ r.generation = old.generation => r.last_sequence = old.last_sequence
  BY <1>1, <1>2, ReturnedSession DEF SessionInv
<1> HIDE DEF r
<1>4. /\ s \in Session /\ s.since = Connected
      /\ s.command_tick = r.command_tick /\ s.commands_this_tick = r.commands_this_tick
      /\ s.generation = r.generation /\ s.last_sequence = r.last_sequence
  BY <1>3 DEF Session, r
<1>5. admitted_now[c] <= (IF s.command_tick = now THEN s.commands_this_tick ELSE 0)
  <2>1. CASE PastGrace(old)
    <3>1. admitted_now[c] = 0
      BY <1>1, <2>1, GracePast DEF SessionInv, AdmittedCounted, IsDisconnected
    <3> QED
      BY <1>4, <3>1, Bounds DEF Session
  <2>2. CASE ~PastGrace(old)
    BY <1>1, <1>3, <1>4, <2>2 DEF SessionInv, AdmittedCounted, CountedNow
  <2> QED
    BY <2>1, <2>2
<1>6. SessionInv'
  BY <1>1, <1>4, <1>5, StoreKeeps DEF Store, SessionInv, SessionTypes
<1> QED
  BY <1>3, <1>4, <1>6

\* A connected session that is rerouted.
LEMMA RouteKeeps ==
    ASSUME SessionInv, NEW c \in Clients, NEW station \in Stations, IsConnected(c),
           Store(c, Routed(sessions[c], station)),
           UNCHANGED <<now, expiry_deadlines, sent, admitted_now>>
    PROVE  /\ SessionInv'
           /\ Routed(sessions[c], station).last_sequence = sessions[c].last_sequence
<1> DEFINE old == sessions[c]
           s == Routed(old, station)
<1>1. old \in Session /\ old.since = Connected /\ Tracked(c)
  BY DEF SessionInv, SessionTypes, IsConnected, Tracked
<1>2. /\ s \in Session /\ s.since = Connected
      /\ s.command_tick = old.command_tick
      /\ s.commands_this_tick = old.commands_this_tick
      /\ s.last_sequence = old.last_sequence
  BY <1>1, RoutedSession DEF Store
<1>3. admitted_now[c] <= (IF s.command_tick = now THEN s.commands_this_tick ELSE 0)
  BY <1>1, <1>2 DEF SessionInv, AdmittedCounted, CountedNow
<1> HIDE DEF s
<1>4. SessionInv'
  BY <1>1, <1>2, <1>3, StoreKeeps DEF Store, SessionInv, SessionTypes, s
<1> QED
  BY <1>2, <1>4 DEF s

\* A command admitted is counted in the session's tick, and a count at its limit
\* admits none.
LEMMA AdmitKeeps ==
    ASSUME SessionInv, NEW c \in Clients, NEW g \in Generations, NEW n \in Sequences,
           AdmitCommand(c, g, n)
    PROVE  /\ SessionInv' /\ sessions'[c] # NoSession
           /\ sessions'[c].last_sequence >= sessions[c].last_sequence
<1> DEFINE old == sessions[c]
           s == Counted(old)
           t == [s EXCEPT !.commands_this_tick = @ + 1, !.last_sequence = n]
<1>1. /\ old \in Session /\ old.since = Connected /\ Tracked(c)
      /\ sessions \in [Clients -> Session \cup {NoSession}]
      /\ now \in Ticks /\ admitted_now \in [Clients -> Nat] /\ n > old.last_sequence
  BY DEF SessionInv, SessionTypes, IsConnected, Tracked, AdmitCommand
<1>2. /\ s \in Session /\ s.since = Connected /\ s.command_tick = now
      /\ s.last_sequence = old.last_sequence
      /\ admitted_now[c] <= s.commands_this_tick
  <2>1. admitted_now[c] <= (IF old.command_tick = now THEN old.commands_this_tick ELSE 0)
    BY <1>1 DEF SessionInv, AdmittedCounted, CountedNow
  <2> HIDE DEF old
  <2>2. CASE old.command_tick = now
    BY <1>1, <2>1, <2>2 DEF Counted
  <2>3. CASE old.command_tick # now
    <3>1. s = [old EXCEPT !.command_tick = now, !.commands_this_tick = 0]
      BY <2>3 DEF Counted
    <3>2. 0 \in 0 .. MaxCommands
      BY Bounds
    <3> QED
      BY <1>1, <2>1, <2>3, <3>1, <3>2 DEF Session
  <2> QED
    BY <2>2, <2>3
<1>3. UNCHANGED <<now, expiry_deadlines, sent>>
  BY DEF AdmitCommand
<1>4. CASE s.commands_this_tick + 1 > MaxCommands
  <2>1. Store(c, s) /\ admitted_now' = admitted_now
    BY <1>4 DEF AdmitCommand
  <2>2. admitted_now'[c] <= (IF s.command_tick = now THEN s.commands_this_tick ELSE 0)
    BY <1>2, <2>1
  <2> HIDE DEF s
  <2>3. SessionInv'
    BY <1>1, <1>2, <1>3, <2>1, <2>2, StoreKeeps DEF Store, SessionInv, SessionTypes
  <2> QED
    BY <1>1, <1>2, <2>1, <2>3, Bounds DEF Store, Session
<1>5. CASE ~(s.commands_this_tick + 1 > MaxCommands)
  <2>1. Store(c, t) /\ admitted_now' = [admitted_now EXCEPT ![c] = @ + 1]
    BY <1>5 DEF AdmitCommand
  <2> HIDE DEF s
  <2>2. /\ t \in Session /\ t.since = Connected /\ t.command_tick = now
        /\ t.last_sequence = n /\ t.commands_this_tick = s.commands_this_tick + 1
    <3>1. s.commands_this_tick + 1 \in 0 .. MaxCommands /\ n \in 0 .. MaxSequence
      BY <1>2, <1>5, Bounds DEF Session, Sequences
    <3> QED
      BY <1>2, <3>1 DEF Session
  <2>3. admitted_now'[c] <= (IF t.command_tick = now THEN t.commands_this_tick ELSE 0)
    BY <1>1, <1>2, <2>1, <2>2, Bounds DEF Session
  <2> HIDE DEF t
  <2>4. admitted_now' \in [Clients -> Nat] /\ \A d \in Clients \ {c} : admitted_now'[d] = admitted_now[d]
    BY <1>1, <2>1
  <2>5. SessionInv'
    BY <1>1, <1>3, <2>1, <2>2, <2>3, <2>4, StoreKeeps DEF Store, SessionInv, SessionTypes
  <2> QED
    BY <1>1, <2>1, <2>2, <2>5, Bounds DEF Store, Session, Sequences
<1> QED
  BY <1>4, <1>5

\* The disconnected session gets its deadline, be it pushed on the heap or put
\* there as the heap is rebuilt.
LEMMA DisconnectKeeps ==
    ASSUME SessionInv, NEW c \in Clients, Disconnect(c)
    PROVE  SessionInv' /\ sessions'[c].last_sequence = sessions[c].last_sequence
<1> DEFINE pushed == [expiry_deadlines EXCEPT ![<<c, now>>] = @ + 1]
<1> USE Bounds DEF SessionInv, Tracked, IsDisconnected
<1>1. /\ sessions \in [Clients -> Session \cup {NoSession}] /\ sessions[c] \in Session
      /\ now \in Ticks /\ expiry_deadlines \in [Clients \X Ticks -> Nat]
      /\ sessions' = [sessions EXCEPT ![c].since = now]
      /\ expiry_deadlines' = Compacted(pushed, sessions')
      /\ UNCHANGED <<now, sent, admitted_now>>
  BY DEF Disconnect, SessionTypes
<1>2. /\ sessions'[c] \in Session /\ sessions'[c].since = now
      /\ sessions'[c].command_tick = sessions[c].command_tick
      /\ sessions'[c].commands_this_tick = sessions[c].commands_this_tick
      /\ sessions'[c].last_sequence = sessions[c].last_sequence
      /\ \A d \in Clients \ {c} : sessions'[d] = sessions[d]
      /\ sessions' \in [Clients -> Session \cup {NoSession}]
  BY <1>1 DEF Session
<1>3. /\ pushed \in [Clients \X Ticks -> Nat] /\ pushed[<<c, now>>] > 0
      /\ \A e \in Clients \X Ticks : pushed[e] >= expiry_deadlines[e]
  BY <1>1
<1> HIDE DEF pushed
<1>4. SessionsBounded'
  <2>1. {d \in Clients : sessions'[d] # NoSession} = {d \in Clients : sessions[d] # NoSession}
    BY <1>1, <1>2
  <2> QED
    BY <2>1 DEF SessionsBounded
<1>5. /\ expiry_deadlines' \in [Clients \X Ticks -> Nat]
      /\ HeapBounded'
      /\ DeadlineKept'
  <2>1. CASE HeapSize(pushed) <= MaxHeap
    <3>1. expiry_deadlines' = pushed
      BY <1>1, <2>1 DEF Compacted
    <3>2. DeadlineKept'
      <4> SUFFICES ASSUME NEW d \in Clients, IsDisconnected(d)'
                   PROVE  pushed[<<d, sessions'[d].since>>] > 0
        BY <3>1 DEF DeadlineKept
      <4>1. CASE d = c
        BY <1>2, <1>3, <4>1
      <4>2. CASE d # c
        <5>1. /\ sessions'[d] = sessions[d] /\ IsDisconnected(d)
              /\ sessions[d].since \in Ticks
          BY <1>1, <1>2, <4>2 DEF Session
        <5>2. expiry_deadlines[<<d, sessions[d].since>>] > 0
          BY <5>1 DEF DeadlineKept
        <5> DEFINE e == <<d, sessions[d].since>>
        <5>3. e \in Clients \X Ticks
          BY <5>1
        <5>4. expiry_deadlines[e] > 0
          BY <5>2
        <5> HIDE DEF e
        <5>5. /\ expiry_deadlines[e] \in Nat /\ pushed[e] \in Nat
              /\ pushed[e] >= expiry_deadlines[e]
          BY <1>1, <1>3, <5>3, Zenon
        <5>6. pushed[e] > 0
          BY <5>4, <5>5
        <5> QED
          BY <5>1, <5>6 DEF e
      <4> QED
        BY <4>1, <4>2
    <3> QED
      BY <1>3, <2>1, <3>1, <3>2 DEF HeapBounded
  <2>2. CASE ~(HeapSize(pushed) <= MaxHeap)
    <3>1. expiry_deadlines' =
             [e \in Clients \X Ticks |->
                 IF sessions'[e[1]] # NoSession /\ sessions'[e[1]].since = e[2] THEN 1 ELSE 0]
      BY <1>1, <2>2 DEF Compacted
    <3>2. /\ expiry_deadlines' \in [Clients \X Ticks -> Nat]
          /\ \A e \in Clients \X Ticks :
                /\ expiry_deadlines'[e] <= 1
                /\ expiry_deadlines'[e] > 0
                      => sessions'[e[1]] # NoSession /\ sessions'[e[1]].since = e[2]
      BY <3>1
    <3>3. HeapSize(expiry_deadlines') <= Cardinality({d \in Clients : sessions'[d] # NoSession})
      BY <1>2, <3>2, RebuiltBounded
    <3>4. IsFiniteSet({d \in Clients : sessions'[d] # NoSession})
      BY FS_Subset
    <3>5. HeapBounded'
      <4>1. Cardinality({d \in Clients : sessions'[d] # NoSession}) <= MaxSessions
        BY <1>4 DEF SessionsBounded
      <4>2. HeapSize(expiry_deadlines') \in Nat
        BY <3>2, HeapFinite, FS_CardinalityType DEF HeapSize, Entries
      <4> QED
        BY <3>3, <3>4, <4>1, <4>2, FS_CardinalityType DEF HeapBounded
    <3>6. DeadlineKept'
      <4> SUFFICES ASSUME NEW d \in Clients, IsDisconnected(d)'
                   PROVE  expiry_deadlines'[<<d, sessions'[d].since>>] > 0
        BY DEF DeadlineKept
      <4>1. sessions'[d].since \in Ticks
        BY <1>2 DEF Session
      <4> QED
        BY <3>1, <4>1
    <3> QED
      BY <3>2, <3>5, <3>6
  <2> QED
    BY <2>1, <2>2
<1>6. SessionTypes'
  BY <1>1, <1>2, <1>5 DEF SessionTypes
<1>7. AdmittedCounted'
  <2> SUFFICES ASSUME NEW d \in Clients
               PROVE  /\ admitted_now'[d] <= CountedNow(d)'
                      /\ IsDisconnected(d)' /\ sessions'[d].since < now'
                            => admitted_now'[d] = 0
    BY DEF AdmittedCounted
  <2>1. CASE d = c
    BY <1>1, <1>2, <2>1 DEF CountedNow, AdmittedCounted, Ticks
  <2>2. CASE d # c
    BY <1>1, <1>2, <2>2 DEF CountedNow, AdmittedCounted
  <2> QED
    BY <2>1, <2>2
<1> QED
  BY <1>2, <1>4, <1>5, <1>6, <1>7

\* What is left of the table and the heap after the deadlines that are due: a
\* session that stays disconnected has a deadline that is not.
LEMMA ExpireKeeps ==
    ASSUME SessionInv, ExpireDisconnected
    PROVE  /\ SessionInv'
           /\ \A c \in Clients :
                 \/ sessions'[c] = sessions[c]
                 \/ ~Tracked(c)' /\ IsDisconnected(c) /\ PastGrace(sessions[c])
<1> USE Bounds DEF SessionInv, Tracked, IsDisconnected
<1>1. /\ sessions \in [Clients -> Session \cup {NoSession}]
      /\ now \in Ticks /\ expiry_deadlines \in [Clients \X Ticks -> Nat]
      /\ expiry_deadlines' =
            [e \in Clients \X Ticks |-> IF Due(e) THEN 0 ELSE expiry_deadlines[e]]
      /\ sessions' =
            [c \in Clients |->
                IF \E e \in Clients \X Ticks : Expires(c, e) THEN NoSession ELSE sessions[c]]
      /\ UNCHANGED <<now, sent, admitted_now>>
  BY DEF ExpireDisconnected, SessionTypes
<1>2. /\ sessions' \in [Clients -> Session \cup {NoSession}]
      /\ \A c \in Clients :
            \/ sessions'[c] = sessions[c]
            \/ sessions'[c] = NoSession /\ \E e \in Clients \X Ticks : Expires(c, e)
  BY <1>1
<1>3. \A c \in Clients :
        \/ sessions'[c] = sessions[c]
        \/ ~Tracked(c)' /\ IsDisconnected(c) /\ PastGrace(sessions[c])
  BY <1>2 DEF Expires
<1>4. expiry_deadlines' \in [Clients \X Ticks -> Nat]
  BY <1>1
<1>5. SessionTypes'
  BY <1>1, <1>2, <1>4 DEF SessionTypes
<1>6. SessionsBounded'
  <2> DEFINE Old == {c \in Clients : sessions[c] # NoSession}
             New == {c \in Clients : sessions'[c] # NoSession}
  <2>1. New \subseteq Old
    BY <1>2
  <2>2. IsFiniteSet(Old)
    BY FS_Subset
  <2>3. /\ Cardinality(New) <= Cardinality(Old)
        /\ Cardinality(New) \in Nat /\ Cardinality(Old) \in Nat
    BY <2>1, <2>2, FS_Subset, FS_CardinalityType
  <2>4. Cardinality(Old) <= MaxSessions
    BY DEF SessionsBounded
  <2>5. Cardinality(New) <= MaxSessions
    BY <2>3, <2>4
  <2> QED
    BY <2>5 DEF SessionsBounded
<1>7. HeapBounded'
  <2>1. \A e \in Clients \X Ticks : expiry_deadlines'[e] <= expiry_deadlines[e]
    BY <1>1
  <2>2. HeapSize(expiry_deadlines') <= HeapSize(expiry_deadlines)
    BY <1>1, <1>4, <2>1, HeapShrinks
  <2>3. HeapSize(expiry_deadlines') \in Nat /\ HeapSize(expiry_deadlines) \in Nat
    BY <1>1, <1>4, HeapFinite, FS_CardinalityType DEF HeapSize, Entries
  <2> QED
    BY <2>2, <2>3 DEF HeapBounded
<1>8. DeadlineKept'
  <2> SUFFICES ASSUME NEW c \in Clients, IsDisconnected(c)'
               PROVE  expiry_deadlines'[<<c, sessions'[c].since>>] > 0
    BY DEF DeadlineKept
  <2> DEFINE e == <<c, sessions[c].since>>
  <2>1. sessions'[c] = sessions[c] /\ IsDisconnected(c) /\ sessions[c] \in Session
    BY <1>1, <1>2
  <2>2. sessions[c].since \in Ticks /\ e \in Clients \X Ticks
    BY <2>1 DEF Session
  <2>3. expiry_deadlines[e] > 0
    BY <2>1 DEF DeadlineKept
  <2>4. ~Expires(c, e)
    BY <1>1, <2>1, <2>2
  <2>5. ~Due(e)
    BY <1>1, <2>1, <2>2, <2>4 DEF Expires, Due, PastGrace, Ticks
  <2> QED
    BY <1>1, <2>1, <2>2, <2>3, <2>5
<1>9. AdmittedCounted'
  <2> SUFFICES ASSUME NEW c \in Clients
               PROVE  /\ admitted_now'[c] <= CountedNow(c)'
                      /\ IsDisconnected(c)' /\ sessions'[c].since < now'
                            => admitted_now'[c] = 0
    BY DEF AdmittedCounted
  <2>1. CASE sessions'[c] = sessions[c]
    BY <1>1, <2>1 DEF CountedNow, AdmittedCounted
  <2>2. CASE ~Tracked(c)' /\ IsDisconnected(c) /\ PastGrace(sessions[c])
    <3>1. sessions[c].since < now
      BY <1>1, <2>2, GracePast DEF SessionTypes
    <3>2. admitted_now'[c] = 0
      BY <1>1, <2>2, <3>1 DEF AdmittedCounted
    <3> QED
      BY <2>2, <3>2 DEF CountedNow
  <2> QED
    BY <1>3, <2>1, <2>2
<1> QED
  BY <1>3, <1>5, <1>6, <1>7, <1>8, <1>9

\* A client that numbers its next command touches no session.
LEMMA SendKeeps ==
    ASSUME SessionInv, NEW c \in Clients, SendCommand(c)
    PROVE  SessionInv'
<1>1. sent' \in [Clients -> [Generations -> 0 .. MaxSequence]]
  <2> DEFINE g == sessions[c].generation
  <2>1. /\ sent \in [Clients -> [Generations -> 0 .. MaxSequence]]
        /\ sent[c][g] < MaxSequence /\ sent' = [sent EXCEPT ![c][g] = @ + 1]
        /\ sessions[c] \in Session
    BY DEF SessionInv, SessionTypes, SendCommand, IsConnected, Tracked
  <2>2. g \in Generations
    BY <2>1 DEF Session
  <2> HIDE DEF g
  <2>3. sent[c][g] + 1 \in 0 .. MaxSequence
    BY <2>1, <2>2, Bounds
  <2> QED
    BY <2>1, <2>2, <2>3
<1>2. UNCHANGED <<now, sessions, expiry_deadlines, admitted_now>>
  BY DEF SendCommand
<1> QED
  BY <1>1, <1>2 DEF SessionInv, SessionTypes, SessionsBounded, HeapBounded, DeadlineKept,
                    AdmittedCounted, CountedNow, Tracked, IsDisconnected

\* A tick begins with no command admitted in it.
LEMMA TickKeeps ==
    ASSUME SessionInv, Tick
    PROVE  SessionInv'
<1>1. /\ now' \in Ticks /\ UNCHANGED <<sessions, expiry_deadlines, sent>>
      /\ admitted_now' = [c \in Clients |-> 0]
  BY Bounds DEF SessionInv, SessionTypes, Tick, Ticks
<1>2. AdmittedCounted'
  BY <1>1 DEF SessionInv, SessionTypes, AdmittedCounted, CountedNow, Tracked, Session
<1> QED
  BY <1>1, <1>2 DEF SessionInv, SessionTypes, SessionsBounded, HeapBounded, DeadlineKept,
                    Tracked, IsDisconnected

-----------------------------------------------------------------------------
(* Theorems. *)

\* The table begins empty.
LEMMA SessionInit == Init => SessionInv
<1> SUFFICES ASSUME Init PROVE SessionInv
  OBVIOUS
<1> USE Bounds DEF Init
<1>1. SessionTypes
  BY DEF SessionTypes, Ticks
<1>2. SessionsBounded
  <2>1. {c \in Clients : Tracked(c)} = {}
    BY DEF Tracked
  <2>2. Cardinality({c \in Clients : Tracked(c)}) = 0
    BY <2>1, FS_EmptySet
  <2> QED
    BY <2>2 DEF SessionsBounded
<1>3. HeapBounded
  <2>1. Entries(expiry_deadlines) = {}
    BY DEF Entries
  <2>2. HeapSize(expiry_deadlines) = 0
    BY <2>1, FS_EmptySet DEF HeapSize, Entries
  <2> QED
    BY <2>2 DEF HeapBounded
<1>4. DeadlineKept /\ AdmittedCounted
  BY DEF DeadlineKept, AdmittedCounted, CountedNow, IsDisconnected, Tracked
<1> QED
  BY <1>1, <1>2, <1>3, <1>4 DEF SessionInv

\* What a step may make of one client's session.
Kept(c) ==
    Tracked(c) =>
        IF ~Tracked(c)' THEN IsDisconnected(c) /\ PastGrace(sessions[c])
        ELSE sessions'[c].generation = sessions[c].generation
                => sessions'[c].last_sequence >= sessions[c].last_sequence

\* A step that stores a session leaves those of the other clients alone.
LEMMA StoreKept ==
    ASSUME SessionInv, SessionInv', NEW c \in Clients, NEW s,
           sessions' = [sessions EXCEPT ![c] = s], s # NoSession,
           Tracked(c) /\ s.generation = sessions[c].generation
              => s.last_sequence >= sessions[c].last_sequence
    PROVE  \A d \in Clients : Kept(d)
<1> SUFFICES ASSUME NEW d \in Clients, Tracked(d) PROVE Kept(d)
  BY DEF Kept
<1>1. sessions \in [Clients -> Session \cup {NoSession}] /\ sessions[d] \in Session
  BY DEF SessionInv, SessionTypes, Tracked
<1>2. CASE d = c
  BY <1>1, <1>2 DEF Kept, Tracked
<1>3. CASE d # c
  <2>1. sessions'[d] = sessions[d] /\ Tracked(d)'
    BY <1>1, <1>3 DEF Tracked
  <2>2. sessions[d].last_sequence \in Nat
    BY <1>1, Bounds DEF Session
  <2> QED
    BY <2>1, <2>2 DEF Kept
<1> QED
  BY <1>2, <1>3

\* Steps that leave the table alone.
LEMMA SameKept ==
    ASSUME SessionInv, UNCHANGED sessions
    PROVE  \A c \in Clients : Kept(c)
<1> SUFFICES ASSUME NEW c \in Clients, Tracked(c) PROVE Kept(c)
  BY DEF Kept
<1>1. sessions[c].last_sequence \in Nat
  BY Bounds DEF SessionInv, SessionTypes, Tracked, Session
<1> QED
  BY <1>1 DEF Kept, Tracked

\* A session that returns, and one that is rerouted, as steps of the table.
LEMMA ReturnStep ==
    ASSUME SessionInv, NEW c \in Clients, IsDisconnected(c), NEW s,
           Store(c, s),
           s = Returned(sessions[c])
           \/ \E station \in Stations :
                 s = [Returned(sessions[c]) EXCEPT !.station_id = station],
           UNCHANGED <<now, expiry_deadlines, sent, admitted_now>>
    PROVE  SessionInv' /\ \A d \in Clients : Kept(d)
<1>1. /\ SessionInv' /\ s \in Session
      /\ s.generation = sessions[c].generation
           => s.last_sequence = sessions[c].last_sequence
  BY ReturnKeeps
<1>2. sessions[c].last_sequence \in Nat
  BY Bounds DEF SessionInv, SessionTypes, IsDisconnected, Tracked, Session
<1>3. s # NoSession
  BY <1>1, Bounds
<1>4. sessions' = [sessions EXCEPT ![c] = s]
  BY DEF Store
<1>5. s.generation = sessions[c].generation => s.last_sequence >= sessions[c].last_sequence
  BY <1>1, <1>2
<1> QED
  BY <1>1, <1>3, <1>4, <1>5, StoreKept

\* A connected session that is rerouted, as a step of the table.
LEMMA RouteStep ==
    ASSUME SessionInv, NEW c \in Clients, NEW station \in Stations, IsConnected(c),
           Store(c, Routed(sessions[c], station)),
           UNCHANGED <<now, expiry_deadlines, sent, admitted_now>>
    PROVE  SessionInv' /\ \A d \in Clients : Kept(d)
<1> DEFINE s == Routed(sessions[c], station)
<1>1. SessionInv' /\ s.last_sequence = sessions[c].last_sequence
  BY RouteKeeps
<1>2. sessions[c] \in Session /\ sessions[c].last_sequence \in Nat
  BY Bounds DEF SessionInv, SessionTypes, IsConnected, Tracked, Session
<1>3. s \in Session
  BY <1>2, RoutedSession DEF Store
<1>4. sessions' = [sessions EXCEPT ![c] = s]
  BY DEF Store
<1> HIDE DEF s
<1>5. s # NoSession /\ s.last_sequence >= sessions[c].last_sequence
  BY <1>1, <1>2, <1>3, Bounds
<1> QED
  BY <1>1, <1>4, <1>5, StoreKept

\* Every step keeps the invariant and what each session has counted.
LEMMA SessionStep ==
    ASSUME SessionInv, [Next]_vars
    PROVE  SessionInv' /\ \A c \in Clients : Kept(c)
<1> USE Bounds
<1>0. \A c \in Clients : Tracked(c) => sessions[c] \in Session
  BY DEF SessionInv, SessionTypes, Tracked
<1>1. CASE \E c \in Clients, station \in Stations : ConnectNew(c, station)
  <2>1. PICK c \in Clients, station \in Stations : ConnectNew(c, station)
    BY <1>1
  <2>2. SessionInv'
    BY <2>1, ConnectNewKeeps
  <2> DEFINE s == NewSession(station)
  <2>3. /\ sessions' = [sessions EXCEPT ![c] = s] /\ ~Tracked(c) /\ s # NoSession
    BY <2>1, NewSessionTypes DEF ConnectNew, Store, SessionInv
  <2> HIDE DEF s
  <2> QED
    BY <2>2, <2>3, StoreKept
<1>2. CASE \E c \in Clients, station \in Stations : ConnectExisting(c, station)
  <2>1. PICK c \in Clients, station \in Stations : ConnectExisting(c, station)
    BY <1>2
  <2> DEFINE s == [Returned(sessions[c]) EXCEPT !.station_id = station]
  <2>2. CASE IsConnected(c)
    <3>1. /\ Store(c, Routed(sessions[c], station))
          /\ UNCHANGED <<now, expiry_deadlines, sent, admitted_now>>
      BY <2>1, <2>2 DEF ConnectExisting
    <3> QED
      BY <1>0, <2>2, <3>1, RouteStep
  <2>3. CASE ~IsConnected(c)
    <3>1. /\ Store(c, s) /\ IsDisconnected(c)
          /\ UNCHANGED <<now, expiry_deadlines, sent, admitted_now>>
      BY <2>1, <2>3 DEF ConnectExisting, IsConnected, IsDisconnected
    <3> HIDE DEF s
    <3>2. s = Returned(sessions[c])
          \/ \E t \in Stations : s = [Returned(sessions[c]) EXCEPT !.station_id = t]
      BY DEF s
    <3> QED
      BY <3>1, <3>2, ReturnStep
  <2> QED
    BY <2>2, <2>3
<1>3. CASE \E c \in Clients, g \in Generations : Reconnect(c, g)
  <2>1. PICK c \in Clients, g \in Generations : Reconnect(c, g)
    BY <1>3
  <2>2. /\ Store(c, Returned(sessions[c])) /\ IsDisconnected(c)
        /\ UNCHANGED <<now, expiry_deadlines, sent, admitted_now>>
    BY <2>1 DEF Reconnect
  <2> QED
    BY <2>2, ReturnStep
<1>4. CASE \E c \in Clients, station \in Stations : Reroute(c, station)
  <2>1. PICK c \in Clients, station \in Stations : Reroute(c, station)
    BY <1>4
  <2> QED
    BY <2>1, RouteStep DEF Reroute
<1>5. CASE \E c \in Clients : Disconnect(c)
  <2>1. PICK c \in Clients : Disconnect(c)
    BY <1>5
  <2>2. SessionInv' /\ sessions'[c].last_sequence = sessions[c].last_sequence
    BY <2>1, DisconnectKeeps
  <2>3. sessions[c] \in Session
    BY <1>0, <2>1 DEF Disconnect
  <2> DEFINE s == [sessions[c] EXCEPT !.since = now]
  <2>4. sessions' = [sessions EXCEPT ![c] = s] /\ s # NoSession
    BY <2>1, <2>3 DEF Disconnect, Session, SessionInv, SessionTypes
  <2>5. s.last_sequence >= sessions[c].last_sequence
    BY <2>3 DEF Session
  <2> HIDE DEF s
  <2> QED
    BY <2>2, <2>4, <2>5, StoreKept
<1>6. CASE \E c \in Clients, g \in Generations, n \in Sequences : AdmitCommand(c, g, n)
  <2>1. PICK c \in Clients, g \in Generations, n \in Sequences : AdmitCommand(c, g, n)
    BY <1>6
  <2>2. /\ SessionInv' /\ sessions'[c] # NoSession
        /\ sessions'[c].last_sequence >= sessions[c].last_sequence
    BY <2>1, AdmitKeeps
  <2>3. \E s : Store(c, s)
    BY <2>1 DEF AdmitCommand
  <2>4. /\ sessions' = [sessions EXCEPT ![c] = sessions'[c]] /\ sessions'[c] # NoSession
    BY <2>2, <2>3 DEF Store, SessionInv, SessionTypes
  <2> QED
    BY <2>2, <2>4, StoreKept
<1>7. CASE \E c \in Clients : SendCommand(c)
  <2>1. PICK c \in Clients : SendCommand(c)
    BY <1>7
  <2>2. UNCHANGED sessions
    BY <2>1 DEF SendCommand
  <2> QED
    BY <2>1, <2>2, SendKeeps, SameKept
<1>8. CASE ExpireDisconnected
  <2>1. /\ SessionInv'
        /\ \A c \in Clients :
              \/ sessions'[c] = sessions[c]
              \/ ~Tracked(c)' /\ IsDisconnected(c) /\ PastGrace(sessions[c])
    BY <1>8, ExpireKeeps
  <2>2. ASSUME NEW c \in Clients, Tracked(c) PROVE Kept(c)
    <3>1. sessions[c].last_sequence \in Nat
      BY <1>0, <2>2 DEF Session
    <3> QED
      BY <2>1, <2>2, <3>1 DEF Kept, Tracked
  <2> QED
    BY <2>1, <2>2 DEF Kept
<1>9. CASE Tick
  <2>1. UNCHANGED sessions
    BY <1>9 DEF Tick
  <2> QED
    BY <1>9, <2>1, TickKeeps, SameKept
<1>10. CASE UNCHANGED vars
  <2>1. SessionInv'
    BY <1>10 DEF vars, SessionInv, SessionTypes, SessionsBounded, HeapBounded, DeadlineKept,
                 AdmittedCounted, CountedNow, Tracked, IsDisconnected
  <2> QED
    BY <1>10, <2>1, SameKept DEF vars
<1> QED
  BY <1>1, <1>2, <1>3, <1>4, <1>5, <1>6, <1>7, <1>8, <1>9, <1>10 DEF Next

\* Whatever reconnects and compactions came before, a disconnected session has
\* its own deadline in the heap, the heap keeps in proportion to the table, the
\* table within max_sessions, and no tick admits more of a client's commands
\* than max_commands_per_tick.
THEOREM DisconnectedTrackedHolds == Spec => []DisconnectedTracked
<1>1. SessionInv => DisconnectedTracked
  <2> SUFFICES ASSUME SessionInv PROVE DisconnectedTracked
    OBVIOUS
  <2>1. TypeOK
    BY DEF SessionInv, SessionTypes, SessionsBounded, HeapBounded, TypeOK
  <2>2. ASSUME NEW c \in Clients PROVE admitted_now[c] <= MaxCommands
    <3>1. CountedNow(c) \in Nat /\ CountedNow(c) <= MaxCommands
      BY Bounds DEF SessionInv, SessionTypes, CountedNow, Tracked, Session
    <3>2. admitted_now[c] \in Nat /\ admitted_now[c] <= CountedNow(c)
      BY DEF SessionInv, SessionTypes, AdmittedCounted
    <3> QED
      BY <3>1, <3>2, Bounds
  <2> QED
    BY <2>1, <2>2 DEF SessionInv, DeadlineKept, DisconnectedTracked
<1> QED
  BY <1>1, SessionInit, SessionStep, PTL DEF Spec

\* A session is removed only after its whole grace, and while it is kept with
\* its generation its last sequence does not go back.
THEOREM SessionsKeptHolds == Spec => SessionsKept
<1>1. SessionInv /\ [Next]_vars =>
        [\A c \in Clients :
            Tracked(c) =>
               IF ~Tracked(c)' THEN IsDisconnected(c) /\ PastGrace(sessions[c])
               ELSE sessions'[c].generation = sessions[c].generation
                       => sessions'[c].last_sequence >= sessions[c].last_sequence]_vars
  BY SessionStep DEF Kept
<1> QED
  BY <1>1, SessionInit, SessionStep, PTL DEF Spec, SessionsKept

-----------------------------------------------------------------------------
(* Replication: its invariant. *)

\* The slots and the maps of the index.
SlotsSound == StationTypeOK /\ FreeStackExact
ListsSound == IndexMaps(entity_cells, cells, Handle, Cells) /\ dirty \subseteq Handle

\* The tracker is within its limit, and ages stop at the longest interval.
TrackerSound ==
    /\ IsFiniteSet(DOMAIN tracker) /\ DOMAIN tracker \subseteq Client \X Handle
    /\ Cardinality(DOMAIN tracker) <= MaxEntries
    /\ \A pair \in DOMAIN tracker : tracker[pair] \in 0 .. LongestInterval

BatchTypes == batch \in Seq(Plan) /\ planned \in BOOLEAN /\ frame \in Frame \cup {NoFrame}

\* A handle stands for one of the entities E, or for nothing ever again.
Meant(h, E) ==
    /\ h.index < size /\ h.generation <= generations[h.index]
    /\ generations[h.index] = h.generation =>
          records[h.index] # NoRecord /\ records[h.index].id \in E

\* The handles of a plan that waits mean the entities it was made for.
PlansCurrent ==
    \A i \in 1 .. Len(batch) : \A h \in ToSet(batch[i].entities) : Meant(h, batch[i].ids)

\* What a plan that waits is about is due to its client.
DueTo(c, h) == <<c, h>> \in DOMAIN tracker => tracker[<<c, h>>] >= ShortestInterval(c)

PlansDue ==
    \A i \in 1 .. Len(batch) : \A h \in ToSet(batch[i].entities) : DueTo(batch[i].client, h)

\* A client waits for one plan at most.
PlansApart ==
    \A i, j \in 1 .. Len(batch) : batch[i].client = batch[j].client => i = j

ReplicationInv ==
    /\ SlotsSound /\ ListsSound /\ TrackerSound /\ BatchTypes
    /\ PlansCurrent /\ PlansDue /\ PlansApart

-----------------------------------------------------------------------------
(* Replication: the slots. *)

\* A vacant slot is allocated, under a handle that was not given out before.
LEMMA SlotAllocated ==
    ASSUME SlotsSound, CanAllocate
    PROVE  /\ AllocatedHandle \in Handle /\ AllocatedHandle.index \in Index
           /\ records[AllocatedHandle.index] = NoRecord
           /\ free # <<>> => /\ AllocatedHandle.index = free[Len(free)]
                             /\ AllocatedHandle.index < size
                             /\ AllocatedHandle.generation = generations[AllocatedHandle.index]
           /\ free = <<>> => /\ AllocatedHandle.index = size /\ size < MaxSlots
                             /\ AllocatedHandle.generation = 0
<1>1. CASE free # <<>>
  <2>1. Len(free) \in 1 .. Len(free) /\ free[Len(free)] \in Index
    BY <1>1 DEF SlotsSound, StationTypeOK
  <2>2. free[Len(free)] < size /\ generations[free[Len(free)]] \in Generation
    BY <2>1 DEF SlotsSound, StationTypeOK, FreeStackExact
  <2>3. records[free[Len(free)]] = NoRecord
    BY <2>1, <2>2, StationAssumption DEF SlotsSound, StationTypeOK, FreeStackExact, Index
  <2> QED
    BY <1>1, <2>1, <2>2, <2>3 DEF AllocatedHandle, Handle
<1>2. CASE free = <<>>
  <2>1. size \in Index /\ size < MaxSlots /\ 0 \in Generation
    BY <1>2, StationAssumption DEF CanAllocate, SlotsSound, StationTypeOK, Index, Generation
  <2>2. records[size] = NoRecord
    BY <2>1, StationAssumption DEF FreeStackExact, SlotsSound, StationTypeOK, Index
  <2> QED
    BY <1>2, <2>1, <2>2 DEF AllocatedHandle, Handle
<1> QED
  BY <1>1, <1>2

LEMMA SpawnKeepsSlots ==
    ASSUME SlotsSound, NEW e \in Entities, NEW p \in Positions, StationSpawnOwned(e, p)
    PROVE  SlotsSound'
<1> DEFINE a == AllocatedHandle
           r == NewRecord(e, a, p, TRUE)
<1>1. /\ CanAllocate /\ a \in Handle /\ a.index \in Index /\ records[a.index] = NoRecord
      /\ records' = [records EXCEPT ![a.index] = r]
      /\ by_id' = [by_id EXCEPT ![e] = a]
      /\ IF free # <<>>
         THEN /\ free' = SubSeq(free, 1, Len(free) - 1) /\ UNCHANGED <<size, generations>>
              /\ a.index = free[Len(free)] /\ a.index < size
         ELSE /\ size' = size + 1 /\ generations' = [generations EXCEPT ![size] = 0]
              /\ UNCHANGED free /\ a.index = size /\ size < MaxSlots
  BY SlotAllocated DEF StationSpawnOwned, InsertAllocated, NewRecord
<1>2. r \in EntityRecord /\ r # NoRecord
  <2>1. NoTags \in Tags /\ {TRANSFORM} \in DirtyMask /\ a \in Handle
    BY <1>1, StationAssumption DEF DirtyMask
  <2>2. r \in EntityRecord
    BY <2>1 DEF NewRecord, EntityRecord
  <2> QED
    BY <2>2, NoneAssumption
<1> HIDE DEF a, r
<1>3. StationTypeOK
  BY DEF SlotsSound
<1>4. /\ size \in Nat /\ size <= MaxSlots /\ MaxSlots \in Nat /\ free \in Seq(Index)
      /\ records \in [Index -> EntityRecord \cup {NoRecord}]
      /\ a.index \in Nat /\ \A i : i \in Index <=> i \in Nat /\ i < MaxSlots
  BY <1>1, <1>3, StationAssumption DEF StationTypeOK, Index
<1>5. \A i \in Index : records'[i] = IF i = a.index THEN r ELSE records[i]
  BY <1>1, <1>4
<1>6. CASE free # <<>>
  <2>1. /\ free' \in Seq(Index) /\ Len(free') = Len(free) - 1 /\ Len(free) \in Nat /\ Len(free) >= 1
        /\ \A k \in 1 .. Len(free) - 1 : free'[k] = free[k]
    <3>1. free' = SubSeq(free, 1, Len(free) - 1)
      BY <1>1, <1>6
    <3>2. Len(free) \in Nat /\ Len(free) >= 1 /\ free \in [1 .. Len(free) -> Index]
      BY <1>4, <1>6
    <3> QED
      BY <1>4, <3>1, <3>2, SubSeqProperties
  <2>2. StationTypeOK'
    BY <1>1, <1>2, <1>3, <1>6, <2>1 DEF StationTypeOK
  <2>3. FreeStackExact'
    <3>1. \A i \in Index : records'[i] # NoRecord => i < size
      BY <1>1, <1>5, <1>6 DEF SlotsSound, FreeStackExact
    <3>2. /\ \A k \in 1 .. Len(free) : free[k] < size
          /\ \A j, k \in 1 .. Len(free) : free[j] = free[k] => j = k
          /\ \A i \in 0 .. size - 1 :
                (records[i] = NoRecord) <=> (\E k \in 1 .. Len(free) : free[k] = i)
      BY DEF SlotsSound, FreeStackExact
    <3>3. /\ \A k \in 1 .. Len(free') : free'[k] < size
          /\ \A j, k \in 1 .. Len(free') : free'[j] = free'[k] => j = k
      BY <2>1, <3>2
    <3>4. ASSUME NEW i \in 0 .. size - 1
          PROVE  (records'[i] = NoRecord) <=> (\E k \in 1 .. Len(free') : free'[k] = i)
      <4>1. i \in Index
        BY <1>4
      <4>2. CASE i = a.index
        <5>1. records'[i] # NoRecord
          BY <1>2, <1>5, <4>1, <4>2
        <5>2. \A k \in 1 .. Len(free') : free'[k] # i
          BY <1>1, <1>6, <2>1, <3>2, <4>2
        <5> QED
          BY <5>1, <5>2
      <4>3. CASE i # a.index
        <5>1. records'[i] = records[i]
          BY <1>5, <4>1, <4>3
        <5>2. (\E k \in 1 .. Len(free') : free'[k] = i) <=> (\E k \in 1 .. Len(free) : free[k] = i)
          BY <1>1, <1>6, <2>1, <4>3
        <5> QED
          BY <3>2, <5>1, <5>2
      <4> QED
        BY <4>2, <4>3
    <3> QED
      BY <1>1, <1>6, <3>1, <3>3, <3>4 DEF FreeStackExact
  <2> QED
    BY <2>2, <2>3 DEF SlotsSound
<1>7. CASE free = <<>>
  <2>1. size' = size + 1 /\ size' \in 0 .. MaxSlots /\ free' = <<>> /\ a.index = size
    BY <1>1, <1>4, <1>7
  <2>2. generations' \in [Index -> Generation]
    BY <1>1, <1>3, <1>7, StationAssumption DEF StationTypeOK, Generation
  <2>3. StationTypeOK'
    BY <1>1, <1>2, <1>3, <2>1, <2>2 DEF StationTypeOK
  <2>4. FreeStackExact'
    <3>1. \A i \in Index : records'[i] # NoRecord => i < size'
      BY <1>4, <1>5, <2>1 DEF SlotsSound, FreeStackExact
    <3>2. \A i \in 0 .. size - 1 : records[i] # NoRecord
      BY <1>7 DEF SlotsSound, FreeStackExact
    <3>3. \A i \in 0 .. size' - 1 : records'[i] # NoRecord
      BY <1>2, <1>4, <1>5, <2>1, <3>2
    <3> QED
      BY <2>1, <3>1, <3>3 DEF FreeStackExact
  <2> QED
    BY <2>3, <2>4 DEF SlotsSound
<1> QED
  BY <1>6, <1>7

LEMMA MoveKeepsSlots ==
    ASSUME SlotsSound, NEW h \in Handle, NEW p \in Positions, StationMoveOwned(h, p)
    PROVE  /\ SlotsSound'
           /\ UNCHANGED <<size, generations>>
           /\ \A i \in Index : records'[i] = NoRecord <=> records[i] = NoRecord
           /\ \A i \in Index : records[i] # NoRecord => records'[i].id = records[i].id
<1> DEFINE r == [RecordOf(h) EXCEPT !.position = p, !.dirty = @ \cup {TRANSFORM}]
<1>1. /\ h.index \in Index /\ records[h.index] \in EntityRecord
      /\ records \in [Index -> EntityRecord \cup {NoRecord}]
      /\ records' = [records EXCEPT ![h.index] = r]
      /\ UNCHANGED <<size, generations, free, by_id>>
  BY NoneAssumption
  DEF StationMoveOwned, UpdateRecord, Resolves, SlotsSound, StationTypeOK, Handle
<1>2. r \in EntityRecord /\ r # NoRecord /\ r.id = records[h.index].id
  <2>1. PICK old \in EntityRecord : old = records[h.index]
    BY <1>1
  <2>2. r = [old EXCEPT !.position = p, !.dirty = old.dirty \cup {TRANSFORM}]
    BY <2>1 DEF RecordOf
  <2>3. old.dirty \cup {TRANSFORM} \in DirtyMask
    BY DEF EntityRecord, DirtyMask
  <2>4. r \in EntityRecord /\ r.id = old.id
    BY <2>2, <2>3 DEF EntityRecord
  <2> QED
    BY <2>1, <2>4, NoneAssumption
<1> HIDE DEF r
<1>3. \A i \in Index : records'[i] = IF i = h.index THEN r ELSE records[i]
  BY <1>1
<1>4. \A i \in Index : records'[i] = NoRecord <=> records[i] = NoRecord
  BY <1>1, <1>2, <1>3, NoneAssumption
<1>5. \A i \in Index : records[i] # NoRecord => records'[i].id = records[i].id
  BY <1>2, <1>3
<1>6. StationTypeOK'
  BY <1>1, <1>2 DEF SlotsSound, StationTypeOK
<1>7. FreeStackExact'
  <2>1. size \in Nat /\ \A i \in 0 .. size - 1 : i \in Index
    BY StationAssumption DEF SlotsSound, StationTypeOK, Index
  <2> QED
    BY <1>1, <1>4, <2>1 DEF SlotsSound, FreeStackExact
<1> QED
  BY <1>1, <1>4, <1>5, <1>6, <1>7 DEF SlotsSound

LEMMA RemoveKeepsSlots ==
    ASSUME SlotsSound, NEW h \in Handle, StationRemove(h)
    PROVE  SlotsSound'
<1>1. /\ h.index \in Index /\ h.index < size /\ records[h.index] \in EntityRecord
      /\ records[h.index] # NoRecord
      /\ records \in [Index -> EntityRecord \cup {NoRecord}]
      /\ records' = [records EXCEPT ![h.index] = NoRecord]
      /\ generations' = [generations EXCEPT ![h.index] = NextGeneration(generations[h.index])]
      /\ free' = Append(free, h.index) /\ free \in Seq(Index)
      /\ by_id' = [by_id EXCEPT ![records[h.index].id] = NoHandle]
      /\ size' = size
  BY NoneAssumption
  DEF StationRemove, RecordOf, Resolves, SlotsSound, StationTypeOK, Handle
<1>2. /\ free' \in Seq(Index) /\ Len(free') = Len(free) + 1 /\ Len(free) \in Nat
      /\ free'[Len(free) + 1] = h.index
      /\ \A k \in 1 .. Len(free) : free'[k] = free[k]
  BY <1>1
<1>3. StationTypeOK'
  <2>1. NextGeneration(generations[h.index]) \in Generation
    BY <1>1, StationAssumption DEF SlotsSound, StationTypeOK, NextGeneration, Generation
  <2> QED
    BY <1>1, <1>2, <2>1 DEF SlotsSound, StationTypeOK
<1>4. FreeStackExact'
  <2>1. /\ \A i \in Index : records[i] # NoRecord => i < size
        /\ \A k \in 1 .. Len(free) : free[k] < size
        /\ \A j, k \in 1 .. Len(free) : free[j] = free[k] => j = k
        /\ \A i \in 0 .. size - 1 :
              (records[i] = NoRecord) <=> (\E k \in 1 .. Len(free) : free[k] = i)
    BY DEF SlotsSound, FreeStackExact
  <2>2. size \in Nat /\ h.index \in 0 .. size - 1 /\ \A i \in 0 .. size - 1 : i \in Index
    BY <1>1, StationAssumption DEF SlotsSound, StationTypeOK, Index
  <2>3. \A k \in 1 .. Len(free) : free[k] # h.index
    BY <1>1, <2>1, <2>2
  <2>4. \A k : k \in 1 .. Len(free') <=> k \in 1 .. Len(free) \/ k = Len(free) + 1
    BY <1>2
  <2>5. \A i \in Index : records'[i] = IF i = h.index THEN NoRecord ELSE records[i]
    BY <1>1
  <2>6. \A i \in Index : records'[i] # NoRecord => i < size
    BY <2>1, <2>5
  <2>7. \A k \in 1 .. Len(free') : free'[k] < size
    BY <1>1, <1>2, <2>1, <2>4
  <2>8. \A j, k \in 1 .. Len(free') : free'[j] = free'[k] => j = k
    BY <1>2, <2>1, <2>3, <2>4
  <2>9. \A i \in 0 .. size - 1 :
            (records'[i] = NoRecord) <=> (\E k \in 1 .. Len(free') : free'[k] = i)
    <3> SUFFICES ASSUME NEW i \in 0 .. size - 1
                 PROVE  (records'[i] = NoRecord) <=> (\E k \in 1 .. Len(free') : free'[k] = i)
      OBVIOUS
    <3>1. i \in Index
      BY <2>2
    <3>2. (\E k \in 1 .. Len(free') : free'[k] = i)
             <=> (\E k \in 1 .. Len(free) : free[k] = i) \/ i = h.index
      BY <1>2, <2>4
    <3> QED
      BY <2>1, <2>5, <3>1, <3>2
  <2> QED
    BY <1>1, <2>6, <2>7, <2>8, <2>9 DEF FreeStackExact
<1> QED
  BY <1>3, <1>4 DEF SlotsSound

-----------------------------------------------------------------------------
(* Replication: the world changes. *)

\* What upsert and remove make of the index keeps it sound.
LEMMA ListsMove ==
    ASSUME ListsSound, NEW h \in Handle, NEW next \in SUBSET Cells,
           cells' = MembershipDiff(h, entity_cells[h], next),
           entity_cells' = [entity_cells EXCEPT ![h] = next],
           dirty' \subseteq Handle
    PROVE  ListsSound'
<1>1. PICK at, lists, moved, diff :
         at = entity_cells /\ lists = cells /\ moved = entity_cells' /\ diff = cells'
  OBVIOUS
<1>2. IndexMaps(at, lists, Handle, Cells)
  BY <1>1 DEF ListsSound
<1>3. DiffMoves(at, lists, h, next, moved, diff, Cells)
  BY <1>1 DEF DiffMoves, MembershipDiff
<1>4. IndexMaps(moved, diff, Handle, Cells)
  BY <1>2, <1>3, DiffKeepsMaps
<1>5. IndexMaps(entity_cells', cells', Handle, Cells)
  BY <1>1, <1>4
<1> QED
  BY <1>5 DEF ListsSound

\* What a step of the world keeps.
WorldKept ==
    SlotsSound' /\ ListsSound' /\ \A g \in Handle : \A E : Meant(g, E) => Meant(g, E)'

LEMMA SpawnKeepsWorld ==
    ASSUME SlotsSound, ListsSound, NEW e \in Entities, NEW p \in Positions, Spawn(e, p)
    PROVE  WorldKept
<1> DEFINE a == AllocatedHandle
<1>1. /\ StationSpawnOwned(e, p) /\ CanAllocate /\ a \in Handle /\ a.index \in Index
      /\ records[a.index] = NoRecord
      /\ records' = [records EXCEPT ![a.index] = NewRecord(e, a, p, TRUE)]
      /\ IF free # <<>> THEN UNCHANGED <<size, generations>>
         ELSE /\ size' = size + 1 /\ generations' = [generations EXCEPT ![size] = 0]
              /\ a.index = size
  BY SlotAllocated DEF Spawn, StationSpawnOwned, InsertAllocated
<1>2. SlotsSound'
  BY <1>1, SpawnKeepsSlots
<1>3. ListsSound'
  <2>1. Footprint(p) \in SUBSET Cells
    BY ReplicationAssumption
  <2>2. dirty' \subseteq Handle
    BY <1>1 DEF Spawn, ListsSound
  <2> QED
    BY <1>1, <2>1, <2>2, ListsMove DEF Spawn, IndexUpsert
<1>4. ASSUME NEW g \in Handle, NEW E, Meant(g, E) PROVE Meant(g, E)'
  <2> HIDE DEF a
  <2>1. /\ g.index \in Index /\ size \in Nat /\ g.generation \in Nat
        /\ records \in [Index -> EntityRecord \cup {NoRecord}]
        /\ generations \in [Index -> Generation]
        /\ \A i \in Index : i \in Nat
    BY StationAssumption DEF SlotsSound, StationTypeOK, Handle, Generation, Index
  <2>2. CASE g.index = a.index
    <3>1. free # <<>>
      BY <1>1, <1>4, <2>1, <2>2 DEF Meant
    <3>2. generations[g.index] # g.generation
      BY <1>1, <2>2, <1>4 DEF Meant
    <3> QED
      BY <1>1, <1>4, <3>1, <3>2 DEF Meant
  <2>3. CASE g.index # a.index
    <3>1. records'[g.index] = records[g.index]
      BY <1>1, <2>1, <2>3
    <3>2. g.index < size' /\ generations'[g.index] = generations[g.index]
      BY <1>1, <1>4, <2>1, <2>3 DEF Meant
    <3> QED
      BY <1>4, <3>1, <3>2 DEF Meant
  <2> QED
    BY <2>2, <2>3
<1> QED
  BY <1>2, <1>3, <1>4 DEF WorldKept

LEMMA MoveKeepsWorld ==
    ASSUME SlotsSound, ListsSound, NEW h \in Handle, NEW p \in Positions, Move(h, p)
    PROVE  WorldKept
<1>1. /\ SlotsSound'
      /\ UNCHANGED <<size, generations>>
      /\ \A i \in Index : records'[i] = NoRecord <=> records[i] = NoRecord
      /\ \A i \in Index : records[i] # NoRecord => records'[i].id = records[i].id
  BY MoveKeepsSlots DEF Move
<1>2. ListsSound'
  <2>1. Footprint(p) \in SUBSET Cells
    BY ReplicationAssumption
  <2>2. dirty' \subseteq Handle
    BY DEF Move, ListsSound
  <2> QED
    BY <2>1, <2>2, ListsMove DEF Move, IndexUpsert
<1>3. ASSUME NEW g \in Handle, NEW E, Meant(g, E) PROVE Meant(g, E)'
  <2>1. g.index \in Index
    BY DEF Handle
  <2> QED
    BY <1>1, <1>3, <2>1 DEF Meant
<1> QED
  BY <1>1, <1>2, <1>3 DEF WorldKept

LEMMA DespawnKeepsWorld ==
    ASSUME SlotsSound, ListsSound, NEW h \in Handle, Despawn(h)
    PROVE  WorldKept
<1>1. /\ StationRemove(h) /\ h.generation < MaxGeneration
      /\ h.index \in Index /\ generations[h.index] = h.generation
      /\ records' = [records EXCEPT ![h.index] = NoRecord]
      /\ generations' = [generations EXCEPT ![h.index] = h.generation + 1]
      /\ size' = size
      /\ records \in [Index -> EntityRecord \cup {NoRecord}]
      /\ generations \in [Index -> Generation]
  BY DEF Despawn, StationRemove, Resolves, NextGeneration, Handle, SlotsSound, StationTypeOK
<1>2. SlotsSound'
  BY <1>1, RemoveKeepsSlots
<1>3. ListsSound'
  <2>1. dirty' \subseteq Handle /\ {} \in SUBSET Cells
    BY DEF Despawn, ListsSound
  <2>2. PICK next \in SUBSET Cells : next = {}
    BY <2>1
  <2>3. /\ cells' = MembershipDiff(h, entity_cells[h], next)
        /\ entity_cells' = [entity_cells EXCEPT ![h] = next]
    BY <2>2 DEF Despawn, IndexRemove
  <2> QED
    BY <2>1, <2>3, ListsMove
<1>4. ASSUME NEW g \in Handle, NEW E, Meant(g, E) PROVE Meant(g, E)'
  <2>1. g.index \in Index /\ g.generation \in Nat /\ h.generation \in Nat
    BY DEF Handle, Generation
  <2>2. CASE g.index = h.index
    <3>1. g.generation <= h.generation /\ generations'[g.index] = h.generation + 1
      BY <1>1, <1>4, <2>1, <2>2 DEF Meant
    <3>2. g.generation <= generations'[g.index] /\ generations'[g.index] # g.generation
      BY <2>1, <3>1
    <3> QED
      BY <1>1, <1>4, <3>2 DEF Meant
  <2>3. CASE g.index # h.index
    <3>1. records'[g.index] = records[g.index] /\ generations'[g.index] = generations[g.index]
      BY <1>1, <2>1, <2>3
    <3> QED
      BY <1>1, <1>4, <3>1 DEF Meant
  <2> QED
    BY <2>2, <2>3
<1> QED
  BY <1>2, <1>3, <1>4 DEF WorldKept

LEMMA ClearKeepsWorld ==
    ASSUME SlotsSound, ListsSound, NEW h \in Handle, ClearDirtyForEntity(h)
    PROVE  WorldKept
<1>1. /\ UNCHANGED <<size, records, generations, free, by_id, entity_cells, cells>>
      /\ dirty' \subseteq dirty
  BY DEF ClearDirtyForEntity, stationVars
<1>2. SlotsSound'
  BY <1>1 DEF SlotsSound, StationTypeOK, FreeStackExact
<1>3. ListsSound'
  BY <1>1 DEF ListsSound
<1>4. \A g \in Handle : \A E : Meant(g, E) => Meant(g, E)'
  BY <1>1 DEF Meant
<1> QED
  BY <1>2, <1>3, <1>4 DEF WorldKept

\* The handles of plans are handles.
LEMMA PlanHandles ==
    ASSUME BatchTypes, NEW i \in 1 .. Len(batch)
    PROVE  /\ batch[i] \in Plan /\ batch[i].client \in Client
           /\ batch[i].entities \in Seq(Handle) /\ ToSet(batch[i].entities) \subseteq Handle
<1>1. batch[i] \in Plan /\ batch[i].client \in Client /\ batch[i].entities \in Seq(Handle)
  <2>1. PICK waiting \in Plan : waiting = batch[i]
    BY DEF BatchTypes
  <2>2. waiting.client \in Client /\ waiting.entities \in Seq(Handle)
    BY DEF Plan
  <2> QED
    BY <2>1, <2>2
<1>2. ToSet(batch[i].entities) \subseteq Handle
  BY <1>1, ElementsOf
<1> QED
  BY <1>1, <1>2

\* While the world changes, plans wait as they are.
LEMMA WorldStep ==
    ASSUME ReplicationInv, WorldKept, Unsent
    PROVE  ReplicationInv'
<1>1. frame' = NoFrame /\ UNCHANGED <<tracker, batch, planned>>
  BY DEF Unsent
<1>2. TrackerSound'
  BY <1>1 DEF ReplicationInv, TrackerSound
<1>3. BatchTypes'
  BY <1>1 DEF ReplicationInv, BatchTypes
<1>4. PlansCurrent'
  <2> SUFFICES ASSUME NEW i \in 1 .. Len(batch), NEW h \in ToSet(batch[i].entities)
               PROVE  Meant(h, batch[i].ids)'
    BY <1>1 DEF PlansCurrent
  <2>1. PICK E : E = batch[i].ids
    OBVIOUS
  <2>2. h \in Handle /\ Meant(h, E)
    BY <2>1, PlanHandles DEF ReplicationInv, PlansCurrent
  <2>3. Meant(h, E)'
    BY <2>2 DEF WorldKept
  <2>4. batch'[i].ids = E
    BY <1>1, <2>1
  <2> QED
    BY <2>3, <2>4 DEF Meant
<1>5. PlansDue' /\ PlansApart'
  BY <1>1 DEF ReplicationInv, PlansDue, PlansApart, DueTo
<1> QED
  BY <1>2, <1>3, <1>4, <1>5 DEF ReplicationInv, WorldKept

-----------------------------------------------------------------------------
(* Replication: the cadence. *)

\* A set of natural numbers has a least one.
LEMMA LeastNumber ==
    ASSUME NEW K, K \subseteq Nat, K # {}
    PROVE  Min(K) \in K /\ \A k \in K : Min(K) <= k
<1>1. PICK n \in Nat : n \in K
  OBVIOUS
<1> DEFINE L == {k \in K : k <= n}
<1>2. IsFiniteSet(L) /\ L \subseteq Nat /\ L # {}
  <2>0. \A k \in L : k \in 0 .. n
    BY <1>1
  <2>1. L \subseteq Nat /\ n \in L /\ L \in SUBSET (0 .. n)
    <3>1. L \subseteq Nat
      OBVIOUS
    <3>2. n <= n
      OBVIOUS
    <3>3. n \in L
      BY <1>1, <3>2
    <3> HIDE DEF L
    <3> QED
      BY <2>0, <3>1, <3>3
  <2>2. IsFiniteSet(0 .. n)
    BY FS_Interval
  <2> HIDE DEF L
  <2>3. IsFiniteSet(L)
    BY <2>1, <2>2, FS_Subset
  <2> QED
    BY <2>1, <2>3
<1>3. PICK m \in L : \A k \in L : m <= k
  <2> HIDE DEF L
  <2> QED
    BY <1>2, Lowest
<1>4. m \in K /\ \A k \in K : m <= k
  BY <1>1, <1>3
<1> HIDE DEF L
<1> QED
  BY ONLY <1>4 DEF Min

\* Division of natural numbers, rounded down.
LEMMA Quotient ==
    ASSUME NEW a \in Nat, NEW b \in Nat \ {0}
    PROVE  a \div b \in Nat /\ (a >= b => a \div b >= 1)
<1>1. PICK q : q = a \div b
  OBVIOUS
<1>2. q \in Int /\ b * q <= a /\ a < b * q + b
  BY <1>1
<1>3. q >= 0
  <2>1. ASSUME q <= -1 PROVE FALSE
    <3>1. b * q <= -b
      BY <1>2, <2>1
    <3> QED
      BY <1>2, <3>1
  <2> QED
    BY <1>2, <2>1
<1>4. ASSUME a >= b PROVE q >= 1
  <2>1. ASSUME q = 0 PROVE FALSE
    BY <1>2, <1>4, <2>1
  <2> QED
    BY <1>2, <1>3, <2>1
<1> QED
  BY <1>1, <1>2, <1>3, <1>4

\* Every distance has a frequency of at least one.
LEMMA Frequencies ==
    ASSUME NEW d \in Nat
    PROVE  TargetHz(d) \in Nat \ {0} /\ IntervalTicks(d) \in Nat
<1> DEFINE R == InterestRadius * InterestRadius
           far == Min({d * d, R})
           slow == MinHz * R
           gain == (MaxHz - MinHz) * (R - far)
<1>1. R \in Nat \ {0} /\ d * d \in Nat
  BY ReplicationAssumption
<1>2. far \in Nat /\ far <= R
  <2>1. PICK K : K = {d * d, R}
    OBVIOUS
  <2>2. K \subseteq Nat /\ K # {} /\ R \in K
    BY <1>1, <2>1
  <2>3. Min(K) \in K /\ Min(K) <= R
    BY <2>2, LeastNumber
  <2> QED
    BY <2>1, <2>2, <2>3
<1> HIDE DEF R, far
<1>3. slow \in Nat /\ slow >= R
  <2>1. MinHz \in Nat /\ MinHz >= 1
    BY ReplicationAssumption
  <2> QED
    BY <1>1, <2>1
<1>4. gain \in Nat
  <2>1. MaxHz - MinHz \in Nat /\ R - far \in Nat
    BY <1>1, <1>2, ReplicationAssumption
  <2> QED
    BY <2>1
<1> HIDE DEF slow, gain
<1>5. PICK a : a = 2 * (slow + gain) + R
  OBVIOUS
<1>6. a \in Nat /\ 2 * R \in Nat \ {0} /\ a >= 2 * R
  BY <1>1, <1>3, <1>4, <1>5
<1>7. PICK b \in Nat \ {0} : b = 2 * R
  BY <1>6
<1>8. PICK hz : hz = TargetHz(d)
  OBVIOUS
<1>9. hz \in Nat \ {0}
  <2>1. hz = a \div b
    BY <1>5, <1>7, <1>8 DEF TargetHz, R, far, slow, gain
  <2>2. a \div b \in Nat /\ a \div b >= 1
    BY <1>6, <1>7, Quotient
  <2> QED
    BY <2>1, <2>2
<1>10. IntervalTicks(d) \in Nat
  <2>1. PICK n \in Nat : n = TickRateHz + hz - 1
    BY <1>9, ReplicationAssumption
  <2>2. n \div hz \in Nat
    BY <1>9, Quotient
  <2> QED
    BY <1>8, <2>1, <2>2 DEF IntervalTicks
<1> QED
  BY <1>8, <1>9, <1>10

\* Positions are at a distance from each other.
LEMMA Distances == \A p, q \in Int : Distance(p, q) \in Nat
BY DEF Distance

\* A viewer's interval for a place is none shorter than the shortest.
LEMMA ShortestIsLeast ==
    ASSUME NEW v \in Range(Viewers), NEW p \in Positions
    PROVE  /\ ShortestInterval(v.client) <= IntervalTicks(Distance(p, v.position))
           /\ ShortestInterval(v.client) \in Nat /\ IntervalTicks(Distance(p, v.position)) \in Nat
<1> DEFINE K == {IntervalTicks(Distance(q, w.position)) :
                    q \in Positions, w \in {u \in Range(Viewers) : u.client = v.client}}
<1>1. K \subseteq Nat
  <2> SUFFICES ASSUME NEW q \in Positions, NEW w \in Range(Viewers)
               PROVE  IntervalTicks(Distance(q, w.position)) \in Nat
    OBVIOUS
  <2>1. q \in Int /\ w.position \in Int
    BY ReplicationAssumption, ViewerAssumption
  <2> QED
    BY <2>1, Distances, Frequencies
<1>2. IntervalTicks(Distance(p, v.position)) \in K
  OBVIOUS
<1>3. ShortestInterval(v.client) = Min(K)
  BY DEF ShortestInterval
<1> HIDE DEF K
<1> QED
  BY <1>1, <1>2, <1>3, LeastNumber

-----------------------------------------------------------------------------
(* Replication: the selection. *)

LEMMA HandlesFinite == IsFiniteSet(Handle)
<1>1. PICK I, G : I = Index /\ G = Generation
  OBVIOUS
<1>2. IsFiniteSet(I) /\ IsFiniteSet(G)
  <2>1. 0 \in Int /\ MaxSlots - 1 \in Int /\ MaxGeneration \in Int
    BY StationAssumption
  <2> QED
    BY <1>1, <2>1, FS_Interval DEF Index, Generation
<1> DEFINE f == [pair \in I \X G |-> [index |-> pair[1], generation |-> pair[2]]]
<1>3. f \in Surjection(I \X G, Handle)
  <2>1. f \in [I \X G -> Handle]
    BY <1>1 DEF Handle
  <2>2. ASSUME NEW h \in Handle PROVE \E pair \in I \X G : f[pair] = h
    <3>1. h.index \in I /\ h.generation \in G /\ h = [index |-> h.index, generation |-> h.generation]
      BY <1>1 DEF Handle
    <3>2. <<h.index, h.generation>> \in I \X G
      BY <3>1
    <3>3. f[<<h.index, h.generation>>] = h
      BY <3>1, <3>2
    <3> QED
      BY <3>2, <3>3
  <2> HIDE DEF f
  <2> QED
    BY <2>1, <2>2 DEF Surjection
<1>4. IsFiniteSet(I \X G)
  BY <1>2, FS_Product
<1> HIDE DEF f
<1> QED
  BY <1>3, <1>4, FS_Surjection

\* R compares by three keys, of which no two members have the same.
ByKeys(R, S, A, B, C) ==
    /\ A \in [S -> Int] /\ B \in [S -> Int] /\ C \in [S -> Int]
    /\ \A x, y \in S : A[x] = A[y] /\ B[x] = B[y] /\ C[x] = C[y] => x = y
    /\ \A x, y \in S :
          <<x, y>> \in R <=> \/ A[x] < A[y]
                             \/ A[x] = A[y] /\ B[x] < B[y]
                             \/ A[x] = A[y] /\ B[x] = B[y] /\ C[x] < C[y]

\* Such a relation is an order.
LEMMA KeysOrder ==
    ASSUME NEW R, NEW S, NEW A, NEW B, NEW C, ByKeys(R, S, A, B, C)
    PROVE  Orders(R, S)
<1>1. \A x \in S : A[x] \in Int /\ B[x] \in Int /\ C[x] \in Int
  BY DEF ByKeys
<1>2. \A x \in S : <<x, x>> \notin R
  BY <1>1 DEF ByKeys
<1>3. ASSUME NEW x \in S, NEW y \in S
      PROVE  x = y \/ <<x, y>> \in R \/ <<y, x>> \in R
  <2>1. CASE A[x] = A[y] /\ B[x] = B[y] /\ C[x] = C[y]
    BY <2>1 DEF ByKeys
  <2>2. CASE ~(A[x] = A[y] /\ B[x] = B[y] /\ C[x] = C[y])
    BY <1>1, <2>2 DEF ByKeys
  <2> QED
    BY <2>1, <2>2
<1>4. \A x, y, z \in S : <<x, y>> \in R /\ <<y, z>> \in R => <<x, z>> \in R
  BY <1>1 DEF ByKeys
<1> QED
  BY <1>2, <1>3, <1>4 DEF Orders

\* What is found has a distance.
LEMMA FoundPlaced ==
    ASSUME SlotsSound, NEW v \in Range(Viewers), NEW h \in Found(v)
    PROVE  /\ h \in Handle /\ Selectable(v, h) /\ h.index \in Nat /\ h.generation \in Nat
           /\ records[h.index] \in EntityRecord /\ RecordOf(h).position \in Positions
           /\ Distance(RecordOf(h).position, v.position) \in Nat
<1>1. h \in Handle /\ Selectable(v, h) /\ h.index \in Index /\ h.generation \in Generation
  BY DEF Found, Handle
<1>2. records[h.index] \in EntityRecord
  BY <1>1, NoneAssumption DEF Selectable, Resolves, SlotsSound, StationTypeOK
<1>3. RecordOf(h).position \in Positions
  <2>1. PICK r \in EntityRecord : r = records[h.index]
    BY <1>2
  <2> QED
    BY <2>1 DEF RecordOf, EntityRecord
<1>4. Distance(RecordOf(h).position, v.position) \in Nat
  <2>1. PICK p \in Positions : p = RecordOf(h).position
    BY <1>3
  <2>2. p \in Int /\ v.position \in Int
    BY ReplicationAssumption, ViewerAssumption
  <2> QED
    BY <2>1, <2>2, Distances
<1> QED
  BY <1>1, <1>2, <1>3, <1>4, StationAssumption DEF Index, Generation

\* The best are found by distance and handle.
LEMMA PrioritizedOrder ==
    ASSUME SlotsSound, NEW v \in Range(Viewers)
    PROVE  Orders(Preference(v, "Prioritized"), Found(v))
<1>1. PICK S : S = Found(v)
  OBVIOUS
<1>2. PICK R : R = Preference(v, "Prioritized")
  OBVIOUS
<1>3. PICK A : A = [h \in S |-> Distance(RecordOf(h).position, v.position)]
  OBVIOUS
<1>4. PICK B : B = [h \in S |-> h.index]
  OBVIOUS
<1>5. PICK C : C = [h \in S |-> h.generation]
  OBVIOUS
<1>6. A \in [S -> Int] /\ B \in [S -> Int] /\ C \in [S -> Int] /\ S \subseteq Handle
  <2>1. \A h \in S : /\ Distance(RecordOf(h).position, v.position) \in Int
                     /\ h.index \in Int /\ h.generation \in Int /\ h \in Handle
    BY <1>1, FoundPlaced
  <2> QED
    BY <1>3, <1>4, <1>5, <2>1
<1>7. \A x, y \in S : A[x] = A[y] /\ B[x] = B[y] /\ C[x] = C[y] => x = y
  BY <1>4, <1>5, <1>6 DEF Handle
<1>8. ASSUME NEW x \in S, NEW y \in S
      PROVE  <<x, y>> \in R <=> \/ A[x] < A[y]
                                \/ A[x] = A[y] /\ B[x] < B[y]
                                \/ A[x] = A[y] /\ B[x] = B[y] /\ C[x] < C[y]
  <2>1. <<x, y>> \in R <=> Precedes(v, x, y)
    BY <1>2, <1>6 DEF Preference
  <2> QED
    BY <1>3, <1>4, <1>5, <2>1 DEF Precedes
<1>9. ByKeys(R, S, A, B, C)
  BY <1>6, <1>7, <1>8 DEF ByKeys
<1>10. Orders(R, S)
  BY <1>9, KeysOrder
<1> QED
  BY <1>1, <1>2, <1>10

\* A handle that is found has a first cell, and there a first place.
LEMMA FoundFirst ==
    ASSUME ListsSound, NEW v \in Range(Viewers), NEW h \in Found(v)
    PROVE  /\ FirstCell(v, h) \in Nat
           /\ FirstPlace(QueryRange(v)[FirstCell(v, h)], h) \in Nat
           /\ cells[QueryRange(v)[FirstCell(v, h)]]
                   [FirstPlace(QueryRange(v)[FirstCell(v, h)], h)] = h
<1>1. PICK range \in Seq(Cells) : range = QueryRange(v)
  BY ViewerAssumption
<1>2. PICK lists \in [Cells -> Seq(Handle)] : lists = cells
  BY DEF ListsSound, IndexMaps
<1> DEFINE K == {k \in DOMAIN range : h \in ToSet(lists[range[k]])}
<1>3. K \subseteq Nat /\ K \subseteq DOMAIN range /\ K # {}
  <2>1. \E k \in DOMAIN range : h \in ToSet(lists[range[k]])
    BY <1>1, <1>2 DEF Found
  <2> QED
    BY <1>1, <2>1
<1>4. PICK first : first = Min(K)
  OBVIOUS
<1>5. first \in K
  <2> HIDE DEF K
  <2> QED
    BY <1>3, <1>4, LeastNumber
<1>6. first \in 1 .. Len(range) /\ range[first] \in Cells /\ h \in ToSet(lists[range[first]])
  BY <1>1, <1>5
<1>7. FirstCell(v, h) = first
  BY <1>1, <1>2, <1>4 DEF FirstCell
<1> HIDE DEF K
<1>8. PICK c \in Cells : c = range[first]
  BY <1>6
<1>9. PICK list \in Seq(Handle) : list = lists[c]
  BY <1>2
<1> DEFINE L == {i \in DOMAIN list : list[i] = h}
<1>10. L \subseteq Nat /\ L # {}
  <2>1. \E i \in 1 .. Len(list) : list[i] = h
    BY <1>6, <1>8, <1>9, ElementsOf
  <2> QED
    BY <1>9, <2>1
<1>11. PICK place : place = Min(L)
  OBVIOUS
<1>12. place \in L
  <2> HIDE DEF L
  <2> QED
    BY <1>10, <1>11, LeastNumber
<1>13. FirstPlace(c, h) = place
  BY <1>2, <1>9, <1>11 DEF FirstPlace
<1>14. place \in Nat /\ list[place] = h
  BY <1>9, <1>12
<1> HIDE DEF L
<1> QED
  BY <1>1, <1>2, <1>6, <1>7, <1>8, <1>9, <1>13, <1>14

\* Otherwise they are in the order in which they are met.
LEMMA ThroughputOrder ==
    ASSUME ListsSound, NEW v \in Range(Viewers), NEW mode, mode # "Prioritized"
    PROVE  Orders(Preference(v, mode), Found(v))
<1>1. PICK S : S = Found(v)
  OBVIOUS
<1>2. PICK R : R = Preference(v, mode)
  OBVIOUS
<1>3. PICK A : A = [h \in S |-> FirstCell(v, h)]
  OBVIOUS
<1>4. PICK B : B = [h \in S |-> FirstPlace(QueryRange(v)[FirstCell(v, h)], h)]
  OBVIOUS
<1>5. A \in [S -> Int] /\ B \in [S -> Int] /\ S \subseteq Handle
  <2>1. \A h \in S : FirstCell(v, h) \in Int /\ FirstPlace(QueryRange(v)[FirstCell(v, h)], h) \in Int
    BY <1>1, FoundFirst
  <2>2. S \subseteq Handle
    BY <1>1 DEF Found
  <2> QED
    BY <1>3, <1>4, <2>1, <2>2
<1>6. \A x \in S : cells[QueryRange(v)[A[x]]][B[x]] = x
  BY <1>1, <1>3, <1>4, FoundFirst
<1>7. \A x, y \in S : A[x] = A[y] /\ B[x] = B[y] => x = y
  BY <1>6
<1>8. ASSUME NEW x \in S, NEW y \in S
      PROVE  <<x, y>> \in R <=> \/ A[x] < A[y]
                                \/ A[x] = A[y] /\ B[x] < B[y]
  <2>1. <<x, y>> \in R <=> MetBefore(v, x, y)
    BY <1>2, <1>5 DEF Preference
  <2> QED
    BY <1>3, <1>4, <2>1 DEF MetBefore
<1>9. ByKeys(R, S, A, B, B)
  <2>1. \A x \in S : B[x] \in Int
    BY <1>5
  <2> QED
    BY <1>5, <1>7, <1>8, <2>1 DEF ByKeys
<1>10. Orders(R, S)
  BY <1>9, KeysOrder
<1> QED
  BY <1>1, <1>2, <1>10

\* A plan is of what was found.
LEMMA SelectedFound ==
    ASSUME SlotsSound, ListsSound, NEW v \in Range(Viewers), NEW mode
    PROVE  Selected(v, mode) \in Seq(Handle) /\ ToSet(Selected(v, mode)) \subseteq Found(v)
<1>1. PICK S : S = Found(v)
  OBVIOUS
<1>2. PICK R : R = Preference(v, mode)
  OBVIOUS
<1>3. S \subseteq Handle /\ IsFiniteSet(S)
  <2>1. S \in SUBSET Handle
    BY <1>1 DEF Found
  <2> QED
    BY <2>1, HandlesFinite, FS_Subset
<1>4. Orders(R, S)
  BY <1>1, <1>2, PrioritizedOrder, ThroughputOrder
<1>5. Sorted(S, R) \in Seq(S) /\ Len(Sorted(S, R)) = Cardinality(S) /\ Cardinality(S) \in Nat
  BY <1>3, <1>4, SortedLists, FS_CardinalityType
<1>6. PICK list \in Seq(S) : list = Sorted(S, R)
  BY <1>5
<1>7. PICK n : n = Min({v.max_entities, BudgetEntities, Cardinality(S)})
  OBVIOUS
<1>8. n \in Nat /\ n <= Len(list)
  <2>1. PICK K : K = {v.max_entities, BudgetEntities, Cardinality(S)}
    OBVIOUS
  <2>2. K \subseteq Nat /\ K # {} /\ Len(list) \in K
    BY <1>5, <1>6, <2>1, ReplicationAssumption, ViewerAssumption
  <2> QED
    BY <1>7, <2>1, <2>2, LeastNumber
<1>9. SubSeq(list, 1, n) \in Seq(S)
  <2>1. \A i \in 1 .. n : list[i] \in S
    BY <1>8
  <2> QED
    BY <1>8, <2>1, SubSeqProperties
<1>10. Selected(v, mode) = SubSeq(list, 1, n)
  BY <1>1, <1>2, <1>6, <1>7 DEF Selected
<1>11. ToSet(Selected(v, mode)) \subseteq S
  BY <1>9, <1>10, ElementsOf
<1>12. Selected(v, mode) \in Seq(Handle)
  BY <1>3, <1>9, <1>10, SeqMonotonic
<1> QED
  BY <1>1, <1>11, <1>12


-----------------------------------------------------------------------------
(* Replication: planning. *)

LEMMA ViewersListed ==
    /\ Len(Viewers) \in Nat /\ DOMAIN Viewers = 1 .. Len(Viewers)
    /\ \A i \in 1 .. Len(Viewers) : Viewers[i] \in Range(Viewers)
    /\ \A v \in Range(Viewers) : v.client \in Client
<1>1. PICK S : S = Range(Viewers)
  OBVIOUS
<1>2. Viewers \in Seq(S)
  BY <1>1, ViewerAssumption
<1>3. Len(Viewers) \in Nat /\ DOMAIN Viewers = 1 .. Len(Viewers)
  BY <1>2
<1>4. \A i \in 1 .. Len(Viewers) : Viewers[i] \in S
  BY <1>2
<1>5. \A v \in Range(Viewers) : v.client \in Client
  BY DEF Range, Client
<1> QED
  BY <1>1, <1>3, <1>4, <1>5

\* The plan of a viewer means what it names, and that is due.
LEMMA PlanMade ==
    ASSUME SlotsSound, ListsSound, TrackerSound,
           NEW v \in Range(Viewers), NEW mode, NEW plan,
           plan = [client |-> v.client, entities |-> Selected(v, mode),
                   ids |-> {RecordOf(h).id : h \in ToSet(Selected(v, mode))}]
    PROVE  /\ plan \in Plan /\ plan.client = v.client
           /\ \A h \in ToSet(plan.entities) : Meant(h, plan.ids) /\ DueTo(plan.client, h)
<1>1. PICK list : list = Selected(v, mode)
  OBVIOUS
<1>2. list \in Seq(Handle) /\ ToSet(list) \subseteq Found(v)
  BY <1>1, SelectedFound
<1>3. PICK ids : ids = {RecordOf(h).id : h \in ToSet(list)}
  OBVIOUS
<1>4. plan = [client |-> v.client, entities |-> list, ids |-> ids]
  BY <1>1, <1>3
<1>5. ASSUME NEW h \in ToSet(list)
      PROVE  RecordOf(h).id \in Entities /\ Meant(h, ids) /\ DueTo(v.client, h)
  <2>1. /\ Selectable(v, h) /\ h.generation \in Nat /\ records[h.index] \in EntityRecord
        /\ RecordOf(h).position \in Positions
    BY <1>2, FoundPlaced
  <2>2. RecordOf(h).id \in Entities
    <3>1. PICK r \in EntityRecord : r = records[h.index]
      BY <2>1
    <3> QED
      BY <3>1 DEF RecordOf, EntityRecord
  <2>3. Meant(h, ids)
    <3>1. Resolves(h) /\ RecordOf(h).id \in ids
      BY <1>3, <2>1 DEF Selectable
    <3>2. h.generation <= h.generation
      BY <2>1
    <3> QED
      BY <3>1, <3>2 DEF Meant, Resolves, RecordOf
  <2>4. DueTo(v.client, h)
    <3>1. PICK p \in Positions : p = RecordOf(h).position
      BY <2>1
    <3>2. PICK ticks : ticks = IntervalTicks(Distance(p, v.position))
      OBVIOUS
    <3>3. PICK least : least = ShortestInterval(v.client)
      OBVIOUS
    <3>4. least <= ticks /\ least \in Nat /\ ticks \in Nat
      BY <3>2, <3>3, ShortestIsLeast
    <3>5. <<v.client, h>> \in DOMAIN tracker => tracker[<<v.client, h>>] \in Nat
      BY DEF TrackerSound
    <3>6. <<v.client, h>> \in DOMAIN tracker => tracker[<<v.client, h>>] >= ticks
      BY <2>1, <3>1, <3>2 DEF Selectable, ShouldSend
    <3> QED
      BY <3>3, <3>4, <3>5, <3>6 DEF DueTo
  <2> QED
    BY <2>2, <2>3, <2>4
<1>6. ids \subseteq Entities
  BY <1>3, <1>5
<1>7. plan \in Plan
  <2>1. v.client \in Client
    BY ViewersListed
  <2> QED
    BY <1>2, <1>4, <1>6, <2>1 DEF Plan
<1>8. plan.client = v.client /\ plan.entities = list /\ plan.ids = ids
  BY <1>4
<1> QED
  BY <1>5, <1>7, <1>8

LEMMA PlanBatchStep ==
    ASSUME ReplicationInv, NEW mode, PlanBatch(mode)
    PROVE  ReplicationInv'
<1>1. /\ planned' = TRUE /\ frame' = NoFrame
      /\ UNCHANGED <<size, records, generations, free, by_id, entity_cells, cells, dirty, tracker>>
  BY DEF PlanBatch, worldVars, stationVars
<1>2. SlotsSound' /\ ListsSound' /\ TrackerSound'
  BY <1>1 DEF ReplicationInv, SlotsSound, StationTypeOK, FreeStackExact, ListsSound, TrackerSound
<1>3. PICK N \in Nat :
         /\ N = Len(Viewers) /\ DOMAIN Viewers = 1 .. N
         /\ \A i \in 1 .. N : Viewers[i] \in Range(Viewers)
  BY ViewersListed
<1>4. ASSUME NEW i \in 1 .. N
      PROVE  /\ batch'[i] \in Plan /\ batch'[i].client = Viewers[i].client
             /\ \A h \in ToSet(batch'[i].entities) :
                   Meant(h, batch'[i].ids) /\ DueTo(batch'[i].client, h)
  <2>1. PICK v \in Range(Viewers) : v = Viewers[i]
    BY <1>3
  <2>2. PICK plan : plan = batch'[i]
    OBVIOUS
  <2>3. plan = [client |-> v.client, entities |-> Selected(v, mode),
                ids |-> {RecordOf(h).id : h \in ToSet(Selected(v, mode))}]
    BY <1>3, <2>1, <2>2 DEF PlanBatch
  <2>4. /\ plan \in Plan /\ plan.client = v.client
        /\ \A h \in ToSet(plan.entities) : Meant(h, plan.ids) /\ DueTo(plan.client, h)
    BY <2>3, PlanMade DEF ReplicationInv
  <2> QED
    BY <2>1, <2>2, <2>4
<1>5. batch' \in Seq(Plan) /\ Len(batch') = N
  <2>1. DOMAIN batch' = 1 .. N /\ batch' = [i \in 1 .. N |-> batch'[i]]
    BY <1>3 DEF PlanBatch
  <2>2. batch' \in [1 .. N -> Plan]
    BY <1>4, <2>1
  <2> QED
    BY <2>2, IsASeq
<1>6. BatchTypes'
  BY <1>1, <1>5 DEF BatchTypes
<1>7. PlansCurrent'
  BY <1>1, <1>4, <1>5 DEF PlansCurrent, Meant
<1>8. PlansDue'
  BY <1>1, <1>4, <1>5 DEF PlansDue, DueTo
<1>9. PlansApart'
  BY <1>3, <1>4, <1>5, ViewerAssumption DEF PlansApart
<1> QED
  BY <1>2, <1>6, <1>7, <1>8, <1>9 DEF ReplicationInv

-----------------------------------------------------------------------------
(* Replication: sending. *)

\* What can be written of a plan are entities it was made for.
LEMMA EncodableKnown ==
    ASSUME ReplicationInv, batch # <<>>, NEW i \in 1 .. Len(Encodable(Head(batch)))
    PROVE  RecordOf(Encodable(Head(batch))[i]).id \in Entities \cap Head(batch).ids
<1>1. 1 \in 1 .. Len(batch) /\ Head(batch) = batch[1]
  BY DEF ReplicationInv, BatchTypes
<1>2. PICK plan : plan = batch[1]
  OBVIOUS
<1>3. plan.entities \in Seq(Handle)
  BY <1>1, <1>2, PlanHandles DEF ReplicationInv
<1>4. PICK list \in Seq(Handle) : list = plan.entities
  BY <1>3
<1>5. PICK written : written = {k \in DOMAIN list : Resolves(list[k]) /\ list[k] \in dirty}
  OBVIOUS
<1>6. written \in SUBSET (1 .. Len(list)) /\ \A k \in written : Resolves(list[k])
  BY <1>4, <1>5
<1>7. Encodable(Head(batch)) = Picked(list, written)
  BY <1>1, <1>2, <1>4, <1>5 DEF Encodable
<1>8. /\ Picked(list, written) \in Seq(Handle)
      /\ ToSet(Picked(list, written)) = {list[k] : k \in written}
  <2> DEFINE R == Handle \X Handle
  <2>1. Chained(list, R)
    BY AllRelated
  <2> HIDE DEF R
  <2> QED
    BY <1>6, <2>1, ChainPicked
<1>9. PICK h : h = Encodable(Head(batch))[i]
  OBVIOUS
<1>10. h \in ToSet(Picked(list, written))
  BY <1>7, <1>8, <1>9, ElementsOf
<1>11. PICK k \in written : h = list[k]
  BY <1>8, <1>10
<1>12. Resolves(h) /\ h \in ToSet(list) /\ h \in Handle
  BY <1>4, <1>6, <1>11, ElementsOf
<1>13. Meant(h, plan.ids)
  BY <1>1, <1>2, <1>4, <1>12 DEF ReplicationInv, PlansCurrent
<1>14. RecordOf(h).id \in plan.ids
  BY <1>12, <1>13 DEF Meant, Resolves, RecordOf
<1>15. plan.ids \subseteq Entities
  <2>1. plan \in Plan
    BY <1>1, <1>2, PlanHandles DEF ReplicationInv
  <2> QED
    BY <2>1 DEF Plan
<1> QED
  BY <1>1, <1>2, <1>9, <1>14, <1>15

\* Recording a plan keeps the tracker within its limit, and other clients'
\* records as they are.
LEMMA RecordedSound ==
    ASSUME TrackerSound, NEW plan, plan.client \in Client, ToSet(plan.entities) \subseteq Handle,
           tracker' = Recorded(plan)
    PROVE  /\ TrackerSound'
           /\ \A c, h : c # plan.client /\ DueTo(c, h) => DueTo(c, h)'
<1> DEFINE pairs == {plan.client} \X ToSet(plan.entities)
           known == DOMAIN tracker
<1>1. pairs \subseteq Client \X Handle /\ IsFiniteSet(pairs)
  <2>1. ToSet(plan.entities) \in SUBSET Handle
    OBVIOUS
  <2>2. IsFiniteSet(ToSet(plan.entities)) /\ IsFiniteSet({plan.client})
    BY <2>1, HandlesFinite, FS_Subset, FS_Singleton
  <2>3. IsFiniteSet(pairs)
    BY <2>2, FS_Product
  <2> QED
    BY <2>3
<1>2. CASE ~HasCapacityFor(pairs)
  <2>1. tracker' = tracker
    BY <1>2 DEF Recorded
  <2> QED
    BY <2>1 DEF TrackerSound, DueTo
<1>3. CASE HasCapacityFor(pairs)
  <2>1. tracker' = [pair \in known \cup pairs |-> IF pair \in pairs THEN 0 ELSE tracker[pair]]
    BY <1>3 DEF Recorded
  <2>2. /\ IsFiniteSet(known) /\ known \subseteq Client \X Handle
        /\ \A pair \in known : tracker[pair] \in 0 .. LongestInterval
        /\ Cardinality(known) + Cardinality(pairs \ known) <= MaxEntries
    BY <1>3 DEF TrackerSound, HasCapacityFor
  <2>3. \A c, h : c # plan.client => <<c, h>> \notin pairs
    OBVIOUS
  <2> HIDE DEF pairs, known
  <2>4. DOMAIN tracker' = known \cup pairs
    BY <2>1
  <2>5. 0 \in 0 .. LongestInterval
    <3>1. InterestRadius \in Nat
      BY ReplicationAssumption
    <3>2. LongestInterval \in Nat
      BY <3>1, Frequencies DEF LongestInterval
    <3> QED
      BY <3>2
  <2>6. \A pair \in known \cup pairs : tracker'[pair] \in 0 .. LongestInterval
    BY <2>1, <2>2, <2>5
  <2>7. IsFiniteSet(known \cup pairs) /\ Cardinality(known \cup pairs) <= MaxEntries
    <3>1. PICK more : more = pairs \ known
      OBVIOUS
    <3>2. IsFiniteSet(more) /\ more \cup known = pairs \cup known /\ more \cap known = {}
      BY <1>1, <3>1, FS_Difference
    <3>3. /\ IsFiniteSet(known \cup more)
          /\ Cardinality(known \cup more) =
                Cardinality(known) + Cardinality(more) - Cardinality(known \cap more)
      BY <2>2, <3>2, FS_Union
    <3>4. known \cup more = known \cup pairs /\ known \cap more = {}
      BY <3>2
    <3>5. Cardinality(known \cap more) = 0
      BY <3>4, FS_EmptySet
    <3>6. Cardinality(known) \in Nat /\ Cardinality(more) \in Nat
      BY <2>2, <3>2, FS_CardinalityType
    <3>7. Cardinality(known \cup more) = Cardinality(known) + Cardinality(more)
      BY <3>3, <3>5, <3>6
    <3>8. Cardinality(known \cup more) <= MaxEntries
      BY <2>2, <3>1, <3>7
    <3> QED
      BY <3>3, <3>4, <3>8
  <2>8. TrackerSound'
    BY <1>1, <2>2, <2>4, <2>6, <2>7 DEF TrackerSound, LongestInterval, IntervalTicks, TargetHz
  <2>9. \A c, h : c # plan.client /\ DueTo(c, h) => DueTo(c, h)'
    BY <2>1, <2>3, <2>4 DEF DueTo, known, ShortestInterval
  <2> QED
    BY <2>8, <2>9
<1> QED
  BY <1>2, <1>3

LEMMA SendStep ==
    ASSUME ReplicationInv, NEW n \in 0 .. BudgetEntities, SendPlan(n)
    PROVE  /\ ReplicationInv'
           /\ n # 0 => /\ frame'.client = Head(batch).client
                       /\ frame'.entities \subseteq Head(batch).ids
<1>1. /\ batch # <<>> /\ n <= Len(Encodable(Head(batch))) /\ batch' = Tail(batch)
      /\ UNCHANGED <<size, records, generations, free, by_id, entity_cells, cells, dirty, planned>>
  BY DEF SendPlan, worldVars, stationVars
<1>2. SlotsSound' /\ ListsSound'
  BY <1>1 DEF ReplicationInv, SlotsSound, StationTypeOK, FreeStackExact, ListsSound
<1>3. PICK plan : plan = Head(batch)
  OBVIOUS
<1>4. /\ 1 \in 1 .. Len(batch) /\ plan = batch[1] /\ Len(batch) \in Nat
      /\ Tail(batch) \in Seq(Plan) /\ Len(Tail(batch)) = Len(batch) - 1
      /\ \A i \in 1 .. Len(Tail(batch)) : Tail(batch)[i] = batch[i + 1]
  BY <1>1, <1>3, HeadTailProperties DEF ReplicationInv, BatchTypes
<1>5. \A i \in 1 .. Len(batch') : batch'[i] = batch[i + 1] /\ i + 1 \in 1 .. Len(batch)
  BY <1>1, <1>4
<1>6. plan.client \in Client /\ ToSet(plan.entities) \subseteq Handle
  BY <1>4, PlanHandles DEF ReplicationInv
<1>7. \/ n = 0 /\ frame' = NoFrame /\ tracker' = tracker
      \/ /\ n # 0 /\ frame'.client = plan.client /\ frame'.entities \subseteq plan.ids
         /\ frame' \in Frame /\ tracker' = Recorded(plan)
  <2>1. CASE n = 0
    BY <2>1 DEF SendPlan
  <2>2. CASE n # 0
    <3>1. PICK ids : ids = {RecordOf(Encodable(Head(batch))[i]).id : i \in 1 .. n}
      OBVIOUS
    <3>2. frame' = [client |-> plan.client, entities |-> ids] /\ tracker' = Recorded(plan)
      BY <1>3, <2>2, <3>1 DEF SendPlan
    <3>3. ids \subseteq Entities \cap plan.ids
      <4> SUFFICES ASSUME NEW i \in 1 .. n
                   PROVE  RecordOf(Encodable(Head(batch))[i]).id \in Entities \cap plan.ids
        BY <3>1
      <4>1. i \in 1 .. Len(Encodable(Head(batch)))
        <5>1. PICK places : places = Len(Encodable(Head(batch)))
          OBVIOUS
        <5>2. n <= places
          BY <1>1, <5>1
        <5> QED
          BY <5>1, <5>2
      <4> QED
        BY <1>1, <1>3, <4>1, EncodableKnown
    <3> QED
      BY <1>6, <2>2, <3>2, <3>3 DEF Frame
  <2> QED
    BY <2>1, <2>2
<1>8. TrackerSound' /\ \A c, h : c # plan.client /\ DueTo(c, h) => DueTo(c, h)'
  <2>1. CASE tracker' = tracker
    BY <2>1 DEF ReplicationInv, TrackerSound, DueTo
  <2>2. CASE tracker' = Recorded(plan)
    BY <1>6, <2>2, RecordedSound DEF ReplicationInv
  <2> QED
    BY <1>7, <2>1, <2>2
<1>9. BatchTypes'
  BY <1>1, <1>4, <1>7 DEF ReplicationInv, BatchTypes
<1>10. PlansCurrent'
  BY <1>1, <1>5 DEF ReplicationInv, PlansCurrent, Meant
<1>11. PlansDue'
  <2> SUFFICES ASSUME NEW i \in 1 .. Len(batch'), NEW h \in ToSet(batch'[i].entities)
               PROVE  DueTo(batch[i].client, h)'
    BY DEF PlansDue
  <2>1. PICK c : c = batch[i + 1].client
    OBVIOUS
  <2>2. i + 1 \in 1 .. Len(batch) /\ i + 1 # 1 /\ batch'[i] = batch[i + 1]
    BY <1>4, <1>5
  <2>3. c # plan.client
    BY <1>4, <2>1, <2>2 DEF ReplicationInv, PlansApart
  <2>4. DueTo(c, h)
    BY <2>1, <2>2 DEF ReplicationInv, PlansDue
  <2>5. DueTo(c, h)'
    BY <1>8, <2>3, <2>4
  <2> QED
    BY <2>1, <2>2, <2>5 DEF DueTo
<1>12. PlansApart'
  BY <1>4, <1>5 DEF ReplicationInv, PlansApart
<1> QED
  BY <1>2, <1>7, <1>3, <1>8, <1>9, <1>10, <1>11, <1>12 DEF ReplicationInv

-----------------------------------------------------------------------------
(* Replication: the tick and the upkeep of the tracker. *)

LEMMA SendFailsStep ==
    ASSUME ReplicationInv, SendFails
    PROVE  ReplicationInv'
<1>1. /\ batch' = <<>> /\ frame' = NoFrame
      /\ UNCHANGED <<size, records, generations, free, by_id, entity_cells, cells, dirty,
                     tracker, planned>>
  BY DEF SendFails, worldVars, stationVars
<1>2. SlotsSound' /\ ListsSound' /\ TrackerSound'
  BY <1>1 DEF ReplicationInv, SlotsSound, StationTypeOK, FreeStackExact, ListsSound, TrackerSound
<1>3. BatchTypes'
  BY <1>1 DEF ReplicationInv, BatchTypes
<1>4. PlansCurrent' /\ PlansDue' /\ PlansApart'
  BY <1>1 DEF PlansCurrent, PlansDue, PlansApart
<1> QED
  BY <1>2, <1>3, <1>4 DEF ReplicationInv

LEMMA TickStep ==
    ASSUME ReplicationInv, ReplicationTick
    PROVE  ReplicationInv'
<1>1. /\ batch = <<>> /\ batch' = batch /\ planned' = FALSE /\ frame' = NoFrame
      /\ tracker' = [pair \in DOMAIN tracker |-> Min({tracker[pair] + 1, LongestInterval})]
      /\ UNCHANGED <<size, records, generations, free, by_id, entity_cells, cells, dirty>>
  BY DEF ReplicationTick, worldVars, stationVars
<1>2. SlotsSound' /\ ListsSound'
  BY <1>1 DEF ReplicationInv, SlotsSound, StationTypeOK, FreeStackExact, ListsSound
<1>3. PICK longest \in Nat : longest = LongestInterval
  <2>1. InterestRadius \in Nat
    BY ReplicationAssumption
  <2> QED
    BY <2>1, Frequencies DEF LongestInterval
<1>4. ASSUME NEW age \in Nat PROVE Min({age + 1, longest}) \in 0 .. longest
  <2>1. PICK K : K = {age + 1, longest}
    OBVIOUS
  <2>2. K \subseteq Nat /\ K # {} /\ longest \in K
    BY <2>1
  <2>3. Min(K) \in Nat /\ Min(K) <= longest
    BY <2>2, LeastNumber
  <2> QED
    BY <2>1, <2>3
<1>5. DOMAIN tracker' = DOMAIN tracker
  BY <1>1
<1>6. \A pair \in DOMAIN tracker' : tracker'[pair] \in 0 .. longest
  <2> SUFFICES ASSUME NEW pair \in DOMAIN tracker PROVE tracker'[pair] \in 0 .. longest
    BY <1>5
  <2>1. PICK age : age = tracker[pair]
    OBVIOUS
  <2>2. age \in Nat
    BY <1>3, <2>1 DEF ReplicationInv, TrackerSound
  <2>3. tracker'[pair] = Min({age + 1, longest})
    BY <1>1, <1>3, <2>1
  <2> QED
    BY <1>4, <2>2, <2>3
<1>7. TrackerSound'
  <2>1. LongestInterval' = longest
    BY <1>3 DEF LongestInterval, IntervalTicks, TargetHz
  <2> QED
    BY <1>5, <1>6, <2>1 DEF ReplicationInv, TrackerSound
<1>8. BatchTypes'
  BY <1>1 DEF ReplicationInv, BatchTypes
<1>9. PlansCurrent' /\ PlansDue' /\ PlansApart'
  BY <1>1 DEF PlansCurrent, PlansDue, PlansApart
<1> QED
  BY <1>2, <1>7, <1>8, <1>9 DEF ReplicationInv

LEMMA KeepStep ==
    ASSUME ReplicationInv, NEW pairs \in SUBSET DOMAIN tracker, Keep(pairs)
    PROVE  ReplicationInv'
<1>1. /\ tracker' = [pair \in pairs |-> tracker[pair]] /\ frame' = NoFrame
      /\ UNCHANGED <<size, records, generations, free, by_id, entity_cells, cells, dirty,
                     batch, planned>>
  BY DEF Keep, worldVars, stationVars
<1>2. SlotsSound' /\ ListsSound'
  BY <1>1 DEF ReplicationInv, SlotsSound, StationTypeOK, FreeStackExact, ListsSound
<1>3. DOMAIN tracker' = pairs /\ \A pair \in pairs : tracker'[pair] = tracker[pair]
  BY <1>1
<1>4. TrackerSound'
  <2>1. IsFiniteSet(pairs) /\ Cardinality(pairs) <= Cardinality(DOMAIN tracker)
    BY FS_Subset DEF ReplicationInv, TrackerSound
  <2>2. Cardinality(DOMAIN tracker) \in Nat /\ Cardinality(pairs) \in Nat
    BY <2>1, FS_CardinalityType DEF ReplicationInv, TrackerSound
  <2>3. Cardinality(pairs) <= MaxEntries
    BY <2>1, <2>2, ReplicationAssumption DEF ReplicationInv, TrackerSound
  <2> QED
    BY <1>3, <2>1, <2>3 DEF ReplicationInv, TrackerSound, LongestInterval, IntervalTicks, TargetHz
<1>5. BatchTypes'
  BY <1>1 DEF ReplicationInv, BatchTypes
<1>6. PlansCurrent' /\ PlansApart'
  BY <1>1 DEF ReplicationInv, PlansCurrent, PlansApart, Meant
<1>7. PlansDue'
  BY <1>1, <1>3 DEF ReplicationInv, PlansDue, DueTo, ShortestInterval
<1> QED
  BY <1>2, <1>4, <1>5, <1>6, <1>7 DEF ReplicationInv

-----------------------------------------------------------------------------
(* Replication: what it promises. *)

LEMMA InitialReplication == ReplicationInit => ReplicationInv
<1> SUFFICES ASSUME ReplicationInit PROVE ReplicationInv
  OBVIOUS
<1>1. /\ size = 0 /\ records = [i \in Index |-> NoRecord] /\ generations = [i \in Index |-> 0]
      /\ free = <<>> /\ by_id = [e \in Entities |-> NoHandle]
      /\ entity_cells = [h \in Handle |-> {}] /\ cells = [c \in Cells |-> <<>>]
      /\ dirty = {} /\ tracker = <<>> /\ batch = <<>> /\ planned = FALSE /\ frame = NoFrame
  BY DEF ReplicationInit, StationInit, IndexInit
<1>2. SlotsSound
  BY <1>1, StationAssumption DEF SlotsSound, StationTypeOK, FreeStackExact, Generation
<1>3. ListsSound
  BY <1>1 DEF ListsSound, IndexMaps, Distinct, ToSet
<1>4. TrackerSound
  <2>1. DOMAIN tracker = {}
    BY <1>1
  <2>2. IsFiniteSet(DOMAIN tracker) /\ Cardinality(DOMAIN tracker) = 0
    BY <2>1, FS_EmptySet
  <2>3. 0 <= MaxEntries
    BY ReplicationAssumption
  <2> QED
    BY <2>1, <2>2, <2>3 DEF TrackerSound
<1>5. BatchTypes
  <2>1. batch \in Seq(Plan)
    BY <1>1, EmptySeq
  <2>2. planned \in BOOLEAN /\ frame \in {NoFrame}
    BY <1>1
  <2> QED
    BY <2>1, <2>2 DEF BatchTypes
<1>6. PlansCurrent /\ PlansDue /\ PlansApart
  BY <1>1 DEF PlansCurrent, PlansDue, PlansApart
<1> QED
  BY <1>2, <1>3, <1>4, <1>5, <1>6 DEF ReplicationInv

\* Only a send that writes something leaves a frame.
Shown ==
    frame' # NoFrame =>
       batch # <<>> /\ frame'.client = Head(batch).client /\ frame'.entities \subseteq Head(batch).ids

LEMMA ReplicationStep ==
    ReplicationInv /\ ReplicationNext => ReplicationInv' /\ Shown
<1> SUFFICES ASSUME ReplicationInv, ReplicationNext PROVE ReplicationInv' /\ Shown
  OBVIOUS
<1>0. SlotsSound /\ ListsSound
  BY DEF ReplicationInv
<1>1. ASSUME NEW e \in Entities, NEW p \in Positions, Spawn(e, p) PROVE ReplicationInv' /\ Shown
  <2>1. Unsent
    BY <1>1 DEF Spawn
  <2>2. WorldKept
    BY <1>0, <1>1, SpawnKeepsWorld
  <2> QED
    BY <2>1, <2>2, WorldStep DEF Shown, Unsent
<1>2. ASSUME NEW h \in Handle, NEW p \in Positions, Move(h, p) PROVE ReplicationInv' /\ Shown
  <2>1. Unsent
    BY <1>2 DEF Move
  <2>2. WorldKept
    BY <1>0, <1>2, MoveKeepsWorld
  <2> QED
    BY <2>1, <2>2, WorldStep DEF Shown, Unsent
<1>3. ASSUME NEW h \in Handle, Despawn(h) PROVE ReplicationInv' /\ Shown
  <2>1. Unsent
    BY <1>3 DEF Despawn
  <2>2. WorldKept
    BY <1>0, <1>3, DespawnKeepsWorld
  <2> QED
    BY <2>1, <2>2, WorldStep DEF Shown, Unsent
<1>4. ASSUME NEW h \in Handle, ClearDirtyForEntity(h) PROVE ReplicationInv' /\ Shown
  <2>1. Unsent
    BY <1>4 DEF ClearDirtyForEntity
  <2>2. WorldKept
    BY <1>0, <1>4, ClearKeepsWorld
  <2> QED
    BY <2>1, <2>2, WorldStep DEF Shown, Unsent
<1>5. ASSUME NEW mode \in Modes, PlanBatch(mode) PROVE ReplicationInv' /\ Shown
  BY <1>5, PlanBatchStep DEF PlanBatch, Shown
<1>6. ASSUME NEW n \in 0 .. BudgetEntities, SendPlan(n) PROVE ReplicationInv' /\ Shown
  <2>1. ReplicationInv' /\ (n # 0 => /\ frame'.client = Head(batch).client
                                     /\ frame'.entities \subseteq Head(batch).ids)
    BY <1>6, SendStep
  <2>2. batch # <<>> /\ (n = 0 => frame' = NoFrame)
    BY <1>6 DEF SendPlan
  <2> QED
    BY <2>1, <2>2 DEF Shown
<1>7. CASE SendFails
  BY <1>7, SendFailsStep DEF SendFails, Shown
<1>8. CASE ReplicationTick
  BY <1>8, TickStep DEF ReplicationTick, Shown
<1>9. CASE PruneSentBefore
  <2>1. PICK pairs \in SUBSET DOMAIN tracker : Keep(pairs)
    BY <1>9 DEF PruneSentBefore
  <2> QED
    BY <2>1, KeepStep DEF Keep, Shown
<1>10. ASSUME NEW c \in Client, ClearClient(c) PROVE ReplicationInv' /\ Shown
  <2>1. PICK pairs \in SUBSET DOMAIN tracker : Keep(pairs)
    BY <1>10 DEF ClearClient
  <2> QED
    BY <2>1, KeepStep DEF Keep, Shown
<1> QED
  BY <1>1, <1>2, <1>3, <1>4, <1>5, <1>6, <1>7, <1>8, <1>9, <1>10 DEF ReplicationNext

LEMMA ReplicationStutters ==
    ReplicationInv /\ UNCHANGED replicationVars => ReplicationInv'
<1> SUFFICES ASSUME ReplicationInv, UNCHANGED replicationVars PROVE ReplicationInv'
  OBVIOUS
<1>1. UNCHANGED <<size, records, generations, free, by_id, entity_cells, cells, dirty,
                  tracker, batch, planned, frame>>
  BY DEF replicationVars, worldVars, stationVars
<1>2. SlotsSound' /\ ListsSound' /\ TrackerSound'
  BY <1>1 DEF ReplicationInv, SlotsSound, StationTypeOK, FreeStackExact, ListsSound, TrackerSound
<1>3. BatchTypes' /\ PlansCurrent' /\ PlansDue' /\ PlansApart'
  BY <1>1 DEF ReplicationInv, BatchTypes, PlansCurrent, PlansDue, PlansApart, Meant, DueTo
<1> QED
  BY <1>2, <1>3 DEF ReplicationInv

LEMMA ReplicationInvTypes == ReplicationInv => ReplicationTypeOK
<1> SUFFICES ASSUME ReplicationInv PROVE ReplicationTypeOK
  OBVIOUS
<1>1. StationTypeOK /\ IndexTypeOK /\ dirty \subseteq Handle
  BY DEF ReplicationInv, SlotsSound, ListsSound, IndexMaps, IndexTypeOK
<1> QED
  BY <1>1 DEF ReplicationInv, TrackerSound, BatchTypes, ReplicationTypeOK

\* A frame shows its client only entities that were selected for it, whatever
\* took their slots between the plan and its encoding, and the tracker stays
\* within max_entries: generations tell a planned handle from its slot's next
\* occupant.
THEOREM FrameShowsPlannedHolds == ReplicationSpec => FrameShowsPlanned
<1>1. ReplicationInv /\ [ReplicationNext]_replicationVars => ReplicationInv'
  BY ReplicationStep, ReplicationStutters
<1>2. ReplicationInv /\ [ReplicationNext]_replicationVars =>
        [frame' # NoFrame => /\ frame'.client = Head(batch).client
                             /\ frame'.entities \subseteq Head(batch).ids]_replicationVars
  BY ReplicationStep DEF Shown
<1> QED
  BY <1>1, <1>2, InitialReplication, ReplicationInvTypes, PTL DEF ReplicationSpec, FrameShowsPlanned

\* What is sent to a client was due to it at the shortest interval it can have
\* there, although plans wait, fail or are cut off between the look at the
\* tracker and the send: no other plan of the batch is the client's.
THEOREM CadenceKeptHolds == ReplicationSpec => CadenceKept
<1>1. ReplicationInv /\ [ReplicationNext]_replicationVars => ReplicationInv'
  BY ReplicationStep, ReplicationStutters
<1>2. ReplicationInv /\ [ReplicationNext]_replicationVars =>
        [frame' # NoFrame =>
          \A h \in ToSet(Head(batch).entities) :
             /\ Resolves(h)
             /\ RecordOf(h).id \in frame'.entities
             /\ <<frame'.client, h>> \in DOMAIN tracker
             => tracker[<<frame'.client, h>>] >= ShortestInterval(frame'.client)]_replicationVars
  <2> SUFFICES ASSUME ReplicationInv, ReplicationNext, frame' # NoFrame,
                      NEW h \in ToSet(Head(batch).entities),
                      <<frame'.client, h>> \in DOMAIN tracker
               PROVE  tracker[<<frame'.client, h>>] >= ShortestInterval(frame'.client)
    OBVIOUS
  <2>1. batch # <<>> /\ frame'.client = Head(batch).client
    BY ReplicationStep DEF Shown
  <2>2. 1 \in 1 .. Len(batch) /\ Head(batch) = batch[1]
    BY <2>1 DEF ReplicationInv, BatchTypes
  <2>3. DueTo(batch[1].client, h)
    BY <2>2 DEF ReplicationInv, PlansDue
  <2> QED
    BY <2>1, <2>2, <2>3 DEF DueTo
<1> QED
  BY <1>1, <1>2, InitialReplication, PTL DEF ReplicationSpec, CadenceKept
-----------------------------------------------------------------------------
(* Batches of plans: the slot of a batch. *)

QueryCacheIndex == UNION {[K -> Nat] : K \in SUBSET QueryRanges}
Answers == Seq(BatchHandles)
BatchStats == [viewers : Nat, unique : Nat, reused : Nat]
Slot == [plans : Seq(Answers), active_plans : Nat, stats : BatchStats,
         query_cache_index : QueryCacheIndex, query_cache : Seq(Answers),
         active_query_cache : Nat]

\* The ranges of the first n viewers.
RangesOf(viewers, n) == {viewers[i].range : i \in 1 .. n}

\* What a viewer gets by itself.
AloneOf(viewer, station) == PlanOf(viewer, index[station][viewer.range])

\* The cached ranges of a slot are those of the station.
CacheSound(s, station) ==
    /\ s.active_query_cache <= Len(s.query_cache)
    /\ \A key \in DOMAIN s.query_cache_index :
          /\ s.query_cache_index[key] \in 1 .. s.active_query_cache
          /\ s.query_cache[s.query_cache_index[key]] = index[station][key]

\* A slot while a batch of n viewers of the station is planned into it.
Planning(s, station, n) == s \in Slot /\ CacheSound(s, station) /\ n <= Len(s.plans)

\* A slot into which the batch has been planned.
SlotPlanned(s, given) ==
    /\ s.active_plans = Len(given.viewers) /\ Len(given.viewers) <= Len(s.plans)
    /\ \A i \in 1 .. Len(given.viewers) : s.plans[i] = AloneOf(given.viewers[i], given.station)
    /\ s.stats.viewers = Len(given.viewers)
    /\ s.stats.reused + s.stats.unique <= Len(given.viewers)

LEMMA Larger ==
    ASSUME NEW a \in Int, NEW b \in Int
    PROVE  Max({a, b}) \in {a, b} /\ Max({a, b}) >= a /\ Max({a, b}) >= b
<1>1. PICK x \in {a, b} : \A y \in {a, b} : x >= y
  <2>1. a >= b \/ b >= a
    OBVIOUS
  <2>2. a >= a /\ b >= b
    OBVIOUS
  <2> QED
    BY <2>1, <2>2
<1>2. Max({a, b}) \in {a, b} /\ \A y \in {a, b} : Max({a, b}) >= y
  BY <1>1 DEF Max
<1> QED
  BY <1>2

LEMMA Smaller ==
    ASSUME NEW a \in Nat, NEW b \in Nat
    PROVE  /\ Min({a, b}) \in Nat /\ Min({a, b}) \in {a, b}
           /\ Min({a, b}) <= a /\ Min({a, b}) <= b
<1>1. PICK K : K = {a, b}
  OBVIOUS
<1>2. K \subseteq Nat /\ K # {} /\ a \in K /\ b \in K
  BY <1>1
<1>3. Min(K) \in K /\ Min(K) <= a /\ Min(K) <= b
  BY <1>2, LeastNumber
<1> QED
  BY <1>1, <1>2, <1>3

\* Making room keeps what is there.
LEMMA ResizedSound ==
    ASSUME NEW S, NEW s \in Seq(S), NEW n \in Nat, NEW x \in S
    PROVE  /\ Resized(s, n, x) \in Seq(S)
           /\ Len(Resized(s, n, x)) >= n /\ Len(Resized(s, n, x)) >= Len(s)
           /\ \A i \in 1 .. Len(s) : Resized(s, n, x)[i] = s[i]
<1>1. PICK m : m = Max({n - Len(s), 0})
  OBVIOUS
<1>2. m \in Nat /\ m >= n - Len(s)
  <2>1. n - Len(s) \in Int /\ 0 \in Int
    OBVIOUS
  <2>2. PICK a \in Int, b \in Int : a = n - Len(s) /\ b = 0
    BY <2>1
  <2>3. m = Max({a, b})
    BY <1>1, <2>2
  <2>4. m \in {a, b} /\ m >= a /\ m >= b
    BY <2>3, Larger
  <2> QED
    BY <2>2, <2>4
<1>3. PICK t : t = [k \in 1 .. m |-> x]
  OBVIOUS
<1>4. t \in Seq(S) /\ Len(t) = m
  <2>1. t \in [1 .. m -> S]
    BY <1>3
  <2> QED
    BY <1>2, <2>1, IsASeq
<1>5. Resized(s, n, x) = s \o t
  BY <1>1, <1>3 DEF Resized
<1>6. /\ s \o t \in Seq(S) /\ Len(s \o t) = Len(s) + m
      /\ \A i \in 1 .. Len(s) + m : (s \o t)[i] = IF i <= Len(s) THEN s[i] ELSE t[i - Len(s)]
  BY <1>4, ConcatProperties
<1>7. Len(s) \in Nat /\ Len(s) + m >= n /\ Len(s) + m >= Len(s)
  BY <1>2
<1>8. \A i \in 1 .. Len(s) : (s \o t)[i] = s[i]
  BY <1>2, <1>6, <1>7
<1> QED
  BY <1>5, <1>6, <1>7, <1>8

\* What a viewer takes is a sequence of handles.
LEMMA PlanTyped ==
    ASSUME NEW v \in BatchViewers, NEW cs \in Answers
    PROVE  PlanOf(v, cs) \in Answers
<1>1. PICK K : K = {i \in DOMAIN cs : cs[i] \in v.wants}
  OBVIOUS
<1>2. K \in SUBSET (1 .. Len(cs))
  BY <1>1 DEF Answers
<1>3. PICK t : t = Picked(cs, K)
  OBVIOUS
<1>4. t \in Seq(BatchHandles)
  <2> DEFINE R == BatchHandles \X BatchHandles
  <2>1. Chained(cs, R)
    BY AllRelated DEF Answers
  <2> HIDE DEF R
  <2> QED
    BY <1>2, <1>3, <2>1, ChainPicked DEF Answers
<1>5. PICK n : n = Min({v.max_entities, Len(t)})
  OBVIOUS
<1>6. n \in Nat /\ n <= Len(t)
  <2>1. PICK a \in Nat, b \in Nat : a = v.max_entities /\ b = Len(t)
    BY <1>4, BatchAssumption
  <2> QED
    BY <1>5, <2>1, Smaller
<1>7. \A i \in 1 .. n : t[i] \in BatchHandles
  BY <1>4, <1>6
<1>8. SubSeq(t, 1, n) \in Seq(BatchHandles)
  BY <1>6, <1>7, SubSeqProperties
<1> QED
  BY <1>1, <1>3, <1>5, <1>8 DEF PlanOf, Answers

\* Ranges of a station have answers.
LEMMA Answered ==
    ASSUME index \in Worlds, NEW station \in BatchStations, NEW key \in QueryRanges
    PROVE  index[station][key] \in Answers
BY BatchAssumption DEF Answers

\* Caching one more range keeps the cache sound, and the plans.
LEMMA CachedSound ==
    ASSUME index \in Worlds, NEW station \in BatchStations, NEW n \in Nat,
           NEW s, Planning(s, station, n), NEW key \in QueryRanges,
           key \notin DOMAIN s.query_cache_index,
           NEW kept, kept = Cached(s, key, index[station][key])
    PROVE  /\ Planning(kept, station, n)
           /\ kept.plans = s.plans /\ kept.active_plans = s.active_plans /\ kept.stats = s.stats
           /\ DOMAIN kept.query_cache_index \subseteq DOMAIN s.query_cache_index \cup {key}
<1>1. CASE s.active_query_cache >= MaxCachedQueryRanges
  <2>1. kept = s
    BY <1>1 DEF Cached
  <2> QED
    BY <2>1
<1>2. CASE ~(s.active_query_cache >= MaxCachedQueryRanges)
  <2>0. s \in Slot /\ CacheSound(s, station) /\ n <= Len(s.plans)
    BY DEF Planning
  <2>1. PICK at \in Nat : at = s.active_query_cache + 1
    BY <2>0 DEF Slot
  <2>2. PICK cache \in Seq(Answers) : cache = s.query_cache
    BY <2>0 DEF Slot
  <2>3. PICK known \in QueryCacheIndex : known = s.query_cache_index
    BY <2>0 DEF Slot
  <2>4. PICK handles \in Answers : handles = index[station][key]
    BY Answered
  <2>5. PICK longer : longer = Resized(cache, at, <<>>)
    OBVIOUS
  <2>6. /\ longer \in Seq(Answers) /\ Len(longer) >= at /\ Len(longer) >= Len(cache)
        /\ \A i \in 1 .. Len(cache) : longer[i] = cache[i]
    <3>1. <<>> \in Answers
      BY EmptySeq DEF Answers
    <3>2. /\ Resized(cache, at, <<>>) \in Seq(Answers)
          /\ Len(Resized(cache, at, <<>>)) >= at /\ Len(Resized(cache, at, <<>>)) >= Len(cache)
          /\ \A i \in 1 .. Len(cache) : Resized(cache, at, <<>>)[i] = cache[i]
      BY ONLY <3>1, cache \in Seq(Answers), at \in Nat, ResizedSound
    <3> QED
      BY ONLY <2>5, <3>2
  <2>7. PICK next : next = [longer EXCEPT ![at] = handles]
    OBVIOUS
  <2>8. /\ next \in Seq(Answers) /\ Len(next) = Len(longer) /\ next[at] = handles
        /\ \A i \in 1 .. Len(cache) : i # at => next[i] = cache[i]
    <3>1. at \in 1 .. Len(longer)
      BY <2>0, <2>1, <2>6 DEF Slot
    <3>2. next \in Seq(Answers) /\ Len(next) = Len(longer)
      BY <2>4, <2>6, <2>7, <3>1
    <3> QED
      BY <2>6, <2>7, <3>1, <3>2
  <2>9. PICK more : more = [k \in DOMAIN known \cup {key} |-> IF k = key THEN at ELSE known[k]]
    OBVIOUS
  <2>10. more \in QueryCacheIndex
    <3>1. PICK K \in SUBSET QueryRanges : known \in [K -> Nat]
      BY DEF QueryCacheIndex
    <3>2. more \in [K \cup {key} -> Nat] /\ K \cup {key} \in SUBSET QueryRanges
      BY <2>9, <3>1
    <3> QED
      BY <3>2 DEF QueryCacheIndex
  <2>11. kept = [s EXCEPT !.query_cache = next, !.query_cache_index = more,
                          !.active_query_cache = at]
    BY <1>2, <2>1, <2>2, <2>3, <2>4, <2>5, <2>7, <2>9 DEF Cached
  <2>12. /\ kept \in Slot /\ kept.query_cache = next /\ kept.query_cache_index = more
         /\ kept.active_query_cache = at
         /\ kept.plans = s.plans /\ kept.active_plans = s.active_plans /\ kept.stats = s.stats
    BY <2>0, <2>8, <2>10, <2>11 DEF Slot
  <2>13. CacheSound(kept, station)
    <3>1. at <= Len(next)
      BY <2>6, <2>8
    <3>2. ASSUME NEW k \in DOMAIN more
          PROVE  more[k] \in 1 .. at /\ next[more[k]] = index[station][k]
      <4>1. CASE k = key
        <5>1. at \in 1 .. at
          BY <2>0, <2>1 DEF Slot
        <5> QED
          BY <2>4, <2>8, <2>9, <4>1, <5>1
      <4>2. CASE k # key
        <5>1. k \in DOMAIN known /\ more[k] = known[k]
          BY <2>9, <4>2
        <5>2. /\ s.active_query_cache <= Len(s.query_cache)
              /\ known[k] \in 1 .. s.active_query_cache /\ cache[known[k]] = index[station][k]
          BY <2>0, <2>2, <2>3, <5>1 DEF CacheSound
        <5>3. PICK i : i = known[k]
          OBVIOUS
        <5>4. i \in 1 .. Len(cache) /\ i # at /\ i \in 1 .. at
          BY <2>0, <2>1, <2>2, <5>2, <5>3 DEF Slot
        <5> QED
          BY <2>8, <5>1, <5>2, <5>3, <5>4
      <4> QED
        BY <4>1, <4>2
    <3> QED
      BY <2>12, <3>1, <3>2 DEF CacheSound
  <2>14. DOMAIN more \subseteq DOMAIN known \cup {key}
    BY <2>9
  <2> QED
    BY <2>0, <2>3, <2>12, <2>13, <2>14 DEF Planning
<1> QED
  BY <1>1, <1>2

\* One turn of the loop over the viewers: the plan the viewer gets alone.
LEMMA ViewerPlannedSound ==
    ASSUME index \in Worlds, NEW given \in Batch, NEW i \in 1 .. Len(given.viewers),
           NEW s, Planning(s, given.station, Len(given.viewers)),
           NEW t, t = ViewerPlanned(s, given, i)
    PROVE  /\ Planning(t, given.station, Len(given.viewers))
           /\ t.plans[i] = AloneOf(given.viewers[i], given.station)
           /\ \A j \in 1 .. Len(given.viewers) : j # i => t.plans[j] = s.plans[j]
           /\ t.active_plans = s.active_plans
           /\ t.stats.viewers = s.stats.viewers + 1 /\ t.stats.unique = s.stats.unique
           /\ \/ t.stats.reused = s.stats.reused
              \/ /\ t.stats.reused = s.stats.reused + 1
                 /\ given.viewers[i].range \in DOMAIN s.query_cache_index
           /\ DOMAIN t.query_cache_index
                 \subseteq DOMAIN s.query_cache_index \cup {given.viewers[i].range}
<1>1. PICK N \in Nat, viewers \in Seq(BatchViewers) :
         N = Len(given.viewers) /\ viewers = given.viewers
  BY DEF Batch
<1>2. PICK station \in BatchStations : station = given.station
  BY DEF Batch
<1>3. PICK viewer \in BatchViewers : viewer = viewers[i]
  BY <1>1
<1>4. PICK key \in QueryRanges : key = viewer.range
  BY BatchAssumption
<1>5. s \in Slot /\ CacheSound(s, station) /\ N <= Len(s.plans)
  BY <1>1, <1>2 DEF Planning
<1>6. PICK reuses \in BOOLEAN : reuses <=> key \in DOMAIN s.query_cache_index
  OBVIOUS
<1>7. PICK candidates : candidates = index[station][key]
  OBVIOUS
<1>8. candidates \in Answers
  BY <1>7, Answered
<1>9. reuses => s.query_cache[s.query_cache_index[key]] = candidates
  BY <1>5, <1>6, <1>7 DEF CacheSound
<1>10. PICK repeats \in BOOLEAN :
          repeats <=> \E j \in DOMAIN given.viewers : j # i /\ given.viewers[j].range = key
  OBVIOUS
<1>11. PICK kept : kept = IF ~reuses /\ repeats THEN Cached(s, key, candidates) ELSE s
  OBVIOUS
<1>12. /\ Planning(kept, station, N)
       /\ kept.plans = s.plans /\ kept.active_plans = s.active_plans /\ kept.stats = s.stats
       /\ DOMAIN kept.query_cache_index \subseteq DOMAIN s.query_cache_index \cup {key}
  <2>1. Planning(s, station, N)
    BY <1>1, <1>2
  <2>2. CASE ~reuses /\ repeats
    <3>1. kept = Cached(s, key, index[station][key]) /\ key \notin DOMAIN s.query_cache_index
      BY <1>6, <1>7, <1>11, <2>2
    <3> QED
      BY <2>1, <3>1, CachedSound
  <2>3. CASE ~(~reuses /\ repeats)
    BY <1>11, <2>1, <2>3
  <2> QED
    BY <2>2, <2>3
<1>13. PICK chosen : chosen = PlanOf(viewer, candidates)
  OBVIOUS
<1>14. chosen \in Answers /\ chosen = AloneOf(viewer, station)
  BY <1>4, <1>7, <1>8, <1>13, PlanTyped DEF AloneOf
<1>15. t = [kept EXCEPT !.plans[i] = chosen, !.stats.viewers = @ + 1,
                        !.stats.reused = @ + (IF reuses THEN 1 ELSE 0)]
  <2>1. candidates = IF key \in DOMAIN s.query_cache_index
                     THEN s.query_cache[s.query_cache_index[key]]
                     ELSE index[given.station][key]
    BY <1>2, <1>6, <1>7, <1>9
  <2> QED
    BY <1>1, <1>3, <1>4, <1>6, <1>10, <1>11, <1>13, <2>1 DEF ViewerPlanned
<1>16. PICK plans \in Seq(Answers), stats \in BatchStats : plans = kept.plans /\ stats = kept.stats
  BY <1>12 DEF Planning, Slot
<1>17. i \in 1 .. Len(plans)
  BY <1>1, <1>5, <1>12, <1>16 DEF Slot
<1>18. PICK next : next = [plans EXCEPT ![i] = chosen]
  OBVIOUS
<1>19. /\ next \in Seq(Answers) /\ Len(next) = Len(plans) /\ next[i] = chosen
       /\ \A j \in 1 .. Len(plans) : j # i => next[j] = plans[j]
  BY <1>14, <1>17, <1>18
<1>20. PICK extra \in {0, 1} : extra = IF reuses THEN 1 ELSE 0
  OBVIOUS
<1>21. PICK counted : counted = [viewers |-> stats.viewers + 1, unique |-> stats.unique,
                                 reused |-> stats.reused + extra]
  OBVIOUS
<1>22. counted \in BatchStats
  BY <1>20, <1>21 DEF BatchStats
<1>23. /\ t \in Slot /\ t.plans = next /\ t.active_plans = kept.active_plans
       /\ t.stats = counted /\ t.query_cache_index = kept.query_cache_index
       /\ t.query_cache = kept.query_cache /\ t.active_query_cache = kept.active_query_cache
  <2>1. kept \in Slot
    BY <1>12 DEF Planning
  <2>2. t = [kept EXCEPT !.plans = next, !.stats = counted]
    BY <1>15, <1>16, <1>18, <1>20, <1>21, <2>1 DEF Slot, BatchStats
  <2> QED
    BY <1>19, <1>22, <2>1, <2>2 DEF Slot
<1>24. Planning(t, station, N)
  BY <1>12, <1>16, <1>19, <1>23 DEF Planning, CacheSound
<1>25. \A j \in 1 .. N : j # i => next[j] = plans[j]
  BY <1>1, <1>5, <1>12, <1>16, <1>19 DEF Slot
<1>26. \/ t.stats.reused = s.stats.reused
       \/ t.stats.reused = s.stats.reused + 1 /\ key \in DOMAIN s.query_cache_index
  BY <1>6, <1>12, <1>16, <1>20, <1>21, <1>23 DEF BatchStats
<1>27. t.stats.viewers = s.stats.viewers + 1 /\ t.stats.unique = s.stats.unique
  BY <1>12, <1>16, <1>21, <1>23
<1> QED
  BY <1>1, <1>2, <1>3, <1>4, <1>12, <1>14, <1>16, <1>19, <1>23, <1>24, <1>25, <1>26, <1>27

LEMMA RangesFinite ==
    ASSUME NEW viewers, NEW n \in Nat
    PROVE  /\ IsFiniteSet(RangesOf(viewers, n))
           /\ Cardinality(RangesOf(viewers, n)) \in Nat
<1>1. PICK R : R = RangesOf(viewers, n)
  OBVIOUS
<1> DEFINE f == [i \in 1 .. n |-> viewers[i].range]
<1>2. f \in Surjection(1 .. n, R)
  BY <1>1 DEF RangesOf, Surjection
<1>3. IsFiniteSet(1 .. n)
  BY FS_Interval
<1> HIDE DEF f
<1>4. IsFiniteSet(R)
  BY <1>2, <1>3, FS_Surjection
<1> QED
  BY <1>1, <1>4, FS_CardinalityType

\* A slot is cleared for the next batch, whatever it held.
LEMMA PreparedSound ==
    ASSUME NEW slot \in Slot, NEW viewers \in Seq(BatchViewers), NEW station,
           NEW s, s = Prepared(slot, viewers)
    PROVE  /\ Planning(s, station, Len(viewers)) /\ s.active_plans = Len(viewers)
           /\ s.stats.viewers = 0 /\ s.stats.reused = 0
           /\ s.stats.unique = Cardinality(RangesOf(viewers, Len(viewers)))
           /\ DOMAIN s.query_cache_index = {}
<1>1. PICK N \in Nat : N = Len(viewers)
  OBVIOUS
<1>2. PICK R : R = RangesOf(viewers, N)
  OBVIOUS
<1>3. R = {v.range : v \in Range(viewers)}
  BY <1>1, <1>2 DEF RangesOf, Range
<1>4. Cardinality(R) \in Nat
  BY <1>1, <1>2, RangesFinite
<1>5. PICK plans : plans = Resized(slot.plans, N, <<>>)
  OBVIOUS
<1>6. plans \in Seq(Answers) /\ Len(plans) >= N
  <2>1. <<>> \in Answers
    BY EmptySeq DEF Answers
  <2>2. PICK old \in Seq(Answers) : old = slot.plans
    BY DEF Slot
  <2> QED
    BY <1>5, <2>1, <2>2, ResizedSound
<1>7. PICK stats : stats = [viewers |-> 0, unique |-> Cardinality(R), reused |-> 0]
  OBVIOUS
<1>8. stats \in BatchStats
  BY <1>4, <1>7 DEF BatchStats
<1>9. <<>> \in QueryCacheIndex /\ DOMAIN <<>> = {}
  <2>1. <<>> \in [{} -> Nat] /\ {} \in SUBSET QueryRanges
    OBVIOUS
  <2> QED
    BY <2>1 DEF QueryCacheIndex
<1>10. s = [slot EXCEPT !.plans = plans, !.active_plans = N, !.stats = stats,
                        !.query_cache_index = <<>>, !.active_query_cache = 0]
  <2>1. PICK c : c = Cardinality({v.range : v \in Range(viewers)})
    OBVIOUS
  <2>2. c = Cardinality(R)
    BY <1>3, <2>1
  <2>3. PICK cleared : cleared = [EmptyStats EXCEPT !.unique = c]
    OBVIOUS
  <2>4. cleared = stats
    BY <1>7, <2>2, <2>3 DEF EmptyStats
  <2>5. s = [slot EXCEPT !.plans = Resized(slot.plans, Len(viewers), <<>>),
                         !.active_plans = Len(viewers), !.stats = cleared,
                         !.query_cache_index = <<>>, !.active_query_cache = 0]
    BY <2>1, <2>3 DEF Prepared
  <2> QED
    BY <1>1, <1>5, <2>4, <2>5
<1>11. /\ s \in Slot /\ s.plans = plans /\ s.active_plans = N /\ s.stats = stats
       /\ s.query_cache_index = <<>> /\ s.active_query_cache = 0
  <2>1. PICK none \in QueryCacheIndex : none = <<>>
    BY <1>9
  <2>2. PICK zero \in Nat : zero = 0
    OBVIOUS
  <2>3. s = [slot EXCEPT !.plans = plans, !.active_plans = N, !.stats = stats,
                         !.query_cache_index = none, !.active_query_cache = zero]
    BY <1>10, <2>1, <2>2
  <2>4. plans \in Seq(Answers)
    BY <1>6
  <2>5. /\ s \in Slot /\ s.plans = plans /\ s.active_plans = N /\ s.stats = stats
        /\ s.query_cache_index = none /\ s.active_query_cache = zero
    BY ONLY slot \in Slot, <1>8, <2>3, <2>4, N \in Nat, zero \in Nat, none \in QueryCacheIndex
    DEF Slot
  <2> QED
    BY <2>1, <2>2, <2>5
<1>12. s.active_query_cache = 0 /\ 0 <= Len(s.query_cache)
  <2>1. s.active_query_cache = 0
    BY <1>10 DEF Slot
  <2>2. PICK cache \in Seq(Answers) : cache = s.query_cache
    BY <1>11 DEF Slot
  <2> QED
    BY <2>1, <2>2
<1>13. Planning(s, station, N)
  BY <1>6, <1>9, <1>11, <1>12 DEF Planning, CacheSound
<1> QED
  BY <1>1, <1>2, <1>7, <1>9, <1>11, <1>13

\* The slot after n turns of the loop over the viewers.
Turned(t, given, n) ==
    /\ Planning(t, given.station, Len(given.viewers))
    /\ t.active_plans = Len(given.viewers)
    /\ \A i \in 1 .. n : t.plans[i] = AloneOf(given.viewers[i], given.station)
    /\ t.stats.viewers = n
    /\ t.stats.unique = Cardinality(RangesOf(given.viewers, Len(given.viewers)))
    /\ t.stats.reused + Cardinality(RangesOf(given.viewers, n)) <= n
    /\ DOMAIN t.query_cache_index \subseteq RangesOf(given.viewers, n)

LEMMA NextTurned ==
    ASSUME index \in Worlds, NEW given \in Batch, NEW n \in 0 .. Len(given.viewers) - 1,
           NEW s, Turned(s, given, n), NEW t, t = ViewerPlanned(s, given, n + 1)
    PROVE  Turned(t, given, n + 1)
<1>1. PICK N \in Nat, viewers \in Seq(BatchViewers) :
         N = Len(given.viewers) /\ viewers = given.viewers
  BY DEF Batch
<1>2. PICK i \in 1 .. N : i = n + 1
  BY <1>1
<1>3. PICK key : key = viewers[i].range
  OBVIOUS
<1>4. PICK A, B : A = RangesOf(viewers, n) /\ B = RangesOf(viewers, i)
  OBVIOUS
<1>5. B = A \cup {key}
  <2>1. \A k : k \in 1 .. i <=> k \in 1 .. n \/ k = i
    BY <1>2
  <2> QED
    BY <1>3, <1>4, <2>1 DEF RangesOf
<1>6. IsFiniteSet(A) /\ Cardinality(A) \in Nat /\ Cardinality(B) \in Nat
  BY <1>2, <1>4, RangesFinite
<1>7. Cardinality(B) = IF key \in A THEN Cardinality(A) ELSE Cardinality(A) + 1
  BY <1>5, <1>6, FS_AddElement
<1>8. /\ Planning(s, given.station, N) /\ s.active_plans = N
      /\ \A k \in 1 .. n : s.plans[k] = AloneOf(viewers[k], given.station)
      /\ s.stats.viewers = n /\ s.stats.unique = Cardinality(RangesOf(viewers, N))
      /\ s.stats.reused + Cardinality(A) <= n /\ DOMAIN s.query_cache_index \subseteq A
  BY <1>1, <1>4 DEF Turned
<1>9. /\ Planning(t, given.station, N)
      /\ t.plans[i] = AloneOf(viewers[i], given.station)
      /\ \A j \in 1 .. N : j # i => t.plans[j] = s.plans[j]
      /\ t.active_plans = s.active_plans
      /\ t.stats.viewers = s.stats.viewers + 1 /\ t.stats.unique = s.stats.unique
      /\ \/ t.stats.reused = s.stats.reused
         \/ t.stats.reused = s.stats.reused + 1 /\ key \in DOMAIN s.query_cache_index
      /\ DOMAIN t.query_cache_index \subseteq DOMAIN s.query_cache_index \cup {key}
  <2>1. t = ViewerPlanned(s, given, i) /\ i \in 1 .. Len(given.viewers)
    BY <1>1, <1>2
  <2>2. Planning(s, given.station, Len(given.viewers))
    BY <1>1, <1>8
  <2> QED
    BY <1>1, <1>3, <2>1, <2>2, ViewerPlannedSound
<1>10. s.stats.reused \in Nat /\ t.stats.reused \in Nat
  BY <1>8, <1>9 DEF Planning, Slot, BatchStats
<1>11. t.stats.reused + Cardinality(B) <= i
  <2>1. PICK x \in Nat, y \in Nat : x = s.stats.reused /\ y = t.stats.reused
    BY ONLY <1>10
  <2>2. PICK a \in Nat, b \in Nat : a = Cardinality(A) /\ b = Cardinality(B)
    BY ONLY <1>6
  <2>3. x + a <= n
    BY ONLY <1>8, <2>1, <2>2
  <2>4. b = a \/ (b = a + 1 /\ y = x)
    <3>1. CASE key \in A
      BY ONLY <1>7, <2>2, <3>1
    <3>2. CASE key \notin A
      <4>1. y = x
        BY ONLY <1>8, <1>9, <2>1, <3>2
      <4>2. Cardinality(B) = Cardinality(A) + 1
        BY ONLY <1>7, <3>2
      <4> QED
        BY ONLY <2>2, <4>1, <4>2
    <3> QED
      BY ONLY <3>1, <3>2
  <2>5. y = x \/ y = x + 1
    BY ONLY <1>9, <2>1
  <2>6. n \in Int /\ i = n + 1
    BY <1>2
  <2>7. y + b <= i
    BY ONLY <2>3, <2>4, <2>5, <2>6, a \in Nat, b \in Nat, x \in Nat, y \in Nat
  <2> QED
    BY ONLY <2>1, <2>2, <2>7
<1>12. \A k \in 1 .. i : t.plans[k] = AloneOf(viewers[k], given.station)
  <2>1. ASSUME NEW k \in 1 .. i, k # i
        PROVE  t.plans[k] = AloneOf(viewers[k], given.station)
    <3>1. k \in 1 .. n /\ k \in 1 .. N
      BY <1>2, <2>1
    <3>2. t.plans[k] = s.plans[k]
      BY <1>9, <2>1, <3>1
    <3> QED
      BY <1>8, <3>1, <3>2
  <2> QED
    BY <1>9, <2>1
<1>13. DOMAIN t.query_cache_index \subseteq B
  BY <1>5, <1>8, <1>9
<1> QED
  BY <1>1, <1>2, <1>4, <1>8, <1>9, <1>11, <1>12, <1>13 DEF Turned

\* Planned into a slot, each viewer of a batch has what it would get alone.
LEMMA BatchPlannedSound ==
    ASSUME index \in Worlds, NEW slot \in Slot, NEW given \in Batch
    PROVE  /\ BatchPlanned(slot, given) \in Slot
           /\ SlotPlanned(BatchPlanned(slot, given), given)
<1>1. PICK N \in Nat, viewers \in Seq(BatchViewers) :
         N = Len(given.viewers) /\ viewers = given.viewers
  BY DEF Batch
<1>2. PICK start : start = Prepared(slot, given.viewers)
  OBVIOUS
<1>3. /\ Planning(start, given.station, N) /\ start.active_plans = N
      /\ start.stats.viewers = 0 /\ start.stats.reused = 0
      /\ start.stats.unique = Cardinality(RangesOf(viewers, N))
      /\ DOMAIN start.query_cache_index = {}
  BY <1>1, <1>2, PreparedSound
<1>4. PICK turns : turns = [i \in DOMAIN given.viewers |-> i]
  OBVIOUS
<1>5. turns \in Seq(1 .. N) /\ Len(turns) = N /\ \A i \in 1 .. N : turns[i] = i
  <2>1. turns = [i \in 1 .. N |-> i]
    BY <1>1, <1>4
  <2>2. turns \in [1 .. N -> 1 .. N]
    BY <2>1
  <2> QED
    BY <2>1, <2>2, IsASeq
<1>6. PICK S : S = {s \in Slot : Planning(s, given.station, N)}
  OBVIOUS
<1> DEFINE G == [x \in S \X (1 .. N) |-> ViewerPlanned(x[1], given, x[2])]
<1>7. ASSUME NEW s \in S, NEW i \in 1 .. N PROVE ViewerPlanned(s, given, i) \in S
  <2>1. PICK t : t = ViewerPlanned(s, given, i)
    OBVIOUS
  <2>2. Planning(s, given.station, Len(given.viewers)) /\ i \in 1 .. Len(given.viewers)
    BY <1>1, <1>6
  <2>3. Planning(t, given.station, Len(given.viewers))
    BY <2>1, <2>2, ViewerPlannedSound
  <2> QED
    BY <1>1, <1>6, <2>1, <2>3 DEF Planning
<1>8. G \in [S \X (1 .. N) -> S] /\ \A s \in S, i \in 1 .. N : G[<<s, i>>] = ViewerPlanned(s, given, i)
  BY <1>7
<1> HIDE DEF G
<1>9. start \in S
  BY <1>3, <1>6 DEF Planning
<1>10. PICK f \in [0 .. N -> S] : Turns(f, start, turns, G)
  BY <1>5, <1>8, <1>9, LoopRuns
<1>11. f[0] = start /\ \A n \in 1 .. N : f[n] = ViewerPlanned(f[n - 1], given, turns[n])
  <2>1. f[0] = start /\ \A n \in 1 .. N : f[n] = G[<<f[n - 1], turns[n]>>]
    BY <1>5, <1>10 DEF Turns
  <2>2. ASSUME NEW n \in 1 .. N PROVE f[n] = ViewerPlanned(f[n - 1], given, turns[n])
    <3>1. n - 1 \in 0 .. N /\ turns[n] \in 1 .. N
      BY <1>5
    <3>2. f[n - 1] \in S
      BY <3>1
    <3> QED
      BY <1>8, <2>1, <3>1, <3>2
  <2> QED
    BY <2>1, <2>2
<1>12. f = [n \in 0 .. N |-> IF n = 0 THEN start ELSE ViewerPlanned(f[n - 1], given, turns[n])]
  <2>1. ASSUME NEW n \in 0 .. N
        PROVE  f[n] = IF n = 0 THEN start ELSE ViewerPlanned(f[n - 1], given, turns[n])
    <3>1. n = 0 \/ n \in 1 .. N
      OBVIOUS
    <3> QED
      BY <1>11, <3>1
  <2> QED
    BY <2>1
<1>13. PICK after : after = CHOOSE g :
          g = [n \in 0 .. N |-> IF n = 0 THEN start ELSE ViewerPlanned(g[n - 1], given, turns[n])]
  OBVIOUS
<1>14. BatchPlanned(slot, given) = after[N]
  <2>1. BatchPlanned(slot, given) =
          (CHOOSE g : g = [n \in 0 .. Len(turns) |->
              IF n = 0 THEN start ELSE ViewerPlanned(g[n - 1], given, turns[n])])[Len(turns)]
    BY ONLY <1>2, <1>4 DEF BatchPlanned, Loop
  <2> QED
    BY <1>5, <1>13, <2>1
<1>15. after = [n \in 0 .. N |->
                  IF n = 0 THEN start ELSE ViewerPlanned(after[n - 1], given, turns[n])]
  BY <1>12, <1>13
<1>16. /\ after[0] = start
       /\ \A n \in 0 .. N - 1 : after[n + 1] = ViewerPlanned(after[n], given, n + 1)
  <2>1. after[0] = start
    <3>1. 0 \in 0 .. N
      OBVIOUS
    <3> QED
      BY <1>15, <3>1
  <2>2. ASSUME NEW n \in 0 .. N - 1
        PROVE  after[n + 1] = ViewerPlanned(after[n], given, n + 1)
    <3>1. PICK i \in 1 .. N : i = n + 1 /\ i \in 0 .. N /\ i # 0 /\ i - 1 = n /\ turns[i] = i
      BY <1>5
    <3> QED
      BY <1>15, <3>1
  <2> QED
    BY <2>1, <2>2
<1> DEFINE P == {n \in 0 .. N : Turned(after[n], given, n)}
<1>17. 0 \in P
  <2>1. RangesOf(viewers, 0) = {} /\ Cardinality({}) = 0
    BY FS_EmptySet DEF RangesOf
  <2>2. Turned(start, given, 0)
    BY <1>1, <1>3, <2>1 DEF Turned
  <2> QED
    BY <1>16, <2>2
<1>18. ASSUME NEW n \in 0 .. N - 1, n \in P PROVE n + 1 \in P
  <2>1. Turned(after[n], given, n) /\ n \in 0 .. Len(given.viewers) - 1
    BY <1>1, <1>18
  <2>2. PICK s, t : s = after[n] /\ t = ViewerPlanned(s, given, n + 1)
    OBVIOUS
  <2>3. Turned(t, given, n + 1)
    BY <2>1, <2>2, NextTurned
  <2>4. after[n + 1] = t
    BY <1>16, <2>2
  <2> QED
    BY <2>3, <2>4
<1> HIDE DEF P
<1>19. N \in P
  <2>1. 0 .. N \subseteq P
    BY <1>17, <1>18, EveryTurn
  <2> QED
    BY <2>1
<1>20. Turned(after[N], given, N)
  BY <1>19 DEF P
<1>21. after[N] \in Slot /\ SlotPlanned(after[N], given)
  BY <1>1, <1>20 DEF Turned, SlotPlanned, Planning
<1> QED
  BY <1>14, <1>21

-----------------------------------------------------------------------------
(* Batches of plans: chunks. *)

LEMMA TimesLess ==
    ASSUME NEW c \in Nat, NEW p \in Int, NEW q \in Int, p < q
    PROVE  c * p + c <= c * q
<1>1. PICK d \in Nat : d = q - p - 1
  OBVIOUS
<1>2. q = p + (1 + d)
  BY <1>1
<1>3. c * q = c * p + c * (1 + d)
  BY <1>2
<1>4. c * (1 + d) = c + c * d /\ c * d \in Nat
  BY <1>1
<1>5. c * p \in Int
  OBVIOUS
<1>6. PICK x \in Int, y \in Int, z \in Nat : x = c * q /\ y = c * p /\ z = c * d
  BY <1>4, <1>5
<1>7. x = y + (c + z)
  BY <1>3, <1>4, <1>6
<1> QED
  BY <1>6, <1>7

\* The quotient is the only number of its kind.
LEMMA QuotientIs ==
    ASSUME NEW a \in Nat, NEW c \in Nat \ {0}, NEW q \in Nat
    PROVE  a \div c = q <=> c * q <= a /\ a < c * q + c
<1>1. PICK r \in Nat : r = a \div c
  BY Quotient
<1>2. c * r <= a /\ a < c * r + c
  BY <1>1
<1>3. PICK x \in Int, y \in Int : x = c * r /\ y = c * q
  OBVIOUS
<1>4. r < q => x + c <= y
  BY <1>3, TimesLess
<1>5. q < r => y + c <= x
  BY <1>3, TimesLess
<1>6. r = q => x = y
  BY <1>3
<1>7. x <= a /\ a < x + c
  BY <1>2, <1>3
<1>8. r = q <=> y <= a /\ a < y + c
  <2>1. r < q \/ q < r \/ r = q
    OBVIOUS
  <2> QED
    BY <1>4, <1>5, <1>6, <1>7, <2>1
<1> QED
  BY <1>1, <1>3, <1>8

\* L lanes and chunks of c deal out n batches: c is n / L, rounded up.
Dealt(n, L, c) == L \in 1 .. n /\ c \in Nat \ {0} /\ n <= c * L

LEMMA DealtOut ==
    ASSUME NEW n \in Nat \ {0}, NEW L \in 1 .. n
    PROVE  Dealt(n, L, DivCeil(n, L))
<1>1. PICK a \in Nat : a = n + L - 1
  OBVIOUS
<1>2. PICK c \in Nat : c = a \div L
  BY <1>1, Quotient
<1>3. L * c <= a /\ a < L * c + L
  BY <1>2
<1>4. c >= 1
  BY <1>1, <1>2, Quotient
<1>5. L * c = c * L
  OBVIOUS
<1>6. PICK x \in Int : x = c * L
  OBVIOUS
<1>7. n <= x
  <2>1. a < x + L
    BY <1>3, <1>5, <1>6
  <2> QED
    BY <1>1, <2>1
<1>8. DivCeil(n, L) = c
  BY <1>1, <1>2 DEF DivCeil
<1> QED
  BY <1>4, <1>6, <1>7, <1>8 DEF Dealt

\* The batches of a lane.
ChunkOf(n, c, lane) == {k \in 1 .. n : (k - 1) \div c = lane - 1}

\* A lane's chunk starts behind the chunks before it and has no holes: the next
\* place is in it, as long as it has more than what is planned.
LEMMA NextInChunk ==
    ASSUME NEW n \in Nat \ {0}, NEW L, NEW c, Dealt(n, L, c), NEW lane \in 1 .. L,
           NEW p \in Nat, p < Cardinality(ChunkOf(n, c, lane))
    PROVE  (lane - 1) * c + p + 1 \in 1 .. n
<1>1. PICK b \in Nat : b = (lane - 1) * c /\ b = c * (lane - 1)
  BY DEF Dealt
<1>2. \A k \in 1 .. n : (k - 1) \div c = lane - 1 <=> b < k /\ k <= b + c
  <2>1. ASSUME NEW k \in 1 .. n
        PROVE  (k - 1) \div c = lane - 1 <=> b < k /\ k <= b + c
    <3>1. k - 1 \in Nat /\ lane - 1 \in Nat /\ c \in Nat \ {0}
      BY DEF Dealt
    <3>2. PICK a \in Nat, q \in Nat : a = k - 1 /\ q = lane - 1
      BY <3>1
    <3>3. a \div c = q <=> c * q <= a /\ a < c * q + c
      BY <3>1, <3>2, QuotientIs
    <3>4. (k - 1) \div c = lane - 1 <=> b <= a /\ a < b + c
      BY <1>1, <3>2, <3>3
    <3> QED
      BY <3>1, <3>2, <3>4
  <2> QED
    BY <2>1
<1>3. ChunkOf(n, c, lane) \subseteq b + 1 .. n
  <2>1. ASSUME NEW k \in ChunkOf(n, c, lane) PROVE k \in b + 1 .. n
    BY <1>2, <2>1 DEF ChunkOf
  <2> QED
    BY <2>1
<1>4. PICK lo \in Int, hi \in Int : lo = b + 1 /\ hi = n
  OBVIOUS
<1>5. /\ IsFiniteSet(lo .. hi)
      /\ Cardinality(lo .. hi) = IF lo > hi THEN 0 ELSE hi - lo + 1
  BY FS_Interval
<1>6. PICK K : K = ChunkOf(n, c, lane)
  OBVIOUS
<1>7. K \in SUBSET (lo .. hi)
  BY <1>3, <1>4, <1>6
<1>8. Cardinality(K) <= Cardinality(lo .. hi) /\ IsFiniteSet(K)
  BY <1>5, <1>7, FS_Subset
<1>9. PICK m \in Nat, w \in Nat : m = Cardinality(K) /\ w = Cardinality(lo .. hi)
  BY <1>5, <1>8, FS_CardinalityType
<1>10. p < m /\ m <= w
  BY <1>6, <1>8, <1>9
<1>11. w = IF lo > hi THEN 0 ELSE hi - lo + 1
  BY <1>5, <1>9
<1>12. b + p + 1 \in 1 .. n
  BY <1>4, <1>10, <1>11
<1> QED
  BY <1>1, <1>12

\* Every batch is in the chunk of a lane, at a place the lane comes to.
LEMMA SomeLane ==
    ASSUME NEW n \in Nat \ {0}, NEW L, NEW c, Dealt(n, L, c), NEW k \in 1 .. n
    PROVE  \E lane \in 1 .. L :
              /\ (lane - 1) * c < k
              /\ k <= (lane - 1) * c + Cardinality(ChunkOf(n, c, lane))
<1>1. k - 1 \in Nat /\ c \in Nat \ {0} /\ L \in Nat /\ n <= c * L
  BY DEF Dealt
<1>2. PICK a \in Nat, q \in Nat : a = k - 1 /\ q = a \div c
  BY <1>1, Quotient
<1>3. PICK b \in Nat : b = c * q
  BY <1>1
<1>4. b <= a /\ a < b + c
  BY <1>1, <1>2, <1>3, QuotientIs
<1>5. q < L
  <2>1. ASSUME L <= q PROVE FALSE
    <3>1. c * L <= b
      <4>1. CASE L = q
        BY <1>1, <1>3, <4>1
      <4>2. CASE L < q
        <5>1. PICK x \in Int : x = c * L
          BY <1>1
        <5>2. x + c <= b
          BY <1>1, <1>3, <4>2, <5>1, TimesLess
        <5> QED
          BY <1>1, <5>1, <5>2
      <4> QED
        BY <1>1, <2>1, <4>1, <4>2
    <3>2. PICK x \in Int : x = c * L
      BY <1>1
    <3>3. n <= x /\ x <= b
      BY <1>1, <3>1, <3>2
    <3> QED
      BY <1>2, <1>4, <3>3
  <2> QED
    BY <1>1, <2>1
<1>6. PICK lane \in 1 .. L : lane = q + 1
  BY <1>1, <1>5
<1>7. (lane - 1) * c = b
  BY <1>1, <1>3, <1>6
<1>8. b + 1 .. k \subseteq ChunkOf(n, c, lane)
  <2>1. ASSUME NEW j \in b + 1 .. k PROVE j \in 1 .. n /\ (j - 1) \div c = lane - 1
    <3>1. PICK i \in Nat : i = j - 1
      BY <2>1
    <3>2. b <= i /\ i < b + c
      BY <1>1, <1>2, <1>4, <2>1, <3>1
    <3>3. i \div c = q
      BY <1>1, <1>3, <3>2, QuotientIs
    <3> QED
      BY <1>6, <2>1, <3>1, <3>3
  <2> QED
    BY <2>1 DEF ChunkOf
<1>0. PICK K : K = ChunkOf(n, c, lane)
  OBVIOUS
<1>9. PICK lo \in Int : lo = b + 1 /\ K = ChunkOf(n, c, lane)
  BY <1>0
<1>10. Cardinality(lo .. k) = k - b /\ lo .. k \in SUBSET K
  <2>1. Cardinality(lo .. k) = IF lo > k THEN 0 ELSE k - lo + 1
    BY FS_Interval
  <2> QED
    BY <1>2, <1>4, <1>8, <1>9, <2>1
<1>11. IsFiniteSet(K)
  <2>1. K \in SUBSET (1 .. n) /\ IsFiniteSet(1 .. n)
    BY <1>9, FS_Interval DEF ChunkOf
  <2> QED
    BY <2>1, FS_Subset
<1>12. PICK m \in Nat, w \in Nat : m = Cardinality(K) /\ w = Cardinality(lo .. k) /\ w <= m
  BY <1>10, <1>11, FS_Subset, FS_CardinalityType
<1>13. b < k /\ k <= b + m
  BY <1>2, <1>4, <1>10, <1>12
<1> QED
  BY <1>7, <1>9, <1>12, <1>13

-----------------------------------------------------------------------------
(* Batches of plans: what a call sends and adds up. *)

BatchPackets == [client : {v.client : v \in BatchViewers}, entities : Answers]

\* The packets of a batch, planned alone.
PacketsOf(given) ==
    [i \in DOMAIN given.viewers |->
        [client |-> given.viewers[i].client,
         entities |-> AloneOf(given.viewers[i], given.station)]]

\* The packets of each batch of the call.
PacketsBy == [k \in DOMAIN batches |-> PacketsOf(batches[k])]

\* Every batch of the call is planned, into the slot of its place.
AllPlanned ==
    /\ index \in Worlds /\ batches \in Seq(Batch) /\ slots \in Seq(Slot)
    /\ active_batches = Len(batches) /\ Len(batches) <= Len(slots)
    /\ \A k \in 1 .. Len(batches) : SlotPlanned(slots[k], batches[k])

LEMMA PacketsTyped ==
    ASSUME index \in Worlds, batches \in Seq(Batch)
    PROVE  /\ PlannedAlone = Joined(PacketsBy) /\ PlannedAlone \in Seq(BatchPackets)
           /\ PacketsBy \in Seq(Seq(BatchPackets)) /\ Len(PacketsBy) = Len(batches)
           /\ \A k \in 1 .. Len(batches) : /\ PacketsBy[k] = PacketsOf(batches[k])
                                           /\ Len(PacketsBy[k]) = Len(batches[k].viewers)
<1>1. PlannedAlone = Joined(PacketsBy)
  BY DEF PlannedAlone, PacketsBy, PacketsOf, AloneOf
<1>2. ASSUME NEW k \in 1 .. Len(batches)
      PROVE  /\ PacketsOf(batches[k]) \in Seq(BatchPackets)
             /\ Len(PacketsOf(batches[k])) = Len(batches[k].viewers)
  <2>1. PICK given \in Batch : given = batches[k]
    OBVIOUS
  <2>2. PICK viewers \in Seq(BatchViewers), n \in Nat : viewers = given.viewers /\ n = Len(viewers)
    BY DEF Batch
  <2>3. ASSUME NEW i \in 1 .. n
        PROVE  [client |-> viewers[i].client, entities |-> AloneOf(viewers[i], given.station)]
                  \in BatchPackets
    <3>1. PICK viewer \in BatchViewers : viewer = viewers[i]
      BY <2>2
    <3>2. PICK station \in BatchStations : station = given.station
      BY DEF Batch
    <3>3. viewer.range \in QueryRanges
      BY BatchAssumption
    <3>4. AloneOf(viewer, station) \in Answers
      BY <3>3, Answered, PlanTyped DEF AloneOf
    <3> QED
      BY <3>1, <3>2, <3>4 DEF BatchPackets
  <2>4. PICK packets : packets = [i \in 1 .. n |->
           [client |-> viewers[i].client, entities |-> AloneOf(viewers[i], given.station)]]
    OBVIOUS
  <2>5. packets \in [1 .. n -> BatchPackets]
    BY <2>3, <2>4
  <2>6. packets \in Seq(BatchPackets) /\ Len(packets) = n
    BY <2>5, IsASeq
  <2>7. packets = PacketsOf(given)
    <3>1. DOMAIN given.viewers = 1 .. n
      BY <2>2
    <3> QED
      BY <2>2, <2>4, <3>1 DEF PacketsOf
  <2> QED
    BY <2>1, <2>2, <2>6, <2>7
<1>0. PICK P : P = Seq(BatchPackets)
  OBVIOUS
<1>3. PICK N \in Nat : N = Len(batches) /\ P = Seq(BatchPackets)
  BY <1>0
<1>4. PacketsBy = [k \in 1 .. N |-> PacketsOf(batches[k])]
  BY <1>3 DEF PacketsBy
<1>5. PacketsBy \in [1 .. N -> P]
  BY <1>2, <1>3, <1>4
<1>6. PacketsBy \in Seq(P) /\ Len(PacketsBy) = N
  BY <1>5, IsASeq
<1>7. PICK f \in [0 .. N -> P] : Joined(PacketsBy) = f[N]
  <2>1. PacketsBy \in Seq(Seq(BatchPackets))
    BY <1>3, <1>6
  <2>2. \E f \in [0 .. Len(PacketsBy) -> Seq(BatchPackets)] :
           Joined(PacketsBy) = f[Len(PacketsBy)]
    BY <2>1, JoinedRuns
  <2> QED
    BY <1>3, <1>6, <2>2
<1>8. PlannedAlone \in P
  BY <1>1, <1>7
<1> QED
  BY <1>1, <1>2, <1>3, <1>4, <1>6, <1>8

LEMMA OutgoingAlone == ASSUME AllPlanned PROVE Outgoing = PlannedAlone
<1>1. PICK N \in Nat : N = Len(batches)
  BY DEF AllPlanned
<1>2. PICK view : view = View
  OBVIOUS
<1>3. PICK out : out = [k \in DOMAIN batches |->
         [i \in 1 .. Min({Len(batches[k].viewers), Len(view[k])}) |->
            [client |-> batches[k].viewers[i].client, entities |-> view[k][i]]]]
  OBVIOUS
<1>4. Outgoing = Joined(out)
  BY <1>2, <1>3 DEF Outgoing
<1>5. ASSUME NEW k \in 1 .. N PROVE out[k] = PacketsBy[k]
  <2>1. PICK given \in Batch : given = batches[k]
    BY <1>1 DEF AllPlanned
  <2>2. PICK viewers \in Seq(BatchViewers), n \in Nat : viewers = given.viewers /\ n = Len(viewers)
    BY DEF Batch
  <2>3. PICK s \in Slot : s = slots[k]
    BY <1>1 DEF AllPlanned
  <2>4. SlotPlanned(s, given)
    BY <1>1, <2>1, <2>3 DEF AllPlanned
  <2>5. PICK plans \in Seq(Answers) : plans = s.plans
    BY DEF Slot
  <2>6. /\ s.active_plans = n /\ n <= Len(plans)
        /\ \A i \in 1 .. n : plans[i] = AloneOf(viewers[i], given.station)
    BY <2>2, <2>4, <2>5 DEF SlotPlanned
  <2>7. PICK shown : shown = view[k]
    OBVIOUS
  <2>8. shown = SubSeq(plans, 1, n)
    <3>1. k \in 1 .. active_batches
      BY <1>1 DEF AllPlanned
    <3> QED
      BY <1>2, <2>3, <2>5, <2>6, <2>7, <3>1 DEF View
  <2>9. Len(shown) = n /\ \A i \in 1 .. n : shown[i] = plans[i]
    <3>1. \A i \in 1 .. n : plans[i] \in Answers
      BY <2>6
    <3>2. /\ Len(SubSeq(plans, 1, n)) = IF 1 <= n THEN n - 1 + 1 ELSE 0
          /\ \A i \in 1 .. n - 1 + 1 : SubSeq(plans, 1, n)[i] = plans[1 + i - 1]
      BY <3>1, SubSeqProperties
    <3> QED
      BY <2>8, <3>2
  <2>10. Min({n, Len(shown)}) = n
    BY <2>9, Smaller
  <2>11. out[k] = [i \in 1 .. n |-> [client |-> viewers[i].client, entities |-> shown[i]]]
    <3>1. k \in DOMAIN batches
      BY <1>1 DEF AllPlanned
    <3>2. out[k] = [i \in 1 .. Min({n, Len(shown)}) |->
                      [client |-> viewers[i].client, entities |-> shown[i]]]
      BY <1>3, <2>1, <2>2, <2>7, <3>1
    <3> QED
      BY <2>10, <3>2
  <2>12. PacketsOf(given) = [i \in 1 .. n |->
            [client |-> viewers[i].client, entities |-> AloneOf(viewers[i], given.station)]]
    <3>1. DOMAIN given.viewers = 1 .. n
      BY <2>2
    <3> QED
      BY <2>2, <3>1 DEF PacketsOf
  <2>13. \A i \in 1 .. n : shown[i] = AloneOf(viewers[i], given.station)
    BY <2>6, <2>9
  <2>14. out[k] = PacketsOf(given)
    BY <2>11, <2>12, <2>13
  <2>15. PacketsBy[k] = PacketsOf(given)
    BY <1>1, <2>1, PacketsTyped DEF AllPlanned
  <2> QED
    BY <2>14, <2>15
<1>6. out = [k \in 1 .. N |-> out[k]] /\ PacketsBy = [k \in 1 .. N |-> PacketsBy[k]]
  <2>1. DOMAIN batches = 1 .. N
    BY <1>1 DEF AllPlanned
  <2>2. DOMAIN out = 1 .. N /\ out = [k \in DOMAIN out |-> out[k]]
    BY <1>3, <2>1
  <2>3. DOMAIN PacketsBy = 1 .. N /\ PacketsBy = [k \in DOMAIN PacketsBy |-> PacketsBy[k]]
    BY <2>1 DEF PacketsBy
  <2> QED
    BY <2>2, <2>3
<1>7. out = PacketsBy
  BY <1>5, <1>6
<1>8. PlannedAlone = Joined(PacketsBy)
  BY PacketsTyped DEF AllPlanned
<1> QED
  BY <1>4, <1>7, <1>8

\* The sum of a statistic, slot by slot.
LEMMA FieldAdds ==
    ASSUME AllPlanned, NEW field \in {"viewers", "unique", "reused"}
    PROVE  \E f \in [0 .. Len(batches) -> Nat] :
              /\ f[0] = 0 /\ Sum(field) = f[Len(batches)]
              /\ \A n \in 1 .. Len(batches) :
                    slots[n].stats[field] \in Nat /\ f[n] = f[n - 1] + slots[n].stats[field]
<1>1. PICK N \in Nat : N = Len(batches) /\ N = active_batches
  BY DEF AllPlanned
<1>2. PICK s : s = [k \in 1 .. active_batches |-> slots[k].stats[field]]
  OBVIOUS
<1>3. Sum(field) = Total(s)
  BY <1>2 DEF Sum
<1>4. \A k \in 1 .. N : slots[k].stats[field] \in Nat
  <2>1. ASSUME NEW k \in 1 .. N PROVE slots[k].stats[field] \in Nat
    <3>1. slots[k] \in Slot
      BY <1>1 DEF AllPlanned
    <3>2. PICK stats \in BatchStats : stats = slots[k].stats
      BY <3>1 DEF Slot
    <3>3. stats[field] \in Nat
      BY DEF BatchStats
    <3> QED
      BY <3>2, <3>3
  <2> QED
    BY <2>1
<1>5. s \in [1 .. N -> Nat] /\ \A k \in 1 .. N : s[k] = slots[k].stats[field]
  BY <1>1, <1>2, <1>4
<1>6. s \in Seq(Nat) /\ Len(s) = N
  BY <1>5, IsASeq
<1>7. PICK f \in [0 .. N -> Nat] :
         f[0] = 0 /\ Total(s) = f[N] /\ \A n \in 1 .. N : f[n] = f[n - 1] + s[n]
  BY <1>6, TotalRuns
<1>8. PICK sum : sum = Sum(field)
  OBVIOUS
<1>9. /\ f[0] = 0 /\ sum = f[N]
      /\ \A n \in 1 .. N :
            slots[n].stats[field] \in Nat /\ f[n] = f[n - 1] + slots[n].stats[field]
  BY <1>3, <1>4, <1>5, <1>7, <1>8
<1>10. \E g \in [0 .. N -> Nat] :
          /\ g[0] = 0 /\ sum = g[N]
          /\ \A n \in 1 .. N :
                slots[n].stats[field] \in Nat /\ g[n] = g[n - 1] + slots[n].stats[field]
  BY <1>9
<1> QED
  BY ONLY <1>1, <1>8, <1>10

LEMMA StatisticsAddUp ==
    ASSUME AllPlanned
    PROVE  /\ Sum("viewers") = Len(PlannedAlone)
           /\ Sum("reused") <= Sum("viewers") - Sum("unique")
<1>1. PICK N \in Nat : N = Len(batches)
  BY DEF AllPlanned
<1> DEFINE Given(n, field) == slots[n].stats[field]
<1>2. PICK v \in [0 .. N -> Nat] :
         /\ v[0] = 0 /\ Sum("viewers") = v[N]
         /\ \A n \in 1 .. N : Given(n, "viewers") \in Nat /\ v[n] = v[n - 1] + Given(n, "viewers")
  BY <1>1, FieldAdds
<1>3. PICK u \in [0 .. N -> Nat] :
         /\ u[0] = 0 /\ Sum("unique") = u[N]
         /\ \A n \in 1 .. N : Given(n, "unique") \in Nat /\ u[n] = u[n - 1] + Given(n, "unique")
  BY <1>1, FieldAdds
<1>4. PICK r \in [0 .. N -> Nat] :
         /\ r[0] = 0 /\ Sum("reused") = r[N]
         /\ \A n \in 1 .. N : Given(n, "reused") \in Nat /\ r[n] = r[n - 1] + Given(n, "reused")
  BY <1>1, FieldAdds
<1>5. PICK p \in [0 .. N -> Seq(BatchPackets)] :
         /\ p[0] = <<>> /\ PlannedAlone = p[N]
         /\ \A n \in 1 .. N : p[n] = p[n - 1] \o PacketsBy[n]
  <2>1. /\ PacketsBy \in Seq(Seq(BatchPackets)) /\ Len(PacketsBy) = N
        /\ PlannedAlone = Joined(PacketsBy)
    BY <1>1, PacketsTyped DEF AllPlanned
  <2>2. \E p \in [0 .. N -> Seq(BatchPackets)] :
           /\ p[0] = <<>> /\ Joined(PacketsBy) = p[N]
           /\ \A n \in 1 .. N : p[n] = p[n - 1] \o PacketsBy[n]
    BY <2>1, JoinedRuns
  <2> QED
    BY <2>1, <2>2
<1>6. ASSUME NEW n \in 1 .. N
      PROVE  /\ PacketsBy[n] \in Seq(BatchPackets) /\ Given(n, "viewers") = Len(PacketsBy[n])
             /\ Given(n, "reused") + Given(n, "unique") <= Given(n, "viewers")
  <2>1. /\ PacketsBy[n] \in Seq(BatchPackets) /\ Len(PacketsBy[n]) = Len(batches[n].viewers)
    BY <1>1, PacketsTyped DEF AllPlanned
  <2>2. SlotPlanned(slots[n], batches[n])
    BY <1>1 DEF AllPlanned
  <2> QED
    BY <2>1, <2>2 DEF SlotPlanned
<1> HIDE DEF Given
<1> DEFINE P == {n \in 0 .. N : v[n] = Len(p[n]) /\ r[n] + u[n] <= v[n]}
<1>7. 0 \in P
  BY <1>2, <1>3, <1>4, <1>5
<1>8. ASSUME NEW n \in 0 .. N - 1, n \in P PROVE n + 1 \in P
  <2>1. PICK m \in 1 .. N : m = n + 1 /\ m - 1 = n /\ n \in 0 .. N /\ m \in 0 .. N
    OBVIOUS
  <2>2. v[n] = Len(p[n]) /\ r[n] + u[n] <= v[n]
    BY <1>8
  <2>3. PICK a \in Seq(BatchPackets), b \in Seq(BatchPackets) : a = p[n] /\ b = PacketsBy[m]
    BY <1>6, <2>1
  <2>4. Len(a \o b) = Len(a) + Len(b)
    BY ConcatProperties
  <2>5. p[m] = a \o b
    BY <1>5, <2>1, <2>3
  <2>6. PICK x \in Nat, y \in Nat, z \in Nat :
           x = Given(m, "viewers") /\ y = Given(m, "unique") /\ z = Given(m, "reused")
    BY <1>2, <1>3, <1>4
  <2>7. v[m] = v[n] + x /\ u[m] = u[n] + y /\ r[m] = r[n] + z
    <3>1. v[m] = v[n] + x
      BY <1>2, <2>1, <2>6
    <3>2. u[m] = u[n] + y
      BY <1>3, <2>1, <2>6
    <3>3. r[m] = r[n] + z
      BY <1>4, <2>1, <2>6
    <3> QED
      BY <3>1, <3>2, <3>3
  <2>8. x = Len(b) /\ z + y <= x
    <3>1. /\ Given(m, "viewers") = Len(PacketsBy[m])
          /\ Given(m, "reused") + Given(m, "unique") <= Given(m, "viewers")
      BY <1>6
    <3> QED
      BY <2>3, <2>6, <3>1
  <2>9. v[n] \in Nat /\ u[n] \in Nat /\ r[n] \in Nat
    BY <2>1
  <2>10. v[m] = Len(p[m])
    <3>1. v[m] = Len(a) + Len(b)
      BY <2>2, <2>3, <2>7, <2>8
    <3> QED
      BY <2>4, <2>5, <3>1
  <2>11. r[m] + u[m] <= v[m]
    <3>1. PICK i \in Nat, j \in Nat, k \in Nat : i = v[n] /\ j = u[n] /\ k = r[n]
      BY <2>9
    <3>2. v[m] = i + x /\ u[m] = j + y /\ r[m] = k + z
      BY <2>7, <3>1
    <3>3. k + j <= i /\ z + y <= x /\ z \in Nat /\ y \in Nat /\ x \in Nat
      BY <2>2, <2>8, <3>1
    <3>4. (k + z) + (j + y) <= i + x
      BY ONLY <3>3, i \in Nat, j \in Nat, k \in Nat
    <3> QED
      BY <3>2, <3>4
  <2> QED
    BY <2>1, <2>10, <2>11
<1> HIDE DEF P
<1>9. N \in P
  <2>1. 0 .. N \subseteq P
    BY <1>7, <1>8, EveryTurn
  <2> QED
    BY <2>1
<1>10. v[N] = Len(p[N]) /\ r[N] + u[N] <= v[N]
  BY <1>9 DEF P
<1>11. N \in 0 .. N
  OBVIOUS
<1>12. v[N] \in Nat /\ u[N] \in Nat /\ r[N] \in Nat
  BY <1>11
<1> QED
  BY <1>2, <1>3, <1>4, <1>5, <1>10, <1>12

-----------------------------------------------------------------------------
(* Batches of plans: a call. *)

\* What has been sent when so many packets are through.
SentUpTo(n) ==
    Picked(PlannedAlone, {i \in 1 .. n : PlannedAlone[i].entities # <<>>})

CallTypes ==
    /\ index \in Worlds /\ batches \in Seq(Batch) /\ slots \in Seq(Slot)
    /\ phase \in {"idle", "planning", "sending"}
    /\ active_batches \in Nat /\ completed \in Nat

\* The call has a slot for each of its batches.
SlotsReady ==
    batches # <<>> => active_batches = Len(batches) /\ Len(batches) <= Len(slots)

\* What each lane says it has planned is planned.
LanesDone ==
    /\ progress \in [1 .. Lanes -> Nat]
    /\ \A lane \in 1 .. Lanes :
          /\ progress[lane] <= Cardinality(Chunk(lane))
          /\ \A k \in 1 .. Len(batches) :
                (lane - 1) * ChunkSize < k /\ k <= (lane - 1) * ChunkSize + progress[lane]
                   => SlotPlanned(slots[k], batches[k])

\* What a call that plans, and one that has planned, has.
Underway ==
    phase = "planning" => LanesDone /\ frames_sent = <<>> /\ completed = 0
Planned ==
    phase # "planning" /\ batches # <<>> =>
        /\ \A k \in 1 .. Len(batches) : SlotPlanned(slots[k], batches[k])
        /\ completed <= Len(PlannedAlone)
        /\ frames_sent = SentUpTo(completed)

BatchInv == CallTypes /\ SlotsReady /\ Underway /\ Planned

LEMMA ThreadsSome == Threads \in Nat \ {0}
<1>1. PICK available \in Nat : available = Max({Available, 1}) /\ available >= 1
  <2>1. PICK a \in Int, b \in Int : a = Available /\ b = 1 /\ a \in Nat /\ b \in Nat
    BY BatchAssumption
  <2>2. Max({a, b}) \in {a, b} /\ Max({a, b}) >= b
    BY Larger
  <2> QED
    BY <2>1, <2>2
<1>2. PICK requested \in Nat :
         requested = IF RequestedThreads = 0 THEN DivCeil(available, 2) ELSE RequestedThreads
  <2>1. DivCeil(available, 2) \in Nat
    <3>1. PICK a \in Nat : a = available + 2 - 1
      BY <1>1
    <3>2. a \div 2 \in Nat
      BY Quotient
    <3> QED
      BY <3>1, <3>2 DEF DivCeil
  <2> QED
    BY <2>1, BatchAssumption
<1>3. PICK most \in Nat : most = Max({MaxThreads, 1}) /\ most >= 1
  <2>1. PICK a \in Int, b \in Int : a = MaxThreads /\ b = 1 /\ a \in Nat /\ b \in Nat
    BY BatchAssumption
  <2>2. Max({a, b}) \in {a, b} /\ Max({a, b}) >= b
    BY Larger
  <2> QED
    BY <2>1, <2>2
<1>4. PICK bound \in Nat : bound = Min({most, available}) /\ bound >= 1
  BY <1>1, <1>3, Smaller
<1>5. PICK least \in Nat : least = Max({requested, 1}) /\ least >= 1
  <2>1. PICK a \in Int, b \in Int : a = requested /\ b = 1 /\ a \in Nat /\ b \in Nat
    OBVIOUS
  <2>2. Max({a, b}) \in {a, b} /\ Max({a, b}) >= b
    BY Larger
  <2> QED
    BY <2>1, <2>2
<1>6. Min({least, bound}) \in Nat /\ Min({least, bound}) \in {least, bound}
  BY Smaller
<1>7. Threads = Min({least, bound})
  BY <1>1, <1>2, <1>3, <1>4, <1>5 DEF Threads
<1> QED
  BY <1>4, <1>5, <1>6, <1>7

\* How the batches of a call are dealt out.
LEMMA CallDealt ==
    ASSUME batches \in Seq(Batch)
    PROVE  /\ Lanes \in Nat /\ Lanes <= Len(batches)
           /\ batches # <<>> => /\ Len(batches) \in Nat \ {0} /\ Dealt(Len(batches), Lanes, ChunkSize)
                                /\ \A lane : Chunk(lane) = ChunkOf(Len(batches), ChunkSize, lane)
<1>1. PICK N \in Nat, T \in Nat : N = Len(batches) /\ T = Threads /\ T # 0
  BY ThreadsSome
<1>2. PICK L \in Nat : L = Min({T, N}) /\ L \in {T, N} /\ L <= N
  BY Smaller
<1>3. Lanes = L
  BY <1>1, <1>2 DEF Lanes
<1>4. ASSUME batches # <<>>
      PROVE  /\ N # 0 /\ Dealt(N, L, ChunkSize)
             /\ \A lane : Chunk(lane) = ChunkOf(N, ChunkSize, lane)
  <2>1. N # 0
    BY <1>1, <1>4
  <2>2. L \in 1 .. N
    BY <1>1, <1>2, <2>1
  <2>3. Dealt(N, L, DivCeil(N, L))
    BY <2>1, <2>2, DealtOut
  <2>4. ChunkSize = DivCeil(N, L)
    BY <1>1, <1>3 DEF ChunkSize
  <2>5. DOMAIN batches = 1 .. N
    BY <1>1
  <2>6. \A lane : Chunk(lane) = ChunkOf(N, ChunkSize, lane)
    BY <2>5 DEF Chunk, ChunkOf
  <2> QED
    BY <2>1, <2>3, <2>4, <2>6
<1> QED
  BY <1>1, <1>2, <1>3, <1>4

LEMMA ChunkCounted ==
    ASSUME NEW n \in Nat, NEW c, NEW lane
    PROVE  Cardinality(ChunkOf(n, c, lane)) \in Nat
<1>1. PICK K : K = ChunkOf(n, c, lane)
  OBVIOUS
<1>2. K \in SUBSET (1 .. n) /\ IsFiniteSet(1 .. n)
  BY <1>1, FS_Interval DEF ChunkOf
<1> QED
  BY <1>1, <1>2, FS_Subset, FS_CardinalityType

LEMMA SentNothing == SentUpTo(0) = <<>>
<1>1. PICK K : K = {i \in 1 .. 0 : PlannedAlone[i].entities # <<>>}
  OBVIOUS
<1>2. K = {} /\ Cardinality(K) = 0
  BY <1>1, FS_EmptySet
<1> QED
  BY <1>1, <1>2 DEF SentUpTo, Picked

\* While its stations and batches stay, so does what a call means.
LEMMA CallStays ==
    ASSUME UNCHANGED <<index, batches>>
    PROVE  /\ PlannedAlone' = PlannedAlone /\ \A n : SentUpTo(n)' = SentUpTo(n)
           /\ Lanes' = Lanes /\ ChunkSize' = ChunkSize /\ \A lane : Chunk(lane)' = Chunk(lane)
           /\ \A k : SlotPlanned(slots[k], batches[k])' <=> SlotPlanned(slots'[k], batches[k])
<1>1. PlannedAlone' = PlannedAlone
  BY DEF PlannedAlone, PlanOf
<1>2. \A n : SentUpTo(n)' = SentUpTo(n)
  BY <1>1 DEF SentUpTo
<1>3. Lanes' = Lanes
  BY DEF Lanes, Threads
<1>4. ChunkSize' = ChunkSize
  BY <1>3 DEF ChunkSize
<1>5. \A lane : Chunk(lane)' = Chunk(lane)
  BY <1>4 DEF Chunk
<1>6. \A k : SlotPlanned(slots[k], batches[k])' <=> SlotPlanned(slots'[k], batches[k])
  BY DEF SlotPlanned, AloneOf
<1> QED
  BY <1>1, <1>2, <1>3, <1>4, <1>5, <1>6

LEMMA BeginKeeps ==
    ASSUME BatchInv, NEW input \in Inputs, Begin(input)
    PROVE  BatchInv'
<1>1. PICK N \in Nat : N = Len(input) /\ input \in Seq(Batch)
  BY BatchAssumption
<1>2. EmptySlot \in Slot
  <2>1. PICK none \in QueryCacheIndex : none = <<>>
    <3>1. <<>> \in [{} -> Nat] /\ {} \in SUBSET QueryRanges
      OBVIOUS
    <3> QED
      BY <3>1 DEF QueryCacheIndex
  <2>2. PICK empty \in Seq(Answers), zero \in Nat : empty = <<>> /\ zero = 0
    BY EmptySeq
  <2>3. EmptyStats \in BatchStats
    BY DEF EmptyStats, BatchStats
  <2>4. EmptySlot = [plans |-> empty, active_plans |-> zero, stats |-> EmptyStats,
                     query_cache_index |-> none, query_cache |-> empty,
                     active_query_cache |-> zero]
    BY <2>1, <2>2 DEF EmptySlot
  <2> QED
    BY <2>1, <2>2, <2>3, <2>4 DEF Slot
<1>3. slots' \in Seq(Slot) /\ N <= Len(slots')
  <2>1. slots' = Resized(slots, N, EmptySlot) /\ slots \in Seq(Slot)
    BY <1>1 DEF Begin, BatchInv, CallTypes
  <2> QED
    BY <1>2, <2>1, ResizedSound
<1>4. CallTypes'
  BY <1>1, <1>3 DEF Begin, BatchInv, CallTypes
<1>5. SlotsReady'
  BY <1>1, <1>3 DEF Begin, SlotsReady
<1>6. PICK L \in Nat : L = Min({Threads, N})
  <2>1. PICK T \in Nat : T = Threads
    BY ThreadsSome
  <2> QED
    BY <2>1, Smaller
<1>7. Lanes' = L /\ progress' = [lane \in 1 .. L |-> 0]
  BY <1>1, <1>6 DEF Begin, Lanes, Threads
<1>8. PICK c : c = ChunkSize'
  OBVIOUS
<1>9. LanesDone'
  <2>1. progress' \in [1 .. L -> Nat]
    BY <1>7
  <2>2. ASSUME NEW lane \in 1 .. L
        PROVE  progress'[lane] = 0 /\ 0 <= Cardinality(Chunk(lane)')
    <3>1. DOMAIN batches' = 1 .. N
      BY <1>1 DEF Begin
    <3>2. Chunk(lane)' = ChunkOf(N, c, lane)
      BY <1>8, <3>1 DEF Chunk, ChunkOf
    <3>3. Cardinality(ChunkOf(N, c, lane)) \in Nat
      BY ChunkCounted
    <3> QED
      BY <1>7, <3>2, <3>3
  <2>3. ASSUME NEW lane \in 1 .. L, NEW k \in 1 .. N
        PROVE  ~((lane - 1) * c < k /\ k <= (lane - 1) * c + progress'[lane])
    <3>1. N # 0
      BY <2>3
    <3>2. c \in Nat
      <4>1. PICK a \in Nat : a = N + L - 1
        BY <3>1
      <4>2. L \in Nat \ {0}
        BY <2>3
      <4>3. a \div L \in Nat
        BY <4>2, Quotient
      <4>4. Len(batches') = N
        BY <1>1 DEF Begin
      <4> QED
        BY <1>7, <1>8, <4>1, <4>3, <4>4 DEF ChunkSize, DivCeil
    <3>3. PICK b \in Int : b = (lane - 1) * c
      BY <3>2
    <3> QED
      BY <2>2, <3>3
  <2>4. Len(batches') = N
    BY <1>1 DEF Begin
  <2> QED
    BY <1>7, <1>8, <2>1, <2>2, <2>3, <2>4 DEF LanesDone
<1>10. phase' = "planning" /\ frames_sent' = <<>> /\ completed' = 0
  BY DEF Begin
<1> QED
  BY <1>4, <1>5, <1>9, <1>10 DEF BatchInv, Underway, Planned

LEMMA PlanNextKeeps ==
    ASSUME BatchInv, NEW lane \in DOMAIN progress, PlanNext(lane)
    PROVE  BatchInv'
<1>1. phase = "planning" /\ LanesDone /\ frames_sent = <<>> /\ completed = 0
  BY DEF BatchInv, Underway, PlanNext
<1>2. progress \in [1 .. Lanes -> Nat] /\ lane \in 1 .. Lanes
  BY <1>1 DEF LanesDone
<1>3. batches \in Seq(Batch) /\ slots \in Seq(Slot) /\ index \in Worlds
  BY DEF BatchInv, CallTypes
<1>0. PICK c : c = ChunkSize
  OBVIOUS
<1>4. PICK N \in Nat, L \in Nat :
         N = Len(batches) /\ L = Lanes /\ c = ChunkSize /\ L <= N
  BY <1>0, <1>3, CallDealt
<1>5. N # 0 /\ batches # <<>>
  BY <1>2, <1>3, <1>4
<1>6. Dealt(N, L, c) /\ \A l : Chunk(l) = ChunkOf(N, c, l)
  BY <1>3, <1>4, <1>5, CallDealt
<1>7. PICK p \in Nat, b \in Nat : p = progress[lane] /\ b = (lane - 1) * c
  BY <1>2, <1>4, <1>6 DEF Dealt
<1>8. p < Cardinality(ChunkOf(N, c, lane))
  BY <1>6, <1>7 DEF PlanNext
<1>9. PICK k \in 1 .. N : k = b + p + 1
  BY <1>2, <1>4, <1>5, <1>6, <1>7, <1>8, NextInChunk
<1>10. N <= Len(slots) /\ active_batches = N
  BY <1>4, <1>5 DEF BatchInv, SlotsReady
<1>11. PICK s \in Slot, given \in Batch : s = slots[k] /\ given = batches[k]
  BY <1>3, <1>4, <1>9, <1>10
<1>12. PICK t : t = BatchPlanned(s, given)
  OBVIOUS
<1>13. t \in Slot /\ SlotPlanned(t, given)
  BY <1>3, <1>12, BatchPlannedSound
<1>14. slots' = [slots EXCEPT ![k] = t] /\ progress' = [progress EXCEPT ![lane] = p + 1]
  BY <1>4, <1>7, <1>9, <1>11, <1>12 DEF PlanNext
<1>15. /\ slots' \in Seq(Slot) /\ Len(slots') = Len(slots) /\ slots'[k] = t
       /\ \A j \in 1 .. N : j # k => slots'[j] = slots[j]
  BY <1>3, <1>9, <1>10, <1>13, <1>14
<1>16. UNCHANGED <<index, batches, phase, active_batches, frames_sent, completed>>
  BY DEF PlanNext
<1>17. /\ Lanes' = L /\ ChunkSize' = c /\ \A l : Chunk(l)' = ChunkOf(N, c, l)
       /\ \A j : SlotPlanned(slots[j], batches[j])' <=> SlotPlanned(slots'[j], batches[j])
  BY <1>4, <1>6, <1>16, CallStays
<1>18. LanesDone'
  <2>1. progress' \in [1 .. L -> Nat]
    BY <1>2, <1>4, <1>14
  <2>2. ASSUME NEW l \in 1 .. L
        PROVE  progress'[l] <= Cardinality(ChunkOf(N, c, l))
    <3>1. CASE l = lane
      <4>1. progress'[l] = p + 1
        BY <1>2, <1>14, <3>1
      <4>2. Cardinality(ChunkOf(N, c, lane)) \in Nat
        BY ChunkCounted
      <4> QED
        BY <1>8, <3>1, <4>1, <4>2
    <3>2. CASE l # lane
      <4>1. progress'[l] = progress[l]
        BY <1>2, <1>4, <1>14, <3>2
      <4> QED
        BY <1>1, <1>4, <1>6, <4>1 DEF LanesDone
    <3> QED
      BY <3>1, <3>2
  <2>3. ASSUME NEW l \in 1 .. L, NEW j \in 1 .. N,
               (l - 1) * c < j, j <= (l - 1) * c + progress'[l]
        PROVE  SlotPlanned(slots'[j], batches[j])
    <3>1. CASE j = k
      BY <1>11, <1>13, <1>15, <3>1
    <3>2. CASE j # k
      <4>1. j <= (l - 1) * c + progress[l]
        <5>1. CASE l = lane
          <6>1. progress'[l] = p + 1
            BY <1>2, <1>14, <5>1
          <6>2. j <= b + (p + 1)
            BY <1>7, <2>3, <5>1, <6>1
          <6>3. j <= b + p
            BY <1>9, <3>2, <6>2
          <6> QED
            BY <1>7, <5>1, <6>3
        <5>2. CASE l # lane
          <6>1. progress'[l] = progress[l]
            BY <1>2, <1>4, <1>14, <5>2
          <6> QED
            BY <2>3, <6>1
        <5> QED
          BY <5>1, <5>2
      <4>2. SlotPlanned(slots[j], batches[j])
        BY <1>1, <1>4, <2>3, <4>1 DEF LanesDone
      <4> QED
        BY <1>15, <3>2, <4>2
    <3> QED
      BY <3>1, <3>2
  <2>4. Len(batches') = N
    BY <1>4, <1>16
  <2> QED
    BY <1>17, <2>1, <2>2, <2>3, <2>4 DEF LanesDone
<1>19. CallTypes' /\ SlotsReady'
  BY <1>15, <1>16 DEF BatchInv, CallTypes, SlotsReady
<1> QED
  BY <1>1, <1>16, <1>18, <1>19 DEF BatchInv, Underway, Planned

LEMMA JoinKeeps == ASSUME BatchInv, Join PROVE BatchInv'
<1>1. phase = "planning" /\ LanesDone /\ frames_sent = <<>> /\ completed = 0
  BY DEF BatchInv, Underway, Join
<1>2. batches \in Seq(Batch)
  BY DEF BatchInv, CallTypes
<1>3. UNCHANGED <<index, batches, progress, slots, active_batches, frames_sent, completed>>
  BY DEF Join
<1>4. ASSUME batches # <<>>, NEW k \in 1 .. Len(batches)
      PROVE  SlotPlanned(slots[k], batches[k])
  <2>0. PICK c : c = ChunkSize
    OBVIOUS
  <2>1. PICK N \in Nat, L \in Nat : N = Len(batches) /\ L = Lanes /\ c = ChunkSize
    BY <2>0, <1>2, CallDealt
  <2>2. /\ N \in Nat \ {0} /\ Dealt(N, L, c)
        /\ \A l : Chunk(l) = ChunkOf(N, c, l)
    BY <1>2, <1>4, <2>1, CallDealt
  <2>3. PICK lane \in 1 .. L :
           /\ (lane - 1) * c < k
           /\ k <= (lane - 1) * c + Cardinality(ChunkOf(N, c, lane))
    BY <1>4, <2>1, <2>2, SomeLane
  <2>4. progress[lane] = Cardinality(ChunkOf(N, c, lane))
    BY <1>1, <2>1, <2>2 DEF Join, LanesDone
  <2>5. (lane - 1) * c < k /\ k <= (lane - 1) * c + progress[lane]
    BY <2>3, <2>4
  <2> QED
    BY <1>1, <1>4, <2>1, <2>5 DEF LanesDone
<1>5. CallTypes' /\ SlotsReady' /\ phase' = "sending"
  BY <1>3 DEF Join, BatchInv, CallTypes, SlotsReady
<1>6. ASSUME batches # <<>>
      PROVE  0 <= Len(PlannedAlone)
  <2>1. PlannedAlone \in Seq(BatchPackets)
    BY <1>2, PacketsTyped DEF BatchInv, CallTypes
  <2> QED
    BY <2>1
<1>7. Planned'
  BY <1>1, <1>3, <1>4, <1>6, SentNothing, CallStays DEF Planned
<1> QED
  BY <1>5, <1>7 DEF BatchInv, Underway

LEMMA AllThrough ==
    ASSUME BatchInv, phase # "planning", batches # <<>>
    PROVE  AllPlanned
BY DEF BatchInv, CallTypes, SlotsReady, Planned, AllPlanned

LEMMA SendNextKeeps ==
    ASSUME BatchInv, NEW fails \in BOOLEAN, SendNext(fails)
    PROVE  BatchInv'
<1>1. phase = "sending" /\ UNCHANGED <<index, batches, progress, slots, active_batches>>
  BY DEF SendNext
<1>2. CallTypes' /\ SlotsReady' /\ phase' # "planning"
  BY <1>1 DEF SendNext, BatchInv, CallTypes, SlotsReady
<1>3. ASSUME batches # <<>> PROVE Planned'
  <2>1. AllPlanned
    BY <1>1, <1>3, AllThrough
  <2>2. PICK alone \in Seq(BatchPackets) : alone = PlannedAlone /\ alone = Outgoing
    BY <2>1, PacketsTyped, OutgoingAlone DEF AllPlanned
  <2>3. PICK n \in Nat : n = completed
    BY DEF BatchInv, CallTypes
  <2>4. n < Len(alone)
    BY <2>2, <2>3 DEF SendNext
  <2>5. PICK packet : packet = alone[n + 1]
    OBVIOUS
  <2>6. /\ \A k \in 1 .. Len(batches) : SlotPlanned(slots[k], batches[k])
        /\ n <= Len(alone) /\ frames_sent = SentUpTo(n)
    BY <1>1, <1>3, <2>2, <2>3 DEF BatchInv, Planned
  <2>7. \A i \in 1 .. n + 1 : i \in 1 .. n \/ i = n + 1
    OBVIOUS
  <2>8. PICK K : K = {i \in 1 .. n : alone[i].entities # <<>>}
    OBVIOUS
  <2>9. ASSUME packet.entities = <<>> PROVE SentUpTo(n + 1) = SentUpTo(n)
    <3>1. {i \in 1 .. n + 1 : alone[i].entities # <<>>} = K
      BY <2>5, <2>7, <2>8, <2>9
    <3> QED
      BY <2>2, <2>8, <3>1 DEF SentUpTo
  <2>10. ASSUME packet.entities # <<>> PROVE SentUpTo(n + 1) = Append(SentUpTo(n), packet)
    <3>1. {i \in 1 .. n + 1 : alone[i].entities # <<>>} = K \cup {n + 1}
      <4>1. n + 1 \in 1 .. n + 1 /\ \A i \in 1 .. n : i \in 1 .. n + 1
        OBVIOUS
      <4> QED
        BY <2>5, <2>7, <2>8, <2>10, <4>1
    <3>2. K \in SUBSET (1 .. n) /\ n \in 0 .. Len(alone) - 1
      BY <2>4, <2>8
    <3>3. Picked(alone, K \cup {n + 1}) = Append(Picked(alone, K), alone[n + 1])
      BY <3>2, PickedNext
    <3> QED
      BY <2>2, <2>5, <2>8, <3>1, <3>3 DEF SentUpTo
  <2>11. completed' \in {n, n + 1} /\ completed' <= Len(alone)
    BY <2>3, <2>4 DEF SendNext
  <2>12. frames_sent' = SentUpTo(completed')
    <3>1. CASE fails
      BY <2>3, <2>6, <3>1 DEF SendNext
    <3>2. CASE ~fails /\ packet.entities = <<>>
      <4>1. frames_sent' = frames_sent /\ completed' = n + 1
        BY <2>2, <2>3, <2>5, <3>2 DEF SendNext
      <4> QED
        BY <2>6, <2>9, <3>2, <4>1
    <3>3. CASE ~fails /\ packet.entities # <<>>
      <4>1. frames_sent' = Append(frames_sent, packet) /\ completed' = n + 1
        BY <2>2, <2>3, <2>5, <3>3 DEF SendNext
      <4> QED
        BY <2>6, <2>10, <3>3, <4>1
    <3> QED
      BY <3>1, <3>2, <3>3
  <2>13. PICK m : m = completed'
    OBVIOUS
  <2>14. SentUpTo(m)' = SentUpTo(m) /\ PlannedAlone' = alone
    BY <1>1, <2>2, CallStays
  <2>15. \A k \in 1 .. Len(batches) : SlotPlanned(slots[k], batches[k])'
    BY <1>1, <2>6, CallStays
  <2>16. SentUpTo(completed)' = frames_sent'
    BY <2>12, <2>13, <2>14 DEF SentUpTo
  <2> QED
    BY <1>1, <2>11, <2>14, <2>15, <2>16 DEF Planned
<1>4. Planned'
  <2>1. batches = <<>> => Planned'
    BY <1>1 DEF Planned
  <2> QED
    BY <1>3, <2>1
<1> QED
  BY <1>2, <1>4 DEF BatchInv, Underway

LEMMA BatchNextKeeps == ASSUME BatchInv, [BatchNext]_batchVars PROVE BatchInv'
<1>1. CASE \E input \in Inputs : Begin(input)
  BY <1>1, BeginKeeps
<1>2. CASE \E lane \in DOMAIN progress : PlanNext(lane)
  BY <1>2, PlanNextKeeps
<1>3. CASE Join
  BY <1>3, JoinKeeps
<1>4. CASE \E fails \in BOOLEAN : SendNext(fails)
  BY <1>4, SendNextKeeps
<1>5. CASE Return
  <2>1. /\ phase = "sending" /\ phase' = "idle"
        /\ UNCHANGED <<index, batches, progress, slots, active_batches, frames_sent, completed>>
    BY <1>5 DEF Return
  <2>2. CallTypes' /\ SlotsReady' /\ Underway'
    BY <2>1 DEF BatchInv, CallTypes, SlotsReady, Underway
  <2>3. Planned'
    BY <2>1, CallStays DEF BatchInv, Planned, SentUpTo
  <2> QED
    BY <2>2, <2>3 DEF BatchInv
<1>6. CASE \E world \in Worlds : Change(world)
  BY <1>6 DEF Change, BatchInv, CallTypes, SlotsReady, Underway, Planned
<1>7. CASE UNCHANGED batchVars
  <2>1. UNCHANGED <<index, batches, phase, progress, slots, active_batches, frames_sent,
                    completed>>
    BY <1>7 DEF batchVars
  <2>2. LanesDone => LanesDone'
    BY <2>1, CallStays DEF LanesDone
  <2>3. CallTypes' /\ SlotsReady' /\ Underway'
    BY <2>1, <2>2 DEF BatchInv, CallTypes, SlotsReady, Underway
  <2>4. Planned'
    BY <2>1, CallStays DEF BatchInv, Planned, SentUpTo
  <2> QED
    BY <2>3, <2>4 DEF BatchInv
<1> QED
  BY <1>1, <1>2, <1>3, <1>4, <1>5, <1>6, <1>7 DEF BatchNext

\* Plans made in parallel, into slots and caches that are used again from call to
\* call, are those each viewer would get by itself, and go out in input order
\* (plan_for_viewers_configured_into, reusable_view and the executor's send loop).
THEOREM BatchAsAloneHolds == BatchSpec => []BatchAsAlone
<1>1. BatchInit => BatchInv
  <2> SUFFICES ASSUME BatchInit PROVE BatchInv
    OBVIOUS
  <2>1. <<>> \in Seq(Batch) /\ <<>> \in Seq(Slot)
    BY EmptySeq
  <2> QED
    BY <2>1 DEF BatchInit, BatchInv, CallTypes, SlotsReady, Underway, Planned
<1>2. BatchInv /\ [BatchNext]_batchVars => BatchInv'
  BY BatchNextKeeps
<1>3. BatchInv => BatchAsAlone
  <2> SUFFICES ASSUME BatchInv, phase # "planning", batches # <<>>
               PROVE  /\ Outgoing = PlannedAlone /\ frames_sent = SentUpTo(completed)
                      /\ Sum("viewers") = Len(PlannedAlone)
                      /\ Sum("reused") <= Sum("viewers") - Sum("unique")
    BY DEF BatchAsAlone, SentUpTo
  <2>1. AllPlanned
    BY AllThrough
  <2>2. frames_sent = SentUpTo(completed)
    BY DEF BatchInv, Planned
  <2> QED
    BY <2>1, <2>2, OutgoingAlone, StatisticsAddUp
<1> QED
  BY <1>1, <1>2, <1>3, PTL DEF BatchSpec
=============================================================================
