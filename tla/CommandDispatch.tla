--------------------------- MODULE CommandDispatch ---------------------------
(***************************************************************************)
(* Client commands on their way from a gateway to the node that hosts the  *)
(* client's station: GatewayCommandPipeline::dispatch and                  *)
(* CommandDispatchTransportBridge of crates/sectorsync-runtime/src/lib.rs  *)
(* over the deployment routes, one transport per node and the node's       *)
(* command queues.                                                         *)
(*                                                                         *)
(* Of the gateway only the check of sequence numbers is kept (see          *)
(* GatewaySessions); ingress is RUNNING (see CommandBarrier).  A dispatch  *)
(* report is data the embedding application still has to send: outbox      *)
(* holds those, in order, with the node the route resolved to.  Assumed of *)
(* the application, from docs/sdk-integration.md and the example           *)
(* gateway_deployment_dispatch:                                            *)
(*   - it sends its reports in order, and one it cannot send it tries      *)
(*     again or gives up;                                                  *)
(*   - a node opens the transport and the queues of a station placed on it *)
(*     and closes them once the station is placed elsewhere.               *)
(***************************************************************************)
EXTENDS DeploymentRoutes, StationTransport, CommandQueues

CONSTANTS
    Home,        \* client -> the station it is routed to
    Used,        \* priorities of commands
    MaxPackets,  \* bound on max_packets of a pump
    MaxLives     \* bound on how often a station is unassigned

ASSUME DispatchAssumption ==
    /\ Home \in [Clients -> Stations]
    /\ Used \subseteq Priorities
    /\ MaxPackets \in Nat \ {0}
    /\ MaxLives \in Nat

Hosts == Nodes \X Stations

\* A GatewayDeliveryRoute and the command it is for; life counts the times the
\* station was unassigned before.
Delivery ==
    [command : Command, node_id : Nodes, station_id : Stations,
     station_route_epoch : Epoch, life : 0 .. MaxLives]

\* A station that is not registered is not one without packets.
ASSUME NoQueueAssumption == NoQueue \notin Seq(Delivery) /\ NoQueue \notin Queues

VARIABLES
    last_sequence,  \* client -> last sequence number admitted
    outbox,         \* dispatch reports the application has still to send
    inbox,          \* host -> packets of the node's transport, or NoQueue
    queues,         \* host -> the node's command queues, or NoQueue
    life,           \* history: station -> times it was unassigned
    deliveries,     \* history: every delivery that was resolved
    applied,        \* history: host -> commands it applied, in order
    lost            \* history: accepted commands that were lost

commands == <<last_sequence, outbox, inbox, queues, deliveries, applied, lost>>
vars == <<deployment, commands, life>>

TypeOK ==
    /\ DeploymentTypeOK
    /\ last_sequence \in [Clients -> 0 .. MaxSequence]
    /\ outbox \in Seq(Delivery)
    /\ \A h \in Hosts :
          /\ IsRegistered(inbox, h) =>
                inbox[h] \in Seq(Delivery) /\ Len(inbox[h]) <= MaxQueued
          /\ IsRegistered(queues, h) => queues[h] \in Queues /\ Bounded(queues[h])
    /\ life \in [Stations -> 0 .. MaxLives]
    /\ deliveries \subseteq Delivery
    /\ applied \in [Hosts -> Seq(Command)]
    /\ lost \subseteq Command

Init ==
    /\ DeploymentInit
    /\ last_sequence = [c \in Clients |-> 0]
    /\ outbox = <<>>
    /\ inbox = [h \in Hosts |-> NoQueue]
    /\ queues = [h \in Hosts |-> NoQueue]
    /\ life = [s \in Stations |-> 0]
    /\ deliveries = {}
    /\ applied = [h \in Hosts |-> <<>>]
    /\ lost = {}

\* The commands of a sequence of deliveries.
CommandsIn(packets) == [i \in DOMAIN packets |-> packets[i].command]

-----------------------------------------------------------------------------
(* Control plane. *)

\* Every step of the deployment table; unassigning ends a life of the station.
ControlPlane ==
    /\ DeploymentNext
    /\ \A s \in Stations : life[s] = MaxLives => (Placed(s) => placements'[s] # NoRoute)
    /\ life' = [s \in Stations |->
                   IF Placed(s) /\ placements'[s] = NoRoute THEN life[s] + 1 ELSE life[s]]
    /\ UNCHANGED commands

PlacedAt(h) == Placed(h[2]) /\ placements[h[2]].node_id = h[1]

\* A node gets ready for a station that was placed on it.
OpenHost(h) ==
    /\ PlacedAt(h)
    /\ ~IsRegistered(queues, h)
    /\ inbox' = WithStation(inbox, h)
    /\ queues' = [queues EXCEPT ![h] = EmptyQueues]
    /\ UNCHANGED <<deployment, life, last_sequence, outbox, deliveries, applied, lost>>

\* A node drops the queues of a station placed elsewhere ...
CloseQueues(h) ==
    /\ ~PlacedAt(h)
    /\ IsRegistered(queues, h)
    /\ queues' = [queues EXCEPT ![h] = NoQueue]
    /\ lost' = lost \cup Held(queues[h])
    /\ UNCHANGED <<deployment, life, last_sequence, outbox, inbox, deliveries, applied>>

\* ... and, at some other time, its transport queue.
CloseTransport(h) ==
    /\ ~PlacedAt(h)
    /\ IsRegistered(inbox, h)
    /\ inbox' = WithoutStation(inbox, h)
    /\ lost' = lost \cup ToSet(CommandsIn(inbox[h]))
    /\ UNCHANGED <<deployment, life, last_sequence, outbox, queues, deliveries, applied>>

-----------------------------------------------------------------------------
(* Gateway. *)

\* GatewayDeliveryRoute of resolve_gateway_route.
Resolved(s, command) ==
    [command |-> command, node_id |-> placements[s].node_id, station_id |-> s,
     station_route_epoch |-> placements[s].route_epoch, life |-> life[s]]

\* Mutated: a command of the current sequence number is admitted again.
AdmitsAgain(c, sequence) == sequence >= last_sequence[c]

Admits(c, sequence) == sequence > last_sequence[c]

\* dispatch_command_frame: an admitted command gets a positive ACK if its route
\* resolves, a negative one if not; either way its number is spent.
DispatchFrame(c, sequence, priority) ==
    LET command == [client |-> c, sequence |-> sequence, priority |-> priority]
        delivery == Resolved(Home[c], command)
    IN /\ Admits(c, sequence)
       /\ last_sequence' = [last_sequence EXCEPT ![c] = sequence]
       /\ IF Resolves(Home[c])
          THEN /\ outbox' = Append(outbox, delivery)
               /\ deliveries' = deliveries \cup {delivery}
          ELSE UNCHANGED <<outbox, deliveries>>
       /\ UNCHANGED <<deployment, life, inbox, queues, applied, lost>>

\* Where the application sends the first report to.
Destination == <<Head(outbox).node_id, Head(outbox).station_id>>

\* send_envelope to the node of the report, wherever the station is by now.
SendEnvelope ==
    /\ outbox # <<>>
    /\ CanSend(inbox, Destination)
    /\ inbox' = Sent(inbox, Destination, Head(outbox))
    /\ outbox' = Tail(outbox)
    /\ UNCHANGED <<deployment, life, last_sequence, queues, deliveries, applied, lost>>

\* The application gives up a report that send_envelope returns an error for.
GiveUp ==
    /\ outbox # <<>>
    /\ ~CanSend(inbox, Destination)
    /\ outbox' = Tail(outbox)
    /\ lost' = lost \cup {Head(outbox).command}
    /\ UNCHANGED <<deployment, life, last_sequence, inbox, queues, deliveries, applied>>

-----------------------------------------------------------------------------
(* Node. *)

\* pump_target of up to max packets.  A packet is off the transport before the
\* queue is looked up, and the first command the node has no queues for, or no
\* room, ends the pump.
PumpTarget(h, max) ==
    /\ CanReceive(inbox, h)
    /\ LET most == IF Len(inbox[h]) < max THEN Len(inbox[h]) ELSE max
           received == CommandsIn(SubSeq(inbox[h], 1, most))
           pushed == IF IsRegistered(queues, h) THEN FitCount(queues[h], received) ELSE 0
           taken == IF pushed < most THEN pushed + 1 ELSE most
       IN /\ inbox' = AfterReceiving(inbox, h, taken)
          /\ queues' = IF IsRegistered(queues, h)
                       THEN [queues EXCEPT ![h].ready = WithReady(queues[h], received, pushed)]
                       ELSE queues
          /\ lost' = lost \cup {received[i] : i \in pushed + 1 .. taken}
    /\ UNCHANGED <<deployment, life, last_sequence, outbox, deliveries, applied>>

\* The node applies its next command.
PopNext(h) ==
    /\ IsRegistered(queues, h)
    /\ CanPop(queues[h])
    /\ queues' = [queues EXCEPT ![h] = Popped(@)]
    /\ applied' = [applied EXCEPT ![h] = Append(@, NextCommand(queues[h]))]
    /\ UNCHANGED <<deployment, life, last_sequence, outbox, inbox, deliveries, lost>>

Next ==
    \/ ControlPlane
    \/ \E h \in Hosts :
          \/ OpenHost(h) \/ CloseQueues(h) \/ CloseTransport(h)
          \/ \E max \in 1 .. MaxPackets : PumpTarget(h, max)
          \/ PopNext(h)
    \/ \E c \in Clients, n \in 1 .. MaxSequence, p \in Used : DispatchFrame(c, n, p)
    \/ SendEnvelope
    \/ GiveUp

Spec == Init /\ [][Next]_vars

-----------------------------------------------------------------------------
(* Properties. *)

\* Where a node has commands of a station: in its transport, in a queue, applied.
Stages == {"transport", "applied"} \cup Priorities

Line(h, stage) ==
    CASE stage = "transport" ->
            IF IsRegistered(inbox, h) THEN CommandsIn(inbox[h]) ELSE <<>>
      [] stage = "applied" -> applied[h]
      [] stage \in Priorities ->
            IF IsRegistered(queues, h) THEN queues[h].ready[stage] ELSE <<>>

\* The commands with one node for one station.
With(h) == UNION {ToSet(Line(h, stage)) : stage \in Stages}

\* A command acknowledged as accepted is in one place only: a report still to be
\* sent, the transport or the queues of one node, applied by one node, or lost.
\* None is applied twice, also when a station moves while its commands are under
\* way, and a command that was refused is nowhere.  A node applies the commands of
\* one client and priority in the order of their sequence numbers, whatever it
\* lost in between.
DispatchedOnce ==
    LET reports == CommandsIn(outbox)
        at_nodes == UNION {With(h) : h \in Hosts}
    IN /\ TypeOK
       /\ \A d, e \in deliveries : d.command = e.command => d = e
       /\ {d.command : d \in deliveries} = at_nodes \cup ToSet(reports) \cup lost
       /\ (at_nodes \cup ToSet(reports)) \cap lost = {}
       /\ at_nodes \cap ToSet(reports) = {}
       /\ \A i, j \in DOMAIN reports : reports[i] = reports[j] => i = j
       /\ \A g, h \in Hosts : g # h => With(g) \cap With(h) = {}
       /\ \A h \in Hosts : \A x, y \in Stages :
             LET u == Line(h, x)
                 v == Line(h, y)
             IN \A i \in DOMAIN u, j \in DOMAIN v : u[i] = v[j] => x = y /\ i = j
       /\ \A h \in Hosts : \A i, j \in DOMAIN applied[h] :
             LET a == applied[h][i]
                 b == applied[h][j]
             IN i < j /\ a.client = b.client /\ a.priority = b.priority
                   => a.sequence < b.sequence

\* Two deliveries that carry the same route epoch of a station name the same
\* node, so a delivery can be told stale by its epoch, unless the station was
\* unassigned in between (its epochs then start again).
EpochNamesNode ==
    \A d, e \in deliveries :
        d.station_id = e.station_id /\ d.life = e.life
            /\ d.station_route_epoch = e.station_route_epoch => d.node_id = e.node_id

\* The control plane's tables agree, and what is under way can be judged by them.
RoutesTrue == PlacementCoherent /\ EpochNamesNode
=============================================================================
