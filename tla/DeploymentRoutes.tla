--------------------------- MODULE DeploymentRoutes ---------------------------
(***************************************************************************)
(* Which node hosts which station: DeploymentRouteTable of                 *)
(* crates/sectorsync-runtime/src/deployment.rs.                            *)
(*                                                                         *)
(* The table is written by the control plane of the embedding application: *)
(* nodes register and send heartbeats, stations are placed, moved and      *)
(* taken away, a maintenance pass marks silent nodes offline.  An          *)
(* operation that returns an error changes nothing but statistics, which   *)
(* are left out, so it is a step that is not enabled.                      *)
(***************************************************************************)
EXTENDS Integers, FiniteSets

CONSTANTS
    Nodes,
    Stations,
    MaxNodes,            \* config.max_nodes
    MaxStationsPerNode,  \* config.max_stations_per_node
    StaleAfter,          \* config.stale_after_ticks
    Capacities,          \* capacities that nodes register with
    MaxEpoch,            \* bound on route epochs (u64 in the code)
    MaxNow,              \* bound on ticks (u64)
    NoRoute              \* an id that is not in a table (None)

ASSUME DeploymentAssumption ==
    /\ {MaxNodes, MaxStationsPerNode, StaleAfter, MaxNow} \subseteq Nat
    /\ MaxEpoch \in Nat \ {0}
    /\ Capacities \subseteq Nat
    /\ IsFiniteSet(Stations)

Epoch == 1 .. MaxEpoch
Ticks == 0 .. MaxNow
NodeState == {"Online", "Draining", "Offline"}

NodeRoute ==
    [state : NodeState, last_heartbeat : Ticks, station_capacity : Nat,
     assigned_stations : Nat, route_epoch : Epoch, stations : SUBSET Stations]

StationRoute == [node_id : Nodes, route_epoch : Epoch, assigned_at : Ticks]

ASSUME NoRouteAssumption == NoRoute \notin NodeRoute \cup StationRoute

VARIABLES
    nodes,       \* node -> NodeRoute or NoRoute
    placements,  \* station -> StationRoute or NoRoute (stations in the code)
    now          \* the tick the caller passes

table == <<nodes, placements>>
deployment == <<table, now>>

DeploymentTypeOK ==
    /\ nodes \in [Nodes -> NodeRoute \cup {NoRoute}]
    /\ placements \in [Stations -> StationRoute \cup {NoRoute}]
    /\ now \in Ticks

DeploymentInit ==
    /\ nodes = [n \in Nodes |-> NoRoute]
    /\ placements = [s \in Stations |-> NoRoute]
    /\ now = 0

Registered(n) == nodes[n] # NoRoute
Placed(s) == placements[s] # NoRoute

\* ensure_node_can_accept.
CanAccept(n) == Registered(n) /\ nodes[n].state = "Online"

\* One station more fits the node's capacity.
HasRoom(n) == Cardinality(nodes[n].stations) + 1 <= nodes[n].station_capacity

Granted(capacity) ==
    IF capacity < MaxStationsPerNode THEN capacity ELSE MaxStationsPerNode

\* register_node of a node the table has not seen.
RegisterNewNode(n, capacity) ==
    /\ ~Registered(n)
    /\ Cardinality({m \in Nodes : Registered(m)}) < MaxNodes
    /\ nodes' = [nodes EXCEPT ![n] =
          [state |-> "Online", last_heartbeat |-> now,
           station_capacity |-> Granted(capacity), assigned_stations |-> 0,
           route_epoch |-> 1, stations |-> {}]]
    /\ UNCHANGED <<placements, now>>

\* register_node of a known node: back online whatever its state was; the epoch
\* follows the capacity only.
RefreshNode(n, capacity) ==
    /\ Registered(n)
    /\ LET changed == nodes[n].station_capacity # Granted(capacity)
           epoch == nodes[n].route_epoch + (IF changed THEN 1 ELSE 0)
       IN /\ epoch \in Epoch
          /\ nodes' = [nodes EXCEPT ![n] =
                [@ EXCEPT !.state = "Online", !.last_heartbeat = now,
                          !.station_capacity = Granted(capacity),
                          !.assigned_stations = Cardinality(nodes[n].stations),
                          !.route_epoch = epoch]]
    /\ UNCHANGED <<placements, now>>

\* heartbeat: an offline node stays offline.
Heartbeat(n) ==
    /\ Registered(n)
    /\ nodes' = [nodes EXCEPT ![n].last_heartbeat = now]
    /\ UNCHANGED <<placements, now>>

\* The node in another state, under the next route epoch.
InState(n, state) ==
    [nodes[n] EXCEPT !.state = state, !.route_epoch = @ + 1]

\* mark_draining and mark_offline of a node that is not in that state yet.
Mark(n, state) ==
    /\ Registered(n)
    /\ nodes[n].state # state
    /\ nodes[n].route_epoch < MaxEpoch
    /\ nodes' = [nodes EXCEPT ![n] = InState(n, state)]
    /\ UNCHANGED <<placements, now>>

\* stale_nodes.
Stale(n) ==
    /\ Registered(n)
    /\ nodes[n].state # "Offline"
    /\ now - nodes[n].last_heartbeat > StaleAfter

\* mark_stale_offline: every stale node, in one pass.
MarkStaleOffline ==
    /\ \E n \in Nodes : Stale(n)
    /\ \A n \in Nodes : Stale(n) => nodes[n].route_epoch < MaxEpoch
    /\ nodes' = [n \in Nodes |-> IF Stale(n) THEN InState(n, "Offline") ELSE nodes[n]]
    /\ UNCHANGED <<placements, now>>

\* The station set of a node and the count refresh_assigned_count takes of it.
Hosting(route, hosted) ==
    [route EXCEPT !.stations = hosted, !.assigned_stations = Cardinality(hosted)]

\* assign_station of a station that has no route: its epoch starts at 1.
AssignStation(s, n) ==
    /\ CanAccept(n) /\ ~Placed(s) /\ HasRoom(n)
    /\ nodes' = [nodes EXCEPT ![n] = Hosting(@, @.stations \cup {s})]
    /\ placements' = [placements EXCEPT ![s] =
          [node_id |-> n, route_epoch |-> 1, assigned_at |-> now]]
    /\ UNCHANGED now

\* The node records after a station changed its node.
Moved(s, source, target) ==
    [nodes EXCEPT ![source] = Hosting(@, @.stations \ {s}),
                  ![target] = Hosting(@, @.stations \cup {s})]

\* Mutated: a station keeps its epoch when it moves.
SameEpoch(s) == placements[s].route_epoch

NextRouteEpoch(s) == placements[s].route_epoch + 1

\* move_station, and assign_station of a station another node has.
MoveStation(s, target) ==
    /\ CanAccept(target) /\ Placed(s)
    /\ placements[s].node_id # target
    /\ HasRoom(target)
    /\ NextRouteEpoch(s) \in Epoch
    /\ nodes' = Moved(s, placements[s].node_id, target)
    /\ placements' = [placements EXCEPT ![s] =
          [node_id |-> target, route_epoch |-> NextRouteEpoch(s), assigned_at |-> now]]
    /\ UNCHANGED now

\* unassign_station: the route, its epoch included, is forgotten.
UnassignStation(s) ==
    /\ Placed(s)
    /\ nodes' = [nodes EXCEPT ![placements[s].node_id] = Hosting(@, @.stations \ {s})]
    /\ placements' = [placements EXCEPT ![s] = NoRoute]
    /\ UNCHANGED now

\* The caller's tick advances.
AdvanceNow ==
    /\ now < MaxNow
    /\ now' = now + 1
    /\ UNCHANGED table

\* resolve_gateway_route finds a node: a draining one will do.
Resolves(s) == Placed(s) /\ nodes[placements[s].node_id].state # "Offline"

DeploymentNext ==
    \/ \E n \in Nodes :
          \/ \E capacity \in Capacities : RegisterNewNode(n, capacity) \/ RefreshNode(n, capacity)
          \/ Heartbeat(n)
          \/ \E state \in {"Draining", "Offline"} : Mark(n, state)
          \/ \E s \in Stations : AssignStation(s, n) \/ MoveStation(s, n)
    \/ MarkStaleOffline
    \/ \E s \in Stations : UnassignStation(s)
    \/ AdvanceNow

-----------------------------------------------------------------------------
(* Properties. *)

\* The two tables agree through every order of placements, moves and node
\* states: a station is in the set of the node its route names and in no other
\* (so it is hosted at most once), that node is registered, and the count a node
\* reports, which the control plane places by, is the size of its set.
PlacementCoherent ==
    /\ \A s \in Stations : Placed(s) => Registered(placements[s].node_id)
    /\ \A n \in Nodes : Registered(n) =>
          /\ nodes[n].stations = {s \in Stations : Placed(s) /\ placements[s].node_id = n}
          /\ nodes[n].assigned_stations = Cardinality(nodes[n].stations)
=============================================================================
