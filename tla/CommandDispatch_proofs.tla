------------------------ MODULE CommandDispatch_proofs ------------------------
(***************************************************************************)
(* The deployment tables agree, deliveries can be judged by their route    *)
(* epoch, and a command is in one place only and applied once, for every   *)
(* set of nodes, stations, clients and commands.                           *)
(***************************************************************************)
EXTENDS CommandDispatch, Ordered_proofs

\* The types of the routing table and of what the nodes hold.
RouteTypes ==
    /\ DeploymentTypeOK
    /\ life \in [Stations -> 0 .. MaxLives]
    /\ deliveries \subseteq Delivery

\* A delivery is from an earlier life of its station, or the station still has
\* the route of the delivery or a later one.
DeliveriesKnown ==
    \A d \in deliveries :
        LET s == d.station_id
        IN /\ d.life <= life[s]
           /\ d.life = life[s] =>
                 /\ Placed(s)
                 /\ d.station_route_epoch <= placements[s].route_epoch
                 /\ d.station_route_epoch = placements[s].route_epoch =>
                       d.node_id = placements[s].node_id

RouteInv == RouteTypes /\ PlacementCoherent /\ DeliveriesKnown /\ EpochNamesNode

\* The bounds are numbers, and no route stands for a missing one.
LEMMA Bounds ==
    /\ MaxNow \in Nat /\ MaxEpoch \in Nat /\ 1 \in Epoch /\ MaxStationsPerNode \in Nat /\ MaxLives \in Nat
    /\ Capacities \subseteq Nat /\ IsFiniteSet(Stations)
    /\ NoRoute \notin NodeRoute /\ NoRoute \notin StationRoute
    /\ \A S \in SUBSET Stations : Cardinality(S) \in Nat
<1>1. \A S \in SUBSET Stations : Cardinality(S) \in Nat
  BY DeploymentAssumption, FS_Subset, FS_CardinalityType
<1> QED BY <1>1, DeploymentAssumption, DispatchAssumption, NoRouteAssumption DEF Epoch

\* The record of a node that is registered.
LEMMA NodeTypes ==
    ASSUME DeploymentTypeOK, NEW n \in Nodes, Registered(n)
    PROVE  /\ nodes[n] \in NodeRoute
           /\ nodes[n].stations \in SUBSET Stations
           /\ nodes[n].route_epoch \in Epoch
           /\ nodes[n].station_capacity \in Nat
           /\ nodes[n] # NoRoute
BY DEF DeploymentTypeOK, Registered, NodeRoute

\* The set of a registered node has the stations that are placed on it.
LEMMA HostedExactly ==
    ASSUME PlacementCoherent, NEW n \in Nodes, Registered(n), NEW s \in Stations
    PROVE  /\ s \in nodes[n].stations <=> Placed(s) /\ placements[s].node_id = n
           /\ nodes[n].stations \subseteq Stations
           /\ nodes[n].assigned_stations = Cardinality(nodes[n].stations)
BY DEF PlacementCoherent

\* A station set gives a node a record of its type, with the count of the set.
LEMMA HostingTypes ==
    ASSUME NEW route \in NodeRoute, NEW hosted \in SUBSET Stations
    PROVE  /\ Hosting(route, hosted) \in NodeRoute
           /\ Hosting(route, hosted).stations = hosted
           /\ Hosting(route, hosted).assigned_stations = Cardinality(hosted)
BY Bounds DEF Hosting, NodeRoute

\* A change of one node that keeps its stations, and their count if it was right.
LEMMA NodeChangeCoherent ==
    ASSUME DeploymentTypeOK, PlacementCoherent, placements' = placements,
           \A n \in Nodes :
              /\ Registered(n) => /\ Registered(n)'
                                  /\ nodes'[n].stations = nodes[n].stations
                                  /\ nodes'[n].assigned_stations
                                        \in {nodes[n].assigned_stations,
                                             Cardinality(nodes[n].stations)}
              /\ Registered(n)' /\ ~Registered(n) =>
                    /\ nodes'[n].stations = {}
                    /\ nodes'[n].assigned_stations = 0
    PROVE  PlacementCoherent'
<1>1. \A s \in Stations : Placed(s)' => Registered(placements[s].node_id)'
  <2> SUFFICES ASSUME NEW s \in Stations, Placed(s)'
               PROVE  Registered(placements[s].node_id)'
    OBVIOUS
  <2>1. placements[s] \in StationRoute /\ Placed(s)
    BY DEF Placed, DeploymentTypeOK
  <2>2. placements[s].node_id \in Nodes /\ Registered(placements[s].node_id)
    BY <2>1 DEF PlacementCoherent, StationRoute
  <2>3. nodes'[placements[s].node_id] # NoRoute
    BY <2>2 DEF Registered
  <2> QED BY <2>3 DEF Registered
<1>2. ASSUME NEW n \in Nodes, Registered(n)'
      PROVE  /\ nodes'[n].stations = {s \in Stations : Placed(s) /\ placements[s].node_id = n}'
             /\ nodes'[n].assigned_stations = Cardinality(nodes'[n].stations)
  <2>1. CASE Registered(n)
    BY <2>1 DEF PlacementCoherent, Placed
  <2>2. CASE ~Registered(n)
    <3>1. {s \in Stations : Placed(s) /\ placements[s].node_id = n} = {}
      BY <2>2 DEF PlacementCoherent
    <3> QED BY <1>2, <2>2, <3>1, FS_EmptySet DEF Placed
  <2> QED BY <2>1, <2>2
<1> QED BY <1>1, <1>2 DEF PlacementCoherent, Placed, Registered

\* How the route of a station may change in one step.
RouteStep(s) ==
    \/ placements'[s] = placements[s]
    \/ ~Placed(s) /\ placements'[s] \in StationRoute
    \/ placements'[s] = NoRoute
    \/ /\ Placed(s) /\ placements'[s] \in StationRoute
       /\ placements'[s].route_epoch = placements[s].route_epoch + 1

\* Stations enter and leave the sets of nodes together with their routes.
LEMMA PlacingCoherent ==
    ASSUME DeploymentTypeOK, PlacementCoherent, NEW s \in Stations,
           NEW route \in StationRoute \cup {NoRoute},
           placements' = [placements EXCEPT ![s] = route],
           DeploymentTypeOK',
           route # NoRoute => Registered(route.node_id),
           \A n \in Nodes : Registered(n)' <=> Registered(n),
           \A n \in Nodes : Registered(n) =>
              /\ route # NoRoute /\ route.node_id = n =>
                    nodes'[n].stations = nodes[n].stations \cup {s}
              /\ route = NoRoute \/ route.node_id # n =>
                    nodes'[n].stations = nodes[n].stations \ {s}
              /\ nodes'[n].assigned_stations = Cardinality(nodes'[n].stations)
    PROVE  PlacementCoherent'
<1>0. /\ placements'[s] = route
      /\ \A x \in Stations : x # s => placements'[x] = placements[x]
      /\ NoRoute \notin StationRoute
  BY Bounds DEF DeploymentTypeOK
<1>1. ASSUME NEW x \in Stations, Placed(x)'
      PROVE  Registered(placements[x].node_id)'
  <2>1. placements'[x] \in StationRoute /\ placements'[x].node_id \in Nodes
    BY <1>1 DEF Placed, DeploymentTypeOK, StationRoute
  <2>2. Registered(placements'[x].node_id)
    BY <1>0, <1>1 DEF Placed, PlacementCoherent
  <2> QED BY <2>1, <2>2 DEF Registered
<1>2. ASSUME NEW n \in Nodes, Registered(n)'
      PROVE  /\ nodes'[n].stations = {x \in Stations : Placed(x) /\ placements[x].node_id = n}'
             /\ nodes'[n].assigned_stations = Cardinality(nodes'[n].stations)
  <2>1. \A x \in Stations : x \in nodes[n].stations <=> Placed(x) /\ placements[x].node_id = n
    BY <1>2, HostedExactly
  <2>2. nodes'[n].stations = {x \in Stations : placements'[x] # NoRoute /\ placements'[x].node_id = n}
    <3>1. nodes[n].stations \subseteq Stations /\ Registered(n)
      BY <1>2, NodeTypes
    <3>2. nodes'[n].stations \subseteq Stations
      BY <3>1
    <3>3. ASSUME NEW x \in Stations
          PROVE  x \in nodes'[n].stations
                    <=> placements'[x] # NoRoute /\ placements'[x].node_id = n
      <4>1. CASE route # NoRoute /\ route.node_id = n
        <5>1. nodes'[n].stations = nodes[n].stations \cup {s}
          BY <3>1, <4>1
        <5> QED BY <1>0, <2>1, <4>1, <5>1 DEF Placed
      <4>2. CASE ~(route # NoRoute /\ route.node_id = n)
        <5>1. nodes'[n].stations = nodes[n].stations \ {s}
          BY <3>1, <4>2
        <5> QED BY <1>0, <2>1, <4>2, <5>1 DEF Placed
      <4> QED BY <4>1, <4>2
    <3> QED BY <3>2, <3>3
  <2> QED BY <1>2, <2>2 DEF Placed
<1> QED BY <1>1, <1>2 DEF PlacementCoherent, Placed, Registered

\* Each operation of the table keeps its types, the agreement of its two parts, and
\* changes routes as above.
LEMMA OperationKeeps ==
    ASSUME DeploymentTypeOK, PlacementCoherent, DeploymentNext
    PROVE  /\ DeploymentTypeOK' /\ PlacementCoherent'
           /\ \A s \in Stations : RouteStep(s)
<1> USE Bounds
<1> DEFINE Goal == /\ DeploymentTypeOK' /\ PlacementCoherent'
                   /\ \A s \in Stations : RouteStep(s)
<1>1. ASSUME NEW n \in Nodes, NEW capacity \in Capacities, RegisterNewNode(n, capacity)
      PROVE  Goal
  <2> DEFINE new == [state |-> "Online", last_heartbeat |-> now,
                     station_capacity |-> Granted(capacity), assigned_stations |-> 0,
                     route_epoch |-> 1, stations |-> {}]
  <2>1. /\ ~Registered(n) /\ nodes' = [nodes EXCEPT ![n] = new]
        /\ UNCHANGED <<placements, now>>
    BY <1>1 DEF RegisterNewNode
  <2>2. new \in NodeRoute
    BY DEF NodeRoute, NodeState, DeploymentTypeOK, Granted
  <2>3. DeploymentTypeOK'
    BY <2>1, <2>2 DEF DeploymentTypeOK
  <2>4. PlacementCoherent'
    BY <2>1, <2>2, NodeChangeCoherent DEF DeploymentTypeOK, Registered
  <2> QED BY <2>1, <2>3, <2>4 DEF RouteStep
<1>2. ASSUME NEW n \in Nodes, NEW capacity \in Capacities, RefreshNode(n, capacity)
      PROVE  Goal
  <2>1. PICK epoch \in Epoch :
           /\ Registered(n)
           /\ nodes' = [nodes EXCEPT ![n] =
                 [@ EXCEPT !.state = "Online", !.last_heartbeat = now,
                           !.station_capacity = Granted(capacity),
                           !.assigned_stations = Cardinality(nodes[n].stations),
                           !.route_epoch = epoch]]
           /\ UNCHANGED <<placements, now>>
    BY <1>2 DEF RefreshNode
  <2>2. nodes[n] \in NodeRoute /\ Cardinality(nodes[n].stations) \in Nat
    BY <2>1, NodeTypes
  <2>3. /\ nodes'[n] \in NodeRoute /\ nodes'[n].stations = nodes[n].stations
        /\ nodes'[n].assigned_stations = Cardinality(nodes[n].stations)
        /\ \A m \in Nodes : m # n => nodes'[m] = nodes[m]
    BY <2>1, <2>2 DEF NodeRoute, NodeState, DeploymentTypeOK, Granted
  <2>4. DeploymentTypeOK'
    BY <2>1, <2>3 DEF DeploymentTypeOK
  <2>5. PlacementCoherent'
    BY <2>1, <2>3, NodeChangeCoherent DEF Registered
  <2> QED BY <2>1, <2>4, <2>5 DEF RouteStep
<1>3. ASSUME NEW n \in Nodes, Heartbeat(n)
      PROVE  Goal
  <2>1. /\ Registered(n) /\ nodes' = [nodes EXCEPT ![n].last_heartbeat = now]
        /\ UNCHANGED <<placements, now>>
    BY <1>3 DEF Heartbeat
  <2>2. nodes[n] \in NodeRoute
    BY <2>1, NodeTypes
  <2>3. /\ nodes'[n] \in NodeRoute /\ nodes'[n].stations = nodes[n].stations
        /\ nodes'[n].assigned_stations = nodes[n].assigned_stations
        /\ \A m \in Nodes : m # n => nodes'[m] = nodes[m]
    BY <2>1, <2>2 DEF NodeRoute, DeploymentTypeOK
  <2>4. DeploymentTypeOK'
    BY <2>1, <2>3 DEF DeploymentTypeOK
  <2>5. PlacementCoherent'
    BY <2>1, <2>3, NodeChangeCoherent DEF Registered
  <2> QED BY <2>1, <2>4, <2>5 DEF RouteStep
<1>4. ASSUME \A n \in Nodes :
                \/ nodes'[n] = nodes[n]
                \/ /\ Registered(n) /\ nodes[n].route_epoch < MaxEpoch
                   /\ \E state \in NodeState : nodes'[n] = InState(n, state),
             nodes' \in [Nodes -> {nodes'[n] : n \in Nodes}],
             UNCHANGED <<placements, now>>
      PROVE  Goal
  <2>1. ASSUME NEW n \in Nodes, Registered(n)
        PROVE  /\ nodes'[n] \in NodeRoute /\ nodes'[n].stations = nodes[n].stations
               /\ nodes'[n].assigned_stations = nodes[n].assigned_stations
    <3>1. nodes[n] \in NodeRoute
      BY <2>1, NodeTypes
    <3>2. nodes[n].route_epoch < MaxEpoch => nodes[n].route_epoch + 1 \in Epoch
      BY <3>1 DEF NodeRoute, Epoch
    <3> QED BY <1>4, <3>1, <3>2 DEF InState, NodeRoute
  <2>2. ASSUME NEW n \in Nodes, ~Registered(n)
        PROVE  nodes'[n] = nodes[n]
    BY <1>4, <2>2
  <2>3. DeploymentTypeOK'
    BY <1>4, <2>1, <2>2 DEF DeploymentTypeOK, Registered
  <2>4. PlacementCoherent'
    BY <1>4, <2>1, <2>2, NodeChangeCoherent DEF Registered
  <2> QED BY <1>4, <2>3, <2>4 DEF RouteStep
<1>5. ASSUME NEW n \in Nodes, NEW state \in {"Draining", "Offline"}, Mark(n, state)
      PROVE  Goal
  BY <1>4, <1>5 DEF Mark, DeploymentTypeOK, NodeState
<1>6. CASE MarkStaleOffline
  BY <1>4, <1>6 DEF MarkStaleOffline, Stale, DeploymentTypeOK, NodeState
<1>7. ASSUME NEW n \in Nodes, NEW s \in Stations, AssignStation(s, n)
      PROVE  Goal
  <2> DEFINE route == [node_id |-> n, route_epoch |-> 1, assigned_at |-> now]
  <2>1. /\ Registered(n) /\ ~Placed(s)
        /\ nodes' = [nodes EXCEPT ![n] = Hosting(@, @.stations \cup {s})]
        /\ placements' = [placements EXCEPT ![s] = route]
        /\ now' = now
    BY <1>7 DEF AssignStation, CanAccept
  <2>2. /\ nodes[n] \in NodeRoute /\ nodes[n].stations \cup {s} \in SUBSET Stations
        /\ route \in StationRoute
    BY <2>1, NodeTypes DEF StationRoute, DeploymentTypeOK
  <2>3. /\ nodes'[n] \in NodeRoute /\ nodes'[n].stations = nodes[n].stations \cup {s}
        /\ nodes'[n].assigned_stations = Cardinality(nodes'[n].stations)
        /\ \A m \in Nodes : m # n => nodes'[m] = nodes[m]
    <3>1. nodes'[n] = Hosting(nodes[n], nodes[n].stations \cup {s})
      BY <2>1 DEF DeploymentTypeOK
    <3> QED BY <2>1, <2>2, <3>1, HostingTypes DEF DeploymentTypeOK
  <2>4. DeploymentTypeOK'
    BY <2>1, <2>2, <2>3 DEF DeploymentTypeOK
  <2>5. \A m \in Nodes : Registered(m)' <=> Registered(m)
    BY <2>1, <2>3 DEF Registered
  <2>6. ASSUME NEW m \in Nodes, Registered(m)
        PROVE  /\ route.node_id = m =>
                     nodes'[m].stations = nodes[m].stations \cup {s}
               /\ route.node_id # m =>
                     nodes'[m].stations = nodes[m].stations \ {s}
               /\ nodes'[m].assigned_stations = Cardinality(nodes'[m].stations)
    <3>1. CASE m = n
      BY <2>1, <2>2, <2>3, <3>1
    <3>2. CASE m # n
      <4>1. s \notin nodes[m].stations /\ nodes[m].assigned_stations = Cardinality(nodes[m].stations)
        BY <2>1, <2>6, HostedExactly
      <4>2. nodes'[m] = nodes[m] /\ nodes[m].stations \ {s} = nodes[m].stations
        BY <2>3, <3>2, <4>1
      <4> QED BY <3>2, <4>1, <4>2
    <3> QED BY <3>1, <3>2
  <2>7. PlacementCoherent'
    <3>1. route # NoRoute /\ route \in StationRoute \cup {NoRoute} /\ Registered(route.node_id)
      BY <2>1, <2>2, Bounds
    <3>2. \A m \in Nodes : Registered(m) =>
             /\ route # NoRoute /\ route.node_id = m =>
                   nodes'[m].stations = nodes[m].stations \cup {s}
             /\ route = NoRoute \/ route.node_id # m =>
                   nodes'[m].stations = nodes[m].stations \ {s}
             /\ nodes'[m].assigned_stations = Cardinality(nodes'[m].stations)
      BY <2>6, <3>1
    <3>3. placements' = [placements EXCEPT ![s] = route]
      BY <2>1
    <3> HIDE DEF route
    <3> QED BY <2>4, <2>5, <3>1, <3>2, <3>3, PlacingCoherent
  <2>8. \A x \in Stations : RouteStep(x)
    BY <2>1, <2>2 DEF RouteStep, DeploymentTypeOK
  <2> QED BY <2>4, <2>7, <2>8
<1>8. ASSUME NEW n \in Nodes, NEW s \in Stations, MoveStation(s, n)
      PROVE  Goal
  <2> DEFINE source == placements[s].node_id
             route == [node_id |-> n, route_epoch |-> placements[s].route_epoch + 1,
                       assigned_at |-> now]
  <2>1. /\ Registered(n) /\ Placed(s) /\ source # n
        /\ placements[s].route_epoch + 1 \in Epoch
        /\ nodes' = [nodes EXCEPT ![source] = Hosting(@, @.stations \ {s}),
                                  ![n] = Hosting(@, @.stations \cup {s})]
        /\ placements' = [placements EXCEPT ![s] = route]
        /\ now' = now
    BY <1>8 DEF MoveStation, CanAccept, NextRouteEpoch, Moved
  <2>2. /\ placements[s] \in StationRoute /\ source \in Nodes /\ Registered(source)
        /\ route \in StationRoute
    BY <2>1 DEF Placed, DeploymentTypeOK, StationRoute, PlacementCoherent
  <2>3. /\ nodes[n] \in NodeRoute /\ nodes[n].stations \cup {s} \in SUBSET Stations
        /\ nodes[source] \in NodeRoute /\ nodes[source].stations \ {s} \in SUBSET Stations
    BY <2>1, <2>2, NodeTypes
  <2>4. /\ nodes'[n] = Hosting(nodes[n], nodes[n].stations \cup {s})
        /\ nodes'[source] = Hosting(nodes[source], nodes[source].stations \ {s})
        /\ \A m \in Nodes : m \notin {n, source} => nodes'[m] = nodes[m]
    BY <2>1, <2>2 DEF DeploymentTypeOK
  <2>5. /\ nodes'[n] \in NodeRoute /\ nodes'[n].stations = nodes[n].stations \cup {s}
        /\ nodes'[n].assigned_stations = Cardinality(nodes'[n].stations)
        /\ nodes'[source] \in NodeRoute /\ nodes'[source].stations = nodes[source].stations \ {s}
        /\ nodes'[source].assigned_stations = Cardinality(nodes'[source].stations)
    BY <2>3, <2>4, HostingTypes
  <2>6. DeploymentTypeOK'
    BY <2>1, <2>2, <2>4, <2>5 DEF DeploymentTypeOK
  <2>7. \A m \in Nodes : Registered(m)' <=> Registered(m)
    BY <2>1, <2>2, <2>4, <2>5 DEF Registered
  <2>8. ASSUME NEW m \in Nodes, Registered(m)
        PROVE  /\ route.node_id = m =>
                     nodes'[m].stations = nodes[m].stations \cup {s}
               /\ route.node_id # m =>
                     nodes'[m].stations = nodes[m].stations \ {s}
               /\ nodes'[m].assigned_stations = Cardinality(nodes'[m].stations)
    <3>1. CASE m \in {n, source}
      BY <2>1, <2>2, <2>5, <3>1
    <3>2. CASE m \notin {n, source}
      <4>1. s \notin nodes[m].stations /\ nodes[m].assigned_stations = Cardinality(nodes[m].stations)
        BY <2>8, <3>2, HostedExactly
      <4>2. nodes'[m] = nodes[m] /\ nodes[m].stations \ {s} = nodes[m].stations
        BY <2>4, <3>2, <4>1
      <4> QED BY <3>2, <4>1, <4>2
    <3> QED BY <3>1, <3>2
  <2>9. PlacementCoherent'
    <3>1. route # NoRoute /\ route \in StationRoute \cup {NoRoute} /\ Registered(route.node_id)
      BY <2>1, <2>2, Bounds
    <3>2. \A m \in Nodes : Registered(m) =>
             /\ route # NoRoute /\ route.node_id = m =>
                   nodes'[m].stations = nodes[m].stations \cup {s}
             /\ route = NoRoute \/ route.node_id # m =>
                   nodes'[m].stations = nodes[m].stations \ {s}
             /\ nodes'[m].assigned_stations = Cardinality(nodes'[m].stations)
      BY <2>8, <3>1
    <3>3. placements' = [placements EXCEPT ![s] = route]
      BY <2>1
    <3> HIDE DEF route
    <3> QED BY <2>6, <2>7, <3>1, <3>2, <3>3, PlacingCoherent
  <2>10. \A x \in Stations : RouteStep(x)
    BY <2>1, <2>2 DEF RouteStep, DeploymentTypeOK
  <2> QED BY <2>6, <2>9, <2>10
<1>9. ASSUME NEW s \in Stations, UnassignStation(s)
      PROVE  Goal
  <2> DEFINE source == placements[s].node_id
  <2>1. /\ Placed(s)
        /\ nodes' = [nodes EXCEPT ![source] = Hosting(@, @.stations \ {s})]
        /\ placements' = [placements EXCEPT ![s] = NoRoute]
        /\ now' = now
    BY <1>9 DEF UnassignStation
  <2>2. placements[s] \in StationRoute /\ source \in Nodes /\ Registered(source)
    BY <2>1 DEF Placed, DeploymentTypeOK, StationRoute, PlacementCoherent
  <2>3. nodes[source] \in NodeRoute /\ nodes[source].stations \ {s} \in SUBSET Stations
    BY <2>2, NodeTypes
  <2>4. /\ nodes'[source] = Hosting(nodes[source], nodes[source].stations \ {s})
        /\ \A m \in Nodes : m # source => nodes'[m] = nodes[m]
    BY <2>1, <2>2 DEF DeploymentTypeOK
  <2>5. /\ nodes'[source] \in NodeRoute /\ nodes'[source].stations = nodes[source].stations \ {s}
        /\ nodes'[source].assigned_stations = Cardinality(nodes'[source].stations)
    BY <2>3, <2>4, HostingTypes
  <2>6. DeploymentTypeOK'
    BY <2>1, <2>2, <2>4, <2>5 DEF DeploymentTypeOK
  <2>7. \A m \in Nodes : Registered(m)' <=> Registered(m)
    BY <2>2, <2>4, <2>5 DEF Registered
  <2>8. ASSUME NEW m \in Nodes, Registered(m)
        PROVE  /\ nodes'[m].stations = nodes[m].stations \ {s}
               /\ nodes'[m].assigned_stations = Cardinality(nodes'[m].stations)
    <3>1. CASE m = source
      BY <2>5, <3>1
    <3>2. CASE m # source
      <4>1. s \notin nodes[m].stations /\ nodes[m].assigned_stations = Cardinality(nodes[m].stations)
        BY <2>8, <3>2, HostedExactly
      <4>2. nodes'[m] = nodes[m] /\ nodes[m].stations \ {s} = nodes[m].stations
        BY <2>4, <3>2, <4>1
      <4> QED BY <4>1, <4>2
    <3> QED BY <3>1, <3>2
  <2>9. PlacementCoherent'
    <3> DEFINE route == NoRoute
    <3>1. route \in StationRoute \cup {NoRoute}
      OBVIOUS
    <3>2. /\ placements' = [placements EXCEPT ![s] = route]
          /\ route # NoRoute => Registered(route.node_id)
          /\ \A m \in Nodes : Registered(m) =>
                /\ route # NoRoute /\ route.node_id = m =>
                      nodes'[m].stations = nodes[m].stations \cup {s}
                /\ route = NoRoute \/ route.node_id # m =>
                      nodes'[m].stations = nodes[m].stations \ {s}
                /\ nodes'[m].assigned_stations = Cardinality(nodes'[m].stations)
      BY <2>1, <2>8
    <3> HIDE DEF route
    <3> QED BY <2>6, <2>7, <3>1, <3>2, PlacingCoherent
  <2>10. \A x \in Stations : RouteStep(x)
    BY <2>1 DEF RouteStep, DeploymentTypeOK
  <2> QED BY <2>6, <2>9, <2>10
<1>10. CASE AdvanceNow
  BY <1>10 DEF AdvanceNow, table, DeploymentTypeOK, Ticks, PlacementCoherent, Placed,
              Registered, RouteStep
<1> QED BY <1>1, <1>2, <1>3, <1>5, <1>6, <1>7, <1>8, <1>9, <1>10 DEF DeploymentNext

\* What the control plane does leaves every delivery to be judged by its epoch: a
\* route goes on under a greater epoch, or the station begins another life.
LEMMA ControlPlaneKeeps ==
    ASSUME RouteInv, ControlPlane
    PROVE  RouteInv'
<1> USE Bounds
<1>0. /\ DeploymentTypeOK /\ PlacementCoherent /\ DeliveriesKnown /\ EpochNamesNode
      /\ life \in [Stations -> 0 .. MaxLives] /\ deliveries \subseteq Delivery
  BY DEF RouteInv, RouteTypes
<1>1. /\ DeploymentNext /\ deliveries' = deliveries
      /\ \A s \in Stations : life[s] = MaxLives => (Placed(s) => placements'[s] # NoRoute)
      /\ life' = [s \in Stations |->
                     IF Placed(s) /\ placements'[s] = NoRoute THEN life[s] + 1 ELSE life[s]]
  BY DEF ControlPlane, commands
<1>2. /\ DeploymentTypeOK' /\ PlacementCoherent'
      /\ \A s \in Stations : RouteStep(s)
  BY <1>0, <1>1, OperationKeeps
<1>3. RouteTypes'
  <2>1. ASSUME NEW s \in Stations
        PROVE  life'[s] \in 0 .. MaxLives
    BY <1>0, <1>1
  <2>2. life' \in [Stations -> 0 .. MaxLives]
    BY <1>1, <2>1
  <2> QED BY <1>0, <1>1, <1>2, <2>2 DEF RouteTypes
<1>4. DeliveriesKnown'
  <2> SUFFICES ASSUME NEW d \in deliveries
               PROVE  LET s == d.station_id
                      IN /\ d.life <= life'[s]
                         /\ d.life = life'[s] =>
                               /\ placements'[s] # NoRoute
                               /\ d.station_route_epoch <= placements'[s].route_epoch
                               /\ d.station_route_epoch = placements'[s].route_epoch =>
                                     d.node_id = placements'[s].node_id
    BY <1>1 DEF DeliveriesKnown, Placed
  <2> DEFINE s == d.station_id
  <2>1. /\ s \in Stations /\ d.life \in Nat /\ life[s] \in Nat /\ d.station_route_epoch \in Nat
        /\ life'[s] = IF Placed(s) /\ placements'[s] = NoRoute THEN life[s] + 1 ELSE life[s]
    BY <1>0, <1>1 DEF Delivery, Epoch
  <2>2. /\ d.life <= life[s]
        /\ d.life = life[s] =>
              /\ Placed(s)
              /\ d.station_route_epoch <= placements[s].route_epoch
              /\ d.station_route_epoch = placements[s].route_epoch =>
                    d.node_id = placements[s].node_id
    BY <1>0 DEF DeliveriesKnown
  <2>3. Placed(s) => placements[s].route_epoch \in Nat
    BY <1>0, <2>1 DEF Placed, DeploymentTypeOK, StationRoute, Epoch
  <2>4. RouteStep(s)
    BY <1>2, <2>1
  <2> HIDE DEF s
  <2>5. d.life <= life'[s]
    BY <2>1, <2>2
  <2>6. ASSUME d.life = life'[s]
        PROVE  /\ placements'[s] # NoRoute
               /\ d.station_route_epoch <= placements'[s].route_epoch
               /\ d.station_route_epoch = placements'[s].route_epoch =>
                     d.node_id = placements'[s].node_id
    <3>1. Placed(s) /\ placements'[s] # NoRoute /\ d.life = life[s]
      BY <2>1, <2>2, <2>6
    <3> QED BY <2>1, <2>2, <2>3, <2>4, <3>1 DEF RouteStep
  <2> QED BY <2>5, <2>6 DEF s
<1>5. EpochNamesNode'
  BY <1>0, <1>1 DEF EpochNamesNode
<1> QED BY <1>2, <1>3, <1>4, <1>5 DEF RouteInv

\* A command that is dispatched gets the delivery of the route as it is.
LEMMA DispatchKeeps ==
    ASSUME RouteInv, NEW c \in Clients, NEW n \in 1 .. MaxSequence, NEW p \in Used,
           DispatchFrame(c, n, p)
    PROVE  RouteInv'
<1> DEFINE command == [client |-> c, sequence |-> n, priority |-> p]
           s == Home[c]
           new == Resolved(s, command)
<1>0. /\ DeploymentTypeOK /\ PlacementCoherent /\ DeliveriesKnown /\ EpochNamesNode
      /\ life \in [Stations -> 0 .. MaxLives] /\ deliveries \subseteq Delivery
  BY DEF RouteInv, RouteTypes
<1>1. /\ UNCHANGED <<nodes, placements, now, life>>
      /\ deliveries' = deliveries \/ (Resolves(s) /\ deliveries' = deliveries \cup {new})
  BY DEF DispatchFrame, deployment, table
<1>2. PlacementCoherent' /\ DeploymentTypeOK'
  BY <1>0, <1>1 DEF PlacementCoherent, Placed, Registered, DeploymentTypeOK
<1>3. CASE deliveries' = deliveries
  BY <1>0, <1>1, <1>2, <1>3
     DEF RouteInv, RouteTypes, DeliveriesKnown, Placed, EpochNamesNode
<1>4. CASE Resolves(s) /\ deliveries' = deliveries \cup {new}
  <2>1. s \in Stations /\ command \in Command
    BY DispatchAssumption DEF Command
  <2>2. Placed(s) /\ placements[s] \in StationRoute
    BY <1>0, <1>4, <2>1 DEF Resolves, Placed, DeploymentTypeOK
  <2>3. /\ new \in Delivery /\ new.station_id = s /\ new.life = life[s]
        /\ new.station_route_epoch = placements[s].route_epoch
        /\ new.node_id = placements[s].node_id
    BY <1>0, <2>1, <2>2 DEF Resolved, Delivery, StationRoute
  <2>4. life[s] \in Nat /\ placements[s].route_epoch \in Nat
    BY <1>0, <2>1, <2>2, Bounds DEF StationRoute, Epoch
  <2> HIDE DEF new, s
  <2>5. RouteTypes'
    BY <1>0, <1>1, <1>2, <1>4, <2>3 DEF RouteTypes
  <2>6. DeliveriesKnown'
    BY <1>0, <1>1, <1>4, <2>2, <2>3, <2>4 DEF DeliveriesKnown, Placed
  <2>7. \A d \in deliveries :
           d.station_id = s /\ d.life = life[s]
              /\ d.station_route_epoch = placements[s].route_epoch
                 => d.node_id = placements[s].node_id
    BY <1>0 DEF DeliveriesKnown
  <2>8. EpochNamesNode'
    BY <1>0, <1>4, <2>3, <2>7 DEF EpochNamesNode
  <2> QED BY <1>2, <2>5, <2>6, <2>8 DEF RouteInv
<1> QED BY <1>1, <1>3, <1>4

\* Every step of a run keeps the invariant of routes and deliveries.
LEMMA RoutesInvariant == Spec => []RouteInv
<1>1. Init => RouteInv
  <2> HAVE Init
  <2>1. RouteTypes
    BY Bounds DEF Init, RouteTypes, DeploymentInit, DeploymentTypeOK, Ticks
  <2>2. PlacementCoherent /\ DeliveriesKnown /\ EpochNamesNode
    BY DEF Init, DeploymentInit, PlacementCoherent, Placed, Registered, DeliveriesKnown,
           EpochNamesNode
  <2> QED BY <2>1, <2>2 DEF RouteInv
<1>2. RouteInv /\ [Next]_vars => RouteInv'
  <2> HAVE RouteInv /\ [Next]_vars
  <2>1. ASSUME UNCHANGED <<nodes, placements, now, life, deliveries>>
        PROVE  RouteInv'
    BY <2>1 DEF RouteInv, RouteTypes, DeploymentTypeOK, PlacementCoherent, Placed, Registered,
               DeliveriesKnown, EpochNamesNode
  <2>2. CASE ControlPlane
    BY <2>2, ControlPlaneKeeps
  <2>3. ASSUME NEW c \in Clients, NEW n \in 1 .. MaxSequence, NEW p \in Used,
               DispatchFrame(c, n, p)
        PROVE  RouteInv'
    BY <2>3, DispatchKeeps
  <2>4. CASE \E h \in Hosts : \/ OpenHost(h) \/ CloseQueues(h) \/ CloseTransport(h)
                              \/ \E max \in 1 .. MaxPackets : PumpTarget(h, max)
                              \/ PopNext(h)
    BY <2>1, <2>4 DEF OpenHost, CloseQueues, CloseTransport, PumpTarget, PopNext,
                     deployment, table
  <2>5. CASE SendEnvelope \/ GiveUp \/ UNCHANGED vars
    BY <2>1, <2>5 DEF SendEnvelope, GiveUp, vars, commands, deployment, table
  <2> QED BY <2>2, <2>3, <2>4, <2>5 DEF Next
<1> QED BY <1>1, <1>2, PTL DEF Spec

\* Through every order of placements, moves, node states and dispatches the tables
\* of DeploymentRouteTable agree, and two deliveries of one route epoch name the
\* same node unless the station was unassigned in between.
THEOREM RoutesTrueHolds == Spec => []RoutesTrue
<1>1. RouteInv => RoutesTrue
  BY DEF RouteInv, RoutesTrue
<1> QED BY <1>1, RoutesInvariant, PTL

-----------------------------------------------------------------------------
(* Commands under way. *)

\* No command comes twice, and those of one client and priority come in the order
\* of their numbers.
InSequence ==
    {x \in Command \X Command :
        /\ x[1] # x[2]
        /\ x[1].client = x[2].client /\ x[1].priority = x[2].priority
              => x[1].sequence < x[2].sequence}

\* What a node has of a station: the commands in the transport, in the ready
\* queues, and applied.
Contents(transport, ready, done) ==
    ToSet(transport) \cup ToSet(done) \cup UNION {ToSet(ready[p]) : p \in Priorities}

\* Each of these follows the order, and what was applied precedes what waits, in the
\* queues before in the transport.
HostOrder(transport, ready, done) ==
    /\ transport \in Seq(Command) /\ Chained(transport, InSequence)
    /\ done \in Seq(Command) /\ Chained(done, InSequence)
    /\ Linked(ToSet(done), ToSet(transport), InSequence)
    /\ ready \in [Priorities -> Seq(Command)]
    /\ \A p \in Priorities :
          /\ \A c \in ToSet(ready[p]) : c.priority = p
          /\ Chained(ready[p], InSequence)
          /\ Linked(ToSet(done), ToSet(ready[p]), InSequence)
          /\ Linked(ToSet(ready[p]), ToSet(transport), InSequence)

\* What is contained is somewhere, and is a command.
LEMMA ContentsAre ==
    ASSUME NEW t, NEW r, NEW d, HostOrder(t, r, d)
    PROVE  /\ \A x : x \in Contents(t, r, d) <=>
                        \/ x \in ToSet(t) \/ x \in ToSet(d)
                        \/ \E p \in Priorities : x \in ToSet(r[p])
           /\ Contents(t, r, d) \subseteq Command
<1>1. \A x : x \in Contents(t, r, d) <=>
                \/ x \in ToSet(t) \/ x \in ToSet(d)
                \/ \E p \in Priorities : x \in ToSet(r[p])
  BY DEF Contents
<1>2. /\ t \in Seq(Command) /\ d \in Seq(Command)
      /\ \A p \in Priorities : r[p] \in Seq(Command)
  BY DEF HostOrder
<1>3. \A s \in Seq(Command) : ToSet(s) \subseteq Command
  BY ElementsOf
<1> QED BY <1>1, <1>2, <1>3

\* The transport with one more command.
Arrived(t, c) == Append(t, c)

\* A command later than all others goes to the end of the transport.
LEMMA ArrivalKeepsOrder ==
    ASSUME NEW t, NEW r, NEW d, HostOrder(t, r, d), NEW c \in Command,
           \A x \in Contents(t, r, d) : <<x, c>> \in InSequence
    PROVE  /\ HostOrder(Arrived(t, c), r, d)
           /\ Contents(Arrived(t, c), r, d) = Contents(t, r, d) \cup {c}
<1>1. /\ t \in Seq(Command) /\ Chained(t, InSequence)
      /\ \A a \in ToSet(t) : <<a, c>> \in InSequence
  BY ContentsAre DEF HostOrder
<1>2. /\ Append(t, c) \in Seq(Command) /\ Chained(Append(t, c), InSequence)
      /\ ToSet(Append(t, c)) = ToSet(t) \cup {c}
  BY <1>1, ChainAppend
<1>3. PICK u : u = Arrived(t, c)
  OBVIOUS
<1>4. /\ u \in Seq(Command) /\ Chained(u, InSequence)
      /\ ToSet(u) = ToSet(t) \cup {c}
  BY <1>2, <1>3 DEF Arrived
<1>5. HostOrder(u, r, d)
  BY <1>4, ContentsAre DEF HostOrder, Linked
<1>6. Contents(u, r, d) = Contents(t, r, d) \cup {c}
  BY <1>4 DEF Contents
<1> QED BY ONLY <1>3, <1>5, <1>6

\* The queues without the first command of a priority, and the applied with it.
Without(r, p) == [r EXCEPT ![p] = Tail(r[p])]
Behind(d, r, p) == Append(d, Head(r[p]))

\* The first command of a queue goes behind those applied before.
LEMMA ApplyKeepsOrder ==
    ASSUME NEW t, NEW r, NEW d, HostOrder(t, r, d), NEW p \in Priorities, r[p] # <<>>
    PROVE  /\ HostOrder(t, Without(r, p), Behind(d, r, p))
           /\ Contents(t, Without(r, p), Behind(d, r, p)) = Contents(t, r, d)
<1> DEFINE c == Head(r[p])
           rest == Tail(r[p])
           q == Without(r, p)
           e == Behind(d, r, p)
<1>1. /\ r[p] \in Seq(Command) /\ Chained(r[p], InSequence)
      /\ r \in [Priorities -> Seq(Command)]
      /\ \A x \in ToSet(r[p]) : x.priority = p
      /\ d \in Seq(Command) /\ Chained(d, InSequence)
      /\ Linked(ToSet(d), ToSet(r[p]), InSequence)
      /\ Linked(ToSet(r[p]), ToSet(t), InSequence)
  BY DEF HostOrder
<1>2. /\ rest \in Seq(Command) /\ c \in Command /\ Chained(rest, InSequence)
      /\ ToSet(r[p]) = {c} \cup ToSet(rest)
      /\ \A b \in ToSet(rest) : <<c, b>> \in InSequence
  BY <1>1, ChainTail
<1>3. /\ q \in [Priorities -> Seq(Command)]
      /\ \A o \in Priorities : q[o] = IF o = p THEN rest ELSE r[o]
  BY <1>1, <1>2 DEF Without
<1> HIDE DEF c, rest, q
<1>4. /\ e \in Seq(Command) /\ Chained(e, InSequence) /\ ToSet(e) = ToSet(d) \cup {c}
  BY <1>1, <1>2, ChainAppend DEF Linked, Behind, c
<1> HIDE DEF e
<1>5. ASSUME NEW o \in Priorities
      PROVE  /\ \A x \in ToSet(q[o]) : x.priority = o
             /\ Chained(q[o], InSequence)
             /\ Linked(ToSet(e), ToSet(q[o]), InSequence)
             /\ Linked(ToSet(q[o]), ToSet(t), InSequence)
  <2>1. /\ \A x \in ToSet(r[o]) : x.priority = o /\ x \in Command
        /\ Chained(r[o], InSequence)
        /\ Linked(ToSet(d), ToSet(r[o]), InSequence)
        /\ Linked(ToSet(r[o]), ToSet(t), InSequence)
    BY ElementsOf DEF HostOrder
  <2>2. CASE o = p
    BY <1>1, <1>2, <1>3, <1>4, <2>1, <2>2 DEF Linked
  <2>3. CASE o # p
    <3>1. \A b \in ToSet(r[o]) : <<c, b>> \in InSequence
      BY <1>1, <1>2, <2>1, <2>3 DEF InSequence
    <3> QED BY <1>3, <1>4, <2>1, <2>3, <3>1 DEF Linked
  <2> QED BY <2>2, <2>3
<1>6. HostOrder(t, q, e)
  <2>1. Linked(ToSet(e), ToSet(t), InSequence)
    BY <1>1, <1>2, <1>4 DEF HostOrder, Linked
  <2> QED BY <1>3, <1>4, <1>5, <2>1 DEF HostOrder
<1>7. \A x : x \in Contents(t, q, e) <=> x \in Contents(t, r, d)
  BY <1>2, <1>3, <1>4, <1>6, ContentsAre
<1>8. HostOrder(t, q, e) /\ Contents(t, q, e) = Contents(t, r, d)
  BY <1>6, <1>7
<1> QED BY ONLY <1>8 DEF q, e

\* The fields of well-formed queues.
LEMMA ReadyQueues ==
    ASSUME NEW q \in Queues
    PROVE  /\ q = [ready |-> q.ready, barrier_buffer |-> q.barrier_buffer]
           /\ q.ready \in [Priorities -> Seq(Command)]
           /\ \A p \in Priorities : q.ready[p] \in Seq(Command) /\ Len(q.ready[p]) \in Nat
           /\ \A p \in Priorities : Limits[p] \in Nat
BY LimitsAssumption DEF Queues

\* What a pump queues before it is blocked is a prefix of what it received, and fits.
LEMMA FitCounts ==
    ASSUME NEW q \in Queues, Bounded(q), NEW list \in Seq(Command), NEW n, n = FitCount(q, list)
    PROVE  /\ n \in 0 .. Len(list)
           /\ \A p \in Priorities :
                 Len(q.ready[p]) + Cardinality(Entering(list, n, p)) <= Limits[p]
<1> DEFINE G == {i \in 1 .. Len(list) : \A j \in 1 .. i : Fits(q, list, j)}
<1>0. /\ Len(list) \in Nat /\ DOMAIN list = 1 .. Len(list)
      /\ \A p \in Priorities : /\ Len(q.ready[p]) \in Nat /\ Limits[p] \in Nat
                               /\ Len(q.ready[p]) <= Limits[p]
  BY ReadyQueues, LimitsAssumption DEF Bounded
<1>1. G \in SUBSET (1 .. Len(list)) /\ n = Cardinality(G)
  BY <1>0 DEF FitCount
<1>2. \A i \in G : Fits(q, list, i) /\ \A j \in 1 .. i : j \in G
  BY <1>0
<1> HIDE DEF G
<1>3. G = 1 .. n /\ n \in 0 .. Len(list)
  BY ONLY <1>0, <1>1, <1>2, Prefix
<1>4. ASSUME NEW p \in Priorities
      PROVE  Len(q.ready[p]) + Cardinality(Entering(list, n, p)) <= Limits[p]
  <2> DEFINE K == Entering(list, n, p)
  <2>1. n \in Nat /\ K \in SUBSET (1 .. n)
    BY <1>3 DEF Entering
  <2>2. ASSUME NEW m \in K
        PROVE  Len(q.ready[p]) + Cardinality({j \in K : j <= m - 1}) < Limits[p]
    <3>1. m \in 1 .. n /\ list[m].priority = p /\ Fits(q, list, m)
      BY <1>2, <1>3, <2>1 DEF Entering
    <3>2. Entering(list, m - 1, p) = {j \in K : j <= m - 1}
      BY <2>1, <3>1 DEF Entering
    <3> QED
      BY <3>1, <3>2 DEF Fits
  <2> HIDE DEF K
  <2>3. Len(q.ready[p]) + Cardinality(K) <= Limits[p]
    BY <1>0, <2>1, <2>2, Room
  <2> QED
    BY <2>3 DEF K
<1> QED
  BY <1>3, <1>4

\* What is left of the transport, what the queues become, and what is lost, when m
\* commands are taken of those received, v, and the first n of them are queued.
Rest(t, m) == SubSeq(t, m + 1, Len(t))
FirstOf(t, most) == SubSeq(t, 1, most)
Enqueued(r, v, n) == [p \in Priorities |-> r[p] \o Picked(v, Entering(v, n, p))]
Blocked(v, n, m) == {v[i] : i \in n + 1 .. m}

\* A pump takes the first commands off the transport, queues those it has room for,
\* each behind those of its priority, and loses the one behind them, if it took it.
LEMMA PumpKeepsOrder ==
    ASSUME NEW t, NEW r, NEW d, HostOrder(t, r, d),
           NEW m \in 0 .. Len(t), NEW n \in 0 .. m, m <= n + 1,
           NEW most \in m .. Len(t), NEW v, v = FirstOf(t, most)
    PROVE  /\ HostOrder(Rest(t, m), Enqueued(r, v, n), d)
           /\ Contents(t, r, d) = Contents(Rest(t, m), Enqueued(r, v, n), d) \cup Blocked(v, n, m)
           /\ Contents(Rest(t, m), Enqueued(r, v, n), d) \cap Blocked(v, n, m) = {}
           /\ \A p \in Priorities :
                 Len(Enqueued(r, v, n)[p]) = Len(r[p]) + Cardinality(Entering(v, n, p))
<1> DEFINE rest == Rest(t, m)
           ready == Enqueued(r, v, n)
           refused == Blocked(v, n, m)
<1>0. /\ t \in Seq(Command) /\ Chained(t, InSequence) /\ Len(t) \in Nat
      /\ d \in Seq(Command) /\ Chained(d, InSequence)
      /\ Linked(ToSet(d), ToSet(t), InSequence)
      /\ m \in Nat /\ n \in Nat /\ most \in Nat /\ n <= m /\ m <= most /\ most <= Len(t)
  BY DEF HostOrder
<1>1. /\ v \in Seq(Command) /\ Len(v) = most /\ Chained(v, InSequence)
      /\ \A i \in 1 .. most : v[i] = t[i]
  <2>1. most \in 0 .. Len(t)
    BY <1>0
  <2>2. /\ SubSeq(t, 1, most) \in Seq(Command) /\ Len(SubSeq(t, 1, most)) = most
        /\ Chained(SubSeq(t, 1, most), InSequence)
    BY ONLY <1>0, <2>1, ChainTake
  <2>3. \A i \in 1 .. most : SubSeq(t, 1, most)[i] = t[i]
    BY <1>0, <2>1
  <2> QED BY <2>2, <2>3 DEF FirstOf
<1>2. /\ rest \in Seq(Command) /\ Chained(rest, InSequence)
      /\ ToSet(rest) = {t[i] : i \in m + 1 .. Len(t)}
  BY <1>0, ChainDrop DEF Rest
<1>3. /\ \A i \in 1 .. Len(t) : t[i] \in ToSet(t) /\ t[i] \in Command
      /\ \A i, j \in 1 .. Len(t) : i < j => <<t[i], t[j]>> \in InSequence
      /\ \A x \in ToSet(t) : \E i \in 1 .. Len(t) : x = t[i]
  BY <1>0, ElementsOf DEF Chained
<1> HIDE DEF rest
<1>3a. ToSet(rest) \subseteq ToSet(t) /\ \A i \in m + 1 .. Len(t) : i \in 1 .. Len(t)
  <2>1. \A i \in m + 1 .. Len(t) : i \in 1 .. Len(t)
    BY <1>0
  <2> QED BY <1>2, <1>3, <2>1
<1>4. ToSet(v) \subseteq ToSet(t)
  <2>1. \A x \in ToSet(v) : \E i \in 1 .. most : x = v[i]
    BY ONLY <1>1, ElementsOf
  <2> QED BY <1>0, <1>1, <1>3, <2>1
<1>5. ASSUME NEW p \in Priorities
      PROVE  /\ ready[p] \in Seq(Command) /\ Chained(ready[p], InSequence)
             /\ Len(ready[p]) = Len(r[p]) + Cardinality(Entering(v, n, p))
             /\ \A x : x \in ToSet(ready[p]) <=>
                          x \in ToSet(r[p]) \/ \E i \in Entering(v, n, p) : x = v[i]
             /\ \A c \in ToSet(ready[p]) : c.priority = p
             /\ Linked(ToSet(d), ToSet(ready[p]), InSequence)
             /\ Linked(ToSet(ready[p]), ToSet(rest), InSequence)
  <2> DEFINE K == Entering(v, n, p)
  <2>1. /\ r[p] \in Seq(Command) /\ Chained(r[p], InSequence)
        /\ \A c \in ToSet(r[p]) : c.priority = p
        /\ Linked(ToSet(d), ToSet(r[p]), InSequence)
        /\ Linked(ToSet(r[p]), ToSet(t), InSequence)
    BY DEF HostOrder
  <2>2. /\ K \in SUBSET (1 .. Len(v))
        /\ \A i \in K : i \in 1 .. n /\ v[i].priority = p
    BY <1>0, <1>1 DEF Entering
  <2>3. Linked(ToSet(r[p]), ToSet(v), InSequence)
    BY <1>4, <2>1 DEF Linked
  <2>4. ready[p] = r[p] \o Picked(v, K)
    BY DEF Enqueued
  <2> HIDE DEF K, ready
  <2>5. /\ r[p] \o Picked(v, K) \in Seq(Command)
        /\ Len(r[p] \o Picked(v, K)) = Len(r[p]) + Cardinality(K)
        /\ Chained(r[p] \o Picked(v, K), InSequence)
        /\ ToSet(r[p] \o Picked(v, K)) = ToSet(r[p]) \cup {v[i] : i \in K}
        /\ {v[i] : i \in K} \subseteq ToSet(v)
    BY ONLY <1>1, <2>1, <2>2, <2>3, ChainExtended
  <2>6. /\ \A x : x \in ToSet(ready[p]) <=> x \in ToSet(r[p]) \/ \E i \in K : x = v[i]
        /\ \A c \in ToSet(ready[p]) : c.priority = p
    <3>1. \A x : x \in {v[i] : i \in K} <=> \E i \in K : x = v[i]
      OBVIOUS
    <3> QED BY <2>1, <2>2, <2>4, <2>5, <3>1
  <2>7. Linked(ToSet(d), ToSet(ready[p]), InSequence)
    BY <1>0, <1>4, <2>1, <2>4, <2>5 DEF Linked
  <2>8. ASSUME NEW i \in K, NEW x \in ToSet(rest)
        PROVE  <<v[i], x>> \in InSequence
    <3>1. PICK j \in m + 1 .. Len(t) : x = t[j]
      BY <1>2
    <3>2. /\ i \in 1 .. Len(t) /\ j \in 1 .. Len(t) /\ i < j /\ v[i] = t[i]
      BY <1>0, <1>1, <2>2
    <3> QED BY <1>3, <3>1, <3>2
  <2>9. Linked(ToSet(ready[p]), ToSet(rest), InSequence)
    BY <1>3a, <2>1, <2>4, <2>6, <2>8 DEF Linked
  <2> QED BY <2>4, <2>5, <2>6, <2>7, <2>9 DEF K
<1>6. HostOrder(rest, ready, d)
  <2>1. ready \in [Priorities -> Seq(Command)]
    BY <1>5 DEF Enqueued
  <2>2. Linked(ToSet(d), ToSet(rest), InSequence)
    BY <1>0, <1>3a DEF Linked
  <2> HIDE DEF ready
  <2> QED BY <1>0, <1>2, <1>5, <2>1, <2>2 DEF HostOrder
<1> HIDE DEF ready, refused
<1>7. /\ \A x : x \in Contents(rest, ready, d) <=>
                  \/ x \in ToSet(rest) \/ x \in ToSet(d)
                  \/ \E p \in Priorities : x \in ToSet(ready[p])
      /\ \A x : x \in Contents(t, r, d) <=>
                  \/ x \in ToSet(t) \/ x \in ToSet(d)
                  \/ \E p \in Priorities : x \in ToSet(r[p])
  BY <1>6, ContentsAre
<1>8. \A x : x \in refused <=> \E i \in n + 1 .. m : x = v[i]
  BY DEF refused, Blocked
<1>9. ASSUME NEW x \in Contents(t, r, d)
      PROVE  x \in Contents(rest, ready, d) \cup refused
  <2>1. CASE x \in ToSet(t)
    <3>1. PICK i \in 1 .. Len(t) : x = t[i]
      BY <1>3, <2>1
    <3>2. CASE i <= n
      <4>1. t[i] = v[i] /\ v[i].priority \in Priorities
            /\ i \in Entering(v, n, v[i].priority)
        BY <1>0, <1>1, <1>3, <3>2 DEF Command, Entering
      <4> QED BY <1>5, <1>7, <3>1, <4>1
    <3>3. CASE i > m
      BY <1>0, <1>2, <1>7, <3>1, <3>3
    <3>4. CASE n < i /\ i <= m
      BY <1>0, <1>1, <1>8, <3>1, <3>4
    <3> QED BY <1>0, <3>2, <3>3, <3>4
  <2>2. ASSUME NEW p \in Priorities, x \in ToSet(r[p])
        PROVE  x \in Contents(rest, ready, d)
    BY <1>5, <1>7, <2>2
  <2> QED BY <1>7, <2>1, <2>2
<1>10. ASSUME NEW x \in Contents(rest, ready, d)
       PROVE  x \in Contents(t, r, d)
  <2>1. CASE x \in ToSet(rest)
    BY <1>7, <1>3a, <2>1
  <2>2. ASSUME NEW p \in Priorities, x \in ToSet(ready[p])
        PROVE  x \in Contents(t, r, d)
    <3>1. CASE x \in ToSet(r[p])
      BY <1>7, <3>1
    <3>2. CASE \E i \in Entering(v, n, p) : x = v[i]
      <4>1. PICK i \in Entering(v, n, p) : x = v[i]
        BY <3>2
      <4>2. i \in 1 .. Len(t) /\ v[i] = t[i]
        BY <1>0, <1>1 DEF Entering
      <4> QED BY <1>3, <1>7, <4>1, <4>2
    <3>3. x \in ToSet(r[p]) \/ \E i \in Entering(v, n, p) : x = v[i]
      BY ONLY <1>5, <2>2
    <3> QED BY ONLY <3>1, <3>2, <3>3
  <2> QED BY <1>7, <2>1, <2>2
<1>11. ASSUME NEW i \in n + 1 .. m
       PROVE  v[i] \in Contents(t, r, d) /\ v[i] \notin Contents(rest, ready, d)
  <2>1. i \in 1 .. Len(t) /\ v[i] = t[i] /\ i = m /\ n < i
    BY <1>0, <1>1
  <2>2. v[i] \notin ToSet(rest)
    <3> SUFFICES ASSUME v[i] \in ToSet(rest) PROVE FALSE
      OBVIOUS
    <3>1. PICK j \in m + 1 .. Len(t) : v[i] = t[j]
      BY <1>2
    <3>2. <<t[i], t[j]>> \in InSequence
      BY <1>0, <1>3, <2>1
    <3> QED BY <2>1, <3>1, <3>2 DEF InSequence
  <2>3. v[i] \notin ToSet(d)
    BY <1>0, <1>3, <2>1 DEF Linked, InSequence
  <2>4. ASSUME NEW p \in Priorities, v[i] \in ToSet(ready[p])
        PROVE  FALSE
    <3>1. CASE v[i] \in ToSet(r[p])
      BY <1>3, <2>1, <3>1 DEF HostOrder, Linked, InSequence
    <3>2. ASSUME NEW j \in Entering(v, n, p), v[i] = v[j]
          PROVE  FALSE
      <4>1. j \in 1 .. Len(t) /\ j < i /\ v[j] = t[j]
        BY <1>0, <1>1, <2>1 DEF Entering
      <4>2. <<t[j], t[i]>> \in InSequence
        BY <1>3, <2>1, <4>1
      <4> QED BY <2>1, <3>2, <4>1, <4>2 DEF InSequence
    <3> QED BY <1>5, <2>4, <3>1, <3>2
  <2> QED BY <1>3, <1>7, <2>1, <2>2, <2>3, <2>4
<1>12. /\ Contents(t, r, d) = Contents(rest, ready, d) \cup refused
       /\ Contents(rest, ready, d) \cap refused = {}
  BY <1>8, <1>9, <1>10, <1>11
<1>13. \A p \in Priorities : Len(ready[p]) = Len(r[p]) + Cardinality(Entering(v, n, p))
  BY <1>5
<1> QED BY ONLY <1>6, <1>12, <1>13 DEF rest, ready, refused

\* The commands of a sequence of deliveries change as the sequence does.
LEMMA CommandLines ==
    ASSUME NEW s \in Seq(Delivery)
    PROVE  /\ CommandsIn(s) \in Seq(Command) /\ Len(CommandsIn(s)) = Len(s)
           /\ \A i \in 1 .. Len(s) : CommandsIn(s)[i] = s[i].command
           /\ \A d \in Delivery : CommandsIn(Append(s, d)) = Append(CommandsIn(s), d.command)
           /\ s # <<>> => /\ CommandsIn(s) # <<>>
                          /\ Head(CommandsIn(s)) = Head(s).command
                          /\ CommandsIn(Tail(s)) = Tail(CommandsIn(s))
           /\ \A m \in 0 .. Len(s) :
                 /\ CommandsIn(SubSeq(s, m + 1, Len(s))) = SubSeq(CommandsIn(s), m + 1, Len(s))
                 /\ CommandsIn(SubSeq(s, 1, m)) = SubSeq(CommandsIn(s), 1, m)
<1>0. \A d \in Delivery : d.command \in Command
  BY DEF Delivery
<1> DEFINE L == Len(s)
<1>1. /\ L \in Nat /\ DOMAIN s = 1 .. L
      /\ \A i \in 1 .. L : s[i] \in Delivery /\ s[i].command \in Command
  BY <1>0
<1>2. PICK u : u = CommandsIn(s)
  OBVIOUS
<1>3. u = [i \in 1 .. L |-> s[i].command]
  BY <1>1, <1>2 DEF CommandsIn
<1>4. u \in Seq(Command) /\ Len(u) = L /\ \A i \in 1 .. L : u[i] = s[i].command
  BY <1>1, <1>3
<1>5. ASSUME NEW d \in Delivery
      PROVE  CommandsIn(Append(s, d)) = Append(u, d.command)
  <2>0. Append(s, d) \in Seq(Delivery)
    OBVIOUS
  <2>1. PICK a \in Seq(Delivery) : a = Append(s, d)
    BY <2>0
  <2>2. Len(a) = L + 1 /\ DOMAIN a = 1 .. L + 1
        /\ \A i \in 1 .. L + 1 : a[i] = IF i <= L THEN s[i] ELSE d
    BY <1>1, <2>1
  <2>3. PICK b : b = Append(u, d.command)
    OBVIOUS
  <2>4. d.command \in Command
    BY <1>0
  <2>5. b \in Seq(Command) /\ Len(b) = L + 1
        /\ \A i \in 1 .. L + 1 : b[i] = IF i <= L THEN u[i] ELSE d.command
    BY <1>1, <1>4, <2>3, <2>4
  <2>6. CommandsIn(a) = [i \in 1 .. L + 1 |-> a[i].command]
    BY <2>2 DEF CommandsIn
  <2>7. b = [i \in 1 .. L + 1 |-> b[i]]
    BY <1>1, <2>5
  <2>8. \A i \in 1 .. L + 1 : b[i] = a[i].command
    BY <1>1, <1>4, <2>2, <2>5
  <2>9. CommandsIn(a) = b
    BY <2>6, <2>7, <2>8
  <2> QED BY <2>1, <2>3, <2>9
<1>6. ASSUME NEW j \in 1 .. L + 1, NEW k \in 0 .. L
      PROVE  CommandsIn(SubSeq(s, j, k)) = SubSeq(u, j, k)
  <2>1. PICK a : a = SubSeq(s, j, k)
    OBVIOUS
  <2>0. j \in Nat /\ k \in Nat /\ 1 <= j /\ j <= L + 1 /\ k <= L
    BY <1>1
  <2> DEFINE length == IF j <= k + 1 THEN k + 1 - j ELSE 0
  <2>2. length \in Nat
    BY <2>0
  <2>11. PICK n \in Nat : n = length
    BY <2>2
  <2>3. a \in Seq(Delivery) /\ Len(a) = n /\ DOMAIN a = 1 .. n
        /\ \A i \in 1 .. n : a[i] = s[i + j - 1]
    BY <1>1, <2>1, <2>0, <2>11
  <2>4. PICK b : b = SubSeq(u, j, k)
    OBVIOUS
  <2>5. b \in Seq(Command) /\ Len(b) = n /\ \A i \in 1 .. n : b[i] = u[i + j - 1]
    BY <1>1, <1>4, <2>0, <2>11, <2>4
  <2>6. \A i \in 1 .. n : i + j - 1 \in 1 .. L
    BY <1>1, <2>0, <2>11
  <2>7. CommandsIn(a) = [i \in 1 .. n |-> a[i].command]
    BY <2>3 DEF CommandsIn
  <2>8. b = [i \in 1 .. n |-> b[i]]
    BY <2>5
  <2>9. \A i \in 1 .. n : b[i] = a[i].command
    BY <1>4, <2>3, <2>5, <2>6
  <2>10. CommandsIn(a) = b
    BY <2>7, <2>8, <2>9
  <2> QED BY <2>1, <2>4, <2>10
<1>7. \A m \in 0 .. L : /\ CommandsIn(SubSeq(s, m + 1, L)) = SubSeq(u, m + 1, L)
                        /\ CommandsIn(SubSeq(s, 1, m)) = SubSeq(u, 1, m)
  <2>1. \A m \in 0 .. L : /\ m + 1 \in 1 .. L + 1 /\ 1 \in 1 .. L + 1 /\ L \in 0 .. L
    BY <1>1
  <2> QED BY ONLY <1>6, <2>1
<1>8. ASSUME s # <<>>
      PROVE  /\ u # <<>> /\ Head(u) = Head(s).command
             /\ CommandsIn(Tail(s)) = Tail(u)
  <2>1. L >= 1 /\ Head(s) = s[1] /\ Tail(s) = SubSeq(s, 2, L)
    BY <1>1, <1>8
  <2>2. u # <<>> /\ Head(u) = u[1] /\ Tail(u) = SubSeq(u, 2, L)
    BY <1>4, <2>1
  <2>3. CommandsIn(Tail(s)) = Tail(u)
    <3>1. 1 \in 0 .. L
      BY <1>1, <2>1
    <3>2. CommandsIn(SubSeq(s, 1 + 1, L)) = SubSeq(u, 1 + 1, L)
      BY ONLY <1>7, <3>1
    <3>3. PICK a, b : a = Tail(s) /\ b = Tail(u)
      OBVIOUS
    <3>4. a = SubSeq(s, 1 + 1, L) /\ b = SubSeq(u, 1 + 1, L)
      BY <2>1, <2>2, <3>3
    <3> QED BY ONLY <3>2, <3>3, <3>4, Zenon
  <2>4. Head(u) = Head(s).command
    <3>1. 1 \in 1 .. L
      BY <1>1, <2>1
    <3> QED BY <1>4, <2>1, <2>2, <3>1
  <2> QED BY <2>2, <2>3, <2>4
<1> QED BY <1>2, <1>4, <1>5, <1>7, <1>8

-----------------------------------------------------------------------------
(* The inductive invariant of commands under way. *)

FlowTypes ==
    /\ last_sequence \in [Clients -> 0 .. MaxSequence]
    /\ outbox \in Seq(Delivery)
    /\ inbox \in [Hosts -> Seq(Delivery) \cup {NoQueue}]
    /\ queues \in [Hosts -> Queues \cup {NoQueue}]
    /\ deliveries \subseteq Delivery
    /\ applied \in [Hosts -> Seq(Command)]
    /\ lost \subseteq Command
    /\ \A h \in Hosts :
          /\ IsRegistered(inbox, h) => Len(inbox[h]) <= MaxQueued
          /\ IsRegistered(queues, h) =>
                Bounded(queues[h]) /\ queues[h].barrier_buffer = <<>>

Transport(h) == Line(h, "transport")
Ready(h) == [p \in Priorities |-> Line(h, p)]
Reports == CommandsIn(outbox)

HostSound(h) == HostOrder(Transport(h), Ready(h), applied[h])

\* The commands of one node and the reports behind them are in order, and no
\* command is with two nodes, or lost and somewhere.
InOnePlace ==
    /\ Chained(Reports, InSequence)
    /\ ToSet(Reports) \cap lost = {}
    /\ \A h \in Hosts :
          /\ HostSound(h)
          /\ Linked(With(h), ToSet(Reports), InSequence)
          /\ With(h) \cap lost = {}
    /\ \A g, h \in Hosts : g # h => With(g) \cap With(h) = {}

\* Nothing but what was dispatched is anywhere, and all of that is somewhere.
Accounted ==
    \A x : (\E d \in deliveries : x = d.command) <=>
              \/ \E h \in Hosts : x \in With(h)
              \/ x \in ToSet(Reports)
              \/ x \in lost

\* Every command has one delivery, of a number its client has reached.
NumbersSpent ==
    /\ \A d \in deliveries : d.command.sequence <= last_sequence[d.command.client]
    /\ \A d, e \in deliveries : d.command = e.command => d = e

FlowInv == FlowTypes /\ InOnePlace /\ Accounted /\ NumbersSpent

\* The lines of a host, before and after a step.
LEMMA HostLines ==
    ASSUME NEW h \in Hosts
    PROVE  /\ Transport(h) = IF inbox[h] # NoQueue THEN CommandsIn(inbox[h]) ELSE <<>>
           /\ Ready(h) = [p \in Priorities |->
                             IF queues[h] # NoQueue THEN queues[h].ready[p] ELSE <<>>]
           /\ Line(h, "applied") = applied[h]
           /\ With(h) = Contents(Transport(h), Ready(h), applied[h])
           /\ Transport(h)' = IF inbox'[h] # NoQueue THEN CommandsIn(inbox'[h]) ELSE <<>>
           /\ Ready(h)' = [p \in Priorities |->
                              IF queues'[h] # NoQueue THEN queues'[h].ready[p] ELSE <<>>]
           /\ With(h)' = Contents(Transport(h)', Ready(h)', applied'[h])
<1>1. /\ Transport(h) = IF inbox[h] # NoQueue THEN CommandsIn(inbox[h]) ELSE <<>>
      /\ Transport(h)' = IF inbox'[h] # NoQueue THEN CommandsIn(inbox'[h]) ELSE <<>>
      /\ Line(h, "applied") = applied[h]
      /\ Line(h, "applied")' = applied'[h]
  BY DEF Transport, Line, IsRegistered, CommandsIn, Priorities
<1>2. ASSUME NEW p \in Priorities
      PROVE  /\ Line(h, p) = IF queues[h] # NoQueue THEN queues[h].ready[p] ELSE <<>>
             /\ Line(h, p)' = IF queues'[h] # NoQueue THEN queues'[h].ready[p] ELSE <<>>
  <2>1. p # "transport" /\ p # "applied"
    BY DEF Priorities
  <2> QED BY <2>1 DEF Line, IsRegistered
<1>3. /\ Ready(h) = [p \in Priorities |->
                        IF queues[h] # NoQueue THEN queues[h].ready[p] ELSE <<>>]
      /\ Ready(h)' = [p \in Priorities |->
                         IF queues'[h] # NoQueue THEN queues'[h].ready[p] ELSE <<>>]
      /\ \A p \in Priorities : Ready(h)[p] = Line(h, p) /\ Ready(h)'[p] = Line(h, p)'
  BY <1>2 DEF Ready
<1>4. With(h) = Contents(Transport(h), Ready(h), applied[h])
  <2>1. \A x : x \in With(h) <=> \E stage \in Stages : x \in ToSet(Line(h, stage))
    BY DEF With
  <2>2. \A x : x \in Contents(Transport(h), Ready(h), applied[h]) <=>
           \/ x \in ToSet(Line(h, "transport")) \/ x \in ToSet(Line(h, "applied"))
           \/ \E p \in Priorities : x \in ToSet(Line(h, p))
    BY <1>1, <1>3 DEF Contents, Transport
  <2> QED BY <2>1, <2>2 DEF Stages
<1>5. With(h)' = Contents(Transport(h)', Ready(h)', applied'[h])
  <2>1. \A x : x \in With(h)' <=> \E stage \in Stages : x \in ToSet(Line(h, stage)')
    BY DEF With
  <2>2. \A x : x \in Contents(Transport(h)', Ready(h)', applied'[h]) <=>
           \/ x \in ToSet(Line(h, "transport")') \/ x \in ToSet(Line(h, "applied")')
           \/ \E p \in Priorities : x \in ToSet(Line(h, p)')
    BY <1>1, <1>3 DEF Contents, Transport
  <2> QED BY <2>1, <2>2 DEF Stages
<1> QED BY <1>1, <1>3, <1>4, <1>5

\* A step of one host that moves its commands, or loses some, keeps the invariant if
\* it keeps the order at that host.
LEMMA HostStep ==
    ASSUME FlowInv, NEW h \in Hosts, NEW D \in SUBSET Command,
           UNCHANGED <<outbox, deliveries, last_sequence>>, lost' = lost \cup D,
           \A g \in Hosts : g # h => /\ inbox'[g] = inbox[g] /\ queues'[g] = queues[g]
                                     /\ applied'[g] = applied[g],
           FlowTypes', HostSound(h)',
           With(h) = With(h)' \cup D, With(h)' \cap D = {}
    PROVE  FlowInv'
<1>0. FlowTypes /\ InOnePlace /\ Accounted /\ NumbersSpent
  BY DEF FlowInv
<1>1. ASSUME NEW g \in Hosts, g # h
      PROVE  With(g)' = With(g) /\ HostSound(g)'
  <2>1. inbox'[g] = inbox[g] /\ queues'[g] = queues[g] /\ applied'[g] = applied[g]
    BY <1>1
  <2>2. Transport(g)' = Transport(g) /\ Ready(g)' = Ready(g)
    BY <2>1, HostLines
  <2>3. HostSound(g)
    BY <1>0 DEF InOnePlace
  <2> QED BY <2>1, <2>2, <2>3, HostLines DEF HostSound
<1>2. Reports' = Reports
  BY DEF Reports, CommandsIn
<1>3. \A g \in Hosts : With(g)' \subseteq With(g)
  BY <1>1
<1>4. InOnePlace'
  <2>1. Chained(Reports', InSequence) /\ ToSet(Reports') = ToSet(Reports)
    BY <1>0, <1>2 DEF InOnePlace
  <2>2. ToSet(Reports) \cap (lost \cup D) = {}
    <3>1. \A x \in D : x \in With(h)
      OBVIOUS
    <3>2. \A x \in ToSet(Reports) : x \notin With(h)
      BY <1>0 DEF InOnePlace, Linked, InSequence
    <3> QED BY <1>0, <3>1, <3>2 DEF InOnePlace
  <2>3. ASSUME NEW g \in Hosts
        PROVE  /\ HostSound(g)'
               /\ Linked(With(g)', ToSet(Reports), InSequence)
               /\ With(g)' \cap (lost \cup D) = {}
    <3>1. HostSound(g)'
      BY <1>1
    <3>2. Linked(With(g)', ToSet(Reports), InSequence)
      BY <1>0, <1>3 DEF InOnePlace, Linked
    <3>3. With(g)' \cap D = {}
      <4>1. CASE g = h
        BY <4>1
      <4>2. CASE g # h
        BY <1>0, <1>1, <4>2 DEF InOnePlace
      <4> QED BY <4>1, <4>2
    <3> QED BY <1>0, <1>3, <3>1, <3>2, <3>3 DEF InOnePlace
  <2>4. \A f, g \in Hosts : f # g => With(f)' \cap With(g)' = {}
    BY <1>0, <1>3 DEF InOnePlace
  <2> QED BY <2>1, <2>2, <2>3, <2>4 DEF InOnePlace
<1>5. Accounted'
  <2>1. \A x : (\E g \in Hosts : x \in With(g)) \/ x \in lost
                  <=> (\E g \in Hosts : x \in With(g)') \/ x \in lost'
    BY <1>1
  <2> QED BY <1>0, <1>2, <2>1 DEF Accounted
<1>6. NumbersSpent'
  BY <1>0 DEF NumbersSpent
<1> QED BY <1>4, <1>5, <1>6 DEF FlowInv

\* A node opens its transport and its queues, and leaves what it has.
LEMMA OpenStep ==
    ASSUME FlowInv, NEW h \in Hosts, OpenHost(h)
    PROVE  FlowInv'
<1>0. FlowTypes /\ HostSound(h)
  BY DEF FlowInv, InOnePlace
<1>1. /\ queues[h] = NoQueue
      /\ inbox' = [inbox EXCEPT ![h] = IF inbox[h] # NoQueue THEN inbox[h] ELSE <<>>]
      /\ queues' = [queues EXCEPT ![h] = EmptyQueues]
      /\ UNCHANGED <<last_sequence, outbox, deliveries, applied, lost>>
  BY <1>0 DEF OpenHost, IsRegistered, WithStation, FlowTypes
<1>2. /\ EmptyQueues \in Queues /\ Bounded(EmptyQueues)
      /\ EmptyQueues.barrier_buffer = <<>>
      /\ \A p \in Priorities : EmptyQueues.ready[p] = <<>>
      /\ EmptyQueues # NoQueue /\ <<>> # NoQueue /\ <<>> \in Seq(Delivery)
  <2>1. /\ EmptyQueues.barrier_buffer = <<>>
        /\ EmptyQueues.ready = [p \in Priorities |-> <<>>]
        /\ EmptyQueues \in Queues
    BY DEF EmptyQueues, Queues
  <2>2. BufferCapacity \in Nat /\ \A p \in Priorities : Limits[p] \in Nat
    BY LimitsAssumption DEF BufferCapacity, Priorities
  <2>3. \A p \in Priorities : EmptyQueues.ready[p] = <<>>
    BY <2>1
  <2>4. Len(<<>>) = 0
    OBVIOUS
  <2>5. Bounded(EmptyQueues)
    BY <2>1, <2>2, <2>3, <2>4 DEF Bounded
  <2>6. <<>> \in Seq(Delivery)
    OBVIOUS
  <2> QED BY <2>1, <2>3, <2>5, <2>6, NoQueueAssumption
<1>3. CommandsIn(<<>>) = <<>>
  <2>1. CommandsIn(<<>>) \in Seq(Command) /\ Len(CommandsIn(<<>>)) = 0
    BY <1>2, CommandLines
  <2> QED BY <2>1
<1>4. /\ inbox'[h] = IF inbox[h] # NoQueue THEN inbox[h] ELSE <<>>
      /\ queues'[h] = EmptyQueues
      /\ \A g \in Hosts : g # h => inbox'[g] = inbox[g] /\ queues'[g] = queues[g]
  BY <1>0, <1>1 DEF FlowTypes
<1>5. Transport(h)' = Transport(h)
  BY <1>2, <1>3, <1>4, HostLines
<1>6. Ready(h)' = Ready(h)
  BY <1>1, <1>2, <1>4, HostLines
<1>7. FlowTypes'
  <2>1. /\ inbox' \in [Hosts -> Seq(Delivery) \cup {NoQueue}]
        /\ queues' \in [Hosts -> Queues \cup {NoQueue}]
    BY <1>0, <1>1, <1>2 DEF FlowTypes
  <2>2. ASSUME NEW g \in Hosts
        PROVE  /\ inbox'[g] # NoQueue => Len(inbox'[g]) <= MaxQueued
               /\ queues'[g] # NoQueue =>
                     Bounded(queues'[g]) /\ queues'[g].barrier_buffer = <<>>
    <3>1. CASE g = h
      <4>1. Len(<<>>) <= MaxQueued
        BY TransportAssumption
      <4> QED BY <1>0, <1>2, <1>4, <3>1, <4>1 DEF FlowTypes, IsRegistered
    <3>2. CASE g # h
      BY <1>0, <1>4, <3>2 DEF FlowTypes, IsRegistered
    <3> QED BY <3>1, <3>2
  <2> QED BY <1>0, <1>1, <2>1, <2>2 DEF FlowTypes, IsRegistered
<1>8. HostSound(h)' /\ With(h)' = With(h)
  BY <1>0, <1>1, <1>5, <1>6, HostLines DEF HostSound
<1>9. /\ lost' = lost \cup {} /\ With(h) = With(h)' \cup {} /\ With(h)' \cap {} = {}
      /\ {} \in SUBSET Command
  BY <1>1, <1>8
<1> QED BY <1>1, <1>4, <1>7, <1>8, <1>9, HostStep

\* A node that drops its queues loses what is ready.
LEMMA CloseQueuesStep ==
    ASSUME FlowInv, NEW h \in Hosts, CloseQueues(h)
    PROVE  FlowInv'
<1> DEFINE D == Held(queues[h])
<1>0. FlowTypes /\ HostSound(h)
  BY DEF FlowInv, InOnePlace
<1>1. /\ queues[h] # NoQueue
      /\ queues' = [queues EXCEPT ![h] = NoQueue]
      /\ lost' = lost \cup D
      /\ UNCHANGED <<last_sequence, outbox, inbox, deliveries, applied>>
  BY DEF CloseQueues, IsRegistered
<1>2. /\ queues'[h] = NoQueue
      /\ \A g \in Hosts : g # h => queues'[g] = queues[g]
      /\ queues[h] \in Queues /\ queues[h].barrier_buffer = <<>>
  BY <1>0, <1>1 DEF FlowTypes, IsRegistered
<1>3. /\ Transport(h)' = Transport(h)
      /\ Ready(h)' = [p \in Priorities |-> <<>>]
      /\ \A p \in Priorities : Ready(h)[p] = queues[h].ready[p]
  BY <1>1, <1>2, HostLines
<1>4. \A x : x \in D <=> \E p \in Priorities : x \in ToSet(Ready(h)[p])
  <2>1. ToSet(<<>>) = {}
    BY DEF ToSet
  <2> QED BY <1>2, <1>3, <2>1 DEF Held
<1> HIDE DEF D
<1>5. FlowTypes'
  <2>1. queues' \in [Hosts -> Queues \cup {NoQueue}]
    BY <1>0, <1>1 DEF FlowTypes
  <2>2. D \subseteq Command
    BY <1>0, <1>4, ElementsOf DEF HostSound, HostOrder
  <2>3. \A g \in Hosts : queues'[g] # NoQueue => queues'[g] = queues[g]
    BY <1>2
  <2> QED BY <1>0, <1>1, <2>1, <2>2, <2>3 DEF FlowTypes, IsRegistered
<1>6. HostSound(h)'
  <2>1. \A p \in Priorities : Ready(h)'[p] = <<>> /\ ToSet(Ready(h)'[p]) = {}
    BY <1>3 DEF ToSet
  <2>2. Ready(h)' \in [Priorities -> Seq(Command)]
    BY <1>3
  <2>3. \A p \in Priorities : Chained(Ready(h)'[p], InSequence)
    BY <2>1 DEF Chained
  <2> QED BY <1>0, <1>1, <1>3, <2>1, <2>2, <2>3 DEF HostSound, HostOrder, Linked
<1>7. /\ \A x : x \in With(h) <=> \/ x \in ToSet(Transport(h)) \/ x \in ToSet(applied[h])
                                  \/ \E p \in Priorities : x \in ToSet(Ready(h)[p])
      /\ \A x : x \in With(h)' <=> x \in ToSet(Transport(h)) \/ x \in ToSet(applied[h])
  <2>1. \A x : x \in With(h) <=> \/ x \in ToSet(Transport(h)) \/ x \in ToSet(applied[h])
                                 \/ \E p \in Priorities : x \in ToSet(Ready(h)[p])
    BY <1>0, HostLines, ContentsAre DEF HostSound
  <2>2. \A p \in Priorities : ToSet(Ready(h)'[p]) = {}
    BY <1>3 DEF ToSet
  <2> QED BY <1>1, <1>3, <2>1, <2>2, HostLines DEF Contents
<1>8. With(h) = With(h)' \cup D
  BY <1>4, <1>7
<1>9. With(h)' \cap D = {}
  BY <1>0, <1>4, <1>7 DEF HostSound, HostOrder, Linked, InSequence
<1>10. D \in SUBSET Command
  BY <1>5, <1>1 DEF FlowTypes
<1> QED BY <1>1, <1>2, <1>5, <1>6, <1>8, <1>9, <1>10, HostStep

\* A node that drops its transport loses what is in it.
LEMMA CloseTransportStep ==
    ASSUME FlowInv, NEW h \in Hosts, CloseTransport(h)
    PROVE  FlowInv'
<1> DEFINE D == ToSet(CommandsIn(inbox[h]))
<1>0. FlowTypes /\ HostSound(h)
  BY DEF FlowInv, InOnePlace
<1>1. /\ inbox[h] # NoQueue
      /\ inbox' = [inbox EXCEPT ![h] = NoQueue]
      /\ lost' = lost \cup D
      /\ UNCHANGED <<last_sequence, outbox, queues, deliveries, applied>>
  BY DEF CloseTransport, IsRegistered, WithoutStation
<1>2. /\ inbox'[h] = NoQueue
      /\ \A g \in Hosts : g # h => inbox'[g] = inbox[g]
  BY <1>0, <1>1 DEF FlowTypes
<1>3. /\ Transport(h)' = <<>> /\ D = ToSet(Transport(h))
      /\ Ready(h)' = Ready(h)
  BY <1>1, <1>2, HostLines
<1> HIDE DEF D
<1>4. D \in SUBSET Command
  BY <1>0, <1>3, ElementsOf DEF HostSound, HostOrder
<1>5. FlowTypes'
  <2>1. inbox' \in [Hosts -> Seq(Delivery) \cup {NoQueue}]
    BY <1>0, <1>1 DEF FlowTypes
  <2>2. \A g \in Hosts : inbox'[g] # NoQueue => inbox'[g] = inbox[g]
    BY <1>2
  <2> QED BY <1>0, <1>1, <1>4, <2>1, <2>2 DEF FlowTypes, IsRegistered
<1>6. HostSound(h)'
  <2>1. PICK t : t = <<>>
    OBVIOUS
  <2>2. t \in Seq(Command) /\ Chained(t, InSequence) /\ ToSet(t) = {}
    BY <2>1 DEF Chained, ToSet
  <2>3. HostOrder(t, Ready(h), applied[h])
    BY <1>0, <2>2 DEF HostSound, HostOrder, Linked
  <2> QED BY <1>1, <1>3, <2>1, <2>3 DEF HostSound
<1>7. With(h) = With(h)' \cup D
  <2>1. ToSet(<<>>) = {}
    BY DEF ToSet
  <2> QED BY <1>1, <1>3, <2>1, HostLines DEF Contents
<1>8. With(h)' \cap D = {}
  <2>1. \A x \in With(h)' : x \in ToSet(applied[h]) \/ \E p \in Priorities : x \in ToSet(Ready(h)[p])
    <3>1. ToSet(<<>>) = {}
      BY DEF ToSet
    <3> QED BY <1>1, <1>3, <3>1, HostLines DEF Contents
  <2> QED BY <1>0, <1>3, <2>1 DEF HostSound, HostOrder, Linked, InSequence
<1> QED BY <1>1, <1>2, <1>4, <1>5, <1>6, <1>7, <1>8, HostStep

\* pump_target.
LEMMA PumpStep ==
    ASSUME FlowInv, NEW h \in Hosts, NEW max \in 1 .. MaxPackets, PumpTarget(h, max)
    PROVE  FlowInv'
<1> DEFINE s == inbox[h]
           t == CommandsIn(s)
           most == IF Len(s) < max THEN Len(s) ELSE max
           v == CommandsIn(SubSeq(s, 1, most))
           pushed == IF queues[h] # NoQueue THEN FitCount(queues[h], v) ELSE 0
           taken == IF pushed < most THEN pushed + 1 ELSE most
           D == Blocked(v, pushed, taken)
           ready == Enqueued(Ready(h), v, pushed)
<1>0. FlowTypes /\ HostSound(h)
  BY DEF FlowInv, InOnePlace
<1>1. /\ s # NoQueue
      /\ inbox' = [inbox EXCEPT ![h] = SubSeq(s, taken + 1, Len(s))]
      /\ queues' = IF queues[h] # NoQueue
                   THEN [queues EXCEPT ![h].ready = WithReady(queues[h], v, pushed)]
                   ELSE queues
      /\ lost' = lost \cup D
      /\ UNCHANGED <<last_sequence, outbox, deliveries, applied>>
  BY <1>0 DEF PumpTarget, CanReceive, IsRegistered, AfterReceiving, FlowTypes, Blocked
<1>2. /\ s \in Seq(Delivery) /\ Len(s) \in Nat /\ Len(s) <= MaxQueued
      /\ most \in Nat /\ most \in 0 .. Len(s)
  <2>1. s \in Seq(Delivery) /\ Len(s) <= MaxQueued
    BY <1>0, <1>1 DEF FlowTypes, IsRegistered
  <2>2. max \in Nat /\ Len(s) \in Nat
    BY <2>1, DispatchAssumption
  <2> QED BY <2>1, <2>2
<1>3. /\ t \in Seq(Command) /\ Len(t) = Len(s)
      /\ v = SubSeq(t, 1, most)
      /\ \A m \in 0 .. Len(s) : CommandsIn(SubSeq(s, m + 1, Len(s))) = SubSeq(t, m + 1, Len(s))
  BY <1>2, CommandLines
<1>4. /\ Transport(h) = t
      /\ queues[h] # NoQueue => Ready(h) = [p \in Priorities |-> queues[h].ready[p]]
      /\ queues[h] = NoQueue => Ready(h) = [p \in Priorities |-> <<>>]
      /\ HostOrder(t, Ready(h), applied[h])
  BY <1>0, <1>1, HostLines DEF HostSound
<1>5. v \in Seq(Command) /\ Len(v) = most
  <2>1. Chained(t, InSequence)
    BY <1>4 DEF HostOrder
  <2>2. most \in 0 .. Len(t)
    BY <1>2, <1>3
  <2>3. SubSeq(t, 1, most) \in Seq(Command) /\ Len(SubSeq(t, 1, most)) = most
    BY ONLY <1>3, <2>1, <2>2, ChainTake
  <2> QED BY <1>3, <2>3
<1> HIDE DEF v, most, t, s
<1>6. queues[h] # NoQueue =>
         /\ queues[h] \in Queues /\ Bounded(queues[h]) /\ queues[h].barrier_buffer = <<>>
         /\ pushed \in 0 .. most
         /\ \A p \in Priorities :
               Len(queues[h].ready[p]) + Cardinality(Entering(v, pushed, p)) <= Limits[p]
  BY <1>0, <1>5, FitCounts DEF FlowTypes, IsRegistered
<1>7. /\ pushed \in Nat /\ pushed \in 0 .. most
      /\ taken \in 0 .. Len(t) /\ pushed \in 0 .. taken /\ taken <= pushed + 1
      /\ most \in taken .. Len(t)
  BY <1>2, <1>3, <1>6
<1> HIDE DEF pushed, taken
<1>8. /\ HostOrder(Rest(t, taken), ready, applied[h])
      /\ Contents(t, Ready(h), applied[h]) = Contents(Rest(t, taken), ready, applied[h]) \cup D
      /\ Contents(Rest(t, taken), ready, applied[h]) \cap D = {}
      /\ \A p \in Priorities :
            Len(ready[p]) = Len(Ready(h)[p]) + Cardinality(Entering(v, pushed, p))
  <2>1. HostOrder(t, Ready(h), applied[h]) /\ v = FirstOf(t, most)
    BY <1>3, <1>4 DEF FirstOf
  <2> QED BY ONLY <1>7, <2>1, PumpKeepsOrder
<1>9. /\ SubSeq(s, taken + 1, Len(s)) \in Seq(Delivery)
      /\ Len(SubSeq(s, taken + 1, Len(s))) <= Len(s)
  BY <1>2, <1>3, <1>7
<1>10. /\ inbox'[h] = SubSeq(s, taken + 1, Len(s)) /\ inbox'[h] # NoQueue
       /\ \A g \in Hosts : g # h => inbox'[g] = inbox[g]
       /\ inbox' \in [Hosts -> Seq(Delivery) \cup {NoQueue}]
  BY <1>0, <1>1, <1>9, NoQueueAssumption DEF FlowTypes
<1>11. Transport(h)' = Rest(t, taken)
  BY <1>3, <1>7, <1>10, HostLines DEF Rest
<1>12. /\ Ready(h)' = ready
       /\ queues' \in [Hosts -> Queues \cup {NoQueue}]
       /\ \A g \in Hosts : g # h => queues'[g] = queues[g]
       /\ queues'[h] # NoQueue =>
             Bounded(queues'[h]) /\ queues'[h].barrier_buffer = <<>>
  <2>1. CASE queues[h] = NoQueue
    <3>1. queues' = queues
      BY <1>1, <2>1
    <3>2. pushed = 0
      BY <2>1 DEF pushed
    <3>3. ASSUME NEW p \in Priorities
          PROVE  ready[p] = <<>>
      <4>1. Len(ready[p]) = Len(Ready(h)[p]) + Cardinality(Entering(v, pushed, p))
        BY <1>8
      <4>2. Entering(v, pushed, p) = {}
        BY <3>2 DEF Entering
      <4>3. Ready(h)[p] = <<>> /\ Len(Ready(h)[p]) = 0
        BY <1>4, <2>1
      <4>4. Len(ready[p]) = 0
        BY <4>1, <4>2, <4>3, FS_EmptySet
      <4>5. ready[p] \in Seq(Command)
        BY <1>8 DEF HostOrder
      <4> QED BY <4>4, <4>5
    <3>4. Ready(h)' = Ready(h)
      BY <3>1, HostLines
    <3>5. ready = [p \in Priorities |-> <<>>]
      BY <3>3 DEF Enqueued
    <3> HIDE DEF ready
    <3> QED BY <1>0, <1>4, <2>1, <3>1, <3>4, <3>5 DEF FlowTypes
  <2>2. CASE queues[h] # NoQueue
    <3>1. PICK q \in Queues : q = queues[h] /\ Bounded(q) /\ q.barrier_buffer = <<>>
      BY <1>6, <2>2
    <3>2. /\ q = [ready |-> q.ready, barrier_buffer |-> q.barrier_buffer]
          /\ q.ready \in [Priorities -> Seq(Command)]
      BY ReadyQueues
    <3>3. WithReady(q, v, pushed) = ready
      BY <1>4, <2>2, <3>1, <3>2 DEF WithReady, Enqueued
    <3>5. ready \in [Priorities -> Seq(Command)]
      BY <1>8 DEF HostOrder
    <3>0. queues' = [queues EXCEPT ![h].ready = ready]
      BY <1>1, <2>2, <3>1, <3>3
    <3> HIDE DEF ready
    <3> DEFINE r == [ready |-> ready, barrier_buffer |-> <<>>]
    <3>4. queues' = [queues EXCEPT ![h] = r]
      <4>1. [q EXCEPT !.ready = ready] = r
        BY <3>1, <3>2
      <4> HIDE DEF r
      <4> QED BY <3>0, <3>1, <4>1
    <3>6. r \in Queues
      BY <3>5 DEF Queues
    <3>7. ASSUME NEW p \in Priorities
          PROVE  Len(ready[p]) <= Limits[p]
      <4>1. Len(ready[p]) = Len(Ready(h)[p]) + Cardinality(Entering(v, pushed, p))
        BY <1>8
      <4>2. Ready(h)[p] = queues[h].ready[p]
        BY <1>4, <2>2
      <4> QED BY <1>6, <2>2, <4>1, <4>2
    <3>8. r.ready = ready /\ r.barrier_buffer = <<>>
      OBVIOUS
    <3> HIDE DEF r
    <3>9. Bounded(r)
      <4>1. BufferCapacity \in Nat /\ Len(<<>>) = 0
        BY LimitsAssumption DEF BufferCapacity, Priorities
      <4> QED BY <3>7, <3>8, <4>1 DEF Bounded
    <3>10. /\ queues'[h] = r /\ r # NoQueue
           /\ \A g \in Hosts : g # h => queues'[g] = queues[g]
           /\ queues' \in [Hosts -> Queues \cup {NoQueue}]
      BY <1>0, <3>4, <3>6, NoQueueAssumption DEF FlowTypes
    <3>11. Ready(h)' = ready
      <4>1. Ready(h)' = [p \in Priorities |-> r.ready[p]]
        BY <3>10, HostLines
      <4> QED BY <3>5, <3>8, <4>1
    <3> QED BY <3>8, <3>9, <3>10, <3>11
  <2> QED BY <2>1, <2>2
<1> HIDE DEF ready
<1>13. D \in SUBSET Command
  <2>1. \A i \in pushed + 1 .. taken : i \in 1 .. Len(v)
    BY <1>2, <1>5, <1>7
  <2>2. \A i \in 1 .. Len(v) : v[i] \in Command
    BY <1>5
  <2> QED BY <2>1, <2>2 DEF Blocked
<1>17. /\ \A g \in Hosts : g # h => inbox'[g] = inbox[g] /\ queues'[g] = queues[g]
       /\ queues'[h] # NoQueue => Bounded(queues'[h]) /\ queues'[h].barrier_buffer = <<>>
  BY ONLY <1>10, <1>12
<1> HIDE DEF D
<1>14. FlowTypes'
  <2>1. Len(inbox'[h]) <= MaxQueued
    BY <1>2, <1>9, <1>10, TransportAssumption
  <2>2. ASSUME NEW g \in Hosts
        PROVE  /\ inbox'[g] # NoQueue => Len(inbox'[g]) <= MaxQueued
               /\ queues'[g] # NoQueue =>
                     Bounded(queues'[g]) /\ queues'[g].barrier_buffer = <<>>
    <3>1. CASE g = h
      BY ONLY <1>17, <2>1, <3>1
    <3>2. CASE g # h
      BY <1>0, <1>17, <3>2 DEF FlowTypes, IsRegistered
    <3> QED BY <3>1, <3>2
  <2> QED BY <1>0, <1>1, <1>10, <1>12, <1>13, <2>2 DEF FlowTypes, IsRegistered
<1>15. HostSound(h)'
  BY <1>1, <1>8, <1>11, <1>12 DEF HostSound
<1>16. With(h) = With(h)' \cup D /\ With(h)' \cap D = {}
  BY <1>1, <1>4, <1>8, <1>11, <1>12, HostLines
<1> QED BY <1>1, <1>10, <1>12, <1>13, <1>14, <1>15, <1>16, HostStep

\* What pop_next leaves in the queues.
LEMMA PoppedQueues ==
    ASSUME NEW q \in Queues, NEW p \in Priorities, p = NextPriority(q)
    PROVE  Popped(q) = [ready |-> [q.ready EXCEPT ![p] = Tail(q.ready[p])],
                        barrier_buffer |-> q.barrier_buffer]
<1>1. /\ q = [ready |-> q.ready, barrier_buffer |-> q.barrier_buffer]
      /\ q.ready \in [Priorities -> Seq(Command)]
  BY ReadyQueues
<1>2. Popped(q) = [q EXCEPT !.ready = [q.ready EXCEPT ![p] = Tail(q.ready[p])]]
  BY DEF Popped
<1> QED BY <1>1, <1>2

\* pop_next.
LEMMA PopStep ==
    ASSUME FlowInv, NEW h \in Hosts, PopNext(h)
    PROVE  FlowInv'
<1>0. FlowTypes /\ HostSound(h)
  BY DEF FlowInv, InOnePlace
<1> DEFINE q == queues[h]
           p == NextPriority(q)
<1>1. /\ q # NoQueue /\ CanPop(q)
      /\ queues' = [queues EXCEPT ![h] = Popped(q)]
      /\ applied' = [applied EXCEPT ![h] = Append(applied[h], Head(q.ready[p]))]
      /\ UNCHANGED <<last_sequence, outbox, inbox, deliveries, lost>>
  BY <1>0 DEF PopNext, IsRegistered, NextCommand, FlowTypes
<1>2. /\ q \in Queues /\ Bounded(q) /\ q.barrier_buffer = <<>>
      /\ p \in Priorities /\ q.ready[p] # <<>>
      /\ q = [ready |-> q.ready, barrier_buffer |-> q.barrier_buffer]
      /\ q.ready \in [Priorities -> Seq(Command)]
  <2>1. p \in Priorities /\ q.ready[p] # <<>>
    BY <1>1 DEF NextPriority, CanPop, Priorities
  <2>2. q \in Queues /\ Bounded(q) /\ q.barrier_buffer = <<>>
    BY <1>0, <1>1 DEF FlowTypes, IsRegistered
  <2>3. /\ q = [ready |-> q.ready, barrier_buffer |-> q.barrier_buffer]
        /\ q.ready \in [Priorities -> Seq(Command)]
    BY ONLY <2>2, ReadyQueues
  <2> QED BY <2>1, <2>2, <2>3
<1>3. Popped(q) = [ready |-> [q.ready EXCEPT ![p] = Tail(q.ready[p])], barrier_buffer |-> <<>>]
  BY <1>2, PoppedQueues
<1> DEFINE rest == Without(q.ready, p)
           r == [ready |-> rest, barrier_buffer |-> <<>>]
           e == Behind(applied[h], q.ready, p)
<1>4. /\ Ready(h) = q.ready
      /\ HostOrder(Transport(h), q.ready, applied[h])
  <2>1. Ready(h) = [o \in Priorities |-> q.ready[o]]
    BY <1>1, HostLines
  <2> QED BY <1>0, <1>2, <2>1 DEF HostSound
<1> HIDE DEF q, p
<1>5. /\ HostOrder(Transport(h), rest, e)
      /\ Contents(Transport(h), rest, e) = Contents(Transport(h), q.ready, applied[h])
  BY ONLY <1>2, <1>4, ApplyKeepsOrder
<1>6. /\ rest \in [Priorities -> Seq(Command)] /\ e \in Seq(Command)
      /\ r \in Queues /\ r.ready = rest /\ r.barrier_buffer = <<>>
  <2>1. rest \in [Priorities -> Seq(Command)] /\ e \in Seq(Command)
    BY <1>5 DEF HostOrder
  <2> HIDE DEF rest, e
  <2> QED BY <2>1 DEF Queues
<1>7. Bounded(r)
  <2>1. ASSUME NEW o \in Priorities
        PROVE  Len(rest[o]) <= Limits[o]
    <3>1. Len(q.ready[o]) <= Limits[o] /\ q.ready[o] \in Seq(Command) /\ Limits[o] \in Nat
      BY <1>2, LimitsAssumption DEF Bounded
    <3>2. CASE o = p
      BY <1>2, <3>1, <3>2 DEF Without
    <3>3. CASE o # p
      BY <1>2, <3>1, <3>3 DEF Without
    <3> QED BY <3>2, <3>3
  <2>2. BufferCapacity \in Nat /\ Len(<<>>) = 0
    BY LimitsAssumption DEF BufferCapacity, Priorities
  <2> HIDE DEF rest, r
  <2> QED BY <1>6, <2>1, <2>2 DEF Bounded
<1> HIDE DEF r, rest, e
<1>8. /\ queues'[h] = r /\ r # NoQueue /\ applied'[h] = e
      /\ \A g \in Hosts : g # h => queues'[g] = queues[g] /\ applied'[g] = applied[g]
      /\ queues' \in [Hosts -> Queues \cup {NoQueue}]
      /\ applied' \in [Hosts -> Seq(Command)]
  <2>1. queues' = [queues EXCEPT ![h] = r] /\ applied' = [applied EXCEPT ![h] = e]
    BY <1>1, <1>3 DEF r, rest, e, Without, Behind
  <2> QED BY <1>0, <1>6, <2>1, NoQueueAssumption DEF FlowTypes
<1>9. Transport(h)' = Transport(h) /\ Ready(h)' = rest
  <2>1. Ready(h)' = [o \in Priorities |-> r.ready[o]]
    BY <1>8, HostLines
  <2> QED BY <1>1, <1>6, <2>1, HostLines
<1>10. FlowTypes'
  <2>1. ASSUME NEW g \in Hosts
        PROVE  queues'[g] # NoQueue =>
                     Bounded(queues'[g]) /\ queues'[g].barrier_buffer = <<>>
    BY <1>0, <1>6, <1>7, <1>8 DEF FlowTypes, IsRegistered
  <2> QED BY <1>0, <1>1, <1>8, <2>1 DEF FlowTypes, IsRegistered
<1>11. HostSound(h)' /\ With(h)' = With(h)
  BY <1>4, <1>5, <1>8, <1>9, HostLines DEF HostSound
<1>12. /\ lost' = lost \cup {} /\ With(h) = With(h)' \cup {} /\ With(h)' \cap {} = {}
       /\ {} \in SUBSET Command
  BY <1>1, <1>11
<1> QED BY <1>1, <1>8, <1>10, <1>11, <1>12, HostStep

\* A host that no step touches keeps what it has.
LEMMA HostStays ==
    ASSUME NEW h \in Hosts, HostSound(h),
           inbox'[h] = inbox[h], queues'[h] = queues[h], applied'[h] = applied[h]
    PROVE  With(h)' = With(h) /\ HostSound(h)'
<1>1. Transport(h)' = Transport(h) /\ Ready(h)' = Ready(h)
  BY HostLines
<1> QED BY <1>1, HostLines DEF HostSound

\* The first report, and those behind it.
LEMMA FirstReport ==
    ASSUME FlowInv, outbox # <<>>, outbox' = Tail(outbox)
    PROVE  /\ Head(outbox) \in Delivery /\ Head(outbox).command \in Command
           /\ outbox' \in Seq(Delivery)
           /\ Chained(Reports', InSequence)
           /\ ToSet(Reports) = {Head(outbox).command} \cup ToSet(Reports')
           /\ \A x \in ToSet(Reports') : <<Head(outbox).command, x>> \in InSequence
<1>1. outbox \in Seq(Delivery) /\ Chained(Reports, InSequence)
  BY DEF FlowInv, FlowTypes, InOnePlace
<1>2. Head(outbox) \in Delivery /\ outbox' \in Seq(Delivery)
  BY <1>1
<1>3. Head(outbox).command \in Command
  BY <1>2 DEF Delivery
<1>4. PICK u : u = CommandsIn(outbox)
  OBVIOUS
<1>5. PICK w : w = CommandsIn(outbox')
  OBVIOUS
<1>6. u \in Seq(Command) /\ u # <<>> /\ Head(u) = Head(outbox).command
  BY ONLY <1>1, <1>4, CommandLines, outbox # <<>>
<1>7. w = Tail(u)
  BY <1>1, <1>4, <1>5, CommandLines
<1>8. Chained(u, InSequence)
  BY <1>1, <1>4 DEF Reports
<1>9. /\ Chained(Tail(u), InSequence)
      /\ ToSet(u) = {Head(u)} \cup ToSet(Tail(u))
      /\ \A b \in ToSet(Tail(u)) : <<Head(u), b>> \in InSequence
  BY ONLY <1>6, <1>8, ChainTail
<1>10. /\ Chained(w, InSequence)
       /\ ToSet(u) = {Head(outbox).command} \cup ToSet(w)
       /\ \A b \in ToSet(w) : <<Head(outbox).command, b>> \in InSequence
  BY <1>6, <1>7, <1>9, Zenon
<1> QED BY <1>2, <1>3, <1>4, <1>5, <1>10 DEF Reports

\* send_envelope.
LEMMA SendStep ==
    ASSUME FlowInv, SendEnvelope
    PROVE  FlowInv'
<1>0. FlowTypes /\ InOnePlace /\ Accounted /\ NumbersSpent
  BY DEF FlowInv
<1>1. outbox # <<>> /\ outbox' = Tail(outbox)
  BY DEF SendEnvelope
<1>2. PICK c : c = Head(outbox).command
  OBVIOUS
<1>3. /\ Head(outbox) \in Delivery /\ c \in Command /\ outbox' \in Seq(Delivery)
      /\ Chained(Reports', InSequence)
      /\ ToSet(Reports) = {c} \cup ToSet(Reports')
      /\ \A x \in ToSet(Reports') : <<c, x>> \in InSequence
  BY <1>1, <1>2, FirstReport
<1>4. PICK h \in Hosts : h = Destination
  BY <1>3 DEF Destination, Delivery, Hosts
<1>5. /\ outbox # <<>> /\ inbox[h] # NoQueue /\ Len(inbox[h]) < MaxQueued
      /\ inbox' = [inbox EXCEPT ![h] = Append(inbox[h], Head(outbox))]
      /\ outbox' = Tail(outbox)
      /\ UNCHANGED <<last_sequence, queues, deliveries, applied, lost>>
  BY <1>0, <1>4 DEF SendEnvelope, CanSend, IsRegistered, Sent, FlowTypes
<1>6. /\ inbox[h] \in Seq(Delivery)
      /\ Append(inbox[h], Head(outbox)) \in Seq(Delivery)
      /\ Len(Append(inbox[h], Head(outbox))) <= MaxQueued
  <2>1. inbox[h] \in Seq(Delivery)
    BY <1>0, <1>5, <1>4 DEF FlowTypes
  <2> QED BY <1>5, <1>3, <2>1, TransportAssumption
<1>7. CommandsIn(Append(inbox[h], Head(outbox))) = Arrived(CommandsIn(inbox[h]), c)
  BY <1>2, <1>3, <1>6, CommandLines DEF Arrived
<1>8. PICK line : line = Append(inbox[h], Head(outbox))
  OBVIOUS
<1>9. /\ line \in Seq(Delivery) /\ Len(line) <= MaxQueued /\ line # NoQueue
      /\ inbox' = [inbox EXCEPT ![h] = line]
  <2>1. line \in Seq(Delivery) /\ Len(line) <= MaxQueued
    BY <1>6, <1>8
  <2>2. line # NoQueue
    BY <2>1, NoQueueAssumption
  <2>3. inbox' = [inbox EXCEPT ![h] = line]
    BY <1>5, <1>8, Zenon
  <2> QED BY <2>1, <2>2, <2>3
<1>10. CommandsIn(line) = Arrived(CommandsIn(inbox[h]), c)
  BY <1>7, <1>8, Zenon
<1>11. /\ inbox'[h] = line
      /\ \A g \in Hosts : g # h => inbox'[g] = inbox[g]
      /\ inbox' \in [Hosts -> Seq(Delivery) \cup {NoQueue}]
  BY <1>0, <1>4, <1>9 DEF FlowTypes
<1>12. FlowTypes'
  <2>1. \A g \in Hosts : inbox'[g] # NoQueue => Len(inbox'[g]) <= MaxQueued
    BY <1>0, <1>9, <1>11 DEF FlowTypes, IsRegistered
  <2> QED BY <1>0, <1>5, <1>3, <1>11, <2>1 DEF FlowTypes, IsRegistered
<1>13. HostSound(h)' /\ With(h)' = With(h) \cup {c}
  <2>1. Transport(h) = CommandsIn(inbox[h]) /\ Transport(h)' = CommandsIn(inbox'[h])
    BY <1>5, <1>4, <1>9, <1>11, HostLines
  <2>2. Transport(h)' = Arrived(Transport(h), c)
    BY <1>10, <1>11, <2>1
  <2>3. Ready(h)' = Ready(h) /\ applied'[h] = applied[h]
    BY <1>5, <1>4, HostLines
  <2>4. HostOrder(Transport(h), Ready(h), applied[h])
    BY <1>0, <1>4 DEF InOnePlace, HostSound
  <2>5. \A x \in Contents(Transport(h), Ready(h), applied[h]) : <<x, c>> \in InSequence
    BY <1>0, <1>3, <1>4, HostLines DEF InOnePlace, Linked
  <2>6. /\ HostOrder(Arrived(Transport(h), c), Ready(h), applied[h])
        /\ Contents(Arrived(Transport(h), c), Ready(h), applied[h])
              = Contents(Transport(h), Ready(h), applied[h]) \cup {c}
    BY ONLY <1>3, <2>4, <2>5, ArrivalKeepsOrder
  <2> QED BY <1>4, <2>2, <2>3, <2>6, HostLines DEF HostSound
<1>14. \A g \in Hosts : g # h => With(g)' = With(g) /\ HostSound(g)'
  BY <1>0, <1>5, <1>11, HostStays DEF InOnePlace
<1>15. /\ c \notin ToSet(Reports') /\ c \notin lost
       /\ \A g \in Hosts : c \notin With(g)
  BY <1>0, <1>3 DEF InOnePlace, Linked, InSequence
<1>16. InOnePlace'
  <2>1. ToSet(Reports') \cap lost' = {}
    BY <1>0, <1>5, <1>3 DEF InOnePlace
  <2>2. ASSUME NEW g \in Hosts
        PROVE  /\ HostSound(g)'
               /\ Linked(With(g)', ToSet(Reports'), InSequence)
               /\ With(g)' \cap lost' = {}
    <3>1. CASE g = h
      BY <1>0, <1>5, <1>3, <1>13, <1>15, <3>1 DEF InOnePlace, Linked
    <3>2. CASE g # h
      BY <1>0, <1>5, <1>3, <1>14, <3>2 DEF InOnePlace, Linked
    <3> QED BY <3>1, <3>2
  <2>3. \A f, g \in Hosts : f # g => With(f)' \cap With(g)' = {}
    BY <1>0, <1>13, <1>14, <1>15 DEF InOnePlace
  <2> QED BY <1>3, <2>1, <2>2, <2>3 DEF InOnePlace
<1>17. Accounted'
  <2>1. ASSUME NEW x
        PROVE  (\E g \in Hosts : x \in With(g)') \/ x \in ToSet(Reports')
                  <=> (\E g \in Hosts : x \in With(g)) \/ x \in ToSet(Reports)
    <3>1. (\E g \in Hosts : x \in With(g)') <=> (\E g \in Hosts : x \in With(g)) \/ x = c
      BY <1>4, <1>13, <1>14
    <3> QED BY <1>3, <3>1
  <2> QED BY <1>0, <1>5, <2>1 DEF Accounted
<1>18. NumbersSpent'
  BY <1>0, <1>5 DEF NumbersSpent
<1> QED BY <1>12, <1>16, <1>17, <1>18 DEF FlowInv

\* A report that is given up.
LEMMA GiveUpStep ==
    ASSUME FlowInv, GiveUp
    PROVE  FlowInv'
<1> DEFINE c == Head(outbox).command
<1>0. FlowTypes /\ InOnePlace /\ Accounted /\ NumbersSpent
  BY DEF FlowInv
<1>1. /\ outbox # <<>> /\ outbox' = Tail(outbox)
      /\ lost' = lost \cup {c}
      /\ UNCHANGED <<last_sequence, inbox, queues, deliveries, applied>>
  BY DEF GiveUp
<1>2. /\ c \in Command /\ outbox' \in Seq(Delivery)
      /\ Chained(Reports', InSequence)
      /\ ToSet(Reports) = {c} \cup ToSet(Reports')
      /\ \A x \in ToSet(Reports') : <<c, x>> \in InSequence
  BY <1>1, FirstReport
<1> HIDE DEF c
<1>3. \A g \in Hosts : With(g)' = With(g) /\ HostSound(g)'
  BY <1>0, <1>1, HostStays DEF InOnePlace
<1>4. FlowTypes'
  BY <1>0, <1>1, <1>2 DEF FlowTypes, IsRegistered
<1>5. InOnePlace'
  <2>1. /\ c \notin ToSet(Reports')
        /\ \A g \in Hosts : c \notin With(g)
    BY <1>0, <1>2 DEF InOnePlace, Linked, InSequence
  <2>2. ToSet(Reports') \cap lost' = {}
    BY <1>0, <1>1, <1>2, <2>1 DEF InOnePlace
  <2>3. ASSUME NEW g \in Hosts
        PROVE  /\ HostSound(g)'
               /\ Linked(With(g)', ToSet(Reports'), InSequence)
               /\ With(g)' \cap lost' = {}
    BY <1>0, <1>1, <1>2, <1>3, <2>1 DEF InOnePlace, Linked
  <2>4. \A f, g \in Hosts : f # g => With(f)' \cap With(g)' = {}
    BY <1>0, <1>3 DEF InOnePlace
  <2> QED BY <1>2, <2>2, <2>3, <2>4 DEF InOnePlace
<1>6. Accounted'
  <2>1. ASSUME NEW x
        PROVE  x \in ToSet(Reports') \/ x \in lost' <=> x \in ToSet(Reports) \/ x \in lost
    BY <1>1, <1>2
  <2>2. ASSUME NEW x
        PROVE  (\E g \in Hosts : x \in With(g)') <=> (\E g \in Hosts : x \in With(g))
    BY <1>3
  <2> QED BY <1>0, <1>1, <2>1, <2>2 DEF Accounted
<1>7. NumbersSpent'
  BY <1>0, <1>1 DEF NumbersSpent
<1> QED BY <1>4, <1>5, <1>6, <1>7 DEF FlowInv

\* dispatch_command_frame.
LEMMA DispatchStep ==
    ASSUME FlowInv, RouteInv, NEW c \in Clients, NEW n \in 1 .. MaxSequence, NEW p \in Used,
           DispatchFrame(c, n, p)
    PROVE  FlowInv'
<1>0. FlowTypes /\ InOnePlace /\ Accounted /\ NumbersSpent
  BY DEF FlowInv
<1>1. PICK command \in Command : command = [client |-> c, sequence |-> n, priority |-> p]
  BY DispatchAssumption DEF Command
<1>2. PICK new : new = Resolved(Home[c], command)
  OBVIOUS
<1>3. /\ n > last_sequence[c]
      /\ last_sequence' = [last_sequence EXCEPT ![c] = n]
      /\ \/ outbox' = Append(outbox, new) /\ deliveries' = deliveries \cup {new}
         \/ outbox' = outbox /\ deliveries' = deliveries
      /\ UNCHANGED <<inbox, queues, applied, lost>>
  BY <1>1, <1>2 DEF DispatchFrame, Admits
<1>4. /\ command.client = c /\ command.sequence = n
      /\ n \in Nat /\ last_sequence[c] \in Nat
      /\ last_sequence' \in [Clients -> 0 .. MaxSequence]
      /\ last_sequence'[c] = n
      /\ \A b \in Clients : b # c => last_sequence'[b] = last_sequence[b]
  BY <1>0, <1>1, <1>3, LimitsAssumption DEF FlowTypes
<1>5. new.command = command /\ deliveries' \subseteq Delivery
  <2>1. RouteInv'
    BY DispatchKeeps
  <2> QED BY <1>2, <2>1 DEF RouteInv, RouteTypes, Resolved
<1>6. \A d \in deliveries :
         /\ d.command \in Command /\ d.command.client \in Clients
         /\ d.command.sequence \in Nat /\ last_sequence[d.command.client] \in Nat
         /\ d.command.sequence <= last_sequence[d.command.client]
  BY <1>0, LimitsAssumption DEF FlowTypes, NumbersSpent, Delivery, Command
<1>7. \A d \in deliveries : <<d.command, command>> \in InSequence
  <2> SUFFICES ASSUME NEW d \in deliveries
               PROVE  <<d.command, command>> \in InSequence
    OBVIOUS
  <2>1. PICK x \in Command : x = d.command
    BY <1>6
  <2>2. x.client = c => x.sequence < n
    BY <1>3, <1>4, <1>6, <2>1
  <2>3. x # command
    BY <1>4, <2>2
  <2> QED BY <1>4, <2>1, <2>2, <2>3 DEF InSequence
<1>8. /\ \A x \in ToSet(Reports) : <<x, command>> \in InSequence
      /\ \A x \in lost : <<x, command>> \in InSequence
      /\ \A g \in Hosts : \A x \in With(g) : <<x, command>> \in InSequence
  BY <1>0, <1>7 DEF Accounted
<1>9. \A g \in Hosts : With(g)' = With(g) /\ HostSound(g)'
  BY <1>0, <1>3, HostStays DEF InOnePlace
<1>10. NumbersSpent'
  <2>1. ASSUME NEW d \in deliveries
        PROVE  d.command.sequence <= last_sequence'[d.command.client]
    BY <1>3, <1>4, <1>6
  <2>2. \A d \in deliveries : d.command # command
    BY <1>7 DEF InSequence
  <2> QED BY <1>0, <1>3, <1>4, <1>5, <2>1, <2>2 DEF NumbersSpent
<1>11. CASE outbox' = outbox /\ deliveries' = deliveries
  <2>1. Reports' = Reports
    BY <1>11 DEF Reports, CommandsIn
  <2>2. FlowTypes'
    BY <1>0, <1>3, <1>4, <1>11 DEF FlowTypes, IsRegistered
  <2>3. InOnePlace'
    BY <1>0, <1>3, <1>9, <2>1 DEF InOnePlace
  <2>4. Accounted'
    BY <1>0, <1>3, <1>9, <1>11, <2>1 DEF Accounted
  <2> QED BY <1>10, <2>2, <2>3, <2>4 DEF FlowInv
<1>12. CASE outbox' = Append(outbox, new) /\ deliveries' = deliveries \cup {new}
  <2>1. new \in Delivery /\ outbox \in Seq(Delivery)
    BY <1>0, <1>5, <1>12 DEF FlowTypes
  <2>2. outbox' \in Seq(Delivery)
    BY <1>12, <2>1
  <2>3. FlowTypes'
    BY <1>0, <1>3, <1>4, <1>5, <2>2 DEF FlowTypes, IsRegistered
  <2>4. Reports' = Arrived(Reports, command)
    <3>1. CommandsIn(Append(outbox, new)) = Append(CommandsIn(outbox), command)
      BY <1>5, <2>1, CommandLines
    <3> QED BY <1>12, <3>1, Zenon DEF Reports, Arrived
  <2>5. /\ Chained(Reports', InSequence)
        /\ ToSet(Reports') = ToSet(Reports) \cup {command}
    <3>1. PICK u : u = Reports
      OBVIOUS
    <3>2. u \in Seq(Command) /\ Chained(u, InSequence)
      BY <1>0, <2>1, <3>1, CommandLines DEF InOnePlace, Reports
    <3>3. \A x \in ToSet(u) : <<x, command>> \in InSequence
      BY <1>8, <3>1
    <3>4. Chained(Arrived(u, command), InSequence)
          /\ ToSet(Arrived(u, command)) = ToSet(u) \cup {command}
      BY <3>2, <3>3, ChainAppend DEF Arrived
    <3> QED BY ONLY <2>4, <3>1, <3>4
  <2>6. InOnePlace'
    <3>1. command \notin lost
      BY <1>8 DEF InSequence
    <3>2. ToSet(Reports') \cap lost' = {}
      BY <1>0, <1>3, <2>5, <3>1 DEF InOnePlace
    <3>3. ASSUME NEW g \in Hosts
          PROVE  /\ HostSound(g)'
                 /\ Linked(With(g)', ToSet(Reports'), InSequence)
                 /\ With(g)' \cap lost' = {}
      BY <1>0, <1>3, <1>8, <1>9, <2>5 DEF InOnePlace, Linked
    <3>4. \A f, g \in Hosts : f # g => With(f)' \cap With(g)' = {}
      BY <1>0, <1>9 DEF InOnePlace
    <3> QED BY <2>5, <3>2, <3>3, <3>4 DEF InOnePlace
  <2>7. Accounted'
    <3>1. ASSUME NEW x
          PROVE  (\E d \in deliveries' : x = d.command)
                    <=> (\E d \in deliveries : x = d.command) \/ x = command
      BY <1>5, <1>12
    <3>2. ASSUME NEW x
          PROVE  x \in ToSet(Reports') <=> x \in ToSet(Reports) \/ x = command
      BY <2>5
    <3>3. ASSUME NEW x
          PROVE  (\E g \in Hosts : x \in With(g)') <=> (\E g \in Hosts : x \in With(g))
      BY <1>9
    <3> QED BY <1>0, <1>3, <3>1, <3>2, <3>3 DEF Accounted
  <2> QED BY <1>10, <2>3, <2>6, <2>7 DEF FlowInv
<1> QED BY <1>3, <1>11, <1>12

\* A step of the control plane touches no command.
LEMMA CommandsStay ==
    ASSUME FlowInv, UNCHANGED commands
    PROVE  FlowInv'
<1>0. FlowTypes /\ InOnePlace /\ Accounted /\ NumbersSpent
  BY DEF FlowInv
<1>1. UNCHANGED <<last_sequence, outbox, inbox, queues, deliveries, applied, lost>>
  BY DEF commands
<1>2. \A g \in Hosts : With(g)' = With(g) /\ HostSound(g)'
  BY <1>0, <1>1, HostStays DEF InOnePlace
<1>3. Reports' = Reports
  BY <1>1 DEF Reports, CommandsIn
<1>4. FlowTypes'
  BY <1>0, <1>1 DEF FlowTypes, IsRegistered
<1>5. InOnePlace'
  BY <1>0, <1>1, <1>2, <1>3 DEF InOnePlace
<1>6. Accounted'
  BY <1>0, <1>1, <1>2, <1>3 DEF Accounted
<1>7. NumbersSpent'
  BY <1>0, <1>1 DEF NumbersSpent
<1> QED BY <1>4, <1>5, <1>6, <1>7 DEF FlowInv

\* Before anything is dispatched there is no command anywhere.
LEMMA FlowStart ==
    ASSUME Init
    PROVE  FlowInv
<1>0. /\ last_sequence = [c \in Clients |-> 0] /\ outbox = <<>>
      /\ inbox = [h \in Hosts |-> NoQueue] /\ queues = [h \in Hosts |-> NoQueue]
      /\ applied = [h \in Hosts |-> <<>>] /\ deliveries = {} /\ lost = {}
  BY DEF Init
<1>1. /\ <<>> \in Seq(Delivery) /\ <<>> \in Seq(Command) /\ ToSet(<<>>) = {}
      /\ Chained(<<>>, InSequence)
  BY DEF ToSet, Chained
<1>2. Reports = <<>>
  <2>1. CommandsIn(outbox) \in Seq(Command) /\ Len(CommandsIn(outbox)) = 0
    BY <1>0, <1>1, CommandLines
  <2> QED BY <2>1 DEF Reports
<1>3. FlowTypes
  BY <1>0, <1>1, LimitsAssumption DEF FlowTypes, IsRegistered
<1>4. ASSUME NEW h \in Hosts
      PROVE  HostSound(h) /\ With(h) = {}
  <2>1. /\ Transport(h) = <<>> /\ applied[h] = <<>>
        /\ Ready(h) = [p \in Priorities |-> <<>>]
    BY <1>0, HostLines
  <2>2. HostSound(h)
    BY <1>1, <2>1 DEF HostSound, HostOrder, Linked
  <2>3. With(h) = {}
    BY <1>1, <2>1, HostLines DEF Contents
  <2> QED BY <2>2, <2>3
<1>5. InOnePlace
  BY <1>0, <1>1, <1>2, <1>4 DEF InOnePlace, Linked
<1>6. Accounted
  BY <1>0, <1>1, <1>2, <1>4 DEF Accounted
<1>7. NumbersSpent
  BY <1>0 DEF NumbersSpent
<1> QED BY <1>3, <1>5, <1>6, <1>7 DEF FlowInv

\* The lines of a host are chains, and no command is in two of them.
LEMMA LinesApart ==
    ASSUME NEW h \in Hosts, HostSound(h)
    PROVE  /\ \A x \in Stages :
                 Line(h, x) \in Seq(Command) /\ Chained(Line(h, x), InSequence)
           /\ \A x, y \in Stages :
                 x # y => ToSet(Line(h, x)) \cap ToSet(Line(h, y)) = {}
<1> DEFINE t == Transport(h)
           r == Ready(h)
           d == applied[h]
<1>1. /\ Line(h, "transport") = t /\ Line(h, "applied") = d
      /\ \A p \in Priorities : Line(h, p) = r[p]
  BY HostLines DEF Transport, Ready
<1>2. HostOrder(t, r, d)
  BY DEF HostSound
<1> HIDE DEF t, r, d
<1>3. /\ t \in Seq(Command) /\ Chained(t, InSequence)
      /\ d \in Seq(Command) /\ Chained(d, InSequence)
      /\ \A p \in Priorities : r[p] \in Seq(Command) /\ Chained(r[p], InSequence)
  BY <1>2 DEF HostOrder
<1>4. /\ ToSet(d) \cap ToSet(t) = {}
      /\ \A p \in Priorities : /\ ToSet(d) \cap ToSet(r[p]) = {}
                               /\ ToSet(r[p]) \cap ToSet(t) = {}
      /\ \A p, q \in Priorities : p # q => ToSet(r[p]) \cap ToSet(r[q]) = {}
  <2>1. /\ Linked(ToSet(d), ToSet(t), InSequence)
        /\ \A p \in Priorities : /\ Linked(ToSet(d), ToSet(r[p]), InSequence)
                                 /\ Linked(ToSet(r[p]), ToSet(t), InSequence)
                                 /\ \A c \in ToSet(r[p]) : c.priority = p
    BY <1>2 DEF HostOrder
  <2>2. \A U, V : Linked(U, V, InSequence) => U \cap V = {}
    BY DEF Linked, InSequence
  <2>3. \A p, q \in Priorities : p # q => ToSet(r[p]) \cap ToSet(r[q]) = {}
    BY <2>1
  <2> QED BY ONLY <2>1, <2>2, <2>3
<1>5. \A x \in Stages :
         Line(h, x) \in Seq(Command) /\ Chained(Line(h, x), InSequence)
  BY <1>1, <1>3 DEF Stages
<1>6. ASSUME NEW x \in Stages, NEW y \in Stages, x # y
      PROVE  ToSet(Line(h, x)) \cap ToSet(Line(h, y)) = {}
  BY <1>1, <1>4, <1>6 DEF Stages
<1> QED BY <1>5, <1>6

\* An entry of a chain is there once.
LEMMA ChainInjective ==
    ASSUME NEW u \in Seq(Command), Chained(u, InSequence),
           NEW i \in DOMAIN u, NEW j \in DOMAIN u, u[i] = u[j]
    PROVE  i = j
<1>1. i \in 1 .. Len(u) /\ j \in 1 .. Len(u)
  OBVIOUS
<1>2. ~(i < j) /\ ~(j < i)
  BY <1>1 DEF Chained, InSequence
<1> QED BY <1>1, <1>2

\* The invariants say what is promised of every command.
LEMMA FlowPromise ==
    ASSUME FlowInv, RouteInv
    PROVE  DispatchedOnce
<1> DEFINE reports == CommandsIn(outbox)
           at_nodes == UNION {With(h) : h \in Hosts}
<1>0. FlowTypes /\ InOnePlace /\ Accounted /\ NumbersSpent
  BY DEF FlowInv
<1>1. TypeOK
  BY <1>0 DEF FlowTypes, RouteInv, RouteTypes, TypeOK, IsRegistered
<1>2. \A d, e \in deliveries : d.command = e.command => d = e
  BY <1>0 DEF NumbersSpent
<1>3. /\ reports = Reports
      /\ \A x : x \in at_nodes <=> \E h \in Hosts : x \in With(h)
  BY DEF Reports
<1>4. reports \in Seq(Command)
  BY <1>0, CommandLines DEF FlowTypes
<1> HIDE DEF reports, at_nodes
<1>5. {d.command : d \in deliveries} = at_nodes \cup ToSet(reports) \cup lost
  <2>1. \A x : x \in {d.command : d \in deliveries} <=> \E d \in deliveries : x = d.command
    OBVIOUS
  <2> QED BY <1>0, <1>3, <2>1 DEF Accounted
<1>6. (at_nodes \cup ToSet(reports)) \cap lost = {}
  BY <1>0, <1>3 DEF InOnePlace
<1>7. at_nodes \cap ToSet(reports) = {}
  BY <1>0, <1>3 DEF InOnePlace, Linked, InSequence
<1>8. \A i, j \in DOMAIN reports : reports[i] = reports[j] => i = j
  <2>1. Chained(reports, InSequence)
    BY <1>0, <1>3 DEF InOnePlace
  <2> QED BY ONLY <1>4, <2>1, ChainInjective
<1>9. \A g, h \in Hosts : g # h => With(g) \cap With(h) = {}
  BY <1>0 DEF InOnePlace
<1>10. ASSUME NEW h \in Hosts, NEW x \in Stages, NEW y \in Stages,
              NEW i \in DOMAIN Line(h, x), NEW j \in DOMAIN Line(h, y),
              Line(h, x)[i] = Line(h, y)[j]
       PROVE  x = y /\ i = j
  <2>1. HostSound(h)
    BY <1>0 DEF InOnePlace
  <2>2. PICK u, v : u = Line(h, x) /\ v = Line(h, y)
    OBVIOUS
  <2>3. /\ u \in Seq(Command) /\ Chained(u, InSequence)
        /\ v \in Seq(Command) /\ Chained(v, InSequence)
        /\ x # y => ToSet(u) \cap ToSet(v) = {}
    BY <2>1, <2>2, LinesApart
  <2>4. /\ i \in DOMAIN u /\ j \in DOMAIN v /\ u[i] = v[j]
        /\ x = y => u = v
    BY <1>10, <2>2
  <2>5. x = y
    BY <2>3, <2>4 DEF ToSet
  <2>6. i = j
    BY ONLY <2>3, <2>4, <2>5, ChainInjective
  <2> QED BY <2>5, <2>6
<1>11. ASSUME NEW h \in Hosts, NEW i \in DOMAIN applied[h], NEW j \in DOMAIN applied[h],
              i < j, applied[h][i].client = applied[h][j].client,
              applied[h][i].priority = applied[h][j].priority
       PROVE  applied[h][i].sequence < applied[h][j].sequence
  <2>1. PICK d : d = applied[h]
    OBVIOUS
  <2>2. d \in Seq(Command) /\ Chained(d, InSequence)
    BY <1>0, <2>1 DEF InOnePlace, HostSound, HostOrder
  <2>3. i \in 1 .. Len(d) /\ j \in 1 .. Len(d)
    BY <2>1, <2>2
  <2>4. <<d[i], d[j]>> \in InSequence
    BY <1>11, <2>2, <2>3 DEF Chained
  <2> QED BY <1>11, <2>1, <2>4 DEF InSequence
<1> QED BY <1>1, <1>2, <1>5, <1>6, <1>7, <1>8, <1>9, <1>10, <1>11
        DEF DispatchedOnce, reports, at_nodes

\* A command acknowledged as accepted is in one place only, through every order of
\* sends, moves, pumps and losses; none is applied twice, none that was refused is
\* anywhere, and each node applies the commands of one client and priority in the
\* order of their numbers (DispatchedOnce, about dispatch_command_frame,
\* send_envelope and pump_target).
THEOREM DispatchedOnceHolds == Spec => []DispatchedOnce
<1>1. Init => FlowInv
  BY FlowStart
<1>2. FlowInv /\ RouteInv /\ [Next]_vars => FlowInv'
  <2> HAVE FlowInv /\ RouteInv /\ [Next]_vars
  <2>1. CASE UNCHANGED vars
    BY <2>1, CommandsStay DEF vars
  <2>2. CASE ControlPlane
    BY <2>2, CommandsStay DEF ControlPlane
  <2>3. ASSUME NEW c \in Clients, NEW n \in 1 .. MaxSequence, NEW p \in Used,
               DispatchFrame(c, n, p)
        PROVE  FlowInv'
    BY <2>3, DispatchStep
  <2>4. CASE SendEnvelope
    BY <2>4, SendStep
  <2>5. CASE GiveUp
    BY <2>5, GiveUpStep
  <2>6. ASSUME NEW h \in Hosts, OpenHost(h)
        PROVE  FlowInv'
    BY <2>6, OpenStep
  <2>7. ASSUME NEW h \in Hosts, CloseQueues(h)
        PROVE  FlowInv'
    BY <2>7, CloseQueuesStep
  <2>8. ASSUME NEW h \in Hosts, CloseTransport(h)
        PROVE  FlowInv'
    BY <2>8, CloseTransportStep
  <2>9. ASSUME NEW h \in Hosts, NEW max \in 1 .. MaxPackets, PumpTarget(h, max)
        PROVE  FlowInv'
    BY <2>9, PumpStep
  <2>10. ASSUME NEW h \in Hosts, PopNext(h)
         PROVE  FlowInv'
    BY <2>10, PopStep
  <2> QED BY <2>1, <2>2, <2>3, <2>4, <2>5, <2>6, <2>7, <2>8, <2>9, <2>10 DEF Next
<1>3. FlowInv /\ RouteInv => DispatchedOnce
  BY FlowPromise
<1> QED BY <1>1, <1>2, <1>3, RoutesInvariant, PTL DEF Spec
=============================================================================
