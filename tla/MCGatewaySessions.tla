-------------------------- MODULE MCGatewaySessions --------------------------
(* Instances of GatewaySessions for TLC. *)
EXTENDS GatewaySessions, TLC

CONSTANTS c1, c2, s1, s2

OneClient == {c1}
TwoClients == {c1, c2}
OneStation == {s1}
TwoStations == {s1, s2}
Symmetry == Permutations(Clients) \cup Permutations(Stations)
=============================================================================
