--------------------------- MODULE MCStationEvents ---------------------------
(* Instances of StationEvents for TLC. *)
EXTENDS StationEvents

TwoStations == {1, 2}
First == {1}
TwoImportant == [p \in Priorities |-> IF p = "Important" THEN 2 ELSE 1]
=============================================================================
