--------------------------- MODULE MCCommandBarrier ---------------------------
(* Instances of CommandBarrier for TLC. *)
EXTENDS CommandBarrier

OneStation == {1}
TwoStations == {1, 2}

OneEach == [p \in Priorities |-> IF p = "Normal" THEN 0 ELSE 1]
HighAndLow == {"High", "Low"}
AllModes == {"Buffer", "Reject", "Drain"}
=============================================================================
