--------------------------- MODULE MCSplitMigration ---------------------------
(* Instances, for TLC, of SplitMigration and of the collections that stations    *)
(* and indexes are looked up in: numbered stations and cells, interchangeable    *)
(* entities.  A behaviour is about one of the two; collections grow past the     *)
(* threshold and back, with repeated ids.                                        *)
EXTENDS SplitMigration, StationRegistry, TLC

VARIABLE part

MCStations == 1 .. 3
MCCells == 1 .. 2
OneStation == {2}
MCSymmetry == Permutations(Entities)

MCInit == part \in {"Passes", "Lookups"} /\ SplitInit /\ RegistryInit

MCNext ==
    /\ UNCHANGED part
    /\ \/ part = "Passes" /\ SplitNext /\ UNCHANGED registryVars
       \/ part = "Lookups" /\ RegistryNext /\ UNCHANGED splitVars

MCSpec == MCInit /\ [][MCNext]_<<splitVars, part, registryVars>>
=============================================================================
