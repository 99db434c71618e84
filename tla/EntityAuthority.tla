-------------------------- MODULE EntityAuthority --------------------------
(***************************************************************************)
(* What SectorSync promises about authority (README.md, "Single-owner      *)
(* authority"): at any moment an entity is held by one station or by none, *)
(* and authority moves from the station that has it to another one in a    *)
(* single step.                                                            *)
(***************************************************************************)
CONSTANTS Entities, Stations

VARIABLE holders

Init == holders = [e \in Entities |-> {}]

Appear(e, s) ==
    /\ holders[e] = {}
    /\ holders' = [holders EXCEPT ![e] = {s}]

Hand(e, s, t) ==
    /\ holders[e] = {s}
    /\ holders' = [holders EXCEPT ![e] = {t}]

Vanish(e, s) ==
    /\ holders[e] = {s}
    /\ holders' = [holders EXCEPT ![e] = {}]

Next ==
    \E e \in Entities, s \in Stations :
        \/ Appear(e, s)
        \/ \E t \in Stations : Hand(e, s, t)
        \/ Vanish(e, s)

Spec == Init /\ [][Next]_holders
=============================================================================
