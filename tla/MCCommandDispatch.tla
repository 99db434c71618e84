-------------------------- MODULE MCCommandDispatch --------------------------
(* Instances of CommandDispatch for TLC. *)
EXTENDS CommandDispatch, TLC

CONSTANTS c1, s1

ToStation == c1 :> s1
OneCapacity == {1}
OneEach == [p \in Priorities |-> 1]
HighOnly == {"High"}

NodeSymmetry == Permutations(Nodes)
=============================================================================
