--------------------------- MODULE MCReplication ---------------------------
(* Instance of Replication for TLC.  A behaviour is about one of two parts: two  *)
(* entities with whatever may happen to them and to the batch, or a crowd of     *)
(* three, more than the near viewer's budget can serve, in a loop that is calm.  *)
EXTENDS Replication

CONSTANT Few      \* the entities of the first part

VARIABLE part

\* Positions 0 and 1 lie in the first cell, 2 in the second.
MCFootprint(p) == {p \div 2}

\* One viewer reaches the first cell and takes one entity a frame, the other
\* one reaches both cells and takes as many as the budget allows.
MCNear == [client |-> "near", position |-> 0, radius |-> 1, max_entities |-> 1]
MCWide == [client |-> "wide", position |-> 1, radius |-> 1, max_entities |-> 2]
MCViewers == <<MCNear, MCWide>>
MCQueryRange(v) == IF v = MCNear THEN <<0>> ELSE <<0, 1>>

\* The crowd moves and grows between batches, one entity after the other (they are
\* told apart by their slots); its plans are sent whole.
CrowdNext ==
    \/ /\ batch = <<>> /\ ~planned
       /\ \E p \in Positions :
             \/ size < MaxSlots /\ Spawn(CHOOSE e \in Entities : by_id[e] = NoHandle, p)
             \/ \E h \in Handle : Move(h, p)
    \/ \E mode \in Modes : PlanBatch(mode)
    \/ batch # <<>> /\ SendPlan(Len(Encodable(Head(batch))))
    \/ ReplicationTick \/ PruneSentBefore

\* The one that comes first: which it is makes no difference.
Foremost == CHOOSE e \in Few : TRUE

MCInit == part \in {"Changing", "Crowded"} /\ ReplicationInit

MCNext ==
    /\ UNCHANGED part
    /\ \/ part = "Changing" /\ ReplicationNext
          /\ \A e \in Entities \ (IF size = 0 THEN {Foremost} ELSE Few) : by_id'[e] = NoHandle
       \/ part = "Crowded" /\ CrowdNext

MCSpec == MCInit /\ [][MCNext]_<<part, replicationVars>> /\ Fairness
=============================================================================
