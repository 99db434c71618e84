--------------------------- MODULE MCClientPackets ---------------------------
(* Instances, for TLC, of what a client's packets go through: the planning of    *)
(* its frames in parallel, the wire format, the security box, and the bridges at *)
(* either end.  They share no state, so a behaviour exercises one of them.       *)
EXTENDS PacketSecurity, ClientLink, BatchPlanning, TLC

VARIABLE part     \* the one this behaviour is about

TwoKeys == {1, 2}
SamePriority == [k \in KeyIds |-> 0]
PacketSymmetry == Permutations(Packets)

\* Client 1 expects its source, client 2 does not.
TwoClients == {1, 2}
FirstClient == {1}

\* Something that is no frame, one for client 1 of a kind no client takes, and
\* an ACK for client 1.
MCForeign == {<<>>, <<3, 1, 0, 0, 0>>, <<1, 1, 0, 1, 0>>}

Blob(id, dirty, length) ==
    [component_id |-> id, dirty |-> dirty, bytes |-> [i \in 1 .. length |-> 0]]

\* Planned entities: gone, clean, with a small blob, with two of them, with one
\* beyond max_component_bytes before a small one.
MCPlannedEntities ==
    {[present |-> p, id |-> 7, blobs |-> b] :
        p \in BOOLEAN,
        b \in {<<>>, <<Blob(0, FALSE, 1)>>, <<Blob(0, TRUE, 0)>>,
               <<Blob(0, TRUE, 1), Blob(1, TRUE, 1)>>, <<Blob(0, TRUE, 2), Blob(1, TRUE, 1)>>}}

MCBudgets == HeaderUnits .. 15
MCKindUnits == 0 .. 6

\* What the indexes of two stations answer, before and after their entities moved.
MCWorlds ==
    {[s1 |-> [near |-> <<1, 2>>, wide |-> <<2, 1, 3>>],
      s2 |-> [near |-> <<>>, wide |-> <<1>>]],
     [s1 |-> [near |-> <<2>>, wide |-> <<2, 3>>],
      s2 |-> [near |-> <<1, 2>>, wide |-> <<1, 2>>]]}

Viewer(c, range, wants, max) ==
    [client |-> c, range |-> range, wants |-> wants, max_entities |-> max]

\* Both ranges repeat in the first batch, one of them does in the second.
ManyViewers ==
    [station |-> "s1",
     viewers |-> <<Viewer(1, "near", {1, 2}, 2), Viewer(2, "wide", {1, 2, 3}, 2),
                   Viewer(3, "near", {2}, 2), Viewer(4, "wide", {1, 3}, 2)>>]
FewViewers ==
    [station |-> "s2",
     viewers |-> <<Viewer(5, "wide", {1}, 2), Viewer(6, "wide", {1, 2}, 1),
                   Viewer(7, "near", {1, 2}, 2)>>]

\* Fewer batches than threads, as many, and more.
MCInputs ==
    {<<>>, <<ManyViewers>>, <<FewViewers>>, <<FewViewers, ManyViewers>>,
     <<ManyViewers, FewViewers, ManyViewers>>,
     <<FewViewers, FewViewers, ManyViewers, ManyViewers>>}

MCBatchViewers == Range(ManyViewers.viewers) \cup Range(FewViewers.viewers)

MCInit ==
    /\ part \in {"Security", "Link", "Codec", "Batches"}
    /\ Init /\ LinkInit /\ CodecInit /\ BatchInit
    /\ part # "Batches" => index = CHOOSE world \in MCWorlds : TRUE

MCNext ==
    /\ UNCHANGED part
    /\ \/ part = "Security" /\ Next /\ UNCHANGED <<linkVars, codecVars, batchVars>>
       \/ part = "Link" /\ LinkNext /\ UNCHANGED <<vars, codecVars, batchVars>>
       \/ /\ part = "Codec" /\ (arrived = <<>> \/ asked = <<>>)
          /\ CodecNext /\ (arrived' = <<>> \/ asked' = <<>>)
          /\ UNCHANGED <<vars, linkVars, batchVars>>
       \/ part = "Batches" /\ BatchNext /\ UNCHANGED <<vars, linkVars, codecVars>>

MCSpec == MCInit /\ [][MCNext]_<<vars, linkVars, part, codecVars, batchVars>>
=============================================================================
