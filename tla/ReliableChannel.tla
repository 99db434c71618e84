-------------------------- MODULE ReliableChannel --------------------------
(***************************************************************************)
(* What a reliable link promises its two applications: a packet is handed  *)
(* over at most once and only after it was sent; the sender is told        *)
(* "acknowledged" only of a packet that was handed over, and may be told   *)
(* "timed out" of any packet, handed over or not.                          *)
(***************************************************************************)
CONSTANT Keys   \* packets, by target and sequence number

VARIABLES
    status,     \* packet -> what its sender knows of it
    handed      \* packet -> how often the receiver handed it over

Init ==
    /\ status = [k \in Keys |-> "unsent"]
    /\ handed = [k \in Keys |-> 0]

Accept(k) ==
    /\ status[k] = "unsent"
    /\ status' = [status EXCEPT ![k] = "pending"]
    /\ UNCHANGED handed

HandOver(k) ==
    /\ status[k] # "unsent"
    /\ handed[k] = 0
    /\ handed' = [handed EXCEPT ![k] = 1]
    /\ UNCHANGED status

Acknowledged(k) ==
    /\ status[k] = "pending"
    /\ handed[k] = 1
    /\ status' = [status EXCEPT ![k] = "acknowledged"]
    /\ UNCHANGED handed

TimeOut(expired) ==
    /\ \A k \in expired : status[k] = "pending"
    /\ status' = [k \in Keys |-> IF k \in expired THEN "timed out" ELSE status[k]]
    /\ UNCHANGED handed

Next ==
    \/ \E k \in Keys : Accept(k) \/ HandOver(k) \/ Acknowledged(k)
    \/ \E expired \in SUBSET Keys : TimeOut(expired)

Spec == Init /\ [][Next]_<<status, handed>>
=============================================================================
