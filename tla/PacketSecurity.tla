---------------------------- MODULE PacketSecurity ----------------------------
(***************************************************************************)
(* Sealed packets from one peer to another while their keys rotate:        *)
(* PacketSecurityBox, PacketReplayWindow and PacketKeyRing of              *)
(* crates/sectorsync-transport/src/lib.rs.                                 *)
(*                                                                         *)
(* The network may lose, reorder and repeat envelopes and delivers none    *)
(* later than MaxDelay ticks after it was sealed; sender and receiver      *)
(* count the same ticks.  Envelopes arrive as they were sealed, so their   *)
(* tags verify.                                                            *)
(*                                                                         *)
(* Keys are managed by the embedding application.  Assumed of it, from     *)
(* docs/production-adapters.md and the example secure_key_rotation: the    *)
(* receiver has a key before the sender has it, activated no later; both   *)
(* may retire it at any time; it expires at the receiver MaxDelay ticks    *)
(* after it expired at the sender; a key is inserted anew, or activated    *)
(* again, at the current tick.  Nonces are left to the box (a caller of    *)
(* seal_with_nonce keeps its own apart).                                   *)
(***************************************************************************)
EXTENDS PacketKeyRing, Sequences, SequencesExt

CONSTANTS
    Packets,      \* what is sealed, each once
    MaxSeen,      \* config.max_replay_history
    MaxNonce,     \* bound on nonces (u64 in the code)
    MaxAccepted,  \* bound on envelopes accepted
    MaxManaged    \* bound on calls that manage keys

ASSUME SecurityAssumption == {MaxSeen, MaxNonce, MaxAccepted, MaxManaged} \subseteq Nat

Stamp == [key_id : KeyIds, nonce : 1 .. MaxNonce]
Envelope == [stamp : Stamp, packet : Packets, sealed_at : 0 .. MaxNow]

VARIABLES
    now,
    sender_ring,
    receiver_ring,
    next_nonce,   \* sender's box: key id -> next nonce
    order,        \* receiver's replay window, oldest first
    network,      \* envelopes under way
    unsent,       \* packets that were not sealed yet
    accepted,     \* history: envelopes the replay window let through, in order
    replayed,     \* history: packets refused as replays
    revoked,      \* history: keys that were revoked
    managed       \* calls that managed keys

rings == <<sender_ring, receiver_ring, revoked, managed>>
traffic == <<next_nonce, order, network, unsent, accepted, replayed>>
vars == <<now, rings, traffic>>

TypeOK ==
    /\ now \in 0 .. MaxNow
    /\ {sender_ring, receiver_ring} \subseteq Rings
    /\ next_nonce \in [KeyIds -> 1 .. MaxNonce + 1]
    /\ order \in Seq(Stamp) /\ Len(order) <= MaxSeen
    /\ network \subseteq Envelope
    /\ unsent \subseteq Packets
    /\ accepted \in Seq(Envelope)
    /\ replayed \subseteq Packets
    /\ revoked \subseteq KeyIds
    /\ managed \in 0 .. MaxManaged

Init ==
    /\ now = 0
    /\ sender_ring = EmptyRing
    /\ receiver_ring = EmptyRing
    /\ next_nonce = [k \in KeyIds |-> 1]
    /\ order = <<>>
    /\ network = {}
    /\ unsent = Packets
    /\ accepted = <<>>
    /\ replayed = {}
    /\ revoked = {}
    /\ managed = 0

-----------------------------------------------------------------------------
(* Sealing and opening. *)

\* allocate_nonce.
Allocated(k) == [next_nonce EXCEPT ![k] = @ + 1]

\* seal_with_key_ring.
Seal(packet, k) ==
    /\ packet \in unsent
    /\ IsSendKey(sender_ring, k, now)
    /\ next_nonce[k] <= MaxNonce
    /\ next_nonce' = Allocated(k)
    /\ network' = network \cup
          {[stamp |-> [key_id |-> k, nonce |-> next_nonce[k]],
            packet |-> packet, sealed_at |-> now]}
    /\ unsent' = unsent \ {packet}
    /\ UNCHANGED <<now, rings, order, accepted, replayed>>

\* seal_with_key_ring that fails after the nonce was allocated: the payload is
\* too large, or the cipher or the authenticator returns an error.
SealFails(k) ==
    /\ IsSendKey(sender_ring, k, now)
    /\ next_nonce[k] <= MaxNonce
    /\ next_nonce' = Allocated(k)
    /\ UNCHANGED <<now, rings, order, network, unsent, accepted, replayed>>

\* The replay window knows the stamp.
Seen(stamp) == stamp \in ToSet(order)

\* Mutated: a full window forgets the newest stamp.
RecordedUntilFull(stamp) == IF Len(order) < MaxSeen THEN Append(order, stamp) ELSE order

\* PacketReplayWindow::accept of a stamp it does not know: the oldest one beyond
\* the history is forgotten.
Recorded(stamp) ==
    IF MaxSeen = 0 THEN order
    ELSE IF Len(order) < MaxSeen THEN Append(order, stamp) ELSE Append(Tail(order), stamp)

\* open_with_key_ring of an envelope that arrives; the network may repeat it.
\* What the window lets through is recorded before the cipher opens it: if that
\* fails, the envelope is spent.
Open(e) ==
    /\ e \in network
    /\ Accepts(receiver_ring, e.stamp.key_id, now)
    /\ IF Seen(e.stamp)
       THEN /\ replayed' = replayed \cup {e.packet}
            /\ UNCHANGED <<order, accepted>>
       ELSE /\ Len(accepted) < MaxAccepted
            /\ order' = Recorded(e.stamp)
            /\ accepted' = Append(accepted, e)
            /\ UNCHANGED replayed
    /\ UNCHANGED <<now, rings, next_nonce, network, unsent>>

\* Time passes; envelopes too long under way are gone.
Tick ==
    /\ now < MaxNow
    /\ now' = now + 1
    /\ network' = {e \in network : now + 1 - e.sealed_at <= MaxDelay}
    /\ UNCHANGED <<rings, next_nonce, order, unsent, accepted, replayed>>

-----------------------------------------------------------------------------
(* Key rotation, step by step. *)

\* insert at the receiver.
InsertAtReceiver(k) ==
    /\ CanInsert(receiver_ring, k)
    /\ receiver_ring' = Inserted(receiver_ring, k, now)
    /\ UNCHANGED <<sender_ring, revoked>>

\* insert at the sender of a key the receiver has.
InsertAtSender(k) ==
    /\ CanInsert(sender_ring, k)
    /\ Has(receiver_ring, k) /\ receiver_ring[k].expires_at = Never
    /\ sender_ring' = Inserted(sender_ring, k, now)
    /\ UNCHANGED <<receiver_ring, revoked>>

\* retire at either side.
RetireAtReceiver(k) ==
    /\ Has(receiver_ring, k) /\ receiver_ring[k].state = "Active"
    /\ receiver_ring' = Retired(receiver_ring, k)
    /\ UNCHANGED <<sender_ring, revoked>>

RetireAtSender(k) ==
    /\ Has(sender_ring, k) /\ sender_ring[k].state = "Active"
    /\ sender_ring' = Retired(sender_ring, k)
    /\ UNCHANGED <<receiver_ring, revoked>>

\* activate of a key the sender had retired.
ActivateAtSender(k) ==
    /\ Has(sender_ring, k) /\ sender_ring[k].state = "Retiring"
    /\ sender_ring' = Activated(sender_ring, k, now)
    /\ UNCHANGED <<receiver_ring, revoked>>

\* set_expiry: first at the sender, then, MaxDelay later, at the receiver.
ExpireAtSender(k) ==
    /\ Has(sender_ring, k) /\ sender_ring[k].expires_at = Never
    /\ sender_ring' = WithExpiry(sender_ring, k, now + 1)
    /\ UNCHANGED <<receiver_ring, revoked>>

ExpireAtReceiver(k) ==
    /\ Has(receiver_ring, k) /\ receiver_ring[k].expires_at = Never
    /\ Has(sender_ring, k) /\ sender_ring[k].expires_at # Never
    /\ receiver_ring' = WithExpiry(receiver_ring, k, sender_ring[k].expires_at + MaxDelay)
    /\ UNCHANGED <<sender_ring, revoked>>

\* remove_expired.
RemoveExpired ==
    /\ sender_ring' = WithoutExpired(sender_ring, now)
    /\ receiver_ring' = WithoutExpired(receiver_ring, now)
    /\ UNCHANGED <<now, revoked, managed, traffic>>

\* revoke at both sides: what is under way with the key is refused on purpose.
Revoke(k) ==
    /\ Has(receiver_ring, k) /\ Has(sender_ring, k)
    /\ receiver_ring' = RevokedIn(receiver_ring, k)
    /\ sender_ring' = RevokedIn(sender_ring, k)
    /\ revoked' = revoked \cup {k}

Rotate(k) ==
    /\ managed < MaxManaged
    /\ managed' = managed + 1
    /\ \/ InsertAtReceiver(k) \/ InsertAtSender(k)
       \/ RetireAtReceiver(k) \/ RetireAtSender(k) \/ ActivateAtSender(k)
       \/ ExpireAtSender(k) \/ ExpireAtReceiver(k)
       \/ Revoke(k)
    /\ UNCHANGED <<now, traffic>>

Next ==
    \/ \E k \in KeyIds : SealFails(k) \/ Rotate(k) \/ \E p \in Packets : Seal(p, k)
    \/ \E e \in network : Open(e)
    \/ RemoveExpired
    \/ Tick

Spec == Init /\ [][Next]_vars

-----------------------------------------------------------------------------
(* Properties. *)

\* A packet is refused as a replay only if an envelope of it was let through
\* before: nonces are not used twice, not by failed seals nor after a key was
\* retired, removed and inserted again.
NoFalseReplay ==
    \A p \in replayed : \E i \in DOMAIN accepted : accepted[i].packet = p

\* A repeated envelope is let through again only after more than MaxSeen others
\* were, so a history that covers the network's reordering suppresses all
\* duplicates, across key rotations.
ReplayBeyondWindow ==
    \A i, j \in DOMAIN accepted :
        i < j /\ accepted[i].stamp = accepted[j].stamp => j - i > MaxSeen

\* Both, and the history stays within its bound (TypeOK): what the window refuses
\* is a repeated packet, and what it lets through again is long past.
ReplaysSuppressed == TypeOK /\ NoFalseReplay /\ ReplayBeyondWindow

\* Rotation loses nothing: whatever is under way with a key that was not revoked
\* is accepted by the receiver's ring, though the sender retired the key, let it
\* expire or uses another one by now.
RotationLossless ==
    \A e \in network :
        e.stamp.key_id \notin revoked => Accepts(receiver_ring, e.stamp.key_id, now)
=============================================================================
