---------------------------- MODULE PacketKeyRing ----------------------------
(***************************************************************************)
(* PacketKeyRing of crates/sectorsync-transport/src/lib.rs: which key a    *)
(* peer seals with and which keys it accepts.  A value ring maps each key  *)
(* id to its descriptor, or to NoKey.  retires_at, which nothing reads, is *)
(* left out.                                                               *)
(***************************************************************************)
EXTENDS Integers, FiniteSets

CONSTANTS
    KeyIds,        \* key ids, as numbers: ties are broken by them
    MaxKeys,       \* config.max_keys
    SendPriority,  \* key id -> the priority it is inserted with
    MaxNow,        \* bound on ticks (u64)
    MaxDelay,      \* ticks an envelope may be under way
    NoKey,         \* a key that is not in the ring (None)
    Never          \* no expires_at (None)

ASSUME KeyRingAssumption ==
    /\ KeyIds \subseteq Nat
    /\ {MaxKeys, MaxNow, MaxDelay} \subseteq Nat
    /\ SendPriority \in [KeyIds -> Nat]
    /\ Never \notin Nat

Ticks == 0 .. MaxNow + 1
Expiry == (0 .. MaxNow + 1 + MaxDelay) \cup {Never}

Descriptor ==
    [state : {"Active", "Retiring", "Revoked"}, activated_at : Ticks, expires_at : Expiry]

ASSUME NoKeyAssumption == NoKey \notin Descriptor

Rings == [KeyIds -> Descriptor \cup {NoKey}]

EmptyRing == [k \in KeyIds |-> NoKey]

Has(ring, k) == ring[k] # NoKey

\* insert is refused with DuplicateKey or CapacityFull otherwise.
CanInsert(ring, k) ==
    ~Has(ring, k) /\ Cardinality({x \in KeyIds : Has(ring, x)}) < MaxKeys

Inserted(ring, k, at) ==
    [ring EXCEPT ![k] = [state |-> "Active", activated_at |-> at, expires_at |-> Never]]

\* activate, retire and revoke.
Activated(ring, k, at) == [ring EXCEPT ![k].state = "Active", ![k].activated_at = at]
Retired(ring, k) == [ring EXCEPT ![k].state = "Retiring"]
RevokedIn(ring, k) == [ring EXCEPT ![k].state = "Revoked"]

\* set_expiry.
WithExpiry(ring, k, at) == [ring EXCEPT ![k].expires_at = at]

IsExpired(descriptor, now) == descriptor.expires_at # Never /\ now >= descriptor.expires_at

\* remove_expired.
WithoutExpired(ring, now) ==
    [k \in KeyIds |-> IF Has(ring, k) /\ IsExpired(ring[k], now) THEN NoKey ELSE ring[k]]

\* Activated by now and not expired.
InForce(ring, k, now) ==
    Has(ring, k) /\ now >= ring[k].activated_at /\ ~IsExpired(ring[k], now)

SendEligible(ring, k, now) == InForce(ring, k, now) /\ ring[k].state = "Active"

\* Mutated: a key that retires is refused at once.
AcceptsActive(ring, k, now) == InForce(ring, k, now) /\ ring[k].state = "Active"

\* accept_key returns the key.
Accepts(ring, k, now) == InForce(ring, k, now) /\ ring[k].state \in {"Active", "Retiring"}

\* The order select_send_key takes the greatest of.
Below(ring, j, k) ==
    \/ SendPriority[j] < SendPriority[k]
    \/ /\ SendPriority[j] = SendPriority[k]
       /\ \/ ring[j].activated_at < ring[k].activated_at
          \/ ring[j].activated_at = ring[k].activated_at /\ j < k

\* select_send_key.
IsSendKey(ring, k, now) ==
    /\ SendEligible(ring, k, now)
    /\ \A j \in KeyIds \ {k} : SendEligible(ring, j, now) => Below(ring, j, k)
=============================================================================
