------------------------- MODULE ReliableLink_proofs -------------------------
(***************************************************************************)
(* The reliable link never forgets a packet in flight, its windows are     *)
(* counted exactly and its heap stays small; and it implements the         *)
(* reliable channel, as long as no target's history is outgrown: for every *)
(* finite set of targets, every limit, and whatever the network loses,     *)
(* repeats and reorders.                                                   *)
(***************************************************************************)
EXTENDS ReliableLink, ReliableClientLink, Ordered_proofs

\* The types of the sender.
SenderTypes ==
    /\ next_sequence \in [Targets -> 1 .. MaxSequence + 1]
    /\ in_flight \in [Keys -> Packet \cup {NoPacket}]
    /\ in_flight_by_target \in [Targets -> 0 .. MaxInFlight]
    /\ status \in [Keys -> {"unsent", "pending", "acknowledged", "timed out"}]

\* The packets in flight are those the sender has told nothing of yet.
PendingInFlight == \A k \in Keys : k \in InFlight <=> status[k] = "pending"

\* Sequence numbers not yet allocated are of packets not yet sent.
UnsentAhead == \A k \in Keys : k[2] >= next_sequence[k[1]] => status[k] = "unsent"

SenderInv == SenderTypes /\ PendingInFlight /\ UnsentAhead /\ WindowExact

\* The bounds of the link and what the assumptions say of them.
LEMMA Bounds ==
    /\ MaxSequence \in Nat /\ MaxInFlight \in Nat /\ MaxHistory \in Nat
    /\ RetryAfter \in Nat /\ MaxAttempts \in Nat /\ Multiple \in Nat
    /\ RetryAfter >= 1 /\ MaxAttempts >= 1 /\ Multiple >= 1
    /\ Targets \subseteq Nat /\ IsFiniteSet(Targets) /\ NoPacket \notin Packet
BY EndpointAssumption, NoPacketAssumption

-----------------------------------------------------------------------------
(* The sender's window. *)

\* What is in flight to one target.
Window(t) == {k \in InFlight : k[1] = t}

\* A target has finitely many numbers.
LEMMA WindowFinite ==
    ASSUME NEW t \in Targets
    PROVE  IsFiniteSet({k \in Keys : k[1] = t})
<1>1. IsFiniteSet({t} \X (1 .. MaxSequence))
  <2>1. IsFiniteSet({t})
    BY FS_Singleton
  <2>2. IsFiniteSet(1 .. MaxSequence)
    BY Bounds, FS_Interval
  <2> QED
    BY <2>1, <2>2, FS_Product
<1>2. {k \in Keys : k[1] = t} \subseteq {t} \X (1 .. MaxSequence)
  BY DEF Keys
<1> QED
  BY <1>1, <1>2, FS_Subset

\* Packets that settle give their places back.
LEMMA ReleasedExact ==
    ASSUME SenderInv, NEW keys \in SUBSET InFlight
    PROVE  /\ Released(keys) \in [Targets -> 0 .. MaxInFlight]
           /\ \A t \in Targets :
                 Released(keys)[t] = Cardinality({k \in InFlight \ keys : k[1] = t})
<1> SUFFICES ASSUME NEW t \in Targets
             PROVE  /\ Released(keys)[t] \in 0 .. MaxInFlight
                    /\ Released(keys)[t] = Cardinality({k \in InFlight \ keys : k[1] = t})
  BY DEF Released
<1> DEFINE gone == {k \in keys : k[1] = t}
           left == {k \in InFlight \ keys : k[1] = t}
<1>1. IsFiniteSet(Window(t)) /\ IsFiniteSet(gone) /\ IsFiniteSet(left)
  <2>1. /\ Window(t) \subseteq {k \in Keys : k[1] = t}
        /\ gone \subseteq {k \in Keys : k[1] = t}
        /\ left \subseteq {k \in Keys : k[1] = t}
    BY DEF Window, InFlight
  <2> QED
    BY <2>1, WindowFinite, FS_Subset
<1>2. left = Window(t) \ gone /\ Window(t) \cap gone = gone
  BY DEF Window
<1>3. Cardinality(left) = Cardinality(Window(t)) - Cardinality(gone)
  <2>1. Cardinality(Window(t) \ gone) =
          Cardinality(Window(t)) - Cardinality(Window(t) \cap gone)
    BY <1>1, FS_Difference
  <2> QED
    BY <1>2, <2>1
<1>4. /\ in_flight_by_target[t] = Cardinality(Window(t))
      /\ in_flight_by_target[t] \in 0 .. MaxInFlight
  BY DEF SenderInv, SenderTypes, WindowExact, Window
<1>5. Released(keys)[t] = in_flight_by_target[t] - Cardinality(gone)
  BY DEF Released
<1>6. Cardinality(left) \in Nat /\ Cardinality(gone) \in Nat
  BY <1>1, FS_CardinalityType
<1> QED
  BY <1>3, <1>4, <1>5, <1>6, Bounds

\* Whatever settles some packets in flight and keeps the others in flight keeps
\* the sender's invariant.
LEMMA SettledKeeps ==
    ASSUME SenderInv, NEW keys \in SUBSET InFlight,
           NEW answer \in {"acknowledged", "timed out"},
           in_flight' \in [Keys -> Packet \cup {NoPacket}],
           \A k \in Keys : in_flight'[k] # NoPacket <=> k \in InFlight \ keys,
           in_flight_by_target' = Released(keys),
           status' = [k \in Keys |-> IF k \in keys THEN answer ELSE status[k]],
           UNCHANGED next_sequence
    PROVE  SenderInv'
<1>1. InFlight' = InFlight \ keys
  BY DEF InFlight
<1>2. SenderTypes'
  BY ReleasedExact DEF SenderInv, SenderTypes
<1>3. PendingInFlight'
  BY <1>1 DEF SenderInv, SenderTypes, PendingInFlight
<1>4. UnsentAhead'
  <2>1. \A k \in keys : k \in Keys /\ status[k] = "pending"
    BY DEF SenderInv, PendingInFlight, InFlight
  <2> QED
    BY <2>1 DEF SenderInv, SenderTypes, UnsentAhead
<1>5. WindowExact'
  <2>1. \A t \in Targets :
          in_flight_by_target'[t] = Cardinality({k \in InFlight \ keys : k[1] = t})
    BY ReleasedExact
  <2> QED
    BY <1>1, <2>1 DEF WindowExact
<1> QED
  BY <1>2, <1>3, <1>4, <1>5 DEF SenderInv

-----------------------------------------------------------------------------
(* Steps of the sender. *)

\* The number allocated next belongs to no packet yet.
LEMMA NextKeyFresh ==
    ASSUME SenderInv, NEW t \in Targets, HasWindow(t)
    PROVE  /\ NextKey(t) \in Keys /\ NextKey(t)[1] = t
           /\ NextKey(t)[2] = next_sequence[t]
           /\ status[NextKey(t)] = "unsent" /\ NextKey(t) \notin InFlight
<1>1. /\ next_sequence[t] \in 1 .. MaxSequence + 1 /\ next_sequence[t] <= MaxSequence
  BY DEF SenderInv, SenderTypes, HasWindow
<1>2. /\ NextKey(t) \in Keys /\ NextKey(t)[1] = t /\ NextKey(t)[2] = next_sequence[t]
  BY <1>1, Bounds DEF NextKey, Keys
<1>3. status[NextKey(t)] = "unsent"
  BY <1>1, <1>2, Bounds DEF SenderInv, UnsentAhead
<1> QED
  BY <1>2, <1>3 DEF SenderInv, PendingInFlight

\* A number once allocated is behind, whatever became of its packet.
LEMMA AllocateKeeps ==
    ASSUME SenderInv, NEW t \in Targets, HasWindow(t), AllocateSequence(t)
    PROVE  /\ next_sequence' \in [Targets -> 1 .. MaxSequence + 1]
           /\ \A k \in Keys : k[2] >= next_sequence'[k[1]]
                 => k # NextKey(t) /\ status[k] = "unsent"
<1>1. /\ next_sequence \in [Targets -> 1 .. MaxSequence + 1]
      /\ next_sequence[t] <= MaxSequence
      /\ next_sequence' = [next_sequence EXCEPT ![t] = @ + 1]
  BY DEF SenderInv, SenderTypes, HasWindow, AllocateSequence
<1>2. next_sequence' \in [Targets -> 1 .. MaxSequence + 1]
  BY <1>1, Bounds
<1>3. ASSUME NEW k \in Keys, k[2] >= next_sequence'[k[1]]
      PROVE  k # NextKey(t) /\ status[k] = "unsent"
  <2>1. k[1] \in Targets /\ k[2] \in Nat
    BY Bounds DEF Keys
  <2>2. k[2] >= next_sequence[k[1]]
    BY <1>1, <1>2, <1>3, <2>1, Bounds
  <2>3. k # NextKey(t)
    BY <1>1, <1>3, <2>1, Bounds DEF NextKey
  <2> QED
    BY <2>2, <2>3 DEF SenderInv, UnsentAhead
<1> QED
  BY <1>2, <1>3

\* send that fails has spent its number and put nothing in flight.
LEMMA SpentKeeps ==
    ASSUME SenderInv, NEW t \in Targets, HasWindow(t), SequenceSpent(t)
    PROVE  SenderInv'
<1>1. /\ AllocateSequence(t)
      /\ UNCHANGED <<in_flight, in_flight_by_target, retry_deadlines, status>>
  BY DEF SequenceSpent
<1>2. /\ next_sequence' \in [Targets -> 1 .. MaxSequence + 1]
      /\ \A k \in Keys : k[2] >= next_sequence'[k[1]] => status[k] = "unsent"
  BY <1>1, AllocateKeeps
<1>3. in_flight' = in_flight /\ in_flight_by_target' = in_flight_by_target /\ status' = status
  BY <1>1
<1>4. InFlight' = InFlight
  BY <1>3 DEF InFlight
<1>5. SenderTypes'
  BY <1>2, <1>3 DEF SenderInv, SenderTypes
<1>6. PendingInFlight'
  BY <1>3, <1>4 DEF SenderInv, PendingInFlight
<1>7. UnsentAhead'
  BY <1>2, <1>3 DEF UnsentAhead
<1>8. WindowExact'
  BY <1>3, <1>4 DEF SenderInv, WindowExact
<1> QED
  BY <1>5, <1>6, <1>7, <1>8 DEF SenderInv

\* send that succeeds puts one packet in flight and counts it in the window.
LEMMA SentKeeps ==
    ASSUME SenderInv, NEW t \in Targets, HasWindow(t), Sent(t)
    PROVE  SenderInv'
<1> DEFINE k == NextKey(t)
           packet == [attempts |-> 1, wait |-> RetryAfter]
<1>1. k \in Keys /\ k[1] = t /\ k \notin InFlight /\ status[k] = "unsent"
  BY NextKeyFresh
<1>2. packet \in Packet /\ packet # NoPacket
  <2>1. 1 \in 1 .. MaxAttempts /\ RetryAfter \in Wait
    BY Bounds DEF Wait
  <2> QED
    BY <2>1, Bounds DEF Packet
<1>3. /\ in_flight' = [in_flight EXCEPT ![k] = packet]
      /\ in_flight_by_target' = [in_flight_by_target EXCEPT ![t] = @ + 1]
      /\ status' = [status EXCEPT ![k] = "pending"]
      /\ AllocateSequence(t)
  BY DEF Sent
<1> HIDE DEF k, packet
<1>4. SenderTypes'
  <2>1. in_flight_by_target[t] + 1 \in 0 .. MaxInFlight
    <3>1. in_flight_by_target[t] \in 0 .. MaxInFlight
      BY DEF SenderInv, SenderTypes
    <3>2. in_flight_by_target[t] < MaxInFlight
      BY DEF HasWindow
    <3> QED
      BY <3>1, <3>2, Bounds
  <2>2. next_sequence' \in [Targets -> 1 .. MaxSequence + 1]
    BY <1>3, AllocateKeeps
  <2> QED
    BY <1>1, <1>2, <1>3, <2>1, <2>2 DEF SenderInv, SenderTypes
<1>5. InFlight' = InFlight \cup {k}
  BY <1>1, <1>2, <1>3 DEF SenderInv, SenderTypes, InFlight
<1>6. PendingInFlight'
  BY <1>1, <1>3, <1>5 DEF SenderInv, SenderTypes, PendingInFlight
<1>7. UnsentAhead'
  <2>1. \A x \in Keys : x[2] >= next_sequence'[x[1]] => x # k /\ status[x] = "unsent"
    BY <1>3, AllocateKeeps DEF k
  <2> QED
    BY <1>3, <2>1 DEF SenderInv, SenderTypes, UnsentAhead
<1>8. WindowExact'
  <2> SUFFICES ASSUME NEW u \in Targets
               PROVE  in_flight_by_target'[u] = Cardinality({x \in InFlight' : x[1] = u})
    BY DEF WindowExact
  <2>1. /\ in_flight_by_target \in [Targets -> 0 .. MaxInFlight]
        /\ in_flight_by_target[u] = Cardinality(Window(u))
    BY DEF SenderInv, SenderTypes, WindowExact, Window
  <2>2. CASE u = t
    <3>1. {x \in InFlight' : x[1] = u} = Window(u) \cup {k} /\ k \notin Window(u)
      BY <1>1, <1>5, <2>2 DEF Window
    <3>2. Window(u) \subseteq {x \in Keys : x[1] = u}
      BY DEF Window, InFlight
    <3>3. IsFiniteSet(Window(u))
      BY <3>2, WindowFinite, FS_Subset
    <3>4. Cardinality(Window(u) \cup {k}) = Cardinality(Window(u)) + 1
      BY <3>1, <3>3, FS_AddElement
    <3> QED
      BY <1>3, <2>1, <2>2, <3>1, <3>4
  <2>3. CASE u # t
    <3>1. {x \in InFlight' : x[1] = u} = Window(u)
      BY <1>1, <1>5, <2>3 DEF Window
    <3> QED
      BY <1>3, <2>1, <2>3, <3>1
  <2> QED
    BY <2>2, <2>3
<1> QED
  BY <1>4, <1>6, <1>7, <1>8 DEF SenderInv

\* An ACK settles at most the packet it names.
LEMMA AcknowledgedKeeps ==
    ASSUME SenderInv, NEW k \in Keys, Acknowledged(k)
    PROVE  SenderInv'
<1> DEFINE settled == SettledBy(k)
<1>1. settled \in SUBSET InFlight
  BY DEF SettledBy
<1>2. /\ in_flight' = [x \in Keys |-> IF x \in settled THEN NoPacket ELSE in_flight[x]]
      /\ in_flight_by_target' = Released(settled)
      /\ status' = [x \in Keys |-> IF x \in settled THEN "acknowledged" ELSE status[x]]
      /\ UNCHANGED next_sequence
  BY DEF Acknowledged
<1> HIDE DEF settled
<1>3. /\ in_flight' \in [Keys -> Packet \cup {NoPacket}]
      /\ \A x \in Keys : in_flight'[x] # NoPacket <=> x \in InFlight \ settled
  BY <1>2 DEF SenderInv, SenderTypes, InFlight
<1> QED
  BY <1>1, <1>2, <1>3, SettledKeeps

\* The keys a pass gives up.
Expired(end) ==
    {retry_deadlines[i].key : i \in
        {j \in Due : /\ j <= end
                     /\ Current(retry_deadlines[j]) /\ Exhausted(retry_deadlines[j])}}

\* A pass gives up packets in flight, and sends others again that have attempts
\* left.
LEMMA PassedKeys ==
    ASSUME NEW end
    PROVE  /\ Expired(end) \subseteq InFlight
           /\ \A k \in Resent(end) :
                 k \in InFlight /\ k \notin Expired(end) /\ ~(in_flight[k].attempts >= MaxAttempts)
BY DEF Expired, Resent, Resending, Current, Exhausted

\* A pass over the retry heap settles the packets it gives up, and the others
\* stay in flight.
LEMMA PassedKeeps ==
    ASSUME SenderInv, NEW end, Passed(end)
    PROVE  SenderInv'
<1>1. /\ in_flight' =
            [k \in Keys |->
                CASE k \in Expired(end) -> NoPacket
                  [] k \in Resent(end) -> [attempts |-> in_flight[k].attempts + 1,
                                           wait |-> RetryAfter]
                  [] OTHER -> in_flight[k]]
      /\ in_flight_by_target' = Released(Expired(end))
      /\ status' = [k \in Keys |-> IF k \in Expired(end) THEN "timed out" ELSE status[k]]
      /\ UNCHANGED next_sequence
  BY DEF Passed, Expired
<1>2. ASSUME NEW k \in Keys
      PROVE  /\ in_flight'[k] \in Packet \cup {NoPacket}
             /\ in_flight'[k] # NoPacket <=> k \in InFlight \ Expired(end)
  <2>1. CASE k \in Expired(end)
    <3>1. k \notin Resent(end)
      BY <2>1, PassedKeys
    <3>2. in_flight'[k] = NoPacket
      BY <1>1, <2>1, <3>1
    <3> QED
      BY <2>1, <3>2
  <2>2. CASE k \in Resent(end)
    <3>1. k \in InFlight /\ k \notin Expired(end) /\ ~(in_flight[k].attempts >= MaxAttempts)
      BY <2>2, PassedKeys
    <3>2. in_flight'[k] = [attempts |-> in_flight[k].attempts + 1, wait |-> RetryAfter]
      BY <1>1, <2>2, <3>1
    <3>3. in_flight[k].attempts \in 1 .. MaxAttempts
      BY <3>1 DEF SenderInv, SenderTypes, InFlight, Packet
    <3>4. in_flight[k].attempts + 1 \in 1 .. MaxAttempts /\ RetryAfter \in Wait
      BY <3>1, <3>3, Bounds DEF Wait
    <3> QED
      BY <3>1, <3>2, <3>4, Bounds DEF Packet
  <2>3. CASE k \notin Expired(end) /\ k \notin Resent(end)
    <3>1. in_flight'[k] = in_flight[k]
      BY <1>1, <2>3
    <3> QED
      BY <2>3, <3>1 DEF SenderInv, SenderTypes, InFlight
  <2> QED
    BY <2>1, <2>2, <2>3
<1>3. in_flight' \in [Keys -> Packet \cup {NoPacket}]
  BY <1>1, <1>2
<1>4. Expired(end) \in SUBSET InFlight
  BY PassedKeys
<1> QED
  BY <1>1, <1>2, <1>3, <1>4, SettledKeeps

\* A tick makes packets in flight older and leaves the windows alone.
LEMMA AgedKeeps ==
    ASSUME SenderInv, Aged
    PROVE  SenderInv'
<1>1. ASSUME NEW k \in Keys
      PROVE  /\ in_flight'[k] \in Packet \cup {NoPacket}
             /\ in_flight'[k] # NoPacket <=> in_flight[k] # NoPacket
  <2>1. CASE in_flight[k] = NoPacket
    BY <2>1 DEF Aged
  <2>2. CASE in_flight[k] # NoPacket
    <3> DEFINE left == IF in_flight[k].wait > 0 THEN in_flight[k].wait - 1 ELSE 0
    <3>1. in_flight'[k] = [in_flight[k] EXCEPT !.wait = left]
      BY <2>2 DEF Aged
    <3>2. in_flight[k] \in Packet
      BY <2>2 DEF SenderInv, SenderTypes
    <3>3. left \in Wait
      <4>1. in_flight[k].wait \in 0 .. RetryAfter
        BY <3>2 DEF Packet, Wait
      <4> QED
        BY <4>1, Bounds DEF Wait
    <3> HIDE DEF left
    <3> QED
      BY <2>2, <3>1, <3>2, <3>3, Bounds DEF Packet
  <2> QED
    BY <2>1, <2>2
<1>2. in_flight' \in [Keys -> Packet \cup {NoPacket}]
  <2>1. in_flight' = [k \in Keys |-> in_flight'[k]]
    BY DEF Aged
  <2> QED
    BY <1>1, <2>1
<1>3. InFlight' = InFlight
  BY <1>1 DEF InFlight
<1> QED
  BY <1>2, <1>3 DEF Aged, SenderInv, SenderTypes, PendingInFlight, UnsentAhead, WindowExact

-----------------------------------------------------------------------------
(* The windows of the link. *)

\* The sender begins with nothing in flight.
LEMMA SenderInit == EndpointInit => SenderInv
<1> SUFFICES ASSUME EndpointInit PROVE SenderInv
  OBVIOUS
<1> USE DEF EndpointInit
<1>1. SenderTypes
  <2>1. 1 \in 1 .. MaxSequence + 1 /\ 0 \in 0 .. MaxInFlight
    BY Bounds
  <2> QED
    BY <2>1 DEF SenderTypes
<1>2. InFlight = {}
  BY DEF InFlight
<1>3. PendingInFlight /\ UnsentAhead
  BY <1>2 DEF PendingInFlight, UnsentAhead
<1>4. WindowExact
  <2> SUFFICES ASSUME NEW t \in Targets
               PROVE  in_flight_by_target[t] = Cardinality({k \in InFlight : k[1] = t})
    BY DEF WindowExact
  <2>1. {k \in InFlight : k[1] = t} = {}
    BY <1>2
  <2> QED
    BY <2>1, FS_EmptySet
<1> QED
  BY <1>1, <1>3, <1>4 DEF SenderInv

\* Steps that leave the sender alone.
LEMMA SameSender ==
    ASSUME SenderInv, UNCHANGED sender
    PROVE  SenderInv'
BY DEF sender, SenderInv, SenderTypes, PendingInFlight, UnsentAhead, WindowExact, InFlight

-----------------------------------------------------------------------------
(* The receivers. *)

\* The types of the receivers.
ReceiverTypes ==
    /\ delivered_order \in [Targets -> Seq(1 .. MaxSequence)]
    /\ \A t \in Targets : Len(delivered_order[t]) <= MaxHistory
    /\ handed \in [Keys -> Nat]

\* A history at its limit forgets its oldest number for the new one.
LEMMA ReceivedKeeps ==
    ASSUME ReceiverTypes, NEW k \in Keys, Received(k)
    PROVE  ReceiverTypes'
<1> USE Bounds DEF ReceiverTypes
<1>1. CASE Remembers(k)
  BY <1>1 DEF Received, receiver
<1>2. CASE ~Remembers(k)
  <2> DEFINE order == delivered_order[k[1]]
             new == IF MaxHistory = 0 THEN order
                    ELSE IF Len(order) = MaxHistory THEN Append(Tail(order), k[2])
                    ELSE Append(order, k[2])
  <2>1. /\ delivered_order' = [delivered_order EXCEPT ![k[1]] = new]
        /\ handed' = [handed EXCEPT ![k] = @ + 1]
    BY <1>2 DEF Received, Remember
  <2>2. k[1] \in Targets /\ k[2] \in 1 .. MaxSequence
    BY DEF Keys
  <2>3. order \in Seq(1 .. MaxSequence) /\ Len(order) \in Nat /\ Len(order) <= MaxHistory
    <3>1. order \in Seq(1 .. MaxSequence) /\ Len(order) <= MaxHistory
      BY <2>2
    <3> HIDE DEF order
    <3> QED
      BY <3>1
  <2> HIDE DEF order
  <2>4. new \in Seq(1 .. MaxSequence) /\ Len(new) <= MaxHistory
    <3>1. CASE MaxHistory = 0
      BY <2>3, <3>1
    <3>2. CASE MaxHistory # 0 /\ Len(order) = MaxHistory
      <4>1. Tail(order) \in Seq(1 .. MaxSequence) /\ Len(Tail(order)) = MaxHistory - 1
        BY <2>3, <3>2
      <4>2. new = Append(Tail(order), k[2])
        BY <3>2
      <4> HIDE DEF new
      <4> QED
        BY <2>2, <4>1, <4>2
    <3>3. CASE MaxHistory # 0 /\ Len(order) # MaxHistory
      <4>1. new = Append(order, k[2])
        BY <3>3
      <4> HIDE DEF new
      <4> QED
        BY <2>2, <2>3, <3>3, <4>1
    <3> QED
      BY <3>1, <3>2, <3>3
  <2> HIDE DEF new
  <2> QED
    BY <2>1, <2>2, <2>4
<1> QED
  BY <1>1, <1>2

\* The receivers begin with nothing handed over.
LEMMA ReceiverInit == EndpointInit => ReceiverTypes
<1> SUFFICES ASSUME EndpointInit PROVE ReceiverTypes
  OBVIOUS
<1>1. /\ delivered_order = [t \in Targets |-> <<>>] /\ handed = [k \in Keys |-> 0]
  BY DEF EndpointInit
<1>2. <<>> \in Seq(1 .. MaxSequence) /\ Len(<<>>) = 0
  OBVIOUS
<1> QED
  BY <1>1, <1>2, Bounds DEF ReceiverTypes

\* Frames under way carry numbers of the link.
FrameTypes ==
    /\ data \subseteq Keys \X (1 .. MaxAttempts)
    /\ acks \subseteq Keys
    /\ down \subseteq Breakable

LinkInv == SenderInv /\ ReceiverTypes /\ FrameTypes

\* The link begins with no frame under way and nothing handed over.
LEMMA LinkInit == Init => LinkInv
<1> SUFFICES ASSUME Init PROVE LinkInv
  OBVIOUS
<1>1. SenderInv /\ ReceiverTypes
  BY SenderInit, ReceiverInit DEF Init
<1>2. FrameTypes
  BY DEF Init, FrameTypes
<1> QED
  BY <1>1, <1>2 DEF LinkInv

\* What a pass sends again is a frame of one more attempt.
LEMMA ResentFrames ==
    ASSUME SenderInv, NEW end
    PROVE  {<<k, in_flight[k].attempts + 1>> : k \in Resent(end)} \subseteq Keys \X (1 .. MaxAttempts)
<1> SUFFICES ASSUME NEW k \in Resent(end)
             PROVE  k \in Keys /\ in_flight[k].attempts + 1 \in 1 .. MaxAttempts
  OBVIOUS
<1>1. k \in InFlight /\ ~(in_flight[k].attempts >= MaxAttempts)
  BY PassedKeys
<1>2. k \in Keys /\ in_flight[k].attempts \in 1 .. MaxAttempts
  BY <1>1 DEF SenderInv, SenderTypes, InFlight, Packet
<1> QED
  BY <1>1, <1>2, Bounds

\* Every step keeps the types and the windows of the link.
LEMMA LinkStep ==
    ASSUME LinkInv, [Next]_vars
    PROVE  LinkInv'
<1> USE Bounds DEF LinkInv
<1>1. ASSUME NEW t \in Targets, Send(t) PROVE LinkInv'
  <2>1. SenderInv'
    BY <1>1, SentKeeps DEF Send
  <2>2. ReceiverTypes'
    BY <1>1 DEF Send, receiver, ReceiverTypes
  <2>3. <<NextKey(t), 1>> \in Keys \X (1 .. MaxAttempts)
    <3>1. NextKey(t) \in Keys
      BY <1>1, NextKeyFresh DEF Send
    <3> QED
      BY <3>1
  <2>4. FrameTypes'
    BY <1>1, <2>3 DEF Send, FrameTypes
  <2> QED
    BY <2>1, <2>2, <2>4
<1>2. ASSUME NEW t \in Targets, SendFails(t) PROVE LinkInv'
  <2>1. SenderInv'
    BY <1>2, SpentKeeps DEF SendFails
  <2> QED
    BY <1>2, <2>1 DEF SendFails, receiver, ReceiverTypes, FrameTypes
<1>3. ASSUME NEW k \in acks, Acknowledge(k) PROVE LinkInv'
  <2>1. SenderInv'
    BY <1>3, AcknowledgedKeeps DEF Acknowledge, FrameTypes
  <2> QED
    BY <1>3, <2>1 DEF Acknowledge, Arrived, receiver, ReceiverTypes, FrameTypes
<1>4. CASE RetryDue
  <2> DEFINE end == Taken({i \in Resending : retry_deadlines[i].key[1] \in down})
  <2>1. /\ Passed(end)
        /\ data' = data \cup {<<k, in_flight[k].attempts + 1>> : k \in Resent(end)}
        /\ UNCHANGED <<receiver, acks, down>>
    BY <1>4 DEF RetryDue
  <2> HIDE DEF end
  <2>2. SenderInv'
    BY <2>1, PassedKeeps
  <2>3. FrameTypes'
    BY <2>1, ResentFrames DEF FrameTypes
  <2> QED
    BY <2>1, <2>2, <2>3 DEF receiver, ReceiverTypes
<1>5. CASE Tick
  <2>1. SenderInv'
    BY <1>5, AgedKeeps DEF Tick
  <2> QED
    BY <1>5, <2>1 DEF Tick, receiver, ReceiverTypes, FrameTypes
<1>6. ASSUME NEW f \in data, ReceiveData(f) PROVE LinkInv'
  <2>1. SenderInv'
    BY <1>6, SameSender DEF ReceiveData
  <2>2. f[1] \in Keys
    BY DEF FrameTypes
  <2>3. ReceiverTypes'
    BY <1>6, <2>2, ReceivedKeeps DEF ReceiveData
  <2>4. FrameTypes'
    BY <1>6, <2>2 DEF ReceiveData, Arrived, FrameTypes
  <2> QED
    BY <2>1, <2>3, <2>4
<1>7. ASSUME NEW f \in data, LoseData(f) PROVE LinkInv'
  <2>1. SenderInv'
    BY <1>7, SameSender DEF LoseData
  <2> QED
    BY <1>7, <2>1 DEF LoseData, Arrived, receiver, ReceiverTypes, FrameTypes
<1>8. ASSUME NEW t \in Breakable, Break(t) \/ Repair(t) PROVE LinkInv'
  <2>1. SenderInv'
    BY <1>8, SameSender DEF Break, Repair
  <2> QED
    BY <1>8, <2>1 DEF Break, Repair, receiver, ReceiverTypes, FrameTypes
<1>9. CASE UNCHANGED vars
  <2>1. SenderInv'
    BY <1>9, SameSender DEF vars, sender
  <2> QED
    BY <1>9, <2>1 DEF vars, receiver, ReceiverTypes, FrameTypes
<1> QED
  BY <1>1, <1>2, <1>3, <1>4, <1>5, <1>6, <1>7, <1>8, <1>9 DEF Next

-----------------------------------------------------------------------------
(* The retry heap. *)

\* Deadlines of different packets, in the order of their ticks.
HeapOrder ==
    {p \in Deadline \X Deadline : p[1].key # p[2].key /\ p[1].wait <= p[2].wait}

\* A heap has one deadline for a packet, and pops those due sooner first.
Heap(h) == h \in Seq(Deadline) /\ Chained(h, HeapOrder)

\* The packets that a heap has a deadline for.
KeysOf(h) == {d.key : d \in ToSet(h)}

\* What there is to know of the entries of a heap.
LEMMA InHeap ==
    ASSUME NEW h, Heap(h)
    PROVE  /\ Len(h) \in Nat /\ DOMAIN h = 1 .. Len(h)
           /\ \A i \in 1 .. Len(h) :
                 /\ h[i] \in Deadline /\ h[i] \in ToSet(h) /\ h[i].key \in KeysOf(h)
                 /\ h[i].key \in Keys /\ h[i].wait \in Nat /\ h[i].wait <= RetryAfter
           /\ \A i, j \in 1 .. Len(h) : i < j => h[i].wait <= h[j].wait
           /\ \A i, j \in 1 .. Len(h) : h[i].key = h[j].key => i = j
           /\ \A d : d \in ToSet(h) <=> \E i \in 1 .. Len(h) : h[i] = d
           /\ \A k : k \in KeysOf(h) <=> \E i \in 1 .. Len(h) : h[i].key = k
<1>1. Len(h) \in Nat /\ DOMAIN h = 1 .. Len(h) /\ \A i \in 1 .. Len(h) : h[i] \in Deadline
  BY DEF Heap
<1>2. \A d : d \in ToSet(h) <=> \E i \in 1 .. Len(h) : h[i] = d
  BY ElementsOf DEF Heap
<1>3. \A i \in 1 .. Len(h) : h[i].key \in Keys /\ h[i].wait \in Nat /\ h[i].wait <= RetryAfter
  BY <1>1, Bounds DEF Deadline, Wait
<1>4. \A i, j \in 1 .. Len(h) : i < j => h[i].key # h[j].key /\ h[i].wait <= h[j].wait
  BY DEF Heap, Chained, HeapOrder
<1>5. \A i, j \in 1 .. Len(h) : h[i].key = h[j].key => i = j
  <2>1. \A i, j \in 1 .. Len(h) : i = j \/ i < j \/ j < i
    BY <1>1
  <2> QED
    BY <1>4, <2>1
<1>6. \A k : k \in KeysOf(h) <=> \E i \in 1 .. Len(h) : h[i].key = k
  BY <1>2 DEF KeysOf
<1> QED
  BY <1>1, <1>2, <1>3, <1>4, <1>5, <1>6

\* A heap has as many entries as there are packets it has a deadline for.
LEMMA KeysCounted ==
    ASSUME NEW h, Heap(h)
    PROVE  /\ KeysOf(h) \subseteq Keys
           /\ IsFiniteSet(KeysOf(h)) /\ Cardinality(KeysOf(h)) = Len(h)
<1> DEFINE key == [i \in 1 .. Len(h) |-> h[i].key]
<1>1. /\ Len(h) \in Nat
      /\ \A i \in 1 .. Len(h) : h[i].key \in KeysOf(h) /\ h[i].key \in Keys
      /\ \A i, j \in 1 .. Len(h) : h[i].key = h[j].key => i = j
      /\ \A k : k \in KeysOf(h) <=> \E i \in 1 .. Len(h) : h[i].key = k
  BY InHeap
<1>2. key \in Surjection(1 .. Len(h), KeysOf(h)) /\ key \in Injection(1 .. Len(h), KeysOf(h))
  <2>1. key \in [1 .. Len(h) -> KeysOf(h)]
    BY <1>1
  <2>2. \A i \in 1 .. Len(h) : key[i] = h[i].key
    OBVIOUS
  <2> HIDE DEF key
  <2>3. key \in Surjection(1 .. Len(h), KeysOf(h))
    <3>1. \A k \in KeysOf(h) : \E i \in 1 .. Len(h) : key[i] = k
      BY ONLY <1>1, <2>2
    <3> QED
      BY ONLY <2>1, <3>1 DEF Surjection
  <2>4. key \in Injection(1 .. Len(h), KeysOf(h))
    <3>1. \A i, j \in 1 .. Len(h) : key[i] = key[j] => i = j
      BY ONLY <1>1, <2>2
    <3>2. DOMAIN key = 1 .. Len(h)
      BY ONLY <2>1
    <3>3. IsInjective(key)
      BY ONLY <3>1, <3>2 DEF IsInjective
    <3> QED
      BY ONLY <2>1, <3>3 DEF Injection
  <2> QED
    BY <2>3, <2>4
<1>3. IsFiniteSet(1 .. Len(h)) /\ Cardinality(1 .. Len(h)) = Len(h)
  <2>1. PICK m \in Nat : m = Len(h)
    BY <1>1
  <2>2. 1 \in Int /\ m \in Int
    OBVIOUS
  <2>3. /\ IsFiniteSet(1 .. m)
        /\ Cardinality(1 .. m) = IF 1 > m THEN 0 ELSE m - 1 + 1
    BY ONLY <2>2, FS_Interval
  <2>4. Cardinality(1 .. m) = m
    BY ONLY <2>3, m \in Nat
  <2> QED
    BY ONLY <2>1, <2>3, <2>4
<1>4. IsFiniteSet(KeysOf(h)) /\ Cardinality(KeysOf(h)) = Cardinality(1 .. Len(h))
  BY <1>2, <1>3, FS_Surjection
<1> QED
  BY <1>1, <1>3, <1>4

\* Keys are ordered by target and sequence.
LEMMA BeforeOrders ==
    ASSUME NEW S \in SUBSET Keys
    PROVE  Orders(Before, S)
<1>1. \A x, y \in S :
         <<x, y>> \in Before <=> x[1] < y[1] \/ (x[1] = y[1] /\ x[2] < y[2])
  BY DEF Before
<1>2. \A x \in S : x[1] \in Nat /\ x[2] \in Nat
  <2> SUFFICES ASSUME NEW x \in S PROVE x[1] \in Nat /\ x[2] \in Nat
    OBVIOUS
  <2>1. x[1] \in Targets /\ x[2] \in 1 .. MaxSequence
    BY DEF Keys
  <2>2. x[2] \in Nat
    BY <2>1, Bounds
  <2>3. x[1] \in Nat
    BY <2>1, Bounds, Zenon
  <2> QED
    BY <2>2, <2>3
<1>3. \A x, y \in S : x[1] = y[1] /\ x[2] = y[2] => x = y
  BY DEF Keys
<1>4. \A x \in S : <<x, x>> \notin Before
  BY <1>1, <1>2
<1>5. \A x, y \in S : x = y \/ <<x, y>> \in Before \/ <<y, x>> \in Before
  <2> SUFFICES ASSUME NEW x \in S, NEW y \in S
               PROVE  x = y \/ <<x, y>> \in Before \/ <<y, x>> \in Before
    OBVIOUS
  <2>1. \/ x[1] < y[1] \/ y[1] < x[1]
        \/ x[1] = y[1] /\ (x[2] < y[2] \/ y[2] < x[2] \/ x[2] = y[2])
    BY <1>2
  <2> QED
    BY <1>1, <1>3, <2>1
<1>6. \A x, y, z \in S : <<x, y>> \in Before /\ <<y, z>> \in Before => <<x, z>> \in Before
  <2> SUFFICES ASSUME NEW x \in S, NEW y \in S, NEW z \in S,
                      <<x, y>> \in Before, <<y, z>> \in Before
               PROVE  <<x, z>> \in Before
    OBVIOUS
  <2>1. /\ x[1] < y[1] \/ (x[1] = y[1] /\ x[2] < y[2])
        /\ y[1] < z[1] \/ (y[1] = z[1] /\ y[2] < z[2])
    BY <1>1
  <2>2. x[1] < z[1] \/ (x[1] = z[1] /\ x[2] < z[2])
    BY <1>2, <2>1
  <2> QED
    BY <1>1, <2>2
<1> QED
  BY <1>4, <1>5, <1>6 DEF Orders

\* The entries that are due, and those of earlier ticks, are at the front.
LEMMA EarlierFirst ==
    ASSUME NEW h, Heap(h), NEW w \in Nat, NEW K, K = {i \in DOMAIN h : h[i].wait < w}
    PROVE  Cardinality(K) \in 0 .. Len(h) /\ K = 1 .. Cardinality(K)
<1>1. /\ Len(h) \in Nat /\ DOMAIN h = 1 .. Len(h)
      /\ \A i \in 1 .. Len(h) : h[i].wait \in Nat
      /\ \A i, j \in 1 .. Len(h) : i < j => h[i].wait <= h[j].wait
  BY InHeap
<1>2. K \in SUBSET (1 .. Len(h))
  BY <1>1
<1>3. ASSUME NEW i \in K, NEW j \in 1 .. i PROVE j \in K
  <2>1. i \in 1 .. Len(h) /\ j \in 1 .. Len(h) /\ (j < i \/ j = i)
    BY <1>1
  <2>2. h[j].wait <= h[i].wait
    BY <1>1, <2>1
  <2> QED
    BY <1>1, <2>1, <2>2
<1>4. PICK L \in Nat : L = Len(h)
  BY <1>1
<1>5. K \in SUBSET (1 .. L) /\ \A i \in K : \A j \in 1 .. i : j \in K
  BY <1>2, <1>3, <1>4
<1>6. Cardinality(K) \in 0 .. L /\ K = 1 .. Cardinality(K)
  BY ONLY L \in Nat, <1>5, Prefix
<1> QED
  BY ONLY <1>4, <1>6

\* There are finitely many packets.
LEMMA KeysFinite == IsFiniteSet(Keys)
<1>1. IsFiniteSet(1 .. MaxSequence)
  BY Bounds, FS_Interval
<1> QED
  BY <1>1, Bounds, FS_Product DEF Keys

\* The entry of a packet whose deadline is set now.
Fresh(k) == [key |-> k, wait |-> RetryAfter]

\* Keys that are sorted make a heap of one tick.
LEMMA PushedHeap ==
    ASSUME NEW all \in SUBSET Keys, NEW s, s = Sorted(all, Before)
    PROVE  LET t == [i \in DOMAIN s |-> Fresh(s[i])]
           IN Heap(t) /\ ToSet(t) = {Fresh(k) : k \in all}
<1> DEFINE t == [i \in DOMAIN s |-> Fresh(s[i])]
<1>1. IsFiniteSet(all) /\ Orders(Before, all)
  <2>1. IsFiniteSet(all)
    BY KeysFinite, FS_Subset, Zenon
  <2> QED
    BY <2>1, BeforeOrders
<1>2. /\ s \in Seq(all)
      /\ \A j, k \in 1 .. Len(s) : s[j] = s[k] => j = k
      /\ ToSet(s) = all
  BY <1>1, SortedLists
<1>3. Len(s) \in Nat /\ DOMAIN s = 1 .. Len(s) /\ \A i \in 1 .. Len(s) : s[i] \in all
  BY <1>2
<1>4. \A k \in all : Fresh(k) \in Deadline /\ Fresh(k).key = k /\ Fresh(k).wait = RetryAfter
  BY Bounds DEF Fresh, Deadline, Wait
<1>5. t \in [1 .. Len(s) -> Deadline] /\ \A i \in 1 .. Len(s) : t[i] = Fresh(s[i])
  BY <1>3, <1>4
<1> HIDE DEF t
<1>6. t \in Seq(Deadline) /\ Len(t) = Len(s)
  BY <1>3, <1>5, IsASeq
<1>7. ASSUME NEW i \in 1 .. Len(t), NEW j \in 1 .. Len(t), i < j
      PROVE  <<t[i], t[j]>> \in HeapOrder
  <2>1. i \in 1 .. Len(s) /\ j \in 1 .. Len(s) /\ s[i] # s[j]
    BY <1>2, <1>3, <1>6, <1>7
  <2>2. t[i] = Fresh(s[i]) /\ t[j] = Fresh(s[j]) /\ s[i] \in all /\ s[j] \in all
    BY <1>3, <1>5, <2>1
  <2> QED
    BY <1>4, <2>1, <2>2, Bounds DEF HeapOrder
<1>8. ToSet(t) = {Fresh(k) : k \in all}
  <2>1. \A x : x \in ToSet(t) <=> \E i \in 1 .. Len(s) : t[i] = x
    BY <1>6, ElementsOf
  <2>2. \A x : x \in ToSet(s) <=> \E i \in 1 .. Len(s) : s[i] = x
    BY <1>2, ElementsOf
  <2>3. ASSUME NEW k \in all PROVE Fresh(k) \in ToSet(t)
    <3>1. PICK i \in 1 .. Len(s) : s[i] = k
      BY <1>2, <2>2
    <3> QED
      BY <1>5, <2>1, <3>1
  <2>4. \A x \in ToSet(t) : \E k \in all : x = Fresh(k)
    BY <1>3, <1>5, <2>1
  <2> QED
    BY <2>3, <2>4
<1>9. Heap(t)
  BY <1>6, <1>7 DEF Heap, Chained
<1> QED
  BY <1>8, <1>9 DEF t

\* Deadlines that are set now go in behind the others.
LEMMA ScheduledHeap ==
    ASSUME NEW h, Heap(h), NEW keys \in SUBSET Keys, keys \cap KeysOf(h) = {}
    PROVE  /\ Heap(Scheduled(h, keys))
           /\ ToSet(Scheduled(h, keys)) = ToSet(h) \cup {Fresh(k) : k \in keys}
<1> DEFINE e == Cardinality({i \in DOMAIN h : h[i].wait < RetryAfter})
           sameTick == {h[i].key : i \in e + 1 .. Len(h)}
           all == sameTick \cup keys
           s == Sorted(all, Before)
           u == SubSeq(h, 1, e)
           v == [i \in DOMAIN s |-> Fresh(s[i])]
<1>1. /\ Len(h) \in Nat /\ DOMAIN h = 1 .. Len(h)
      /\ \A i \in 1 .. Len(h) :
            /\ h[i] \in Deadline /\ h[i] \in ToSet(h) /\ h[i].key \in KeysOf(h)
            /\ h[i].key \in Keys /\ h[i].wait \in Nat /\ h[i].wait <= RetryAfter
      /\ \A i, j \in 1 .. Len(h) : h[i].key = h[j].key => i = j
      /\ \A d : d \in ToSet(h) <=> \E i \in 1 .. Len(h) : h[i] = d
  BY InHeap
<1>2. /\ e \in 0 .. Len(h)
      /\ \A i \in 1 .. Len(h) : i \in 1 .. e <=> h[i].wait < RetryAfter
  <2> DEFINE K == {i \in DOMAIN h : h[i].wait < RetryAfter}
  <2>1. Cardinality(K) \in 0 .. Len(h) /\ K = 1 .. Cardinality(K)
    BY Bounds, EarlierFirst
  <2>2. \A i \in 1 .. Len(h) : i \in K <=> h[i].wait < RetryAfter
    BY <1>1
  <2> HIDE DEF K
  <2>3. \A i \in 1 .. Len(h) : i \in 1 .. Cardinality(K) <=> h[i].wait < RetryAfter
    BY <2>1, <2>2
  <2> QED
    BY <2>1, <2>3 DEF K
<1>3. all \in SUBSET Keys
  <2> HIDE DEF e
  <2>1. ASSUME NEW i \in e + 1 .. Len(h) PROVE h[i].key \in Keys
    <3>1. i \in 1 .. Len(h)
      BY <1>1, <1>2
    <3> QED
      BY <1>1, <3>1
  <2> QED
    BY <2>1
<1>4. Scheduled(h, keys) = u \o v
  BY <1>3 DEF Scheduled, Popping, Fresh
<1>5. Heap(v) /\ ToSet(v) = {Fresh(k) : k \in all}
  BY <1>3, PushedHeap
<1> HIDE DEF v, e
<1>6. /\ u \in Seq(Deadline) /\ Chained(u, HeapOrder)
      /\ ToSet(u) = {h[i] : i \in 1 .. e}
  <2>1. h \in Seq(Deadline) /\ Chained(h, HeapOrder)
    BY DEF Heap
  <2>2. e \in 0 .. Len(h)
    BY <1>2
  <2> QED
    BY ONLY <2>1, <2>2, ChainTake
<1> HIDE DEF u
<1>7. Linked(ToSet(u), ToSet(v), HeapOrder)
  <2> SUFFICES ASSUME NEW i \in 1 .. e, NEW k \in all
               PROVE  <<h[i], Fresh(k)>> \in HeapOrder
    BY <1>5, <1>6 DEF Linked
  <2>1. i \in 1 .. Len(h) /\ h[i].wait < RetryAfter
    BY <1>1, <1>2
  <2>2. Fresh(k) \in Deadline /\ Fresh(k).key = k /\ Fresh(k).wait = RetryAfter
    BY <1>3, Bounds DEF Fresh, Deadline, Wait
  <2>3. h[i].key # k
    <3>1. CASE k \in keys
      BY <1>1, <2>1, <3>1
    <3>2. CASE k \in sameTick
      <4>1. PICK j \in e + 1 .. Len(h) : k = h[j].key
        BY <3>2
      <4>2. j \in 1 .. Len(h) /\ i # j
        BY <1>1, <1>2, <2>1
      <4> QED
        BY <1>1, <2>1, <4>1, <4>2
    <3> QED
      BY <3>1, <3>2
  <2>4. h[i] \in Deadline /\ h[i].wait <= Fresh(k).wait
    BY <1>1, <2>1, <2>2, Bounds
  <2> QED
    BY <2>2, <2>3, <2>4 DEF HeapOrder
<1>8. /\ u \o v \in Seq(Deadline) /\ Chained(u \o v, HeapOrder)
      /\ ToSet(u \o v) = ToSet(u) \cup ToSet(v)
  <2>1. v \in Seq(Deadline) /\ Chained(v, HeapOrder)
    BY <1>5 DEF Heap
  <2>2. u \in Seq(Deadline) /\ Chained(u, HeapOrder)
    BY ONLY <1>6
  <2> QED
    BY ONLY <2>1, <2>2, <1>7, ChainConcat
<1>9. ToSet(u) \cup ToSet(v) = ToSet(h) \cup {Fresh(k) : k \in keys}
  <2>1. \A i \in e + 1 .. Len(h) : i \in 1 .. Len(h) /\ h[i] = Fresh(h[i].key)
    <3> SUFFICES ASSUME NEW i \in e + 1 .. Len(h)
                 PROVE  i \in 1 .. Len(h) /\ h[i] = Fresh(h[i].key)
      OBVIOUS
    <3>1. i \in 1 .. Len(h) /\ i \notin 1 .. e
      BY <1>1, <1>2
    <3>2. h[i].wait = RetryAfter
      BY <1>1, <1>2, <3>1, Bounds
    <3> QED
      BY <1>1, <3>1, <3>2 DEF Fresh, Deadline
  <2>2. \A i \in 1 .. Len(h) : i \in 1 .. e \/ i \in e + 1 .. Len(h)
    BY <1>1, <1>2
  <2>3. \A i \in 1 .. e : i \in 1 .. Len(h)
    BY <1>1, <1>2
  <2>4. ASSUME NEW d \in ToSet(u) \cup ToSet(v) PROVE d \in ToSet(h) \cup {Fresh(k) : k \in keys}
    <3>1. CASE d \in ToSet(u)
      BY <1>1, <1>6, <2>3, <3>1
    <3>2. CASE d \in ToSet(v)
      <4>1. PICK k \in all : d = Fresh(k)
        BY <1>5, <3>2
      <4>2. CASE k \in keys
        BY <4>1, <4>2
      <4>3. CASE k \in sameTick
        BY <1>1, <2>1, <4>1, <4>3
      <4> QED
        BY <4>2, <4>3
    <3> QED
      BY <2>4, <3>1, <3>2
  <2>5. ASSUME NEW d \in ToSet(h) PROVE d \in ToSet(u) \cup ToSet(v)
    <3>1. PICK i \in 1 .. Len(h) : h[i] = d
      BY <1>1
    <3>2. CASE i \in 1 .. e
      BY <1>6, <3>1, <3>2
    <3>3. CASE i \in e + 1 .. Len(h)
      <4>1. d = Fresh(h[i].key) /\ h[i].key \in all
        BY <2>1, <3>1, <3>3
      <4> QED
        BY <1>5, <4>1
    <3> QED
      BY <2>2, <3>2, <3>3
  <2> QED
    BY <1>5, <2>4, <2>5
<1> QED
  BY <1>4, <1>8, <1>9 DEF Heap

\* Taking the first entries off a heap leaves the others.
LEMMA DroppedHeap ==
    ASSUME NEW h, Heap(h), NEW e \in 0 .. Len(h)
    PROVE  /\ Heap(SubSeq(h, e + 1, Len(h)))
           /\ ToSet(SubSeq(h, e + 1, Len(h))) = {h[i] : i \in e + 1 .. Len(h)}
<1>1. /\ SubSeq(h, e + 1, Len(h)) \in Seq(Deadline)
      /\ Chained(SubSeq(h, e + 1, Len(h)), HeapOrder)
      /\ ToSet(SubSeq(h, e + 1, Len(h))) = {h[i] : i \in e + 1 .. Len(h)}
  BY ChainDrop DEF Heap
<1> QED
  BY <1>1 DEF Heap

\* An ACK leaves the deadlines of the packets alive in the heap, and others only as
\* long as they are fewer than the multiple allows.
LEMMA CompactedHeap ==
    ASSUME NEW h, Heap(h), NEW alive \in SUBSET KeysOf(h)
    PROVE  /\ Heap(Compacted(h, alive))
           /\ ToSet(Compacted(h, alive)) \subseteq ToSet(h)
           /\ \A d \in ToSet(h) : d.key \in alive => d \in ToSet(Compacted(h, alive))
           /\ Cardinality(KeysOf(Compacted(h, alive)) \ alive)
                 <= (Multiple - 1) * Cardinality(alive)
<1>1. /\ Len(h) \in Nat /\ DOMAIN h = 1 .. Len(h)
      /\ \A d : d \in ToSet(h) <=> \E i \in 1 .. Len(h) : h[i] = d
  BY InHeap
<1>2. /\ KeysOf(h) \subseteq Keys
      /\ IsFiniteSet(KeysOf(h)) /\ Cardinality(KeysOf(h)) = Len(h)
  BY KeysCounted
<1>3. IsFiniteSet(alive) /\ Cardinality(alive) \in Nat
  BY <1>2, FS_Subset, FS_CardinalityType
<1>4. CASE ~(Len(h) > Multiple * Cardinality(alive))
  <2>1. Compacted(h, alive) = h
    BY <1>4 DEF Compacted
  <2>2. Cardinality(KeysOf(h) \ alive) = Cardinality(KeysOf(h)) - Cardinality(KeysOf(h) \cap alive)
    BY <1>2, FS_Difference
  <2>3. KeysOf(h) \cap alive = alive
    OBVIOUS
  <2>4. Cardinality(KeysOf(h) \ alive) = Len(h) - Cardinality(alive)
    BY <1>2, <2>2, <2>3
  <2>5. Len(h) - Cardinality(alive) <= (Multiple - 1) * Cardinality(alive)
    <3>1. PICK c \in Nat, l \in Nat : c = Cardinality(alive) /\ l = Len(h)
      BY <1>1, <1>3
    <3>2. (Multiple - 1) * c = Multiple * c - c /\ Multiple * c \in Nat
      BY Bounds
    <3>3. l <= Multiple * c
      BY <1>4, <3>1, <3>2
    <3>4. l - c <= (Multiple - 1) * c
      BY <3>2, <3>3
    <3> QED
      BY ONLY <3>1, <3>4
  <2>6. Cardinality(KeysOf(h) \ alive) <= (Multiple - 1) * Cardinality(alive)
    BY ONLY <2>4, <2>5
  <2> QED
    BY <2>1, <2>6
<1>5. CASE Len(h) > Multiple * Cardinality(alive)
  <2> DEFINE K == {i \in DOMAIN h : h[i].key \in alive}
  <2>1. K \in SUBSET (1 .. Len(h))
    BY <1>1
  <2>2. PICK p : p = Compacted(h, alive)
    OBVIOUS
  <2>3. p = Picked(h, K)
    BY <1>5, <2>2 DEF Compacted
  <2>4. p \in Seq(Deadline) /\ Chained(p, HeapOrder) /\ ToSet(p) = {h[i] : i \in K}
    BY <2>1, <2>3, ChainPicked DEF Heap
  <2>5. ToSet(p) \subseteq ToSet(h) /\ \A d \in ToSet(h) : d.key \in alive => d \in ToSet(p)
    BY <1>1, <2>4
  <2>6. KeysOf(p) \ alive = {}
    BY <2>4 DEF KeysOf
  <2>7. Cardinality(KeysOf(p) \ alive) = 0
    BY <2>6, FS_EmptySet
  <2>8. 0 <= (Multiple - 1) * Cardinality(alive)
    <3>1. Multiple - 1 \in Nat
      BY Bounds
    <3> QED
      BY <1>3, <3>1
  <2>9. Cardinality(KeysOf(p) \ alive) <= (Multiple - 1) * Cardinality(alive)
    BY ONLY <2>7, <2>8
  <2> QED
    BY <2>2, <2>4, <2>5, <2>9 DEF Heap
<1> QED
  BY <1>4, <1>5

\* A pass takes due entries from the front of the heap.
LEMMA TakenDue ==
    ASSUME Heap(retry_deadlines), NEW failing \in SUBSET Resending
    PROVE  /\ Taken(failing) \in 0 .. Len(retry_deadlines)
           /\ \A i \in 1 .. Taken(failing) : i \in Due
           /\ \A i \in failing : Taken(failing) < i
<1> DEFINE n == Cardinality(Due)
<1>1. /\ Len(retry_deadlines) \in Nat
      /\ DOMAIN retry_deadlines = 1 .. Len(retry_deadlines)
      /\ \A i \in 1 .. Len(retry_deadlines) : retry_deadlines[i].wait \in Nat
  BY InHeap
<1>2. n \in 0 .. Len(retry_deadlines) /\ Due = 1 .. n
  <2>1. Due = {i \in DOMAIN retry_deadlines : retry_deadlines[i].wait < 1}
    BY <1>1 DEF Due
  <2>2. PICK one \in Nat : one = 1
    OBVIOUS
  <2> QED
    BY <2>1, <2>2, EarlierFirst
<1> HIDE DEF n
<1>3. CASE failing = {}
  BY <1>2, <1>3 DEF Taken, n
<1>4. CASE failing # {}
  <2>1. failing \subseteq 1 .. n
    BY <1>2 DEF Resending
  <2>2. IsFiniteSet(failing) /\ failing \subseteq Nat
    <3>1. IsFiniteSet(1 .. n)
      BY <1>1, <1>2, FS_Interval
    <3>2. IsFiniteSet(failing)
      BY <2>1, <3>1, FS_Subset, Zenon
    <3> QED
      BY <2>1, <3>2
  <2>3. PICK m \in failing : \A i \in failing : m <= i
    BY <1>4, <2>2, Lowest
  <2>4. Min(failing) \in failing /\ \A i \in failing : Min(failing) <= i
    BY <2>3 DEF Min
  <2>5. Taken(failing) = Min(failing) - 1
    BY <1>4 DEF Taken
  <2>6. Min(failing) \in 1 .. n
    BY <2>1, <2>4
  <2>7. PICK least \in 1 .. n : least = Min(failing) /\ Taken(failing) = least - 1
    BY <2>5, <2>6
  <2>8. least - 1 \in 0 .. Len(retry_deadlines) /\ \A i \in 1 .. least - 1 : i \in 1 .. n
    BY <1>1, <1>2
  <2>9. \A i \in failing : Taken(failing) < i
    BY <2>1, <2>4, <2>7
  <2> QED
    BY <1>2, <2>7, <2>8, <2>9
<1> QED
  BY <1>3, <1>4

\* No more packets are in flight than the windows hold.
LEMMA InFlightFew ==
    ASSUME SenderInv
    PROVE  /\ IsFiniteSet(InFlight)
           /\ Cardinality(InFlight) \in Nat
           /\ Cardinality(InFlight) <= Cardinality(Targets) * MaxInFlight
<1> DEFINE places == Targets \X (1 .. MaxInFlight)
           g == [p \in places |-> Sorted(Window(p[1]), Before)[p[2]]]
           images == {g[p] : p \in places}
<1>1. IsFiniteSet(places) /\ Cardinality(places) = Cardinality(Targets) * MaxInFlight
  <2>1. IsFiniteSet(1 .. MaxInFlight) /\ Cardinality(1 .. MaxInFlight) = MaxInFlight
    BY Bounds, FS_Interval
  <2> QED
    BY <2>1, Bounds, FS_Product
<1>2. g \in Surjection(places, images)
  BY DEF Surjection
<1>3. IsFiniteSet(images) /\ Cardinality(images) <= Cardinality(places)
  <2> HIDE DEF places, g, images
  <2> QED
    BY <1>1, <1>2, FS_Surjection
<1>4. ASSUME NEW k \in InFlight PROVE k \in images
  <2> DEFINE t == k[1]
             s == Sorted(Window(t), Before)
  <2>1. t \in Targets /\ k \in Window(t) /\ Window(t) \in SUBSET Keys
    BY DEF InFlight, Keys, Window
  <2> HIDE DEF t
  <2>2. IsFiniteSet(Window(t)) /\ Orders(Before, Window(t))
    <3>1. IsFiniteSet(Window(t))
      BY <2>1, KeysFinite, FS_Subset, Zenon
    <3> QED
      BY <2>1, <3>1, BeforeOrders
  <2>3. s \in Seq(Window(t)) /\ Len(s) = Cardinality(Window(t)) /\ ToSet(s) = Window(t)
    BY <2>2, SortedLists
  <2>4. Len(s) <= MaxInFlight
    <3>1. in_flight_by_target[t] = Cardinality(Window(t)) /\ in_flight_by_target[t] \in 0 .. MaxInFlight
      BY <2>1 DEF SenderInv, SenderTypes, WindowExact, Window
    <3> QED
      BY <2>3, <3>1
  <2> HIDE DEF s
  <2>5. PICK i \in 1 .. Len(s) : s[i] = k
    BY <2>1, <2>3, ElementsOf
  <2>6. i \in 1 .. MaxInFlight
    <3>1. Len(s) \in Nat
      BY <2>3
    <3> QED
      BY <2>4, <3>1, Bounds
  <2>7. <<t, i>> \in places /\ g[<<t, i>>] = k
    BY <2>1, <2>5, <2>6 DEF s
  <2> QED
    BY <2>7
<1>5. IsFiniteSet(InFlight) /\ Cardinality(InFlight) <= Cardinality(images)
  <2>1. InFlight \in SUBSET images
    BY <1>4
  <2> HIDE DEF images
  <2> QED
    BY <1>3, <2>1, FS_Subset
<1>6. /\ Cardinality(InFlight) \in Nat /\ Cardinality(images) \in Nat
      /\ Cardinality(places) \in Nat
  BY <1>1, <1>3, <1>5, FS_CardinalityType
<1> HIDE DEF images, places
<1>7. Cardinality(InFlight) <= Cardinality(places)
  BY <1>3, <1>5, <1>6
<1> QED
  BY <1>1, <1>5, <1>6, <1>7

\* The most deadlines of settled packets.
Excess == (Multiple - 1) * MaxInFlight * Cardinality(Targets)

\* What the packets alive allow, the windows allow.
LEMMA AllowedExcess ==
    ASSUME NEW n \in Nat, n <= Cardinality(Targets) * MaxInFlight
    PROVE  (Multiple - 1) * n <= Excess
<1>1. PICK a \in Nat, c \in Nat, m \in Nat :
         a = Multiple - 1 /\ c = Cardinality(Targets) /\ m = MaxInFlight
  <2>1. Multiple - 1 \in Nat /\ MaxInFlight \in Nat
    BY Bounds
  <2>2. Cardinality(Targets) \in Nat
    BY Bounds, FS_CardinalityType
  <2> QED
    BY <2>1, <2>2
<1>2. PICK r \in Nat : r = c * m
  OBVIOUS
<1>3. n <= r
  BY <1>1, <1>2
<1>4. a * n <= a * r
  <2>1. PICK x \in Nat : r = n + x
    BY <1>3
  <2>2. a * r = a * n + a * x /\ a * n \in Nat /\ a * x \in Nat
    BY <2>1
  <2> QED
    BY ONLY <2>2
<1>5. a * r = a * m * c
  BY <1>2
<1> QED
  BY ONLY <1>1, <1>4, <1>5 DEF Excess

\* The entry of a packet in flight that will take it up again.
Entry(k) == [key |-> k, wait |-> in_flight[k].wait]

\* The packets that the heap still has a deadline for though they settled.
Stale == KeysOf(retry_deadlines) \ InFlight

HeapInv ==
    /\ Heap(retry_deadlines)
    /\ \A k \in InFlight : Entry(k) \in ToSet(retry_deadlines)
    /\ \A k \in KeysOf(retry_deadlines) : status[k] # "unsent"
    /\ Cardinality(Stale) <= Excess

\* The bound of the stale deadlines and their number are numbers.
LEMMA StaleCounted ==
    ASSUME Heap(retry_deadlines)
    PROVE  IsFiniteSet(Stale) /\ Cardinality(Stale) \in Nat /\ Excess \in Nat
<1>1. IsFiniteSet(Stale) /\ Cardinality(Stale) \in Nat
  <2>1. IsFiniteSet(KeysOf(retry_deadlines)) /\ Stale \in SUBSET KeysOf(retry_deadlines)
    BY KeysCounted DEF Stale
  <2> QED
    BY <2>1, FS_Subset, FS_CardinalityType
<1>2. Excess \in Nat
  <2>1. Multiple - 1 \in Nat /\ MaxInFlight \in Nat
    BY Bounds
  <2>2. Cardinality(Targets) \in Nat
    BY Bounds, FS_CardinalityType
  <2>3. (Multiple - 1) * MaxInFlight \in Nat
    BY <2>1
  <2> QED
    BY <2>2, <2>3 DEF Excess
<1> QED
  BY <1>1, <1>2

\* Steps after which no more deadlines are stale.
LEMMA NoMoreStale ==
    ASSUME HeapInv, Stale' \subseteq Stale
    PROVE  Cardinality(Stale)' <= Excess
<1>1. IsFiniteSet(Stale) /\ Cardinality(Stale) \in Nat /\ Excess \in Nat
  BY StaleCounted DEF HeapInv
<1>2. PICK T \in SUBSET Stale : T = Stale'
  OBVIOUS
<1>3. IsFiniteSet(T) /\ Cardinality(T) <= Cardinality(Stale) /\ Cardinality(T) \in Nat
  BY <1>1, <1>2, FS_Subset, FS_CardinalityType
<1>4. Cardinality(T) <= Excess
  BY <1>1, <1>3 DEF HeapInv
<1> QED
  BY <1>2, <1>4

\* Deadlines that are set add their packets.
LEMMA KeysAdded ==
    ASSUME NEW g, NEW h, NEW keys, ToSet(g) = ToSet(h) \cup {Fresh(k) : k \in keys}
    PROVE  KeysOf(g) = KeysOf(h) \cup keys
<1>1. \A k : Fresh(k).key = k
  BY DEF Fresh
<1>2. ASSUME NEW x \in KeysOf(g) PROVE x \in KeysOf(h) \cup keys
  <2>1. PICK d \in ToSet(g) : d.key = x
    BY DEF KeysOf
  <2>2. CASE d \in ToSet(h)
    BY <2>1, <2>2 DEF KeysOf
  <2>3. CASE d \in {Fresh(k) : k \in keys}
    BY <1>1, <2>1, <2>3
  <2> QED
    BY <2>1, <2>2, <2>3
<1>3. ASSUME NEW x \in KeysOf(h) PROVE x \in KeysOf(g)
  BY DEF KeysOf
<1>4. ASSUME NEW x \in keys PROVE x \in KeysOf(g)
  <2>1. Fresh(x) \in ToSet(g)
    OBVIOUS
  <2> QED
    BY <1>1, <2>1 DEF KeysOf
<1> QED
  BY <1>2, <1>3, <1>4

\* The heap has a deadline for each packet in flight.
LEMMA InFlightKept ==
    ASSUME HeapInv
    PROVE  InFlight \subseteq KeysOf(retry_deadlines)
<1> SUFFICES ASSUME NEW k \in InFlight PROVE k \in KeysOf(retry_deadlines)
  OBVIOUS
<1>1. Entry(k) \in ToSet(retry_deadlines) /\ Entry(k).key = k
  BY DEF HeapInv, Entry
<1> QED
  BY <1>1 DEF KeysOf

\* send puts one deadline behind the others.
LEMMA SentHeap ==
    ASSUME SenderInv, HeapInv, NEW t \in Targets, HasWindow(t), Sent(t)
    PROVE  HeapInv'
<1> DEFINE k == NextKey(t)
<1>1. k \in Keys /\ k \notin InFlight /\ status[k] = "unsent"
  BY NextKeyFresh
<1>2. k \notin KeysOf(retry_deadlines)
  BY <1>1 DEF HeapInv
<1>3. /\ in_flight' = [in_flight EXCEPT ![k] = [attempts |-> 1, wait |-> RetryAfter]]
      /\ retry_deadlines' = Scheduled(retry_deadlines, {k})
      /\ status' = [status EXCEPT ![k] = "pending"]
  BY DEF Sent
<1>4. /\ Heap(retry_deadlines')
      /\ ToSet(retry_deadlines') = ToSet(retry_deadlines) \cup {Fresh(k)}
  <2>1. {k} \in SUBSET Keys /\ {k} \cap KeysOf(retry_deadlines) = {} /\ Heap(retry_deadlines)
    BY <1>1, <1>2 DEF HeapInv
  <2>2. PICK keys \in SUBSET Keys : keys = {k} /\ keys \cap KeysOf(retry_deadlines) = {}
    BY <2>1
  <2>3. /\ Heap(Scheduled(retry_deadlines, keys))
        /\ ToSet(Scheduled(retry_deadlines, keys)) =
             ToSet(retry_deadlines) \cup {Fresh(x) : x \in keys}
    BY <2>1, <2>2, ScheduledHeap
  <2> QED
    BY <1>3, <2>2, <2>3
<1> HIDE DEF k
<1>5. InFlight' = InFlight \cup {k} /\ in_flight'[k].wait = RetryAfter
      /\ \A x \in InFlight : in_flight'[x] = in_flight[x]
  <2>1. in_flight \in [Keys -> Packet \cup {NoPacket}]
    BY DEF SenderInv, SenderTypes
  <2>2. [attempts |-> 1, wait |-> RetryAfter] # NoPacket
    <3>1. 1 \in 1 .. MaxAttempts /\ RetryAfter \in Wait
      BY Bounds DEF Wait
    <3>2. [attempts |-> 1, wait |-> RetryAfter] \in Packet
      BY <3>1 DEF Packet
    <3> QED
      BY <3>2, Bounds
  <2> QED
    BY <1>1, <1>3, <2>1, <2>2 DEF InFlight
<1>6. KeysOf(retry_deadlines') = KeysOf(retry_deadlines) \cup {k}
  <2>0. {Fresh(x) : x \in {k}} = {Fresh(k)}
    OBVIOUS
  <2>1. PICK g, keys : /\ g = retry_deadlines' /\ keys = {k}
                       /\ ToSet(g) = ToSet(retry_deadlines) \cup {Fresh(x) : x \in keys}
    <3>1. PICK keys : keys = {k}
      OBVIOUS
    <3>2. {Fresh(x) : x \in keys} = {Fresh(k)}
      BY <2>0, <3>1
    <3>3. PICK g : g = retry_deadlines'
      OBVIOUS
    <3>4. ToSet(g) = ToSet(retry_deadlines) \cup {Fresh(x) : x \in keys}
      BY <1>4, <3>2, <3>3
    <3> QED
      BY <3>1, <3>3, <3>4
  <2>2. KeysOf(g) = KeysOf(retry_deadlines) \cup keys
    BY <2>1, KeysAdded
  <2> QED
    BY <2>1, <2>2
<1>7. \A x \in InFlight' : Entry(x)' \in ToSet(retry_deadlines')
  BY <1>4, <1>5 DEF HeapInv, Entry, Fresh
<1>8. \A x \in KeysOf(retry_deadlines') : status'[x] # "unsent"
  <2>1. \A x \in KeysOf(retry_deadlines) : x \in Keys /\ status[x] # "unsent"
    BY KeysCounted DEF HeapInv
  <2>2. status \in [Keys -> {"unsent", "pending", "acknowledged", "timed out"}]
    BY DEF SenderInv, SenderTypes
  <2> QED
    BY <1>1, <1>3, <1>6, <2>1, <2>2
<1>9. Stale' \subseteq Stale
  BY <1>5, <1>6 DEF Stale, KeysOf
<1> QED
  BY <1>4, <1>7, <1>8, <1>9, NoMoreStale DEF HeapInv, Heap, KeysOf

\* Steps that leave the heap and the packets in flight alone.
LEMMA SameHeap ==
    ASSUME HeapInv, UNCHANGED <<in_flight, retry_deadlines, status>>
    PROVE  HeapInv'
BY DEF HeapInv, Heap, KeysOf, Entry, Stale, InFlight

\* An ACK leaves the deadlines of the others, and few of those that settled.
LEMMA AcknowledgedHeap ==
    ASSUME SenderInv, HeapInv, NEW k \in Keys, Acknowledged(k)
    PROVE  HeapInv'
<1> DEFINE settled == SettledBy(k)
           alive == InFlight \ settled
<1>1. /\ in_flight' = [x \in Keys |-> IF x \in settled THEN NoPacket ELSE in_flight[x]]
      /\ retry_deadlines' = IF settled = {} THEN retry_deadlines
                            ELSE Compacted(retry_deadlines, alive)
      /\ status' = [x \in Keys |-> IF x \in settled THEN "acknowledged" ELSE status[x]]
  BY DEF Acknowledged
<1>2. /\ in_flight \in [Keys -> Packet \cup {NoPacket}]
      /\ status \in [Keys -> {"unsent", "pending", "acknowledged", "timed out"}]
  BY DEF SenderInv, SenderTypes
<1>3. CASE k \notin InFlight
  <2>1. settled = {}
    BY <1>3 DEF SettledBy
  <2>2. UNCHANGED <<in_flight, retry_deadlines, status>>
    BY <1>1, <1>2, <2>1
  <2> QED
    BY <2>2, SameHeap
<1>4. CASE k \in InFlight
  <2>1. settled = {k}
    BY <1>4 DEF SettledBy
  <2>2. InFlight' = alive /\ \A x \in alive : in_flight'[x] = in_flight[x]
    BY <1>1, <1>2 DEF InFlight
  <2>3. retry_deadlines' = Compacted(retry_deadlines, alive)
    BY <1>1, <2>1
  <2>4. \A x \in Keys : status[x] # "unsent" => status'[x] # "unsent"
    BY <1>1
  <2>5. alive \in SUBSET KeysOf(retry_deadlines) /\ alive \subseteq InFlight
    BY InFlightKept
  <2> HIDE DEF alive
  <2>6. PICK h : h = retry_deadlines
    OBVIOUS
  <2>7. /\ Heap(retry_deadlines')
        /\ ToSet(retry_deadlines') \subseteq ToSet(h)
        /\ \A d \in ToSet(h) : d.key \in alive => d \in ToSet(retry_deadlines')
        /\ Cardinality(KeysOf(retry_deadlines') \ alive) <= (Multiple - 1) * Cardinality(alive)
    BY <2>3, <2>5, <2>6, CompactedHeap DEF HeapInv
  <2>8. \A x \in InFlight' : Entry(x)' \in ToSet(retry_deadlines')
    BY <2>2, <2>5, <2>6, <2>7 DEF HeapInv, Entry
  <2>9. \A x \in KeysOf(retry_deadlines') : status'[x] # "unsent"
    <3>1. \A x \in KeysOf(retry_deadlines) : x \in Keys /\ status[x] # "unsent"
      BY KeysCounted DEF HeapInv
    <3> QED
      BY <2>4, <2>6, <2>7, <3>1 DEF KeysOf
  <2>10. Cardinality(Stale)' <= Excess
    <3>1. IsFiniteSet(alive) /\ Cardinality(alive) \in Nat /\ Cardinality(alive) <= Cardinality(InFlight)
          /\ Cardinality(InFlight) \in Nat
      BY <2>5, InFlightFew, FS_Subset, FS_CardinalityType
    <3>2. Cardinality(alive) <= Cardinality(Targets) * MaxInFlight
      <4>1. Cardinality(InFlight) <= Cardinality(Targets) * MaxInFlight
        BY InFlightFew
      <4>2. Cardinality(Targets) * MaxInFlight \in Nat
        <5>1. Cardinality(Targets) \in Nat
          BY Bounds, FS_CardinalityType
        <5> QED
          BY <5>1, Bounds
      <4> QED
        BY <3>1, <4>1, <4>2
    <3>3. (Multiple - 1) * Cardinality(alive) <= Excess
      BY <3>1, <3>2, AllowedExcess
    <3>4. Heap(retry_deadlines')
      BY <2>7
    <3>5. /\ Cardinality(KeysOf(retry_deadlines') \ alive) \in Nat
          /\ Excess \in Nat /\ (Multiple - 1) * Cardinality(alive) \in Nat
      <4>1. IsFiniteSet(KeysOf(retry_deadlines'))
        BY <3>4, KeysCounted
      <4>2. Cardinality(KeysOf(retry_deadlines') \ alive) \in Nat
        BY <4>1, FS_Subset, FS_CardinalityType
      <4>3. Multiple - 1 \in Nat
        BY Bounds
      <4> QED
        BY <3>1, <4>2, <4>3, StaleCounted DEF HeapInv
    <3>6. Cardinality(KeysOf(retry_deadlines') \ alive) <= Excess
      BY <2>7, <3>3, <3>5
    <3> QED
      BY <2>2, <3>6 DEF Stale, KeysOf
  <2> QED
    BY <2>7, <2>8, <2>9, <2>10 DEF HeapInv, Heap, KeysOf
<1> QED
  BY <1>3, <1>4

\* A pass sets a new deadline for the packets it sends again, and takes only
\* due entries: those of the packets it gives up, of those it sends again, and of
\* those that settled.
LEMMA PassedHeap ==
    ASSUME SenderInv, HeapInv, NEW failing \in SUBSET Resending, Passed(Taken(failing))
    PROVE  HeapInv'
<1> DEFINE end == Taken(failing)
<1>1. /\ in_flight' =
            [k \in Keys |->
                CASE k \in Expired(end) -> NoPacket
                  [] k \in Resent(end) -> [attempts |-> in_flight[k].attempts + 1,
                                           wait |-> RetryAfter]
                  [] OTHER -> in_flight[k]]
      /\ retry_deadlines' = Scheduled(Kept(end), Resent(end))
      /\ status' = [k \in Keys |-> IF k \in Expired(end) THEN "timed out" ELSE status[k]]
  BY DEF Passed, Expired
<1>2. /\ end \in 0 .. Len(retry_deadlines)
      /\ \A i \in 1 .. end : i \in Due
  BY TakenDue DEF HeapInv
<1> HIDE DEF end
<1>3. PICK h : h = retry_deadlines
  OBVIOUS
<1>4. /\ Len(h) \in Nat
      /\ \A i \in 1 .. Len(h) : h[i] \in Deadline /\ h[i].key \in KeysOf(h) /\ h[i].key \in Keys
      /\ \A i, j \in 1 .. Len(h) : h[i].key = h[j].key => i = j
      /\ \A d : d \in ToSet(h) <=> \E i \in 1 .. Len(h) : h[i] = d
      /\ \A k : k \in KeysOf(h) <=> \E i \in 1 .. Len(h) : h[i].key = k
  BY <1>3, InHeap DEF HeapInv
<1>5. PICK kept : kept = Kept(end)
  OBVIOUS
<1>6. /\ Heap(kept)
      /\ \A d : d \in ToSet(kept) <=> \E i \in end + 1 .. Len(h) : d = h[i]
  <2>1. Heap(h) /\ end \in 0 .. Len(h)
    BY <1>2, <1>3 DEF HeapInv
  <2>2. kept = SubSeq(h, end + 1, Len(h))
    BY <1>3, <1>5 DEF Kept
  <2>3. /\ Heap(SubSeq(h, end + 1, Len(h)))
        /\ ToSet(SubSeq(h, end + 1, Len(h))) = {h[i] : i \in end + 1 .. Len(h)}
    BY <2>1, DroppedHeap
  <2> QED
    BY ONLY <2>2, <2>3
<1>7. \A i \in end + 1 .. Len(h) : i \in 1 .. Len(h) /\ ~(i <= end)
  BY <1>2, <1>3, <1>4
<1>8. /\ Expired(end) \subseteq InFlight
      /\ \A k \in Resent(end) : k \in InFlight /\ k \notin Expired(end)
  BY PassedKeys
<1>9. ASSUME NEW k \in Resent(end) \cup Expired(end)
      PROVE  \E i \in 1 .. Len(h) : i <= end /\ h[i].key = k
  <2>1. CASE k \in Resent(end)
    BY <1>3, <2>1 DEF Resent, Resending, Due
  <2>2. CASE k \in Expired(end)
    BY <1>3, <2>2 DEF Expired, Due
  <2> QED
    BY <2>1, <2>2
<1>10. ASSUME NEW k \in Resent(end) \cup Expired(end) PROVE k \notin KeysOf(kept)
  <2> SUFFICES ASSUME NEW d \in ToSet(kept), d.key = k PROVE FALSE
    BY DEF KeysOf
  <2>1. PICK j \in end + 1 .. Len(h) : d = h[j]
    BY <1>6
  <2>2. PICK i \in 1 .. Len(h) : i <= end /\ h[i].key = k
    BY <1>9
  <2> QED
    BY <1>4, <1>7, <2>1, <2>2
<1>11. Resent(end) \in SUBSET Keys /\ Resent(end) \cap KeysOf(kept) = {}
  BY <1>4, <1>9, <1>10
<1>12. /\ Heap(retry_deadlines')
       /\ ToSet(retry_deadlines') = ToSet(kept) \cup {Fresh(k) : k \in Resent(end)}
  BY <1>1, <1>5, <1>6, <1>11, ScheduledHeap
<1>13. KeysOf(retry_deadlines') = KeysOf(kept) \cup Resent(end)
  BY <1>12, KeysAdded
<1>14. KeysOf(kept) \subseteq KeysOf(h)
  BY <1>4, <1>6, <1>7 DEF KeysOf
<1>15. KeysOf(retry_deadlines') \subseteq KeysOf(h)
  BY <1>4, <1>9, <1>13, <1>14
<1>16. /\ \A k \in Expired(end) : in_flight'[k] = NoPacket
       /\ \A k \in Resent(end) : in_flight'[k].wait = RetryAfter
       /\ \A k \in Keys \ (Resent(end) \cup Expired(end)) : in_flight'[k] = in_flight[k]
  <2>1. InFlight \subseteq Keys
    BY DEF InFlight
  <2> QED
    BY <1>1, <1>8, <2>1
<1>17. ASSUME NEW k \in InFlight' PROVE Entry(k)' \in ToSet(retry_deadlines')
  <2>0. k \in Keys /\ k \notin Expired(end)
    BY <1>16 DEF InFlight
  <2>1. CASE k \in Resent(end)
    <3>1. Entry(k)' = Fresh(k)
      BY <1>16, <2>1 DEF Entry, Fresh
    <3> QED
      BY <1>12, <2>1, <3>1
  <2>2. CASE k \notin Resent(end)
    <3>1. in_flight'[k] = in_flight[k] /\ k \in InFlight
      BY <1>16, <2>0, <2>2 DEF InFlight
    <3>2. PICK i \in 1 .. Len(h) : h[i] = Entry(k)
      BY <1>3, <1>4, <3>1 DEF HeapInv
    <3>3. CASE i <= end
      <4>1. i \in 1 .. end
        BY <1>2, <3>3
      <4>2. i \in Due /\ Current(h[i]) /\ h[i].key = k
        BY <1>2, <3>1, <3>2, <4>1 DEF Current, Entry
      <4>3. k \in Resent(end) \/ k \in Expired(end)
        BY <1>3, <3>3, <4>2 DEF Resent, Resending, Expired
      <4> QED
        BY <2>0, <2>2, <4>3
    <3>4. CASE ~(i <= end)
      <4>1. i \in end + 1 .. Len(h)
        BY <1>2, <1>4, <3>4
      <4>2. Entry(k) \in ToSet(kept)
        BY <1>6, <3>2, <4>1
      <4>3. Entry(k)' = Entry(k)
        BY <3>1 DEF Entry
      <4> QED
        BY <1>12, <4>2, <4>3
    <3> QED
      BY <3>3, <3>4
  <2> QED
    BY <2>1, <2>2
<1>18. \A k \in KeysOf(retry_deadlines') : status'[k] # "unsent"
  <2>1. \A k \in KeysOf(h) : k \in Keys /\ status[k] # "unsent"
    BY <1>3, KeysCounted DEF HeapInv
  <2> QED
    BY <1>1, <1>15, <2>1
<1>19. Stale' \subseteq Stale
  <2> SUFFICES ASSUME NEW k \in KeysOf(retry_deadlines'), k \notin InFlight', k \in InFlight
               PROVE  FALSE
    BY <1>3, <1>15 DEF Stale, KeysOf
  <2>1. k \notin Resent(end)
    <3>1. ASSUME k \in Resent(end) PROVE in_flight'[k] # NoPacket
      <4>1. in_flight'[k] = [attempts |-> in_flight[k].attempts + 1, wait |-> RetryAfter]
        BY <1>1, <1>8, <3>1 DEF InFlight
      <4>2. in_flight[k] \in Packet /\ ~(in_flight[k].attempts >= MaxAttempts)
        BY <3>1, PassedKeys DEF InFlight, SenderInv, SenderTypes
      <4>3. in_flight[k].attempts + 1 \in 1 .. MaxAttempts /\ RetryAfter \in Wait
        BY <4>2, Bounds DEF Packet, Wait
      <4>4. in_flight'[k] \in Packet
        BY <4>1, <4>3 DEF Packet
      <4> QED
        BY <4>4, Bounds
    <3> QED
      BY <3>1 DEF InFlight
  <2>2. k \notin Expired(end)
    BY <1>10, <1>13, <2>1
  <2> QED
    BY <1>16, <2>1, <2>2 DEF InFlight
<1> QED
  BY <1>12, <1>17, <1>18, <1>19, NoMoreStale DEF HeapInv, Heap, KeysOf

\* An entry a tick later.
Later(d) == [d EXCEPT !.wait = IF @ > 0 THEN @ - 1 ELSE 0]

\* A tick keeps the order of the heap.
LEMMA AgedHeap ==
    ASSUME SenderInv, HeapInv, Aged
    PROVE  HeapInv'
<1>1. PICK h : h = retry_deadlines
  OBVIOUS
<1>2. /\ Len(h) \in Nat /\ DOMAIN h = 1 .. Len(h)
      /\ \A i \in 1 .. Len(h) :
            h[i] \in Deadline /\ h[i].wait \in Nat /\ h[i].wait <= RetryAfter
      /\ \A i, j \in 1 .. Len(h) : i < j => h[i].wait <= h[j].wait
      /\ \A i, j \in 1 .. Len(h) : h[i].key = h[j].key => i = j
      /\ \A d : d \in ToSet(h) <=> \E i \in 1 .. Len(h) : h[i] = d
      /\ \A k : k \in KeysOf(h) <=> \E i \in 1 .. Len(h) : h[i].key = k
  BY <1>1, InHeap DEF HeapInv
<1>3. PICK g : g = retry_deadlines'
  OBVIOUS
<1>4. g = [i \in 1 .. Len(h) |-> Later(h[i])]
  BY <1>1, <1>2, <1>3 DEF Aged, Later
<1>5. ASSUME NEW d \in Deadline
      PROVE  /\ Later(d) \in Deadline /\ Later(d).key = d.key
             /\ Later(d).wait = IF d.wait > 0 THEN d.wait - 1 ELSE 0
  <2>1. d.key \in Keys /\ d.wait \in Wait
    BY DEF Deadline
  <2>2. PICK w : w = IF d.wait > 0 THEN d.wait - 1 ELSE 0
    OBVIOUS
  <2>3. w \in Wait
    BY <2>1, <2>2, Bounds DEF Wait
  <2>4. Later(d) = [d EXCEPT !.wait = w]
    BY <2>2 DEF Later
  <2>5. Later(d) = [key |-> d.key, wait |-> w]
    BY <2>4 DEF Deadline
  <2> QED
    BY <2>1, <2>2, <2>3, <2>5 DEF Deadline
<1>6. /\ g \in [1 .. Len(h) -> Deadline]
      /\ \A i \in 1 .. Len(h) :
            /\ g[i] = Later(h[i]) /\ g[i].key = h[i].key
            /\ g[i].wait = IF h[i].wait > 0 THEN h[i].wait - 1 ELSE 0
  BY <1>2, <1>4, <1>5
<1>7. g \in Seq(Deadline) /\ Len(g) = Len(h)
  BY <1>2, <1>6, IsASeq
<1>8. ASSUME NEW i \in 1 .. Len(h), NEW j \in 1 .. Len(h), i < j
      PROVE  <<g[i], g[j]>> \in HeapOrder
  <2>1. h[i].wait <= h[j].wait /\ h[i].key # h[j].key
        /\ h[i].wait \in Nat /\ h[j].wait \in Nat
    BY <1>2, <1>8
  <2>2. g[i].wait <= g[j].wait
    BY <1>6, <2>1
  <2> QED
    BY <1>6, <2>1, <2>2 DEF HeapOrder
<1>9. Heap(g)
  BY <1>7, <1>8 DEF Heap, Chained
<1>10. /\ \A d : d \in ToSet(g) <=> \E i \in 1 .. Len(h) : g[i] = d
       /\ KeysOf(g) = KeysOf(h)
  <2>1. \A d : d \in ToSet(g) <=> \E i \in 1 .. Len(h) : g[i] = d
    BY <1>7, ElementsOf
  <2>2. \A k : k \in KeysOf(g) <=> \E i \in 1 .. Len(g) : g[i].key = k
    BY <1>9, InHeap
  <2>3. \A i \in 1 .. Len(h) : g[i].key = h[i].key
    BY <1>6
  <2>4. Len(g) = Len(h)
    BY <1>7
  <2>5. \A k : k \in KeysOf(g) <=> k \in KeysOf(h)
    BY <1>2, <2>2, <2>3, <2>4
  <2> QED
    BY <2>1, <2>5
<1>11. /\ InFlight' = InFlight
       /\ \A k \in InFlight :
             in_flight'[k].wait = IF in_flight[k].wait > 0 THEN in_flight[k].wait - 1 ELSE 0
  <2>1. ASSUME NEW k \in Keys
        PROVE  /\ in_flight[k] = NoPacket => in_flight'[k] = NoPacket
               /\ in_flight[k] # NoPacket =>
                     /\ in_flight'[k] # NoPacket
                     /\ in_flight'[k].wait =
                           IF in_flight[k].wait > 0 THEN in_flight[k].wait - 1 ELSE 0
    <3>1. CASE in_flight[k] = NoPacket
      BY <3>1 DEF Aged
    <3>2. CASE in_flight[k] # NoPacket
      <4>1. PICK w : w = IF in_flight[k].wait > 0 THEN in_flight[k].wait - 1 ELSE 0
        OBVIOUS
      <4>2. in_flight'[k] = [in_flight[k] EXCEPT !.wait = w]
        BY <3>2, <4>1 DEF Aged
      <4>3. in_flight[k] \in Packet
        BY <3>2 DEF SenderInv, SenderTypes
      <4>4. w \in Wait
        <5>1. in_flight[k].wait \in 0 .. RetryAfter
          BY <4>3 DEF Packet, Wait
        <5> QED
          BY <4>1, <5>1, Bounds DEF Wait
      <4>5. in_flight'[k] \in Packet /\ in_flight'[k].wait = w
        BY <4>2, <4>3, <4>4 DEF Packet
      <4> QED
        BY <3>2, <4>1, <4>5, Bounds
    <3> QED
      BY <3>1, <3>2
  <2> QED
    BY <2>1 DEF InFlight
<1>12. ASSUME NEW k \in InFlight' PROVE Entry(k)' \in ToSet(g)
  <2>1. PICK i \in 1 .. Len(h) : h[i] = Entry(k)
    BY <1>1, <1>2, <1>11 DEF HeapInv
  <2>2. g[i].key = k /\ g[i].wait = in_flight'[k].wait /\ g[i] \in Deadline
    BY <1>6, <1>11, <2>1 DEF Entry
  <2>3. g[i] = Entry(k)'
    BY <2>2 DEF Entry, Deadline
  <2> QED
    BY <1>10, <2>3
<1>13. Stale' \subseteq Stale
  BY <1>1, <1>3, <1>10, <1>11 DEF Stale, KeysOf
<1>14. \A k \in KeysOf(g) : status'[k] # "unsent"
  BY <1>1, <1>10 DEF Aged, HeapInv
<1> QED
  BY <1>3, <1>9, <1>12, <1>13, <1>14, NoMoreStale DEF HeapInv, Heap, KeysOf

\* The heap begins empty.
LEMMA HeapInit == EndpointInit => HeapInv
<1> SUFFICES ASSUME EndpointInit PROVE HeapInv
  OBVIOUS
<1>1. retry_deadlines = <<>> /\ InFlight = {}
  BY DEF EndpointInit, InFlight
<1>2. PICK h : h = retry_deadlines
  OBVIOUS
<1>3. h \in Seq(Deadline) /\ Len(h) = 0
  BY <1>1, <1>2
<1>4. Heap(retry_deadlines)
  BY <1>2, <1>3 DEF Heap, Chained
<1>5. KeysOf(retry_deadlines) = {}
  BY <1>1 DEF KeysOf, ToSet
<1>6. Cardinality(Stale) = 0
  <2>1. Stale = {}
    BY <1>5 DEF Stale
  <2> QED
    BY <2>1, FS_EmptySet
<1>7. Cardinality(Stale) <= Excess
  BY <1>4, <1>6, StaleCounted
<1> QED
  BY <1>1, <1>4, <1>5, <1>7 DEF HeapInv

\* Every step keeps a deadline for every packet in flight, and few others.
LEMMA HeapStep ==
    ASSUME LinkInv, HeapInv, [Next]_vars
    PROVE  HeapInv'
<1> USE DEF LinkInv
<1>1. ASSUME NEW t \in Targets, Send(t) PROVE HeapInv'
  BY <1>1, SentHeap DEF Send
<1>2. ASSUME NEW t \in Targets, SendFails(t) PROVE HeapInv'
  BY <1>2, SameHeap DEF SendFails, SequenceSpent
<1>3. ASSUME NEW k \in acks, Acknowledge(k) PROVE HeapInv'
  BY <1>3, AcknowledgedHeap DEF Acknowledge, FrameTypes
<1>4. CASE RetryDue
  <2> DEFINE failing == {i \in Resending : retry_deadlines[i].key[1] \in down}
  <2>1. failing \in SUBSET Resending /\ Passed(Taken(failing))
    BY <1>4 DEF RetryDue
  <2> HIDE DEF failing
  <2> QED
    BY <2>1, PassedHeap
<1>5. CASE Tick
  BY <1>5, AgedHeap DEF Tick
<1>6. ASSUME UNCHANGED sender PROVE HeapInv'
  BY <1>6, SameHeap DEF sender
<1>7. ASSUME NEW f \in data, ReceiveData(f) \/ LoseData(f) PROVE HeapInv'
  BY <1>6, <1>7 DEF ReceiveData, LoseData
<1>8. ASSUME NEW t \in Breakable, Break(t) \/ Repair(t) PROVE HeapInv'
  BY <1>6, <1>8 DEF Break, Repair
<1>9. CASE UNCHANGED vars
  BY <1>6, <1>9 DEF vars
<1> QED
  BY <1>1, <1>2, <1>3, <1>4, <1>5, <1>7, <1>8, <1>9 DEF Next

\* The one entry of a packet in flight is its current one, and what the heap has
\* beyond the packets in flight is stale.
LEMMA HeapSound ==
    ASSUME SenderInv, HeapInv
    PROVE  NothingForgotten /\ StaleBounded
<1> DEFINE h == retry_deadlines
<1>1. /\ Heap(h) /\ Len(h) \in Nat /\ DOMAIN h = 1 .. Len(h)
      /\ \A i, j \in 1 .. Len(h) : h[i].key = h[j].key => i = j
      /\ \A d : d \in ToSet(h) <=> \E i \in 1 .. Len(h) : h[i] = d
  BY InHeap DEF HeapInv
<1>2. NothingForgotten
  <2> SUFFICES ASSUME NEW k \in InFlight
               PROVE  Cardinality({i \in DOMAIN h : h[i].key = k /\ Current(h[i])}) = 1
    BY DEF NothingForgotten
  <2>1. PICK j \in 1 .. Len(h) : h[j] = Entry(k)
    BY <1>1 DEF HeapInv
  <2>2. h[j].key = k /\ Current(h[j])
    BY <2>1 DEF Entry, Current
  <2>3. {i \in DOMAIN h : h[i].key = k /\ Current(h[i])} = {j}
    BY <1>1, <2>2
  <2> QED
    BY <2>3, FS_Singleton
<1>3. StaleBounded
  <2>1. /\ IsFiniteSet(KeysOf(h)) /\ Cardinality(KeysOf(h)) = Len(h)
        /\ InFlight \subseteq KeysOf(h)
    BY <1>1, KeysCounted, InFlightKept
  <2>2. Cardinality(KeysOf(h) \ InFlight) =
          Cardinality(KeysOf(h)) - Cardinality(KeysOf(h) \cap InFlight)
    <3>1. IsFiniteSet(InFlight)
      BY InFlightFew
    <3> QED
      BY <2>1, <3>1, FS_Difference
  <2>3. KeysOf(h) \cap InFlight = InFlight
    BY <2>1
  <2>4. Cardinality(Stale) = Len(h) - Cardinality(InFlight)
    BY <2>1, <2>2, <2>3 DEF Stale
  <2>5. Cardinality(Stale) <= Excess
    BY DEF HeapInv
  <2> QED
    BY ONLY <2>4, <2>5 DEF StaleBounded, Excess
<1> QED
  BY <1>2, <1>3

\* Through failed passes, late ACKs and compactions the sender keeps a deadline
\* for every packet in flight, exact counts of its windows and few deadlines of
\* settled packets, and no bound of either end is outgrown.
THEOREM LinkSoundHolds == Spec => []LinkSound
<1>1. Init => LinkInv /\ HeapInv
  BY LinkInit, HeapInit DEF Init
<1>2. LinkInv /\ HeapInv /\ [Next]_vars => LinkInv' /\ HeapInv'
  BY LinkStep, HeapStep
<1>3. LinkInv /\ HeapInv => LinkSound
  <2> SUFFICES ASSUME LinkInv, HeapInv PROVE LinkSound
    OBVIOUS
  <2>1. TypeOK
    BY DEF LinkInv, HeapInv, Heap, SenderInv, SenderTypes, ReceiverTypes, FrameTypes,
           TypeOK, EndpointTypeOK
  <2>2. WindowExact
    BY DEF LinkInv, SenderInv
  <2> QED
    BY <2>1, <2>2, HeapSound DEF LinkSound, LinkInv
<1> QED
  BY <1>1, <1>2, <1>3, PTL DEF Spec

-----------------------------------------------------------------------------
(* The channel. *)

\* No sequence number is remembered twice.
OrderUnique ==
    \A t \in Targets : \A i, j \in 1 .. Len(delivered_order[t]) :
        delivered_order[t][i] = delivered_order[t][j] => i = j

\* A packet is handed over once and remembered from then on.
HandedRemembered ==
    \A k \in Keys : IF Remembers(k) THEN handed[k] = 1 ELSE handed[k] = 0

\* Only frames of packets sent are under way, and ACKs of those handed over.
FramesTrue ==
    /\ \A f \in data : status[f[1]] # "unsent"
    /\ \A k \in acks : handed[k] = 1

DeliveryInv == LinkInv /\ OrderUnique /\ HandedRemembered /\ FramesTrue

\* A receiver that does not remember a number has room for it: it remembers
\* fewer numbers than there are.
LEMMA RoomToRemember ==
    ASSUME MaxSequence <= MaxHistory, ReceiverTypes, OrderUnique, NEW k \in Keys, ~Remembers(k)
    PROVE  Len(delivered_order[k[1]]) < MaxHistory
<1> DEFINE order == delivered_order[k[1]]
           others == (1 .. MaxSequence) \ {k[2]}
           places == 1 .. Len(order)
<1>1. k[1] \in Targets /\ k[2] \in 1 .. MaxSequence
  BY DEF Keys
<1>2. order \in Seq(1 .. MaxSequence)
  BY <1>1 DEF ReceiverTypes
<1>3. \A i \in places : order[i] \in others
  <2>1. \A i \in places : order[i] # k[2]
    BY <1>2 DEF Remembers, ToSet
  <2> HIDE DEF order
  <2>2. \A i \in places : order[i] \in 1 .. MaxSequence
    <3> SUFFICES ASSUME NEW i \in 1 .. Len(order) PROVE order[i] \in 1 .. MaxSequence
      OBVIOUS
    <3> QED
      BY <1>2, ElementOfSeq
  <2> QED
    BY <2>1, <2>2
<1>4. \A i, j \in places : order[i] = order[j] => i = j
  BY <1>1 DEF OrderUnique
<1>5. [i \in places |-> order[i]] \in Injection(places, others)
  BY <1>3, <1>4 DEF Injection, IsInjective
<1>6. IsFiniteSet(others) /\ Cardinality(others) = MaxSequence - 1
  <2>1. IsFiniteSet(1 .. MaxSequence) /\ Cardinality(1 .. MaxSequence) = MaxSequence
    BY Bounds, FS_Interval
  <2> QED
    BY <1>1, <2>1, FS_RemoveElement
<1>7. Cardinality(places) <= Cardinality(others)
  BY <1>5, <1>6, FS_Injection
<1>8. Len(order) \in Nat
  BY <1>2
<1>9. Cardinality(places) = Len(order)
  BY <1>8, FS_Interval
<1> HIDE DEF places, others, order
<1>10. Len(order) <= MaxSequence - 1
  BY <1>6, <1>7, <1>9
<1>11. Len(order) < MaxHistory
  BY <1>8, <1>10, Bounds
<1> QED
  BY <1>11 DEF order

\* What a receiver makes of a data frame: it hands the packet over if it did not
\* before, and no other.
LEMMA HandedOver ==
    ASSUME MaxSequence <= MaxHistory, ReceiverTypes, OrderUnique, HandedRemembered,
           NEW k \in Keys, Received(k)
    PROVE  /\ OrderUnique' /\ HandedRemembered'
           /\ \/ handed[k] = 1 /\ handed' = handed
              \/ handed[k] = 0 /\ handed' = [handed EXCEPT ![k] = 1]
<1> USE Bounds
<1>1. CASE Remembers(k)
  BY <1>1 DEF Received, receiver, OrderUnique, HandedRemembered, Remembers
<1>2. CASE ~Remembers(k)
  <2> DEFINE order == delivered_order[k[1]]
             new == Append(order, k[2])
  <2>1. k[1] \in Targets /\ k[2] \in 1 .. MaxSequence
    BY DEF Keys
  <2>2. order \in Seq(1 .. MaxSequence) /\ delivered_order \in [Targets -> Seq(1 .. MaxSequence)]
    BY <2>1 DEF ReceiverTypes
  <2>3. Len(order) < MaxHistory
    BY <1>2, RoomToRemember
  <2>4. Len(order) \in Nat
    BY <2>2
  <2>5. delivered_order' = [delivered_order EXCEPT ![k[1]] = new]
    <3>1. MaxHistory # 0 /\ Len(order) # MaxHistory
      BY <2>3, <2>4
    <3>2. Remember(k)
      BY <1>2 DEF Received
    <3> QED
      BY <3>1, <3>2 DEF Remember
  <2>6. handed[k] = 0 /\ handed' = [handed EXCEPT ![k] = 1]
    <3>1. handed[k] = 0
      BY <1>2 DEF HandedRemembered
    <3>2. handed' = [handed EXCEPT ![k] = handed[k] + 1]
      BY <1>2 DEF Received
    <3>3. handed[k] + 1 = 1
      BY <3>1
    <3> QED
      BY <3>1, <3>2, <3>3
  <2>7. \A i \in 1 .. Len(order) : order[i] # k[2]
    BY <1>2, <2>2 DEF Remembers, ToSet
  <2>8. \A i, j \in 1 .. Len(order) : order[i] = order[j] => i = j
    BY <2>1 DEF OrderUnique
  <2> HIDE DEF order
  <2>9. /\ new \in Seq(1 .. MaxSequence)
        /\ Len(new) = Len(order) + 1 /\ new[Len(order) + 1] = k[2]
        /\ \A i \in 1 .. Len(order) : new[i] = order[i]
    BY <2>1, <2>2
  <2> HIDE DEF new
  <2>10. \A i, j \in 1 .. Len(new) : new[i] = new[j] => i = j
    <3>1. PICK n \in Nat : n = Len(order) /\ Len(new) = n + 1
      BY ONLY <2>4, <2>9
    <3>2. \A i \in 1 .. n + 1 : i \in 1 .. n \/ i = n + 1
      BY ONLY n \in Nat
    <3>3. \A i \in 1 .. n : new[i] = order[i] /\ new[i] # k[2]
      BY ONLY <2>7, <2>9, <3>1
    <3>4. \A i, j \in 1 .. n : new[i] = new[j] => i = j
      BY ONLY <2>8, <3>1, <3>3
    <3>5. new[n + 1] = k[2]
      BY ONLY <2>9, <3>1
    <3> QED
      BY ONLY <3>1, <3>2, <3>3, <3>4, <3>5
  <2>11. ToSet(new) = ToSet(order) \cup {k[2]}
    <3>1. /\ ToSet(new) = {new[i] : i \in 1 .. Len(order) + 1}
          /\ ToSet(order) = {order[i] : i \in 1 .. Len(order)}
      <4>1. DOMAIN new = 1 .. Len(order) + 1 /\ DOMAIN order = 1 .. Len(order)
        BY <2>2, <2>9
      <4> QED
        BY <4>1 DEF ToSet
    <3>2. 1 .. Len(order) + 1 = (1 .. Len(order)) \cup {Len(order) + 1}
      BY <2>4
    <3>3. \A x : x \in ToSet(order) <=> \E i \in 1 .. Len(order) : order[i] = x
      BY ONLY <3>1
    <3>4. \A x : x \in ToSet(new) <=> \E i \in 1 .. Len(order) + 1 : new[i] = x
      BY ONLY <3>1
    <3>5. \A i : i \in 1 .. Len(order) + 1 <=> i \in 1 .. Len(order) \/ i = Len(order) + 1
      BY ONLY <3>2
    <3>6. \A x : x \in ToSet(new) <=> x \in ToSet(order) \/ x = k[2]
      BY ONLY <2>9, <3>3, <3>4, <3>5
    <3> QED
      BY ONLY <3>6
  <2>12. OrderUnique'
    BY <2>1, <2>2, <2>5, <2>10 DEF OrderUnique, order
  <2>13. HandedRemembered'
    <3> SUFFICES ASSUME NEW x \in Keys
                 PROVE  IF Remembers(x)' THEN handed'[x] = 1 ELSE handed'[x] = 0
      BY DEF HandedRemembered
    <3>1. x[1] \in Targets /\ x = <<x[1], x[2]>> /\ k = <<k[1], k[2]>>
      BY DEF Keys
    <3>2. CASE x = k
      <4>1. Remembers(x)'
        BY <2>1, <2>2, <2>5, <2>11, <3>2 DEF Remembers
      <4> QED
        BY <2>6, <3>2, <4>1 DEF ReceiverTypes
    <3>3. CASE x # k
      <4>1. Remembers(x)' <=> Remembers(x)
        <5>1. CASE x[1] = k[1]
          <6>1. x[2] # k[2]
            BY <3>1, <3>3, <5>1
          <6>2. delivered_order'[x[1]] = new /\ delivered_order[x[1]] = order
            BY <2>1, <2>2, <2>5, <5>1 DEF order
          <6> QED
            BY <2>11, <6>1, <6>2 DEF Remembers
        <5>2. CASE x[1] # k[1]
          BY <2>1, <2>2, <2>5, <3>1, <5>2 DEF Remembers
        <5> QED
          BY <5>1, <5>2
      <4>2. handed'[x] = handed[x]
        BY <2>6, <3>3 DEF ReceiverTypes
      <4> QED
        BY <4>1, <4>2 DEF HandedRemembered
    <3> QED
      BY <3>2, <3>3
  <2> QED
    BY <2>6, <2>12, <2>13
<1> QED
  BY <1>1, <1>2

\* A link that begins has handed over nothing and remembers nothing.
LEMMA HandedInit == EndpointInit => OrderUnique /\ HandedRemembered
<1> SUFFICES ASSUME EndpointInit PROVE OrderUnique /\ HandedRemembered
  OBVIOUS
<1>1. /\ \A t \in Targets : delivered_order[t] = <<>>
      /\ \A k \in Keys : handed[k] = 0
  BY DEF EndpointInit
<1>2. \A k \in Keys : ~Remembers(k)
  BY <1>1 DEF Remembers, ToSet, Keys
<1>3. OrderUnique
  BY <1>1 DEF OrderUnique
<1> QED
  BY <1>1, <1>2, <1>3 DEF HandedRemembered

\* Nor is a frame under way.
LEMMA DeliveryInit == Init => DeliveryInv
BY HandedInit, LinkInit DEF Init, DeliveryInv, FramesTrue

\* Steps that leave the receivers alone and send no ACK keep what is true of
\* them; the frames under way stay true as long as no packet becomes unsent.
LEMMA SameReceiver ==
    ASSUME DeliveryInv, UNCHANGED receiver, acks' \subseteq acks,
           \A f \in data' : f \in data \/ status'[f[1]] # "unsent",
           \A k \in Keys : status[k] # "unsent" => status'[k] # "unsent"
    PROVE  OrderUnique' /\ HandedRemembered' /\ FramesTrue'
<1>1. OrderUnique' /\ HandedRemembered'
  BY DEF DeliveryInv, receiver, OrderUnique, HandedRemembered, Remembers
<1>2. \A f \in data : f[1] \in Keys
  BY DEF DeliveryInv, LinkInv, FrameTypes
<1>3. FramesTrue'
  BY <1>2 DEF DeliveryInv, FramesTrue, receiver
<1> QED
  BY <1>1, <1>3

\* A step of the channel, or one that leaves what it shows alone.
ChannelStep == [Channel!Next]_<<status, handed>>

\* send is the channel taking a packet.
LEMMA SentAccepts ==
    ASSUME SenderInv, NEW t \in Targets, HasWindow(t), Sent(t), UNCHANGED handed
    PROVE  /\ ChannelStep /\ NextKey(t) \in Keys
           /\ \A x \in Keys : status'[x] = IF x = NextKey(t) THEN "pending" ELSE status[x]
<1> DEFINE k == NextKey(t)
<1>1. k \in Keys /\ status[k] = "unsent" /\ status' = [status EXCEPT ![k] = "pending"]
  BY NextKeyFresh DEF Sent
<1> HIDE DEF k
<1>2. status \in [Keys -> {"unsent", "pending", "acknowledged", "timed out"}]
  BY DEF SenderInv, SenderTypes
<1>3. Channel!Accept(k)
  BY <1>1 DEF Channel!Accept
<1>4. ChannelStep
  BY <1>1, <1>3 DEF ChannelStep, Channel!Next
<1> QED
  BY <1>1, <1>2, <1>4 DEF k

\* An ACK of a packet handed over: the channel acknowledges it, or nothing changes
\* because it had settled.
LEMMA AcknowledgedSettles ==
    ASSUME SenderInv, NEW k \in Keys, handed[k] = 1, Acknowledged(k), UNCHANGED handed
    PROVE  /\ ChannelStep
           /\ \A x \in Keys : status[x] # "unsent" => status'[x] # "unsent"
<1> DEFINE settled == SettledBy(k)
<1>1. status' = [x \in Keys |-> IF x \in settled THEN "acknowledged" ELSE status[x]]
  BY DEF Acknowledged
<1>2. status \in [Keys -> {"unsent", "pending", "acknowledged", "timed out"}]
  BY DEF SenderInv, SenderTypes
<1>3. \A x \in Keys : status[x] # "unsent" => status'[x] # "unsent"
  BY <1>1, <1>2
<1>4. CASE k \in InFlight
  <2>1. settled = {k} /\ status[k] = "pending"
    BY <1>4 DEF SettledBy, SenderInv, PendingInFlight
  <2>2. status' = [status EXCEPT ![k] = "acknowledged"]
    BY <1>1, <1>2, <2>1
  <2>3. Channel!Acknowledged(k)
    BY <2>1, <2>2 DEF Channel!Acknowledged
  <2> QED
    BY <1>3, <2>3 DEF ChannelStep, Channel!Next
<1>5. CASE k \notin InFlight
  <2>1. settled = {}
    BY <1>5 DEF SettledBy
  <2>2. status' = status
    BY <1>1, <1>2, <2>1
  <2> QED
    BY <1>3, <2>2 DEF ChannelStep
<1> QED
  BY <1>4, <1>5

\* A pass is the channel giving up the packets that have no attempt left; those it
\* sends again were sent before.
LEMMA PassedGivesUp ==
    ASSUME SenderInv, NEW end, Passed(end), UNCHANGED handed
    PROVE  /\ ChannelStep
           /\ \A x \in Keys : status[x] # "unsent" => status'[x] # "unsent"
           /\ \A x \in Resent(end) : x \in Keys /\ status'[x] # "unsent"
<1>1. /\ status' = [k \in Keys |-> IF k \in Expired(end) THEN "timed out" ELSE status[k]]
      /\ Expired(end) \subseteq InFlight /\ Resent(end) \subseteq InFlight
      /\ InFlight \subseteq Keys
  BY PassedKeys DEF Passed, Expired, InFlight
<1>2. \A k \in InFlight : status[k] = "pending"
  BY <1>1 DEF SenderInv, PendingInFlight
<1>3. \A k \in Keys : status[k] # "unsent" => status'[k] # "unsent"
  BY <1>1
<1>4. \A k \in Resent(end) : k \in Keys /\ status'[k] # "unsent"
  BY <1>1, <1>2, <1>3
<1>5. Channel!TimeOut(Expired(end))
  BY <1>1, <1>2 DEF Channel!TimeOut
<1> QED
  BY <1>1, <1>3, <1>4, <1>5 DEF ChannelStep, Channel!Next

\* A data frame hands its packet over, unless the receiver remembers it.
LEMMA ReceivedHandsOver ==
    ASSUME MaxSequence <= MaxHistory, ReceiverTypes, OrderUnique, HandedRemembered,
           NEW k \in Keys, status[k] # "unsent", Received(k), UNCHANGED status
    PROVE  /\ OrderUnique' /\ HandedRemembered' /\ ChannelStep
           /\ handed'[k] = 1 /\ \A x \in Keys : handed[x] = 1 => handed'[x] = 1
<1>1. /\ OrderUnique' /\ HandedRemembered'
      /\ \/ handed[k] = 1 /\ handed' = handed
         \/ handed[k] = 0 /\ handed' = [handed EXCEPT ![k] = 1]
  BY HandedOver
<1>2. handed'[k] = 1 /\ \A x \in Keys : handed[x] = 1 => handed'[x] = 1
  BY <1>1 DEF ReceiverTypes
<1>3. ChannelStep
  <2>1. CASE handed[k] = 1 /\ handed' = handed
    BY <2>1 DEF ChannelStep
  <2>2. CASE handed[k] = 0 /\ handed' = [handed EXCEPT ![k] = 1]
    <3>1. Channel!HandOver(k)
      BY <2>2 DEF Channel!HandOver
    <3> QED
      BY <3>1 DEF ChannelStep, Channel!Next
  <2> QED
    BY <1>1, <2>1, <2>2
<1> QED
  BY <1>1, <1>2, <1>3

-----------------------------------------------------------------------------
(* The network link implements it. *)

LEMMA SendDelivers ==
    ASSUME DeliveryInv, NEW t \in Targets, Send(t)
    PROVE  OrderUnique' /\ HandedRemembered' /\ FramesTrue' /\ ChannelStep
<1> DEFINE k == NextKey(t)
<1>1. data' = data \cup {<<k, 1>>} /\ acks' = acks /\ UNCHANGED receiver
  BY DEF Send
<1>2. /\ ChannelStep /\ k \in Keys
      /\ \A x \in Keys : status'[x] = IF x = k THEN "pending" ELSE status[x]
  BY <1>1, SentAccepts DEF DeliveryInv, LinkInv, Send, receiver
<1> HIDE DEF k
<1> QED
  BY <1>1, <1>2, SameReceiver

LEMMA AcknowledgeDelivers ==
    ASSUME DeliveryInv, NEW k \in acks, Acknowledge(k)
    PROVE  OrderUnique' /\ HandedRemembered' /\ FramesTrue' /\ ChannelStep
<1>1. /\ k \in Keys /\ handed[k] = 1 /\ Acknowledged(k)
      /\ data' = data /\ acks' \subseteq acks /\ UNCHANGED receiver
  BY DEF DeliveryInv, LinkInv, FrameTypes, FramesTrue, Acknowledge, Arrived
<1>2. /\ ChannelStep
      /\ \A x \in Keys : status[x] # "unsent" => status'[x] # "unsent"
  BY <1>1, AcknowledgedSettles DEF DeliveryInv, LinkInv, receiver
<1> QED
  BY <1>1, <1>2, SameReceiver

LEMMA RetryDelivers ==
    ASSUME DeliveryInv, RetryDue
    PROVE  OrderUnique' /\ HandedRemembered' /\ FramesTrue' /\ ChannelStep
<1> DEFINE end == Taken({i \in Resending : retry_deadlines[i].key[1] \in down})
<1>1. /\ Passed(end) /\ acks' = acks /\ UNCHANGED receiver
      /\ data' = data \cup {<<k, in_flight[k].attempts + 1>> : k \in Resent(end)}
  BY DEF RetryDue
<1> HIDE DEF end
<1>2. /\ ChannelStep
      /\ \A x \in Keys : status[x] # "unsent" => status'[x] # "unsent"
      /\ \A x \in Resent(end) : x \in Keys /\ status'[x] # "unsent"
  BY <1>1, PassedGivesUp DEF DeliveryInv, LinkInv, receiver
<1>3. \A f \in data' : f \in data \/ status'[f[1]] # "unsent"
  BY <1>1, <1>2
<1> QED
  BY <1>1, <1>2, <1>3, SameReceiver

LEMMA ReceiveDelivers ==
    ASSUME MaxSequence <= MaxHistory, DeliveryInv, NEW f \in data, ReceiveData(f)
    PROVE  OrderUnique' /\ HandedRemembered' /\ FramesTrue' /\ ChannelStep
<1> DEFINE k == f[1]
<1>1. /\ k \in Keys /\ status[k] # "unsent" /\ Received(k)
      /\ data' \subseteq data /\ acks' = acks \cup {k} /\ UNCHANGED status
  BY DEF DeliveryInv, LinkInv, FrameTypes, FramesTrue, ReceiveData, Arrived, sender
<1> HIDE DEF k
<1>2. /\ OrderUnique' /\ HandedRemembered' /\ ChannelStep
      /\ handed'[k] = 1 /\ \A x \in Keys : handed[x] = 1 => handed'[x] = 1
  BY <1>1, ReceivedHandsOver DEF DeliveryInv, LinkInv
<1>3. FramesTrue'
  BY <1>1, <1>2 DEF DeliveryInv, LinkInv, FrameTypes, FramesTrue
<1> QED
  BY <1>2, <1>3

\* The other steps change nothing the channel shows.
LEMMA QuietDelivers ==
    ASSUME DeliveryInv, UNCHANGED <<receiver, status, acks>>, data' \subseteq data
    PROVE  OrderUnique' /\ HandedRemembered' /\ FramesTrue' /\ ChannelStep
<1>1. UNCHANGED <<status, handed>> /\ UNCHANGED receiver /\ acks' \subseteq acks
  BY DEF receiver
<1> QED
  BY <1>1, SameReceiver DEF ChannelStep

\* Every step of the link is a step of the channel or leaves it alone.
LEMMA DeliveryStep ==
    ASSUME MaxSequence <= MaxHistory, DeliveryInv, [Next]_vars
    PROVE  DeliveryInv' /\ ChannelStep
<1> DEFINE Goal == OrderUnique' /\ HandedRemembered' /\ FramesTrue' /\ ChannelStep
<1>1. LinkInv'
  BY LinkStep DEF DeliveryInv
<1> SUFFICES Goal
  BY <1>1 DEF DeliveryInv
<1>2. ASSUME NEW t \in Targets, Send(t) PROVE Goal
  BY <1>2, SendDelivers
<1>3. ASSUME NEW t \in Targets, SendFails(t) PROVE Goal
  <2>1. UNCHANGED <<receiver, status, acks>> /\ data' \subseteq data
    BY <1>3 DEF SendFails, SequenceSpent
  <2> QED
    BY <2>1, QuietDelivers
<1>4. ASSUME NEW k \in acks, Acknowledge(k) PROVE Goal
  BY <1>4, AcknowledgeDelivers
<1>5. CASE RetryDue
  BY <1>5, RetryDelivers
<1>6. CASE Tick
  <2>1. UNCHANGED <<receiver, status, acks>> /\ data' \subseteq data
    BY <1>6 DEF Tick, Aged
  <2> QED
    BY <2>1, QuietDelivers
<1>7. ASSUME NEW f \in data, ReceiveData(f) PROVE Goal
  BY <1>7, ReceiveDelivers
<1>8. ASSUME NEW f \in data, LoseData(f) PROVE Goal
  <2>1. UNCHANGED <<receiver, status, acks>> /\ data' \subseteq data
    BY <1>8 DEF LoseData, Arrived, sender
  <2> QED
    BY <2>1, QuietDelivers
<1>9. ASSUME NEW t \in Breakable, Break(t) \/ Repair(t) PROVE Goal
  <2>1. UNCHANGED <<receiver, status, acks>> /\ data' \subseteq data
    BY <1>9 DEF Break, Repair, sender
  <2> QED
    BY <2>1, QuietDelivers
<1>10. CASE UNCHANGED vars
  <2>1. UNCHANGED <<receiver, status, acks>> /\ data' \subseteq data
    BY <1>10 DEF vars, sender
  <2> QED
    BY <2>1, QuietDelivers
<1> QED
  BY <1>2, <1>3, <1>4, <1>5, <1>6, <1>7, <1>8, <1>9, <1>10 DEF Next

\* A packet is handed over at most once and only after it was sent, and the
\* sender reads "acknowledged" only of a packet that was handed over, whatever
\* the network loses, repeats and reorders: as long as the receiver's history
\* holds every number of a target.
THEOREM ReliableDeliveryHolds ==
    ASSUME MaxSequence <= MaxHistory
    PROVE  Spec => ReliableDelivery
<1>1. Init => Channel!Init
  BY DEF Init, EndpointInit, Channel!Init
<1>2. DeliveryInv /\ [Next]_vars => DeliveryInv'
  BY DeliveryStep
<1>3. DeliveryInv /\ [Next]_vars => [Channel!Next]_<<status, handed>>
  BY DeliveryStep DEF ChannelStep
<1> QED
  BY <1>1, <1>2, <1>3, DeliveryInit, PTL DEF Spec, ReliableDelivery, Channel!Spec

-----------------------------------------------------------------------------
(* The hub of the client link. *)

\* Whoever is registered has a bounded queue, and addresses and clients lead to
\* each other.
HubState ==
    /\ HubTypeOK(Keys)
    /\ AddressesExact
    /\ \A c \in Clients : Registered(c) => Len(Queue(c)) <= QueueLimit

\* What the assumptions say of the hub.
LEMMA HubBounds ==
    /\ QueueLimit \in Nat /\ MaxRegistrations \in Nat /\ MaxRegistrations >= 1
    /\ NoClient \notin Clients /\ NoClient \notin Registration(Keys)
    /\ Local \in Clients /\ LocalAddress \in Addresses /\ Local \notin Targets
    /\ \A c : c \in Clients <=> c \in Targets \/ c = Local
BY HubAssumption, LocalAssumption

\* What is known of a client that is registered.
LEMMA RegisteredClient ==
    ASSUME HubState, NEW c \in Clients, Registered(c)
    PROVE  /\ clients[c] \in Registration(Keys)
           /\ clients[c].remote_addr \in Addresses /\ clients[c].registration_token \in Tokens
           /\ Queue(c) \in Seq(Keys) /\ Len(Queue(c)) \in Nat /\ Len(Queue(c)) <= QueueLimit
<1>1. clients[c] \in Registration(Keys)
  BY DEF HubState, HubTypeOK, Registered
<1>2. /\ clients[c].remote_addr \in Addresses /\ clients[c].registration_token \in Tokens
      /\ Queue(c) \in Seq(Keys)
  BY <1>1 DEF Registration, Queue
<1>3. Len(Queue(c)) \in Nat
  BY <1>2, LenProperties
<1> QED
  BY <1>1, <1>2, <1>3 DEF HubState

\* After a step the queues of those registered are what they were, or empty.
QueuesKept ==
    \A c \in Clients :
        Registered(c)' => Queue(c)' = <<>> \/ (Registered(c) /\ Queue(c)' = Queue(c))

\* The addresses without one client's: those of the others, and only those.
LEMMA OthersAddresses ==
    ASSUME HubState, NEW c \in Clients
    PROVE  /\ AddressesWithout(c) \in [Addresses -> Clients \cup {NoClient}]
           /\ \A a \in Addresses, x \in Clients :
                 AddressesWithout(c)[a] = x <=>
                     x # c /\ Registered(x) /\ clients[x].remote_addr = a
<1>1. addr_to_client \in [Addresses -> Clients \cup {NoClient}]
  BY DEF HubState, HubTypeOK
<1>2. \A a \in Addresses, x \in Clients :
          addr_to_client[a] = x <=> Registered(x) /\ clients[x].remote_addr = a
  BY DEF HubState, AddressesExact
<1>3. CASE ~Registered(c)
  BY <1>1, <1>2, <1>3 DEF AddressesWithout
<1>4. CASE Registered(c)
  <2>1. AddressesWithout(c) = [addr_to_client EXCEPT ![clients[c].remote_addr] = NoClient]
    BY <1>4 DEF AddressesWithout
  <2>2. clients[c].remote_addr \in Addresses /\ addr_to_client[clients[c].remote_addr] = c
    BY <1>2, <1>4, RegisteredClient
  <2>3. NoClient \notin Clients
    BY HubBounds
  <2> QED
    BY <1>1, <1>2, <1>4, <2>1, <2>2, <2>3
<1> QED
  BY <1>3, <1>4

\* A registration takes its address from whoever has it, and that one leaves.
LEMMA RegisterKeeps ==
    ASSUME HubState, NEW c \in Clients, NEW addr \in Addresses, RegisterClient(c, addr)
    PROVE  HubState' /\ QueuesKept
<1> DEFINE rest == AddressesWithout(c)
           new == [remote_addr |-> addr,
                   registration_token |-> next_registration_token, queue |-> <<>>]
<1>1. /\ next_registration_token \in Tokens
      /\ next_registration_token' = next_registration_token + 1
      /\ addr_to_client' = [rest EXCEPT ![addr] = c]
      /\ clients' = [x \in Clients |-> CASE x = c -> new
                                         [] x # c /\ x = rest[addr] -> NoClient
                                         [] OTHER -> clients[x]]
  BY DEF RegisterClient
<1>2. /\ rest \in [Addresses -> Clients \cup {NoClient}]
      /\ \A a \in Addresses, x \in Clients :
            rest[a] = x <=> x # c /\ Registered(x) /\ clients[x].remote_addr = a
  BY OthersAddresses
<1>3. new \in Registration(Keys) /\ new # NoClient /\ new.queue = <<>> /\ new.remote_addr = addr
  <2>1. <<>> \in Seq(Keys)
    OBVIOUS
  <2>2. new \in Registration(Keys)
    BY <1>1, <2>1 DEF Registration
  <2> QED
    BY <2>2, HubBounds
<1> HIDE DEF rest, new
<1>4. clients \in [Clients -> {NoClient} \cup Registration(Keys)]
  BY DEF HubState, HubTypeOK
<1>5. HubTypeOK(Keys)'
  <2>1. clients' \in [Clients -> {NoClient} \cup Registration(Keys)]
    BY <1>1, <1>3, <1>4
  <2>2. addr_to_client' \in [Addresses -> Clients \cup {NoClient}]
    BY <1>1, <1>2
  <2>3. next_registration_token' \in 1 .. MaxRegistrations + 1
    BY <1>1, HubBounds DEF Tokens
  <2> QED
    BY <2>1, <2>2, <2>3 DEF HubTypeOK, Registration
<1>6. \A x \in Clients :
         /\ x = c => clients'[x] = new
         /\ x # c /\ x = rest[addr] => clients'[x] = NoClient
         /\ x # c /\ x # rest[addr] => clients'[x] = clients[x]
  BY <1>1
<1>7. \A a \in Addresses : addr_to_client'[a] = IF a = addr THEN c ELSE rest[a]
  BY <1>1, <1>2
<1>8. AddressesExact'
  <2> SUFFICES ASSUME NEW a \in Addresses, NEW x \in Clients
               PROVE  addr_to_client'[a] = x <=> (Registered(x)' /\ clients'[x].remote_addr = a)
    BY DEF AddressesExact
  <2>1. CASE x = c
    BY <1>2, <1>3, <1>6, <1>7, <2>1 DEF Registered
  <2>2. CASE x # c /\ x = rest[addr]
    BY <1>2, <1>6, <1>7, <2>2 DEF Registered
  <2>3. CASE x # c /\ x # rest[addr]
    BY <1>2, <1>6, <1>7, <2>3 DEF Registered
  <2> QED
    BY <2>1, <2>2, <2>3
<1>9. QueuesKept
  BY <1>3, <1>6 DEF QueuesKept, Registered, Queue
<1>10. \A x \in Clients : Registered(x)' => Len(Queue(x)') <= QueueLimit
  <2> SUFFICES ASSUME NEW x \in Clients, Registered(x)' PROVE Len(Queue(x)') <= QueueLimit
    OBVIOUS
  <2>1. CASE Queue(x)' = <<>>
    <3>1. Len(<<>>) = 0
      OBVIOUS
    <3> QED
      BY <2>1, <3>1, HubBounds
  <2>2. CASE Registered(x) /\ Queue(x)' = Queue(x)
    BY <2>2, RegisteredClient
  <2> QED
    BY <1>9, <2>1, <2>2 DEF QueuesKept
<1> QED
  BY <1>5, <1>8, <1>9, <1>10 DEF HubState

\* A client that leaves takes its address along.
LEMMA UnregisterKeeps ==
    ASSUME HubState, NEW c \in Clients, UnregisterClient(c)
    PROVE  HubState' /\ QueuesKept
<1>1. /\ Registered(c)
      /\ clients' = [clients EXCEPT ![c] = NoClient]
      /\ addr_to_client' = AddressesWithout(c)
      /\ UNCHANGED next_registration_token
  BY DEF UnregisterClient
<1>2. /\ AddressesWithout(c) \in [Addresses -> Clients \cup {NoClient}]
      /\ \A a \in Addresses, x \in Clients :
            AddressesWithout(c)[a] = x <=>
                x # c /\ Registered(x) /\ clients[x].remote_addr = a
  BY OthersAddresses
<1>3. /\ clients \in [Clients -> {NoClient} \cup Registration(Keys)]
      /\ next_registration_token \in 1 .. MaxRegistrations + 1
  BY DEF HubState, HubTypeOK
<1>4. \A x \in Clients : clients'[x] = IF x = c THEN NoClient ELSE clients[x]
  BY <1>1, <1>3
<1>5. HubTypeOK(Keys)'
  <2>1. clients' \in [Clients -> {NoClient} \cup Registration(Keys)]
    BY <1>1, <1>3
  <2> QED
    BY <1>1, <1>2, <1>3, <2>1 DEF HubTypeOK, Registration
<1>6. AddressesExact'
  BY <1>1, <1>2, <1>4 DEF AddressesExact, Registered
<1>7. QueuesKept
  BY <1>4 DEF QueuesKept, Registered, Queue
<1>8. \A x \in Clients : Registered(x)' => Len(Queue(x)') <= QueueLimit
  BY <1>4, RegisteredClient DEF Registered, Queue
<1> QED
  BY <1>5, <1>6, <1>7, <1>8 DEF HubState

\* A registration with another queue.
WithQueue(r, q) == [r EXCEPT !.queue = q]

LEMMA Requeued ==
    ASSUME NEW r \in Registration(Keys), NEW q \in Seq(Keys)
    PROVE  /\ WithQueue(r, q) \in Registration(Keys) /\ WithQueue(r, q) # NoClient
           /\ WithQueue(r, q).queue = q /\ WithQueue(r, q).remote_addr = r.remote_addr
<1>1. /\ WithQueue(r, q) \in Registration(Keys)
      /\ WithQueue(r, q).queue = q /\ WithQueue(r, q).remote_addr = r.remote_addr
  BY DEF WithQueue, Registration
<1> QED
  BY <1>1, HubBounds

\* Steps that change the queues of some who are registered.
LEMMA QueuesChange ==
    ASSUME HubState, UNCHANGED <<addr_to_client, next_registration_token>>, NEW q,
           clients' = [c \in Clients |-> IF c \in DOMAIN q THEN WithQueue(clients[c], q[c])
                                         ELSE clients[c]],
           \A c \in DOMAIN q : /\ c \in Clients /\ Registered(c)
                               /\ q[c] \in Seq(Keys) /\ Len(q[c]) <= QueueLimit
    PROVE  /\ HubState'
           /\ \A c \in Clients :
                 /\ Registered(c)' <=> Registered(c)
                 /\ c \in DOMAIN q => Queue(c)' = q[c]
                 /\ c \notin DOMAIN q => clients'[c] = clients[c]
<1>1. \A c \in Clients : IF c \in DOMAIN q THEN clients'[c] = WithQueue(clients[c], q[c])
                         ELSE clients'[c] = clients[c]
  OBVIOUS
<1>2. \A c \in DOMAIN q : clients[c] \in Registration(Keys)
  BY RegisteredClient
<1>3. \A c \in DOMAIN q :
         /\ clients'[c] \in Registration(Keys) /\ clients'[c] # NoClient
         /\ Queue(c)' = q[c] /\ clients'[c].remote_addr = clients[c].remote_addr
  BY <1>1, <1>2, Requeued DEF Queue
<1>4. \A c \in Clients : Registered(c)' <=> Registered(c)
  BY <1>1, <1>3 DEF Registered
<1>5. HubTypeOK(Keys)'
  <2>1. clients \in [Clients -> {NoClient} \cup Registration(Keys)]
    BY DEF HubState, HubTypeOK
  <2>2. \A c \in Clients : clients'[c] \in {NoClient} \cup Registration(Keys)
    BY <1>1, <1>3, <2>1
  <2>3. clients' \in [Clients -> {NoClient} \cup Registration(Keys)]
    <3>1. clients' = [c \in Clients |-> clients'[c]]
      OBVIOUS
    <3> QED
      BY <2>2, <3>1
  <2> QED
    BY <2>3 DEF HubState, HubTypeOK, Registration
<1>6. AddressesExact'
  <2>1. \A c \in Clients : Registered(c) => clients'[c].remote_addr = clients[c].remote_addr
    BY <1>1, <1>3
  <2> QED
    BY <1>4, <2>1 DEF HubState, AddressesExact
<1>7. \A c \in Clients : Registered(c)' => Len(Queue(c)') <= QueueLimit
  <2> SUFFICES ASSUME NEW c \in Clients, Registered(c)' PROVE Len(Queue(c)') <= QueueLimit
    OBVIOUS
  <2>1. CASE c \in DOMAIN q
    BY <1>3, <2>1
  <2>2. CASE c \notin DOMAIN q
    <3>1. Queue(c)' = Queue(c)
      BY <1>1, <2>2 DEF Queue
    <3> QED
      BY <1>4, <3>1 DEF HubState
  <2> QED
    BY <2>1, <2>2
<1> QED
  BY <1>1, <1>3, <1>4, <1>5, <1>6, <1>7 DEF HubState

\* Frames that fit are put behind the others.
LEMMA EnqueuedKeeps ==
    ASSUME HubState, UNCHANGED <<addr_to_client, next_registration_token>>, NEW frames,
           Enqueued(frames),
           \A c \in Clients : c \in DOMAIN frames /\ frames[c] # <<>> =>
              /\ Registered(c) /\ frames[c] \in Seq(Keys)
              /\ Len(Queue(c)) + Len(frames[c]) <= QueueLimit
    PROVE  /\ HubState'
           /\ \A c \in Clients :
                 /\ Registered(c)' <=> Registered(c)
                 /\ Registered(c) => ToSet(Queue(c)') \subseteq ToSet(Queue(c)) \cup
                       (IF c \in DOMAIN frames /\ frames[c] # <<>> THEN ToSet(frames[c]) ELSE {})
<1> DEFINE q == [c \in {x \in Clients : x \in DOMAIN frames /\ frames[x] # <<>>} |->
                    Queue(c) \o frames[c]]
<1>1. clients' = [c \in Clients |-> IF c \in DOMAIN q THEN WithQueue(clients[c], q[c])
                                    ELSE clients[c]]
  BY DEF Enqueued, WithQueue, Queue
<1>2. ASSUME NEW c \in DOMAIN q
      PROVE  /\ c \in Clients /\ Registered(c) /\ q[c] \in Seq(Keys) /\ Len(q[c]) <= QueueLimit
             /\ ToSet(q[c]) = ToSet(Queue(c)) \cup ToSet(frames[c])
  <2>1. /\ c \in Clients /\ Registered(c) /\ frames[c] \in Seq(Keys)
        /\ Len(Queue(c)) + Len(frames[c]) <= QueueLimit /\ q[c] = Queue(c) \o frames[c]
    OBVIOUS
  <2>2. Queue(c) \in Seq(Keys)
    BY <2>1, RegisteredClient
  <2>3. PICK s : s = q[c] /\ s = Queue(c) \o frames[c]
    BY <2>1
  <2>4. s \in Seq(Keys) /\ Len(s) = Len(Queue(c)) + Len(frames[c])
        /\ ToSet(s) = ToSet(Queue(c)) \cup ToSet(frames[c])
    BY <2>1, <2>2, <2>3, JoinedEntries
  <2> HIDE DEF q
  <2> QED
    BY <2>1, <2>3, <2>4
<1>3. \A c \in Clients : c \in DOMAIN q <=> c \in DOMAIN frames /\ frames[c] # <<>>
  OBVIOUS
<1> HIDE DEF q
<1>4. /\ HubState'
      /\ \A c \in Clients :
            /\ Registered(c)' <=> Registered(c)
            /\ c \in DOMAIN q => Queue(c)' = q[c]
            /\ c \notin DOMAIN q => clients'[c] = clients[c]
  BY ONLY <1>1, <1>2, QueuesChange, HubState, UNCHANGED <<addr_to_client, next_registration_token>>
<1> QED
  BY <1>2, <1>3, <1>4 DEF Queue

-----------------------------------------------------------------------------
(* What the steps of the client link do to the queues. *)

\* The frames queued for a client, if it is registered.
Held(c) == IF Registered(c) THEN ToSet(Queue(c)) ELSE {}

\* A registration and a client that leaves add no frame to any queue.
LEMMA HeldKept ==
    ASSUME QueuesKept, NEW c \in Clients
    PROVE  Held(c)' \subseteq Held(c)
<1>1. ToSet(<<>>) = {}
  BY DEF ToSet
<1> QED
  BY <1>1 DEF QueuesKept, Held

\* Frames that are put behind the others are the only ones added.
LEMMA HeldEnqueued ==
    ASSUME HubState, UNCHANGED <<addr_to_client, next_registration_token>>, NEW frames,
           Enqueued(frames),
           \A c \in Clients : c \in DOMAIN frames /\ frames[c] # <<>> =>
              /\ Registered(c) /\ frames[c] \in Seq(Keys)
              /\ Len(Queue(c)) + Len(frames[c]) <= QueueLimit
    PROVE  /\ HubState'
           /\ \A c \in Clients :
                 Held(c)' \subseteq Held(c) \cup
                     (IF c \in DOMAIN frames /\ frames[c] # <<>> THEN ToSet(frames[c]) ELSE {})
<1>1. /\ HubState'
      /\ \A c \in Clients :
            /\ Registered(c)' <=> Registered(c)
            /\ Registered(c) => ToSet(Queue(c)') \subseteq ToSet(Queue(c)) \cup
                  (IF c \in DOMAIN frames /\ frames[c] # <<>> THEN ToSet(frames[c]) ELSE {})
  BY EnqueuedKeeps
<1> QED
  BY <1>1 DEF Held

\* A pass sends a peer only frames of packets it sends again, and only as many as
\* the peer's queue has room for.
LEMMA FramesFit ==
    ASSUME Heap(retry_deadlines), NEW p \in Targets, NEW end, end = Taken(Refused)
    PROVE  /\ Frames(p, end) \in Seq(Keys)
           /\ ToSet(Frames(p, end)) \subseteq Resent(end)
           /\ Frames(p, end) # <<>> =>
                 Registered(p) /\ Len(Queue(p)) + Len(Frames(p, end)) <= QueueLimit
<1> DEFINE Again(m) == {i \in Resending : i <= m /\ retry_deadlines[i].key[1] = p}
<1>1. PICK h : h = retry_deadlines
  OBVIOUS
<1>2. /\ h \in Seq(Deadline) /\ Len(h) \in Nat
      /\ \A i \in 1 .. Len(h) : h[i].key \in Keys
  BY <1>1, InHeap DEF Heap
<1>3. Resending \subseteq 1 .. Len(h) /\ Refused \in SUBSET Resending
  BY <1>1 DEF Resending, Due, Refused
<1>4. \A i \in Refused : end < i
  BY <1>3, TakenDue
<1>5. ASSUME NEW m
      PROVE  /\ Frames(p, m) \in Seq(Keys)
             /\ Frames(p, m) = <<>> <=> Again(m) = {}
             /\ ToSet(Frames(p, m)) = {h[i].key : i \in Again(m)}
  <2>1. PICK K : K = Again(m)
    OBVIOUS
  <2>2. PICK t : t = Picked(h, K)
    OBVIOUS
  <2>3. K \in SUBSET (1 .. Len(h))
    BY <1>3, <2>1
  <2>4. Chained(h, HeapOrder)
    BY <1>1 DEF Heap
  <2>5. /\ t \in Seq(Deadline) /\ Len(t) = Cardinality(K)
        /\ ToSet(t) = {h[i] : i \in K}
    BY <1>2, <2>2, <2>3, <2>4, ChainPicked
  <2>6. Frames(p, m) = [n \in DOMAIN t |-> t[n].key]
    BY <1>1, <2>1, <2>2 DEF Frames
  <2>7. DOMAIN t = 1 .. Len(t) /\ Len(t) \in Nat /\ \A n \in 1 .. Len(t) : t[n] \in Deadline
    BY <2>5
  <2>8. PICK f : f = Frames(p, m) /\ f = [n \in 1 .. Len(t) |-> t[n].key]
    BY <2>6, <2>7
  <2>9. f \in [1 .. Len(t) -> Keys] /\ \A n \in 1 .. Len(t) : f[n] = t[n].key
    BY <2>7, <2>8 DEF Deadline
  <2>10. f \in Seq(Keys) /\ Len(f) = Len(t) /\ DOMAIN f = 1 .. Len(t)
    BY <2>7, <2>9, IsASeq
  <2>11. ToSet(f) = {h[i].key : i \in K}
    <3>1. \A x : x \in ToSet(f) <=> \E n \in 1 .. Len(t) : t[n].key = x
      BY <2>9, <2>10 DEF ToSet
    <3>2. \A d : d \in ToSet(t) <=> \E n \in 1 .. Len(t) : t[n] = d
      BY <2>5, ElementsOf
    <3>3. \A d : d \in ToSet(t) <=> \E i \in K : h[i] = d
      BY <2>5
    <3>4. \A x : x \in ToSet(f) <=> \E d \in ToSet(t) : d.key = x
      BY <3>1, <3>2
    <3>5. \A x : x \in ToSet(f) <=> \E i \in K : h[i].key = x
      BY <3>3, <3>4
    <3> QED
      BY <3>5
  <2>12. f = <<>> <=> K = {}
    <3>1. IsFiniteSet(K)
      <4>1. IsFiniteSet(1 .. Len(h))
        BY <1>2, FS_Interval
      <4> QED
        BY <2>3, <4>1, FS_Subset
    <3>2. K = {} <=> Cardinality(K) = 0
      BY <3>1, FS_EmptySet
    <3>3. f = <<>> <=> Len(f) = 0
      BY <2>10, EmptySeq
    <3> QED
      BY <2>5, <2>10, <3>2, <3>3
  <2> QED
    BY <2>1, <2>8, <2>10, <2>11, <2>12
<1>6. ToSet(Frames(p, end)) \subseteq Resent(end)
  BY <1>1, <1>5 DEF Resent
<1>7. ASSUME Frames(p, end) # <<>>
      PROVE  Registered(p) /\ Len(Queue(p)) + Len(Frames(p, end)) <= QueueLimit
  <2>1. Again(end) # {}
    BY <1>5, <1>7
  <2>2. Again(end) \subseteq 1 .. Len(h) /\ IsFiniteSet(1 .. Len(h)) /\ 1 .. Len(h) \subseteq Nat
    <3>1. IsFiniteSet(1 .. Len(h))
      BY <1>2, FS_Interval
    <3>2. Again(end) \subseteq 1 .. Len(h)
      BY <1>3
    <3>3. 1 .. Len(h) \subseteq Nat
      BY <1>2
    <3> HIDE DEF Again
    <3> QED
      BY <3>1, <3>2, <3>3
  <2>3. IsFiniteSet(Again(end)) /\ Again(end) \subseteq Nat
    BY <2>2, FS_Subset
  <2>4. PICK m \in Again(end) : \A i \in Again(end) : i <= m
    <3> HIDE DEF Again
    <3> QED
      BY <2>1, <2>3, Highest
  <2>5. /\ m \in Resending /\ m <= end /\ retry_deadlines[m].key[1] = p
        /\ m \in Nat /\ end \in Nat /\ \A i \in Resending : i \in Nat
    <3>1. end \in 0 .. Len(retry_deadlines)
      BY <1>3, TakenDue
    <3> QED
      BY <1>1, <1>2, <1>3, <2>4, <3>1
  <2>6. Again(m) = Again(end)
    <3>1. ASSUME NEW i \in Resending, retry_deadlines[i].key[1] = p PROVE i <= m <=> i <= end
      <4>1. i <= end => i <= m
        BY <2>4, <3>1
      <4>2. i \in Nat /\ m \in Nat /\ end \in Nat /\ m <= end
        BY <2>5
      <4> QED
        BY ONLY <4>1, <4>2
    <3> QED
      BY <3>1
  <2>7. Frames(p, m) = Frames(p, end)
    BY <2>6 DEF Frames
  <2>8. m \notin Refused
    BY <1>4, <2>5
  <2>9. Reaches(p, Len(Frames(p, m)))
    BY <2>5, <2>8 DEF Refused
  <2> QED
    BY <2>7, <2>9 DEF Reaches, HasRoom
<1> QED
  BY <1>5, <1>6, <1>7

\* The hub, the sender and the receivers of the client link.
ClientInv ==
    /\ SenderInv /\ HeapInv /\ ReceiverTypes /\ HubState
    /\ endpoint \in [Clients -> Tokens \cup {NoToken}]
    /\ opening \subseteq Targets

\* Peers are clients of the hub, and not the sender.
LEMMA PeersAreClients == \A p \in Targets : p \in Clients /\ p # Local
BY HubBounds

\* send puts its packet behind the others of the peer.
LEMMA SendReachesPeer ==
    ASSUME ClientInv, NEW p \in Targets, SendToPeer(p)
    PROVE  /\ HubState'
           /\ \A c \in Clients : Held(c)' \subseteq Held(c) \cup
                 (IF c = p THEN {NextKey(p)} ELSE {})
<1> DEFINE frames == [x \in {p} |-> <<NextKey(p)>>]
<1>1. /\ HubState /\ Registered(p) /\ Len(Queue(p)) + 1 <= QueueLimit
      /\ UNCHANGED <<addr_to_client, next_registration_token>> /\ Enqueued(frames)
  BY DEF ClientInv, SendToPeer, Reaches, HasRoom
<1>2. NextKey(p) \in Keys
  BY NextKeyFresh DEF ClientInv, SendToPeer
<1>3. PICK s : s = <<NextKey(p)>>
  OBVIOUS
<1>4. s \in Seq(Keys) /\ Len(s) = 1 /\ ToSet(s) = {NextKey(p)}
  BY <1>2, <1>3 DEF ToSet
<1>5. DOMAIN frames = {p} /\ frames[p] = s
  BY <1>3
<1> HIDE DEF frames
<1>6. /\ HubState'
      /\ \A c \in Clients :
            Held(c)' \subseteq Held(c) \cup
                (IF c \in DOMAIN frames /\ frames[c] # <<>> THEN ToSet(frames[c]) ELSE {})
  BY <1>1, <1>4, <1>5, HeldEnqueued
<1> QED
  BY <1>4, <1>5, <1>6

\* A pass puts packets it sends again behind the others of their peers.
LEMMA RetryReachesPeers ==
    ASSUME ClientInv, RetryPeers
    PROVE  /\ HubState' /\ Passed(Taken(Refused)) /\ Refused \in SUBSET Resending
           /\ \A c \in Clients : Held(c)' \subseteq Held(c) \cup
                 (IF c = Local THEN {} ELSE Resent(Taken(Refused)))
<1>1. PICK end : end = Taken(Refused)
  OBVIOUS
<1> DEFINE frames == [p \in Targets |-> Frames(p, end)]
<1>2. /\ HubState /\ Heap(retry_deadlines) /\ Passed(Taken(Refused))
      /\ UNCHANGED <<addr_to_client, next_registration_token>> /\ Enqueued(frames)
  BY <1>1 DEF ClientInv, HeapInv, RetryPeers
<1>3. /\ DOMAIN frames = Targets
      /\ \A p \in Targets : /\ frames[p] \in Seq(Keys) /\ ToSet(frames[p]) \subseteq Resent(end)
                            /\ frames[p] # <<>> => /\ Registered(p)
                                                   /\ Len(Queue(p)) + Len(frames[p]) <= QueueLimit
  BY <1>1, <1>2, FramesFit
<1> HIDE DEF frames
<1>4. /\ HubState'
      /\ \A c \in Clients :
            Held(c)' \subseteq Held(c) \cup
                (IF c \in DOMAIN frames /\ frames[c] # <<>> THEN ToSet(frames[c]) ELSE {})
  BY <1>2, <1>3, HeldEnqueued
<1>5. Refused \in SUBSET Resending
  BY DEF Refused
<1> QED
  BY <1>1, <1>2, <1>3, <1>4, <1>5, PeersAreClients

\* A frame that is taken from a queue was in it, and the others stay.
LEMMA NextFrame ==
    ASSUME HubState, NEW c \in Clients, NEW token, HasFrame(c, token)
    PROVE  /\ Registered(c) /\ Head(Queue(c)) \in Keys /\ Head(Queue(c)) \in Held(c)
           /\ Tail(Queue(c)) \in Seq(Keys) /\ ToSet(Tail(Queue(c))) \subseteq Held(c)
           /\ Len(Tail(Queue(c))) <= QueueLimit
<1>1. Registered(c) /\ Queue(c) # <<>>
  BY DEF HasFrame, IsLocal
<1>2. PICK s : s = Queue(c)
  OBVIOUS
<1>3. s \in Seq(Keys) /\ Len(s) \in Nat /\ Len(s) <= QueueLimit
  BY <1>1, <1>2, RegisteredClient
<1>4. /\ Tail(s) \in Seq(Keys) /\ Head(s) \in Keys /\ Len(Tail(s)) = Len(s) - 1
      /\ ToSet(s) = {Head(s)} \cup ToSet(Tail(s))
  BY <1>1, <1>2, <1>3, RemainingEntries
<1>5. Len(Tail(s)) <= QueueLimit
  BY <1>3, <1>4, HubBounds
<1> QED
  BY <1>1, <1>2, <1>4, <1>5 DEF Held

\* A peer takes its next frame; the ACK, if it can send one, is of that packet.
LEMMA PeerTakes ==
    ASSUME HubState, NEW p \in Targets, PeerReceives(p)
    PROVE  /\ HubState'
           /\ Head(Queue(p)) \in Keys /\ Head(Queue(p)) \in Held(p)
           /\ \A c \in Targets : Held(c)' \subseteq Held(c)
           /\ \/ UNCHANGED receiver /\ Held(Local)' \subseteq Held(Local)
              \/ /\ Received(Head(Queue(p)))
                 /\ Held(Local)' \subseteq Held(Local) \cup {Head(Queue(p))}
<1>1. p \in Clients /\ p # Local /\ Local \in Clients
  BY PeersAreClients, HubBounds
<1>2. PICK k : k = Head(Queue(p))
  OBVIOUS
<1>3. PICK rest : rest = Tail(Queue(p))
  OBVIOUS
<1>4. /\ Registered(p) /\ k \in Keys /\ k \in Held(p)
      /\ rest \in Seq(Keys) /\ ToSet(rest) \subseteq Held(p) /\ Len(rest) <= QueueLimit
  <2>1. HasFrame(p, endpoint[p])
    BY DEF PeerReceives
  <2> QED
    BY <1>1, <1>2, <1>3, <2>1, NextFrame
<1>5. UNCHANGED <<addr_to_client, next_registration_token>>
  BY DEF PeerReceives
<1>6. clients \in [Clients -> {NoClient} \cup Registration(Keys)]
  BY DEF HubState, HubTypeOK
<1>7. CASE HasRoom(p, endpoint[p], Local, 1)
  <2>1. /\ clients' = [[clients EXCEPT ![p].queue = Tail(@)] EXCEPT ![Local].queue = Append(@, k)]
        /\ Received(k)
    BY <1>2, <1>7 DEF PeerReceives
  <2>2. PICK acked : acked = Append(Queue(Local), k)
    OBVIOUS
  <2>3. /\ Registered(Local) /\ acked \in Seq(Keys) /\ Len(acked) <= QueueLimit
        /\ ToSet(acked) = ToSet(Queue(Local)) \cup {k}
    <3>1. Registered(Local) /\ Len(Queue(Local)) + 1 <= QueueLimit
      BY <1>7 DEF HasRoom
    <3>2. PICK s : s = Queue(Local)
      OBVIOUS
    <3>3. s \in Seq(Keys)
      BY <1>1, <3>1, <3>2, RegisteredClient
    <3>4. /\ Append(s, k) \in Seq(Keys) /\ Len(Append(s, k)) = Len(s) + 1
          /\ ToSet(Append(s, k)) = ToSet(s) \cup {k}
      BY <1>4, <3>3, AppendedEntries
    <3> QED
      BY <2>2, <3>1, <3>2, <3>4
  <2> DEFINE q == [c \in {p, Local} |-> IF c = p THEN rest ELSE acked]
  <2>4. clients' = [c \in Clients |-> IF c \in {p, Local} THEN
                       WithQueue(clients[c], IF c = p THEN rest ELSE acked) ELSE clients[c]]
    BY <1>1, <1>3, <1>6, <2>1, <2>2 DEF WithQueue, Queue
  <2>5. /\ clients' = [c \in Clients |-> IF c \in DOMAIN q THEN WithQueue(clients[c], q[c])
                                         ELSE clients[c]]
        /\ DOMAIN q = {p, Local} /\ q[p] = rest /\ q[Local] = acked
    BY <1>1, <2>4
  <2> HIDE DEF q
  <2>6. /\ HubState'
        /\ \A c \in Clients :
              /\ Registered(c)' <=> Registered(c)
              /\ c \in DOMAIN q => Queue(c)' = q[c]
              /\ c \notin DOMAIN q => clients'[c] = clients[c]
    BY <1>1, <1>4, <1>5, <2>3, <2>5, QueuesChange
  <2>7. \A c \in Targets : Held(c)' \subseteq Held(c)
    BY <1>1, <1>4, <2>5, <2>6, PeersAreClients DEF Held, Queue
  <2>8. Held(Local)' \subseteq Held(Local) \cup {k}
    BY <1>1, <2>3, <2>5, <2>6 DEF Held
  <2> QED
    BY <1>2, <1>4, <2>1, <2>6, <2>7, <2>8
<1>8. CASE ~HasRoom(p, endpoint[p], Local, 1)
  <2>1. clients' = [clients EXCEPT ![p].queue = Tail(@)] /\ UNCHANGED receiver
    BY <1>8 DEF PeerReceives
  <2> DEFINE q == [c \in {p} |-> rest]
  <2>2. clients' = [c \in Clients |-> IF c = p THEN WithQueue(clients[c], rest)
                                      ELSE clients[c]]
    BY <1>1, <1>3, <1>6, <2>1 DEF WithQueue, Queue
  <2>3. /\ clients' = [c \in Clients |-> IF c \in DOMAIN q THEN WithQueue(clients[c], q[c])
                                         ELSE clients[c]]
        /\ DOMAIN q = {p} /\ q[p] = rest
    BY <2>2
  <2> HIDE DEF q
  <2>4. /\ HubState'
        /\ \A c \in Clients :
              /\ Registered(c)' <=> Registered(c)
              /\ c \in DOMAIN q => Queue(c)' = q[c]
              /\ c \notin DOMAIN q => clients'[c] = clients[c]
    BY <1>1, <1>4, <1>5, <2>3, QueuesChange
  <2>5. \A c \in Clients : Held(c)' \subseteq Held(c)
    BY <1>4, <2>3, <2>4 DEF Held, Queue
  <2> QED
    BY <1>1, <1>2, <1>4, <2>1, <2>4, <2>5, PeersAreClients
<1> QED
  BY <1>7, <1>8

\* Local takes its next ACK.
LEMMA LocalTakes ==
    ASSUME HubState, LocalReceives
    PROVE  /\ HubState'
           /\ Head(Queue(Local)) \in Keys /\ Head(Queue(Local)) \in Held(Local)
           /\ Acknowledged(Head(Queue(Local)))
           /\ \A c \in Clients : Held(c)' \subseteq Held(c)
<1>1. Local \in Clients
  BY HubBounds
<1>2. PICK rest : rest = Tail(Queue(Local))
  OBVIOUS
<1>3. /\ Registered(Local) /\ Head(Queue(Local)) \in Keys /\ Head(Queue(Local)) \in Held(Local)
      /\ rest \in Seq(Keys) /\ ToSet(rest) \subseteq Held(Local) /\ Len(rest) <= QueueLimit
  <2>1. HasFrame(Local, endpoint[Local])
    BY DEF LocalReceives
  <2> QED
    BY <1>1, <1>2, <2>1, NextFrame
<1>4. /\ UNCHANGED <<addr_to_client, next_registration_token>>
      /\ clients' = [clients EXCEPT ![Local].queue = Tail(@)]
      /\ Acknowledged(Head(Queue(Local)))
  BY DEF LocalReceives
<1>5. clients \in [Clients -> {NoClient} \cup Registration(Keys)]
  BY DEF HubState, HubTypeOK
<1> DEFINE q == [c \in {Local} |-> rest]
<1>6. clients' = [c \in Clients |-> IF c = Local THEN WithQueue(clients[c], rest) ELSE clients[c]]
  BY <1>1, <1>2, <1>4, <1>5 DEF WithQueue, Queue
<1>7. /\ clients' = [c \in Clients |-> IF c \in DOMAIN q THEN WithQueue(clients[c], q[c])
                                       ELSE clients[c]]
      /\ DOMAIN q = {Local} /\ q[Local] = rest
  BY <1>6
<1> HIDE DEF q
<1>8. /\ HubState'
      /\ \A c \in Clients :
            /\ Registered(c)' <=> Registered(c)
            /\ c \in DOMAIN q => Queue(c)' = q[c]
            /\ c \notin DOMAIN q => clients'[c] = clients[c]
  BY <1>1, <1>3, <1>4, <1>7, QueuesChange
<1>9. \A c \in Clients : Held(c)' \subseteq Held(c)
  BY <1>3, <1>7, <1>8 DEF Held, Queue
<1> QED
  BY <1>3, <1>4, <1>8, <1>9

-----------------------------------------------------------------------------
(* The client link is sound. *)

\* Steps that leave the hub alone.
LEMMA SameHub ==
    ASSUME HubState, UNCHANGED hub
    PROVE  HubState' /\ QueuesKept
BY DEF hub, HubState, HubTypeOK, AddressesExact, Registered, Queue, QueuesKept

\* Local begins as the only one registered, with the first token and nothing
\* queued.
LEMMA ClientBegins ==
    ASSUME ClientInit
    PROVE  ClientInv /\ \A c \in Clients : Held(c) = {}
<1> DEFINE first == [remote_addr |-> LocalAddress, registration_token |-> 1, queue |-> <<>>]
<1>1. /\ EndpointInit
      /\ clients = [c \in Clients |-> IF c = Local THEN first ELSE NoClient]
      /\ addr_to_client = [a \in Addresses |-> IF a = LocalAddress THEN Local ELSE NoClient]
      /\ next_registration_token = 2
      /\ endpoint = [c \in Clients |-> IF c = Local THEN 1 ELSE NoToken]
      /\ opening = {}
  BY DEF ClientInit
<1>2. SenderInv /\ HeapInv /\ ReceiverTypes
  BY <1>1, SenderInit, HeapInit, ReceiverInit
<1>3. /\ first \in Registration(Keys) /\ first # NoClient
      /\ first.remote_addr = LocalAddress /\ first.queue = <<>>
  <2>1. <<>> \in Seq(Keys) /\ 1 \in Tokens
    BY HubBounds DEF Tokens
  <2>2. first \in Registration(Keys)
    BY <2>1, HubBounds DEF Registration
  <2> QED
    BY <2>2, HubBounds
<1> HIDE DEF first
<1>4. HubTypeOK(Keys)
  <2>1. 2 \in 1 .. MaxRegistrations + 1
    BY HubBounds
  <2>2. clients \in [Clients -> {NoClient} \cup Registration(Keys)]
    BY <1>1, <1>3
  <2>3. addr_to_client \in [Addresses -> Clients \cup {NoClient}]
    BY <1>1, HubBounds
  <2> QED
    BY <1>1, <2>1, <2>2, <2>3 DEF HubTypeOK
<1>5. \A c \in Clients : Registered(c) <=> c = Local
  BY <1>1, <1>3 DEF Registered
<1>6. AddressesExact
  <2> SUFFICES ASSUME NEW a \in Addresses, NEW c \in Clients
               PROVE  addr_to_client[a] = c <=> Registered(c) /\ clients[c].remote_addr = a
    BY DEF AddressesExact
  <2>1. clients[Local] = first
    BY <1>1, HubBounds
  <2> QED
    BY <1>1, <1>3, <1>5, <2>1, HubBounds
<1>7. \A c \in Clients : Registered(c) => Queue(c) = <<>>
  BY <1>1, <1>3, <1>5 DEF Queue
<1>8. \A c \in Clients : Held(c) = {}
  BY <1>7 DEF Held, ToSet
<1>9. HubState
  <2>1. Len(<<>>) = 0
    OBVIOUS
  <2> QED
    BY <1>4, <1>6, <1>7, <2>1, HubBounds DEF HubState
<1>10. endpoint \in [Clients -> Tokens \cup {NoToken}]
  <2>1. 1 \in Tokens
    BY HubBounds DEF Tokens
  <2> QED
    BY <1>1, <2>1
<1> QED
  BY <1>1, <1>2, <1>8, <1>9, <1>10 DEF ClientInv

\* The token of a handle is one of those given out.
LEMMA TokenGiven ==
    ASSUME HubState, NEW c \in Clients
    PROVE  CurrentToken(c) \in Tokens \cup {NoToken}
BY RegisteredClient DEF CurrentToken

\* Every step keeps the hub, the sender and the receivers sound.
LEMMA ClientStep ==
    ASSUME ClientInv, [ClientNext]_clientVars
    PROVE  ClientInv'
<1> USE DEF ClientInv
<1>1. ASSUME UNCHANGED sender PROVE SenderInv' /\ HeapInv'
  BY <1>1, SameSender, SameHeap DEF sender
<1>2. ASSUME UNCHANGED receiver PROVE ReceiverTypes'
  BY <1>2 DEF receiver, ReceiverTypes
<1>3. ASSUME UNCHANGED <<endpoint, opening>>
      PROVE  /\ endpoint' \in [Clients -> Tokens \cup {NoToken}]
             /\ opening' \subseteq Targets
  BY <1>3
<1>4. ASSUME NEW p \in Targets, NEW addr \in Addresses, Open(p, addr) PROVE ClientInv'
  <2>1. HubState'
    BY <1>4, RegisterKeeps, PeersAreClients DEF Open
  <2> QED
    BY <1>1, <1>2, <1>4, <2>1 DEF Open
<1>5. ASSUME NEW p \in Targets, Opened(p) PROVE ClientInv'
  <2>1. HubState'
    BY <1>5, SameHub DEF Opened
  <2>2. endpoint' \in [Clients -> Tokens \cup {NoToken}]
    BY <1>5, TokenGiven, PeersAreClients DEF Opened
  <2> QED
    BY <1>1, <1>2, <1>5, <2>1, <2>2 DEF Opened
<1>6. ASSUME NEW p \in Targets, Close(p) PROVE ClientInv'
  <2>1. HubState'
    BY <1>6, UnregisterKeeps, PeersAreClients DEF Close
  <2> QED
    BY <1>1, <1>2, <1>3, <1>6, <2>1 DEF Close
<1>7. ASSUME NEW p \in Targets, SendToPeer(p) PROVE ClientInv'
  <2>1. HubState'
    BY <1>7, SendReachesPeer
  <2>2. SenderInv' /\ HeapInv'
    BY <1>7, SentKeeps, SentHeap DEF SendToPeer
  <2> QED
    BY <1>2, <1>3, <1>7, <2>1, <2>2 DEF SendToPeer
<1>8. ASSUME NEW p \in Targets, SendToPeerFails(p) PROVE ClientInv'
  <2>1. HubState'
    BY <1>8, SameHub DEF SendToPeerFails
  <2>2. SenderInv'
    BY <1>8, SpentKeeps DEF SendToPeerFails
  <2>3. HeapInv'
    BY <1>8, SameHeap DEF SendToPeerFails, SequenceSpent
  <2> QED
    BY <1>2, <1>3, <1>8, <2>1, <2>2, <2>3 DEF SendToPeerFails
<1>9. ASSUME NEW p \in Targets, PeerReceives(p) PROVE ClientInv'
  <2>1. /\ HubState' /\ Head(Queue(p)) \in Keys
        /\ UNCHANGED receiver \/ Received(Head(Queue(p)))
    BY <1>9, PeerTakes
  <2>2. ReceiverTypes'
    BY <1>2, <2>1, ReceivedKeeps
  <2> QED
    BY <1>1, <1>3, <1>9, <2>1, <2>2 DEF PeerReceives
<1>10. CASE RetryPeers
  <2>1. HubState' /\ Passed(Taken(Refused)) /\ Refused \in SUBSET Resending
    BY <1>10, RetryReachesPeers
  <2>2. SenderInv'
    BY <2>1, PassedKeeps
  <2>3. HeapInv'
    BY <2>1, PassedHeap
  <2> QED
    BY <1>2, <1>3, <1>10, <2>1, <2>2, <2>3 DEF RetryPeers
<1>11. CASE ClientTick
  <2>1. HubState'
    BY <1>11, SameHub DEF ClientTick
  <2>2. SenderInv' /\ HeapInv'
    BY <1>11, AgedKeeps, AgedHeap DEF ClientTick
  <2> QED
    BY <1>2, <1>3, <1>11, <2>1, <2>2 DEF ClientTick
<1>12. CASE LocalReceives
  <2>1. HubState' /\ Head(Queue(Local)) \in Keys /\ Acknowledged(Head(Queue(Local)))
    BY <1>12, LocalTakes
  <2>2. SenderInv' /\ HeapInv'
    BY <2>1, AcknowledgedKeeps, AcknowledgedHeap
  <2> QED
    BY <1>2, <1>3, <1>12, <2>1, <2>2 DEF LocalReceives
<1>13. CASE UNCHANGED clientVars
  <2>1. HubState'
    BY <1>13, SameHub DEF clientVars
  <2> QED
    BY <1>1, <1>2, <1>3, <1>13, <2>1 DEF clientVars
<1> QED
  BY <1>4, <1>5, <1>6, <1>7, <1>8, <1>9, <1>10, <1>11, <1>12, <1>13 DEF ClientNext

\* Whoever registers, is evicted, leaves and comes back, in the two steps of
\* endpoint() that others may come between: addresses and clients lead to each
\* other, queues stay within their limit though a pass fills several at once, and
\* the sender keeps a deadline for every packet in flight, exact counts of its
\* windows and few stale deadlines.
THEOREM HubSoundHolds == ClientSpec => []HubSound
<1>1. ClientInit => ClientInv
  BY ClientBegins
<1>2. ClientInv /\ [ClientNext]_clientVars => ClientInv'
  BY ClientStep
<1>3. ClientInv => HubSound
  <2> SUFFICES ASSUME ClientInv PROVE HubSound
    OBVIOUS
  <2>1. ClientTypeOK
    BY DEF ClientInv, HeapInv, Heap, SenderInv, SenderTypes, ReceiverTypes, HubState,
           ClientTypeOK, EndpointTypeOK
  <2>2. WindowExact /\ HubState
    BY DEF ClientInv, SenderInv
  <2>3. NothingForgotten /\ StaleBounded
    BY HeapSound DEF ClientInv
  <2> QED
    BY <2>1, <2>2, <2>3 DEF HubSound, HubState
<1> QED
  BY <1>1, <1>2, <1>3, PTL DEF ClientSpec

-----------------------------------------------------------------------------
(* The client link implements the channel. *)

\* Only packets that were sent are queued for a peer, and ACKs of those handed
\* over for the sender.
HubFrames ==
    /\ \A p \in Targets : \A k \in Held(p) : status[k] # "unsent"
    /\ \A k \in Held(Local) : handed[k] = 1

ClientDelivery == ClientInv /\ OrderUnique /\ HandedRemembered /\ HubFrames

\* Frames are those of keys.
LEMMA HeldKeys ==
    ASSUME HubState, NEW c \in Clients
    PROVE  Held(c) \subseteq Keys
<1>1. CASE Registered(c)
  <2>1. Queue(c) \in Seq(Keys)
    BY <1>1, RegisteredClient
  <2> QED
    BY <1>1, <2>1, ElementsOf DEF Held
<1> QED
  BY <1>1 DEF Held

\* Steps that leave the receivers alone and send no ACK keep what is true of
\* them; the frames queued stay true as long as no packet becomes unsent.
LEMMA SameReceivers ==
    ASSUME ClientDelivery, UNCHANGED receiver, Held(Local)' \subseteq Held(Local),
           \A p \in Targets : \A k \in Held(p)' : k \in Held(p) \/ status'[k] # "unsent",
           \A k \in Keys : status[k] # "unsent" => status'[k] # "unsent"
    PROVE  OrderUnique' /\ HandedRemembered' /\ HubFrames'
<1>1. OrderUnique' /\ HandedRemembered'
  BY DEF ClientDelivery, receiver, OrderUnique, HandedRemembered, Remembers
<1>2. \A p \in Targets : \A k \in Held(p) : k \in Keys
  BY HeldKeys, PeersAreClients DEF ClientDelivery, ClientInv
<1>3. HubFrames'
  BY <1>2 DEF ClientDelivery, HubFrames, receiver
<1> QED
  BY <1>1, <1>3

\* Steps that change nothing the channel shows and add no frame to any queue.
LEMMA QuietClients ==
    ASSUME ClientDelivery, UNCHANGED <<receiver, status>>,
           \A c \in Clients : Held(c)' \subseteq Held(c)
    PROVE  OrderUnique' /\ HandedRemembered' /\ HubFrames' /\ ChannelStep
<1>1. UNCHANGED receiver /\ UNCHANGED <<status, handed>>
  BY DEF receiver
<1>2. \A p \in Targets : Held(p)' \subseteq Held(p)
  BY PeersAreClients
<1> QED
  BY <1>1, <1>2, SameReceivers, HubBounds DEF ChannelStep

\* Every step of the client link is a step of the channel or leaves it alone.
LEMMA ClientDelivers ==
    ASSUME MaxSequence <= MaxHistory, ClientDelivery, [ClientNext]_clientVars
    PROVE  ClientDelivery' /\ ChannelStep
<1> DEFINE Goal == OrderUnique' /\ HandedRemembered' /\ HubFrames' /\ ChannelStep
<1>1. ClientInv'
  BY ClientStep DEF ClientDelivery
<1> SUFFICES Goal
  BY <1>1 DEF ClientDelivery
<1>2. SenderInv /\ ReceiverTypes /\ HubState
  BY DEF ClientDelivery, ClientInv
<1>3. ASSUME QueuesKept, UNCHANGED <<receiver, status>> PROVE Goal
  BY <1>3, HeldKept, QuietClients
<1>4. ASSUME UNCHANGED hub, UNCHANGED <<receiver, status>> PROVE Goal
  BY <1>2, <1>3, <1>4, SameHub
<1>5. ASSUME NEW p \in Targets, NEW addr \in Addresses, Open(p, addr) PROVE Goal
  <2>1. QueuesKept
    BY <1>2, <1>5, RegisterKeeps, PeersAreClients DEF Open
  <2> QED
    BY <1>3, <1>5, <2>1 DEF Open, sender
<1>6. ASSUME NEW p \in Targets, Opened(p) PROVE Goal
  BY <1>4, <1>6 DEF Opened, sender
<1>7. ASSUME NEW p \in Targets, Close(p) PROVE Goal
  <2>1. QueuesKept
    BY <1>2, <1>7, UnregisterKeeps, PeersAreClients DEF Close
  <2> QED
    BY <1>3, <1>7, <2>1 DEF Close, sender
<1>8. ASSUME NEW p \in Targets, SendToPeer(p) PROVE Goal
  <2>1. HasWindow(p) /\ Sent(p) /\ UNCHANGED receiver
    BY <1>8 DEF SendToPeer
  <2>2. /\ ChannelStep /\ NextKey(p) \in Keys
        /\ \A x \in Keys : status'[x] = IF x = NextKey(p) THEN "pending" ELSE status[x]
    BY <1>2, <2>1, SentAccepts DEF receiver
  <2>3. \A c \in Clients : Held(c)' \subseteq Held(c) \cup (IF c = p THEN {NextKey(p)} ELSE {})
    BY <1>8, SendReachesPeer DEF ClientDelivery
  <2>4. /\ Held(Local)' \subseteq Held(Local)
        /\ \A c \in Targets : \A k \in Held(c)' : k \in Held(c) \/ status'[k] # "unsent"
    BY <2>2, <2>3, PeersAreClients, HubBounds
  <2> QED
    BY <2>1, <2>2, <2>4, SameReceivers
<1>9. ASSUME NEW p \in Targets, SendToPeerFails(p) PROVE Goal
  BY <1>4, <1>9 DEF SendToPeerFails, SequenceSpent
<1>10. ASSUME NEW p \in Targets, PeerReceives(p) PROVE Goal
  <2> DEFINE k == Head(Queue(p))
  <2>1. /\ k \in Keys /\ k \in Held(p)
        /\ \A c \in Targets : Held(c)' \subseteq Held(c)
        /\ \/ UNCHANGED receiver /\ Held(Local)' \subseteq Held(Local)
           \/ Received(k) /\ Held(Local)' \subseteq Held(Local) \cup {k}
    BY <1>2, <1>10, PeerTakes
  <2> HIDE DEF k
  <2>2. UNCHANGED status /\ status[k] # "unsent"
    BY <1>10, <2>1 DEF PeerReceives, sender, ClientDelivery, HubFrames
  <2>3. CASE UNCHANGED receiver /\ Held(Local)' \subseteq Held(Local)
    <3>1. \A c \in Clients : Held(c)' \subseteq Held(c)
      BY <2>1, <2>3, HubBounds
    <3> QED
      BY <2>2, <2>3, <3>1, QuietClients
  <2>4. CASE Received(k) /\ Held(Local)' \subseteq Held(Local) \cup {k}
    <3>1. /\ OrderUnique' /\ HandedRemembered' /\ ChannelStep
          /\ handed'[k] = 1 /\ \A x \in Keys : handed[x] = 1 => handed'[x] = 1
      BY <1>2, <2>1, <2>2, <2>4, ReceivedHandsOver DEF ClientDelivery
    <3>2. Held(Local) \subseteq Keys
      BY <1>2, HeldKeys, HubBounds
    <3>3. HubFrames'
      BY <2>1, <2>2, <2>4, <3>1, <3>2 DEF ClientDelivery, HubFrames
    <3> QED
      BY <3>1, <3>3
  <2> QED
    BY <2>1, <2>3, <2>4
<1>11. CASE RetryPeers
  <2>1. PICK end : end = Taken(Refused)
    OBVIOUS
  <2>2. /\ Passed(end)
        /\ \A c \in Clients : Held(c)' \subseteq Held(c) \cup
              (IF c = Local THEN {} ELSE Resent(end))
    BY <1>11, <2>1, RetryReachesPeers DEF ClientDelivery
  <2>3. UNCHANGED receiver
    BY <1>11 DEF RetryPeers
  <2>4. /\ ChannelStep
        /\ \A x \in Keys : status[x] # "unsent" => status'[x] # "unsent"
        /\ \A x \in Resent(end) : x \in Keys /\ status'[x] # "unsent"
    BY <1>2, <2>2, <2>3, PassedGivesUp DEF receiver
  <2>5. /\ Held(Local)' \subseteq Held(Local)
        /\ \A c \in Targets : \A k \in Held(c)' : k \in Held(c) \/ status'[k] # "unsent"
    BY <2>2, <2>4, PeersAreClients, HubBounds
  <2> QED
    BY <2>3, <2>4, <2>5, SameReceivers
<1>12. CASE ClientTick
  BY <1>4, <1>12 DEF ClientTick, Aged
<1>13. CASE LocalReceives
  <2> DEFINE k == Head(Queue(Local))
  <2>1. /\ k \in Keys /\ k \in Held(Local) /\ Acknowledged(k)
        /\ \A c \in Clients : Held(c)' \subseteq Held(c)
    BY <1>2, <1>13, LocalTakes
  <2> HIDE DEF k
  <2>2. UNCHANGED receiver
    BY <1>13 DEF LocalReceives
  <2>3. handed[k] = 1
    BY <2>1 DEF ClientDelivery, HubFrames
  <2>4. /\ ChannelStep
        /\ \A x \in Keys : status[x] # "unsent" => status'[x] # "unsent"
    BY <1>2, <2>1, <2>2, <2>3, AcknowledgedSettles DEF receiver
  <2> QED
    BY <2>1, <2>2, <2>4, SameReceivers, PeersAreClients, HubBounds
<1>14. CASE UNCHANGED clientVars
  BY <1>4, <1>14 DEF clientVars, sender
<1> QED
  BY <1>5, <1>6, <1>7, <1>8, <1>9, <1>10, <1>11, <1>12, <1>13, <1>14 DEF ClientNext

\* Over a hub that loses whole queues, refuses frames and forgets registrations
\* between a frame and its ACK, a packet is handed over at most once and only
\* after it was sent, and "acknowledged" is read only of a packet handed over: as
\* long as a peer's history holds every number of its packets.
THEOREM ClientDeliveryHolds ==
    ASSUME MaxSequence <= MaxHistory
    PROVE  ClientSpec => ReliableDelivery
<1>1. ClientInit => Channel!Init /\ ClientDelivery
  <2> SUFFICES ASSUME ClientInit PROVE Channel!Init /\ ClientDelivery
    OBVIOUS
  <2>1. EndpointInit
    BY DEF ClientInit
  <2>2. Channel!Init
    BY <2>1 DEF EndpointInit, Channel!Init
  <2>3. ClientInv /\ HubFrames
    BY ClientBegins, PeersAreClients, HubBounds DEF HubFrames
  <2> QED
    BY <2>1, <2>2, <2>3, HandedInit DEF ClientDelivery
<1>2. ClientDelivery /\ [ClientNext]_clientVars => ClientDelivery'
  BY ClientDelivers
<1>3. ClientDelivery /\ [ClientNext]_clientVars => [Channel!Next]_<<status, handed>>
  BY ClientDelivers DEF ChannelStep
<1> QED
  BY <1>1, <1>2, <1>3, PTL DEF ClientSpec, ReliableDelivery, Channel!Spec

=============================================================================
