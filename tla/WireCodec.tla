------------------------------ MODULE WireCodec ------------------------------
(***************************************************************************)
(* The binary wire format: BinaryFrameEncoder, BinaryFrameDecoder and      *)
(* ReplicationFrameBuilder of crates/sectorsync-wire/src/lib.rs.           *)
(*                                                                         *)
(* Bytes are counted in units: a field of fixed width is one unit however  *)
(* wide it is, and so is a byte of payload.  Fields that always travel     *)
(* together and that nobody interprets (ids, ticks, epochs, versions) are  *)
(* one unit.  A cursor is the number of units before it.                   *)
(***************************************************************************)
EXTENDS Ordered

CONSTANTS
    MaxEntityDeltas,         \* ReplicationFrameLimits
    MaxComponentsPerEntity,
    MaxComponentBytes,
    KindUnits, Units,        \* units an input begins and goes on with
    PlannedEntities,         \* what a frame is built from
    Budgets,                 \* max_bytes of a bounded frame
    MaxInput, MaxPlanned     \* bounds on inputs and plans

\* What the component store has for a selected component, and what station and
\* store have for an entity that is to be framed.
ComponentBlob == [component_id : Nat, dirty : BOOLEAN, bytes : Seq(Nat)]
PlannedEntity == [present : BOOLEAN, id : Nat, blobs : Seq(ComponentBlob)]

HeaderUnits == 3

ASSUME CodecAssumption ==
    /\ {MaxEntityDeltas, MaxComponentsPerEntity, MaxComponentBytes} \subseteq Nat
    /\ KindUnits \subseteq Nat /\ Units \subseteq Nat
    /\ PlannedEntities \subseteq PlannedEntity
    /\ Budgets \subseteq Nat /\ \A budget \in Budgets : budget >= HeaderUnits

VARIABLES
    arrived,   \* what a decoder is given
    asked      \* the entities a frame builder is given

Kinds == {"Replication", "CommandAck", "Barrier", "Command", "StationEvent",
          "CommandDispatch"}

\* FrameKind as a byte.
Byte(kind) ==
    CASE kind = "Replication" -> 0
      [] kind = "CommandAck" -> 1
      [] kind = "Barrier" -> 2
      [] kind = "Command" -> 3
      [] kind = "StationEvent" -> 4
      [] kind = "CommandDispatch" -> 5

IsKind(unit) == unit \in 0 .. 5
KindOf(unit) == CHOOSE kind \in Kinds : Byte(kind) = unit

\* decode_barrier_state, decode_command_priority and decode_event_priority.
IsBarrierState(unit) == unit \in 0 .. 4
IsPriority(unit) == unit \in 0 .. 2

\* Fields of an event kind: a custom code, an entity, an entity and its epoch.
EventKindFields(unit) == IF unit = 2 THEN 2 ELSE 1
IsEventKind(unit) == unit \in 0 .. 2

Invalid == [kind |-> "Invalid"]

-----------------------------------------------------------------------------
(* Encoding. *)

\* write_bytes.
LengthAnd(bytes) == <<Len(bytes)>> \o bytes

EncodeComponent(component) == <<component.component_id>> \o LengthAnd(component.bytes)

EncodeEntity(entity) ==
    <<entity.entity_id, Len(entity.components)>>
        \o Joined([i \in DOMAIN entity.components |->
                      EncodeComponent(entity.components[i])])

EncodeEntities(entities) == Joined([i \in DOMAIN entities |-> EncodeEntity(entities[i])])

\* encode_replication, with the client of the frame first.
EncodeReplication(frame) ==
    <<Byte("Replication"), frame.client, Len(frame.entities)>>
        \o EncodeEntities(frame.entities)

\* The other encoders of BinaryFrameEncoder.
Encode(frame) ==
    CASE frame.kind = "Replication" -> EncodeReplication(frame)
      [] frame.kind = "CommandAck" ->
            <<Byte("CommandAck"), frame.client, frame.command,
              IF frame.accepted THEN 1 ELSE 0, frame.reason_code>>
      [] frame.kind = "Barrier" ->
            <<Byte("Barrier"), frame.client, frame.barrier, frame.state>>
      [] frame.kind = "Command" ->
            <<Byte("Command"), frame.client, frame.command, frame.priority>>
                \o LengthAnd(frame.payload)
      [] frame.kind = "StationEvent" ->
            <<Byte("StationEvent"), frame.event, frame.priority, frame.event_kind>>
                \o frame.fields
      [] frame.kind = "CommandDispatch" ->
            <<Byte("CommandDispatch"), frame.station, frame.client, frame.command,
              frame.priority>> \o LengthAnd(frame.payload)

-----------------------------------------------------------------------------
(* Decoding. *)

Drop(input, n) == SubSeq(input, n + 1, Len(input))

\* Mutated: a payload cut short is taken for what is there.
BytesEndCut(input, at) ==
    IF at > Len(input) THEN at
    ELSE IF at + input[at] > Len(input) THEN Len(input) ELSE at + input[at]

\* read_bytes of the length at a place: where the bytes end.  A cursor behind the end
\* of the input is Truncated, and stays so.
BytesEnd(input, at) == IF at > Len(input) THEN at ELSE at + input[at]
BytesAt(input, at) == SubSeq(input, at + 1, BytesEnd(input, at))

\* The cursor after each of n items, of which one leads it to End.
Ends(End(_, _), input, at, n) ==
    LET next(cursor, item) == End(input, cursor)
    IN Loop(next, at, [item \in 1 .. n |-> item])

\* decode_component_ref, n times in decode_entity_ref.
ComponentEnd(input, at) == BytesEnd(input, at + 2)
ComponentAt(input, at) ==
    [component_id |-> input[at + 1], bytes |-> BytesAt(input, at + 2)]
ComponentsAt(input, at, n) ==
    [i \in 1 .. n |-> ComponentAt(input, Ends(ComponentEnd, input, at, n)[i - 1])]

\* decode_entity_ref, n times in decode_replication_owned.
EntityEnd(input, at) ==
    IF at + 2 > Len(input) THEN at + 2
    ELSE Ends(ComponentEnd, input, at + 2, input[at + 2])[input[at + 2]]
EntityAt(input, at) ==
    [entity_id |-> input[at + 1], components |-> ComponentsAt(input, at + 2, input[at + 2])]
EntitiesAt(input, at, n) ==
    [i \in 1 .. n |-> EntityAt(input, Ends(EntityEnd, input, at, n)[i - 1])]

\* decode_replication_owned, and finish: the entities end where the input does.
DecodeReplicationOwned(input) ==
    IF Len(input) >= 3 /\ Ends(EntityEnd, input, 3, input[3])[input[3]] = Len(input)
    THEN [kind |-> "Replication", client |-> input[2],
          entities |-> EntitiesAt(input, 3, input[3])]
    ELSE Invalid

\* decode: the frame that makes up the whole input, or an error.
Decode(input) ==
    IF input = <<>> \/ ~IsKind(input[1]) THEN Invalid
    ELSE LET kind == KindOf(input[1]) IN
        CASE kind = "Replication" -> DecodeReplicationOwned(input)
          [] kind = "CommandAck" /\ Len(input) = 5 ->
                [kind |-> kind, client |-> input[2], command |-> input[3],
                 accepted |-> input[4] # 0, reason_code |-> input[5]]
          [] kind = "Barrier" /\ Len(input) = 4 /\ IsBarrierState(input[4]) ->
                [kind |-> kind, client |-> input[2], barrier |-> input[3],
                 state |-> input[4]]
          [] kind = "Command" /\ BytesEnd(input, 5) = Len(input) /\ IsPriority(input[4]) ->
                [kind |-> kind, client |-> input[2], command |-> input[3],
                 priority |-> input[4], payload |-> BytesAt(input, 5)]
          [] kind = "StationEvent" /\ Len(input) >= 4
                /\ IsPriority(input[3]) /\ IsEventKind(input[4])
                /\ Len(input) = 4 + EventKindFields(input[4]) ->
                [kind |-> kind, event |-> input[2], priority |-> input[3],
                 event_kind |-> input[4], fields |-> Drop(input, 4)]
          [] kind = "CommandDispatch" /\ BytesEnd(input, 6) = Len(input)
                /\ IsPriority(input[5]) ->
                [kind |-> kind, station |-> input[2], client |-> input[3],
                 command |-> input[4], priority |-> input[5], payload |-> BytesAt(input, 6)]
          [] OTHER -> Invalid

\* decode_replication: a borrowed frame keeps the validated bytes of its entities.
DecodeReplication(input) ==
    IF DecodeReplicationOwned(input) = Invalid \/ input[1] # Byte("Replication") THEN Invalid
    ELSE [kind |-> "Replication", client |-> input[2], encoded_entity_count |-> input[3],
          encoded_entities |-> Drop(input, 3)]

\* ReplicationFrameRef::to_owned, which decodes those bytes once more.
ToOwned(frame) ==
    [kind |-> "Replication", client |-> frame.client,
     entities |-> EntitiesAt(frame.encoded_entities, 0, frame.encoded_entity_count)]

-----------------------------------------------------------------------------
(* Building replication frames. *)

AtMost(n, limit) == IF n <= limit THEN n ELSE limit

\* The blobs of an entity that a frame takes.
Taken(blob) == blob.dirty /\ Len(blob.bytes) <= MaxComponentBytes

Deltas(entity) ==
    LET taken == Picked(entity.blobs, {i \in DOMAIN entity.blobs : Taken(entity.blobs[i])})
    IN [i \in 1 .. AtMost(Len(taken), MaxComponentsPerEntity) |->
           [component_id |-> taken[i].component_id, bytes |-> taken[i].bytes]]

HasDelta(entity) == entity.present /\ Deltas(entity) # <<>>
Delta(entity) == [entity_id |-> entity.id, components |-> Deltas(entity)]

\* build: the deltas of entities that are there and have any.
Build(client, plan) ==
    LET encodable == Picked(plan, {i \in DOMAIN plan : HasDelta(plan[i])})
    IN [kind |-> "Replication", client |-> client,
        entities |-> [i \in 1 .. AtMost(Len(encodable), MaxEntityDeltas) |->
                         Delta(encodable[i])]]

\* The loop body of encode_binary_bounded_into: an entity is written and rolled
\* back when nothing of it is encoded, or when it exceeds the budget, which ends
\* the frame.
Appended(state, entity, budget) ==
    LET longer == state.out \o EncodeEntity(Delta(entity))
    IN IF state.stopped \/ state.count >= MaxEntityDeltas \/ ~HasDelta(entity)
       THEN state
       ELSE IF Len(longer) > budget THEN [state EXCEPT !.stopped = TRUE]
       ELSE [state EXCEPT !.out = longer, !.count = @ + 1]

\* encode_binary_bounded_into, for a budget that holds the header; the count of
\* entities is patched into the header at the end.
EncodeBinaryBounded(client, plan, budget) ==
    LET append(state, entity) == Appended(state, entity, budget)
        start == [out |-> <<Byte("Replication"), client, 0>>, count |-> 0,
                  stopped |-> FALSE]
        end == Loop(append, start, plan)[Len(plan)]
    IN [end.out EXCEPT ![HeaderUnits] = end.count]

-----------------------------------------------------------------------------
(* What may come: any input, unit by unit, and any plan, entity by entity. *)

codecVars == <<arrived, asked>>

CodecInit == arrived = <<>> /\ asked = <<>>

Arrive(unit) ==
    /\ Len(arrived) < MaxInput
    /\ arrived' = Append(arrived, unit)
    /\ UNCHANGED asked

Ask(entity) ==
    /\ Len(asked) < MaxPlanned
    /\ asked' = Append(asked, entity)
    /\ UNCHANGED arrived

CodecNext ==
    \/ \E unit \in IF arrived = <<>> THEN KindUnits ELSE Units : Arrive(unit)
    \/ \E entity \in PlannedEntities : Ask(entity)

CodecSpec == CodecInit /\ [][CodecNext]_codecVars

-----------------------------------------------------------------------------
(* What the format promises. *)

\* A frame comes out of its own encoding as it went in (an ACK's flag aside, any
\* encoding that is accepted is the encoding of its frame), no shorter input is a
\* frame, and the borrowed decoder sees what the owned one does.
RoundTrips(input) ==
    LET frame == Decode(input)
        borrowed == DecodeReplication(input)
    IN /\ frame # Invalid =>
             /\ Decode(Encode(frame)) = frame
             /\ Len(Encode(frame)) = Len(input)
             /\ frame.kind # "CommandAck" => Encode(frame) = input
             /\ \A n \in 0 .. Len(input) - 1 : Decode(SubSeq(input, 1, n)) = Invalid
       /\ borrowed # Invalid <=> frame.kind = "Replication"
       /\ borrowed # Invalid => ToOwned(borrowed) = frame

\* Direct encoding writes what build and encode_replication do, cut off where the
\* budget ends: whole entities, the longest run of them from the first that fits,
\* and never more units than the budget.
EncodesWithin(plan, budget) ==
    LET built == Build(0, plan)
        cut(n) == [built EXCEPT !.entities = SubSeq(@, 1, n)]
        fits(n) == Len(Encode(cut(n))) <= budget
    IN \E n \in 0 .. Len(built.entities) :
          /\ EncodeBinaryBounded(0, plan, budget) = Encode(cut(n))
          /\ \A m \in 0 .. Len(built.entities) : fits(m) <=> m <= n

\* Whatever bytes arrive are a frame as a whole, the same one for both decoders,
\* or refused, and a frame that is built directly under a byte budget is a whole
\* one.
CodecSound ==
    /\ RoundTrips(arrived)
    /\ \A budget \in Budgets : EncodesWithin(asked, budget)
=============================================================================
