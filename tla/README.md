# SectorSync: TLA+ models and proofs

SectorSync is a library for synchronising large worlds. The world is split among
*stations*; a station owns the authoritative records of its entities and holds
read-only ghosts of its neighbours' entities. Clients reach stations through a
*gateway*, and what they see of the world is planned, budgeted and sent to them
once per tick. The library leaves threads, loops and sockets to the embedding
application: nearly everything is a `&mut self` call that runs to its end. What
is hard is therefore not data races within a call but *sequences* of calls: the
order in which stations, gateways, clients, networks and maintenance loops make
them, what happened between two calls that belong together, which call failed
half-way, and which value was read in one call and used in a later one.

This directory models those sequences in TLA+, checks them with TLC on small
instances, and proves the central ones for instances of any size with TLAPS.
`PROJECT.json` lists, in machine-readable form, the components, runs, mutants
(for each property a plausible bug of the modelled code that violates it), the
source lines each definition stands for, the findings, the hazards, and the
theorems.

    tlc -config Handoff.cfg MCHandoff        # one run
    tlapm Handoff_proofs.tla                 # one module's proofs

Paths below are relative to the root of the repository.

## 1. Inventory

| Component | State it keeps | Operations | What makes it correct |
|---|---|---|---|
| **Station storage** `sectorsync-core/src/station.rs` | slots with records, generation per slot, stack of free slots, id index, dirty mask | spawn, upsert ghost, move, tags, remove, the four handoff calls, restore | ids and slots name each other; a slot is free exactly once; a stale handle reaches nobody; a change of transform is marked |
| **Cell index** `spatial_index.rs`, `spatial.rs` | cell → handles, handle → cells; per caller a query scratch with epochs and markers | upsert, remove, queries | the two maps are inverse and follow the records; a query answers every handle once |
| **Component store** `component.rs` | registry of schemas; dense and sparse columns of blobs with dirty flags | register, set, clear dirty, remove, copy for migration | columns read as one map; no blob outlives its entity |
| **Station facade** `sectorsync/src/station.rs` | the three above | each call updates the three | they agree after each call |
| **Authority and handoff** `station.rs`, `handoff.rs`, runtime `EntityMigrationExecutor` | role and owner epoch of each record, epoch per station, a transfer in the driver's hands | prepare, prewarm, commit incoming, commit outgoing, migrate | one owner; state is carried over; ghosts forward to the owner |
| **Reliable station link** transport `ReliableStationEndpoint` | next sequence, packets in flight with attempts, window per target, deadline heap, receiver history | send, acknowledge, retry_due, handle_data | at-most-once within the history, windows balance, every packet settles |
| **Reliable client link** transport `ReliableClientEndpoint` | the same, keyed by client | the same, over the shared in-memory hub | the same |
| **Gateway sessions** `gateway.rs` | session per client with generation, route and epoch, last sequence, count of the tick; heap of expiry deadlines | connect, reconnect, disconnect, expire, reroute, admit | grace is kept exactly, replay and rate limits are not weakened by any way of coming back |
| **Command queues and gateway pipeline** `command.rs`, runtime | queue per priority, barrier buffer | push, pop, drain, release, clear | an accepted command is applied once, in order, and its client is told the truth |
| **Barriers and scheduler** `barrier.rs`, runtime `BarrierController`, `StationScheduler`, `StationSet`, `StationIndexSet` | active barrier, phase of each covered station; ticks; vectors of stations and indexes with a lookup map | request, poll, resume, export; advance; push, remove, get | frozen means all covered stations are at the target; a lookup finds what the vector holds |
| **Hotspot planning and splits** `hotspot.rs`, runtime `SplitScheduler`, `CellMigrationExecutor`, facade `maintenance.rs` | plan, last split per source, cell ownership table | plan, execute | one owner, indexes follow, cells are vacated |
| **Replication** `replication.rs`, `interest.rs`, `policy.rs`, runtime bridge, facade `replication.rs` | tracker: last sent and last acked by (client, entity) | plan, encode, send, record, prune | only what was selected is shown, cadence kept, tracker bounded, nobody starves under a load the budget can serve |
| **Parallel replication** runtime `parallel.rs`, facade executor | output slots with caches of query ranges, kept between calls | plan a batch per lane, join, send in order | each client gets what it would get alone, in input order |
| **Snapshots and upgrade** `snapshot.rs`, runtime `BarrierUpgradeExecutor` | snapshots per station | capture, hook, restore | a restored station is coherent; a failed upgrade leaves no mixture |
| **Event queues, router, bridge** `event.rs`, runtime | critical, normal and best-effort queue per station | push, route, pump, drain | accepted events are delivered or counted, in order and not early |
| **Command dispatch and client bridges** runtime | none but statistics | dispatch, pump ingress, send, pump | a command reaches the queue its route names, once |
| **Deployment routes** runtime `deployment.rs` | nodes with capacity and heartbeat, station → node with epoch | register, heartbeat, drain, mark stale, assign, move, unassign, resolve | tables agree; an epoch names one placement |
| **Packet security** transport | keys with states and expiries, nonce counters, sliding window of nonces | insert, activate, retire, revoke, expire, seal, open | an envelope is opened once; a rotation loses nothing that is in time |
| **Transports** transport | registrations, addresses, bounded queues, budgets | register, send, receive | addresses and registrations agree, limits are kept |
| **Wire codec** `sectorsync-wire/src/lib.rs` | none | encode, decode, build a frame within a budget | what decodes encodes to the same; a frame is whole |
| **Client receive path** runtime `ReplicationReceiveBridge`, `ClientTransportBridge` | counters | visit, collect | frames meant for the client are handed over once, in order |
| **Benchmarks** `sectorsync-bench` | | | |

How they interact. The gateway admits a command and consumes its sequence
number; the pipeline pushes it into the queues of the station the session is
routed to, or into their barrier buffer, according to the state of the barrier;
or it dispatches it, along a deployment route, to the node that hosts the station.
The station applies commands through the facade, which keeps storage, index and
components together. Handoffs and splits move records between two facades; the
packets between stations travel over the reliable link, events over the event
bridge. Replication reads index, storage and components, hands a list of *handles*
to the encoder some time later, and stores what was sent for the next plan's
cadence. The frames reach the client through a budget, a box that seals them, and
the receive bridges.

Where it is hard:

* **Protocol order**: a handoff is four calls made on two stations by the
  application, with moves, removals, refreshes and other handoffs in between; a key
  is rotated by calls on two peers.
* **Stale state**: handles kept over the removal of their entity, plans (of
  splits, of replication) carried out after the world has changed, routes resolved
  before a station moves, deadlines left in heaps, ghost refreshes under way, query
  markers and range caches kept from the last call.
* **Networks**: loss, reordering, repetition, ACKs after the timeout, sends that
  fail although the link is up, endpoints that are registered again.
* **Partial failure**: passes that stop in the middle (split execution, retry
  passes, batches of plans, pumps, upgrades), with what was done before the error
  kept.
* **Bounded resources**: sequence windows, session tables, trackers, histories,
  queues, heaps that shed stale entries only now and then.

The hazards, each at its line, are in `PROJECT.json`.

## 2. Modules

| Module | Models | Builds on |
|---|---|---|
| `Ordered` | the members of a set in their order, the entries of a vector at some places, and the states a loop over a vector goes through: what loops that filter or fold and heaps that pop compute | |
| `Ordered_proofs` | lemmas about them, about lists without repetitions, about chains, and about what is left of a list without some of its entries | TLAPS |
| `Station` | slots, generations, free stack, id index, records; one operator per mutating method of `Station`, `restore` included | |
| `CellIndex` | the two maps of `CellIndex` and its upsert/remove by difference of memberships | |
| `CellQuery` | range queries with the scratch of their caller | `CellIndex`, `Ordered` |
| `ComponentStore` | registry, dense and sparse columns | `Ordered` |
| `StationRuntime` | the facade: each action is one call over storage, index and components; clients keep every handle they ever got | `Station`, `Ordered`, `CellIndex` |
| `StationRuntime_proofs` | theorems about it, `CellQuery` and `ComponentStore` | `Ordered_proofs`, TLAPS |
| `EntityAuthority` | abstract: an entity is held by one station or none and authority moves in one step | |
| `Handoff` | roles, epochs and transfers of any number of stations | implements `EntityAuthority` |
| `Handoff_proofs` | theorems about it, the implementation included | TLAPS |
| `ReliableChannel` | abstract: what a link promises the two applications | |
| `ReliableEndpoint` | sender and receiver halves of both reliable endpoints | `Ordered` |
| `ReliableLink` | the station endpoint over a network | `ReliableEndpoint`, implements `ReliableChannel` |
| `TransportHub` | the in-memory hub: registrations, addresses, bounded queues | |
| `ReliableClientLink` | the client endpoint over the hub | `ReliableEndpoint`, `TransportHub`, implements `ReliableChannel` |
| `ReliableLink_proofs` | theorems about both links, the implementations included | `Ordered_proofs`, TLAPS |
| `GatewaySessions` | the session table and the clients' commands | |
| `CommandQueues` | the queues of one station and their barrier buffer | `Ordered` |
| `CommandBarrier` | barriers, ticking stations, upgrades, and the way of a command with its answers | `CommandQueues` |
| `CommandBarrier_proofs` | theorems about it, `WireCodec` and `ClientLink` | `Ordered_proofs`, TLAPS |
| `StationRegistry` | the vectors of stations and indexes with their lookup map | |
| `SplitMigration` | samples, plan, execution with its errors, ownership table | `Ordered` |
| `Replication` | planner, cadence, encoder, sends, tracker | `Station`, `CellIndex`, `Ordered` |
| `BatchPlanning` | lanes, output slots and range caches of parallel planning, and the ordered sends | `Ordered` |
| `Clients_proofs` | theorems about `GatewaySessions`, `Replication` and `BatchPlanning` | `Ordered_proofs`, TLAPS |
| `EventQueues` | the event queues of one station | `Ordered` |
| `StationTransport` | the bounded transport between stations | |
| `StationEvents` | router, bridge, drain and application of events | `EventQueues`, `StationTransport` |
| `DeploymentRoutes` | nodes, placements and route epochs | |
| `CommandDispatch` | commands from the gateway to the nodes' queues while stations move | `DeploymentRoutes`, `CommandQueues`, `StationTransport` |
| `CommandDispatch_proofs` | theorems about it | `Ordered_proofs`, TLAPS |
| `PacketKeyRing` | a key ring | |
| `PacketSecurity` | two security boxes, the rotation of their keys, and the network between them | `PacketKeyRing` |
| `Deployment_proofs` | theorems about `StationEvents`, `PacketSecurity`, `SplitMigration` and `StationRegistry` | `Ordered_proofs`, TLAPS |
| `WireCodec` | encoders, decoders and the bounded frame builder | `Ordered` |
| `ClientLink` | barrier broadcasts over a budget to clients, and both receive bridges | `WireCodec` |
| `MC*` | values of the constants, symmetry, and compositions for TLC; the two reliable links need none, their runs name the modules themselves | |

Three MC modules put several components side by side: a variable `part`, chosen
in the initial state and never changed, says which of them a behaviour exercises.
The parts share no state, so nothing is lost by not interleaving them.
`MCStationRuntime` has the parts *Calls* (`StationRuntime`), *Queries* (`CellQuery`)
and *Components* (`ComponentStore`); `MCSplitMigration` has *Passes*
(`SplitMigration`) and *Lookups* (`StationRegistry`); both extend the modules they
put together, so the properties they check are those the theorems name. `MCClientPackets` has *Security*
(`PacketSecurity`), *Link* (`ClientLink`), *Batches* (`BatchPlanning`), and *Codec*, which
enumerates, unit by unit and entity by entity, what the decoders and the frame builder
of `WireCodec` are given; TLC leaves out the inputs that come together with a plan, since
no operator reads both.

Operators whose comment begins with *Mutated* stand beside the definition they
are a broken variant of and are used by no specification; they document which
bug the property named for them in `PROJECT.json` would catch.

### State and code

Where the code pops a heap or filters a vector, the model says which entries come out
and in which order (`InOrder`, `Sorted`, `Picked` of `Ordered`) instead of repeating
the loop. Where each turn of a loop depends on the turns before it, `Loop(Step, start,
entries)` is the function of the states before the first turn and after each; the
proofs follow it turn by turn (`LoopRuns`, `EveryTurn`), which they could not do with a
recursive operator.

**Station, StationRuntime.** `records`, `generations`, `free`, `by_id` are the
fields of `Station` of the same names; `entity_cells` and `cells` those of
`CellIndex`, a cell's collection as the sequence the swap-removal leaves;
`components` the keys of the blobs. `issued` remembers every handle given out
with the entity it was given out for, so that all later calls are also tried with
stale handles. `seen` remembers per handle the position at the last reset of the
transform bit. Generations saturate at the constant `MaxGeneration` as they do at
`u32::MAX` in the code; identity is claimed below saturation only. The cells a
position covers are the constant operator `Footprint`. `Upgrade` replaces the
station by one restored from its own snapshot, of which the hook may have dropped
and reordered records; all handles from before are given up with it.

**CellQuery.** `box` is history, the bounds each handle was upserted with, on a grid of
two axes with cells on both sides of the origin. `query_epoch`, `seen_dense` and `seen_collisions`
are the fields of the scratch: markers by slot index up to `MaxDense`, a set beyond,
and an epoch that wraps at `EpochLimit` (`u32` in the code). A query is a `Loop` over the
cells of its region, and inside it over the handles of a cell.

**ComponentStore.** `dense_columns` and `sparse_columns` are the two homes of a
component id; `blobs` is history, the map they should read as.

**Handoff.** Storage is abstracted to a map from ids to a role with its owner,
epoch and number of moves seen: that `get_by_id` is a function of the id is what
`IdIndexCoherent` proves one level below. `transfer` is the `HandoffTransfer` in
the driver's hands and the phase of its steps. `moves`, `late`, `lost` count moves
for `MovesAccounted`. The code leaves the following to the integration, because
no call can check it, and so does the model: an id is spawned only while nobody
owns it; an entity has one handoff open at a time, in order (repeated calls
allowed); a refresh comes from the holder and is not applied where the entity is
owned. `SpecDelayed` drops the last rule.

**ReliableEndpoint, ReliableLink, ReliableClientLink.** `in_flight`,
`in_flight_by_target`, `next_sequence`, `retry_deadlines`, `delivered_order` are
fields of sender and receiver. The two endpoints are two copies of one algorithm in
the code; `ReliableEndpoint` has the operators, and either link runs them over its
own transport. Ticks matter only as "due or not" and in the order of the heap, so
deadlines and last-sent ticks are kept as the ticks left. A pass of
`retry_due_into` is one step, with its early end at the first failing send. In
`ReliableLink` the network keeps frames in sets: losing, delaying, reordering and
(with `Duplicating`) repeating them are all steps; `down` holds the targets whose
`send_station` returns an error. In `ReliableClientLink` whether a send succeeds is
the hub's affair: queues are full, peers have left, come back under the same or
another's address (which loses their queue and evicts the other), or open their
endpoint in two steps with a registration of somebody else in between.

**GatewaySessions.** A session is the record of the code; the expiry heap is a
bag of (client, since), as all due entries are popped together; its size is the number
of its numbered entries (`HeapSize`), and `MaxHeap` the size at which `disconnect` has
compacted it. Every command
ever sent may arrive at any later time, any number of times.

**CommandQueues, CommandBarrier.** `queues[s]` has one sequence per priority and
the buffer; `active` and `frozen` are `BarrierController`'s barrier and phases;
`told` is history, the answers each command got. The application's loop, as
`docs/sdk-integration.md` describes it, is assumed: the ingress passed to the
pipeline is that of the active barrier, covered stations do not advance or apply
while frozen, buffers are released or cleared after resuming. It is *not* assumed
that a buffer is released before the next command comes in, that polls come on
time, or that the stations advance evenly. `MigrateFrozen` upgrades all frozen
stations or, when a hook fails for one of them, none.

**StationRegistry.** A vector, the map from id to position that is built when the
vector reaches the threshold, and removals that shift positions. Only the first of
two entries with one id is found.

**SplitMigration.** `Plan` is the sampling and the decision of one moment,
`ExecutePlanned` the whole pass as a `Loop` over its actions (`Execute`), including the
errors (missing station, missing index) that end it and keep what was done; `Migrated` is
one `migrate_entity` of it. Load is the
number of entities.

**Replication.** `PlanBatch` makes the plans of all viewers, `SendPlan(n)` sends
the first of them with `n` of its entities in the frame (what fits in bytes is not
known to the plan), `SendFails` is a transport error, which ends the batch; ticks,
pruning and clearing of a client act on `tracker`. Entities move, go, are
replaced in their slot and are marked clean at any time, also between plan and
send. `last_sent` is kept as an age that stops at the longest interval, where
every comparison the code makes is decided. The planner is `Found` (the handles of the
cells a viewer's range covers, each once), `FirstCell` and `Preference` (the keys its
candidates are compared by), `Sorted` and `Selected`. Assumed of the loop: one batch per
tick, sent plans are recorded by their sender, and, as `ViewerAssumption`, one viewer per
client in a batch.

**BatchPlanning.** `Begin` deals the batches out to lanes, `PlanNext(lane)` plans the
next batch of a lane into the slot of the same place, a `Loop` over its viewers with the
cache it finds in the slot, in any interleaving of the lanes; `Join` waits for all,
`SendNext` sends in input order and may fail. `frames_sent` are the packets of the call,
and what they are held against is `PlannedAlone`, the plans each viewer would get by
itself (`Joined` over the batches, `Total` for their numbers). `slots`
survive the call; between calls the world changes, so a range cached earlier would
be stale. What a viewer selects from its candidates is `Replication`'s subject.

**EventQueues, StationTransport, StationEvents.** `router[s]` holds the event
queues of a station or says that it is not registered, `inbox[s]` its packets.
`PumpTarget(s, max)` is a whole pump with its early end at the first refusal, which
loses the packet in hand; `DrainReadyEvents` is the drain of all stations with its
early end at an unregistered one, which keeps what was appended. Both are loops of
`Ordered`. `Due` and `Delayed` are the entries a queue hands over at a tick and keeps;
`applied` and `lost` are history.

**DeploymentRoutes, CommandDispatch.** `nodes` and `placements` are the two maps of the
table. Nodes register, send heartbeats, drain, go stale and come back; stations are
assigned, moved and unassigned, each move with a new epoch. `outbox` holds the
dispatch reports the application has still to send, each with the node its route
resolved to, wherever the station is by then. Assumed of the application, from
`docs/sdk-integration.md` and the example `gateway_deployment_dispatch`: it sends its
reports in order, and a node opens transport and queues of a station that is placed on
it and closes them, at two moments, once the station is placed elsewhere.

**PacketKeyRing, PacketSecurity.** `sender_ring` and `receiver_ring` map keys to their
state and ticks, `next_nonce` counts by key, `order` is the replay window. The network
delivers, repeats and reorders envelopes for `MaxDelay` ticks after they were sealed.
The order in which the two peers manage a key is assumed, from
`docs/production-adapters.md` and the example `secure_key_rotation`: the receiver has it
first, and it expires at the receiver `MaxDelay` after it expired at the sender;
retirements, reactivations, revocations and seals that fail happen at any time. `managed`
bounds these calls.

**WireCodec, ClientLink.** A frame is a sequence of units instead of bytes: one unit
stands for each fixed-size field, and blobs keep their lengths. The decoders are
written out, with every length check, bound and trailing-data check, because that is
what `CodecSound` is about. A `Cursor` is the number of units before it: `BytesEnd`,
`ComponentEnd` and `EntityEnd` say where it is after what they read, and one behind the
end of the input, which no later read brings back, is `Truncated`. The loops over counts are
`Ends`; what was read between two of its places are `ComponentAt` and `EntityAt`. `ClientLink` sends through `HasRoomFor` (the budget) and
lets other endpoints write anything into a client's queue; `Pump` and `PumpOwned` are
the visiting and the collecting call of each bridge.

## 3. Runs

| Run | Question | Bounds |
|---|---|---|
| `station_runtime` | Do storage, ids, index and components agree after any sequence of calls, stale handles and restores included? Does a query with a scratch used before answer exactly? Do columns read as one map? | Calls: 2 entities, 2 slots, 2 positions in 2 overlapping cells, generations 0..1. Queries: 3 handles (one slot twice), 2×2 cells of size 2, 3 boxes, 4 regions, dense markers up to slot 1, epoch wraps at 3. Components: 2 owners, component 1 dense and 2 sparse, 6 schemas that share ids and names, overlap or overrun |
| `handoff` | Does every interleaving of handoffs, migrations, moves, removals and refreshes keep one authority and lose no state? | 3 stations, 1 entity, epochs to 2, 2 moves; stations symmetric |
| `handoff_stale_refresh` | … and with refreshes that travel? (violated) | 2 stations, no moves |
| `reliable_link` | Does the link implement `ReliableChannel`, do its windows balance, does every packet settle? | 2 targets, 2 packets each, window 2, 2 attempts, history 2, multiple 1, duplicating network, one target may fail |
| `reliable_client_link` | … and over a hub that fills up and whose peers come and go? | 2 peers and the local client, 3 addresses, 3 registrations, queues of 1, 2 packets each, window 2, 2 attempts, history 2 |
| `gateway_sessions` | Are grace, capacity, replay and rate limits kept, and does expiry happen? | 2 clients for 1 place, 2 stations, grace 1, 5 ticks, 2 commands, 2 generations |
| `command_barrier` | Are accepted commands applied once, in order and eventually, are answers true, is a frozen barrier aligned and an upgrade all or nothing? | 1 client, 3 commands, 2 stations, queue limits 1, priorities High and Low, 1 barrier of each scope and mode, 1 upgrade |
| `split_migration` | Do plans that are late, repeated or failing keep one owner and the indexes? Do lookups find what the vectors hold? | Passes: 3 stations, 2 cells, 3 entities that may span both, passes of up to 2 actions. Lookups: 3 ids, up to 4 elements, threshold 3 |
| `replication` | Are only planned entities shown, at their cadence, within the tracker, and is everyone served whose viewer has no more entities waiting than its budget can serve in turn? | 2 viewers with budgets 1 and 2, tracker of 4, intervals 1 and 2, both modes, in one of two parts: 2 entities with every operation, or up to 3 entities that move while the loop is calm |
| `station_events` | Is every accepted event applied once, in order, not early, and eventually? | 2 events of any priorities and ticks, a local and a remote station that both come and go, limits 1 and 2, inboxes of 2, pumps of up to 2 |
| `command_dispatch` | Do the route tables agree, and is no command applied twice or by two nodes? | 2 symmetric nodes of capacity 1, 1 station, 2 commands, epochs to 2, 2 ticks with staleness at once, inboxes of 2, each host opens once |
| `client_packets` | What may happen to a client's packets, part by part? | Security: 2 keys, 2 packets, nonces to 2, window 1, 3 ticks, delay 1, at most 3 accepted. Link: 2 clients of which one checks its source, packets of up to 8 units, which an update of one entity just fits, queues of 2, 2 sent. Codec: inputs of up to 8 units of {0, 1, 2, 5} behind any kind; plans of up to 3 entities of 10 shapes, every budget to 15. Batches: 3 threads of 6, up to 4 batches of 3 or 4 viewers, 2 ranges of which 1 is cached, 2 worlds |

Why these bounds are enough for the cases that matter. Two slots and two
generations give a slot that is freed, taken by another entity and freed again
while handles of its first entity are around. An epoch that wraps at 3 makes a
query meet markers of the last round; a dense limit of 1 puts one slot with the
markers and the other in the collision set. Three stations and two epochs give a
handoff out of a station, one into it and a chain of two, which is where ghosts
could name each other. Two packets and a window and history of two make windows
fill and ACKs of earlier attempts arrive after the timeout; a queue of one makes the
hub refuse in the middle of a pass, and three registrations let a peer come back and
be evicted. Grace 1 in five ticks allows two whole disconnect–return–expire cycles
with deadlines of the first left in the heap. Three commands, limit 1 and two
priorities give a buffer whose release is blocked half-way. Three stations and two
actions allow a pass that fails after its first action and targets that are sources
of other passes; four elements over a threshold of three let the lookup map be built,
shifted and used. Two entities and a slot's second
occupant make six pairs of a client and a handle, so a tracker of 4 refuses plans. The
near viewer sends one entity a tick and each comes round every second tick: two waiting
entities are exactly what it can serve, three are more, and then one of them is starved.
So the boundary of `EveryoneServed` is crossed in both directions. Two events
against limits of one fill queues, and a station that leaves and returns finds packets
of its earlier life; both stations do so, hence the drain of all stations ends
at its first station as well as at its last. The one station of `command_dispatch` never
exhausts a node's capacity, so refused assignments are not among its cases; two epochs
leave frames of the first placement under way during the second. A window of one
entry slides with the second packet. Eight units hold a command, an acknowledgement, a
barrier and an update with a component, and everything that is one unit short or long.
Fewer batches than threads, as many and more give lanes of uneven length and slots that
stay from a longer call.

Deadlock is not checked in `command_barrier`, `station_events`, `command_dispatch` and
`client_packets`, where bounded ticks, sequence numbers, events, packets and inputs run
out together and the system stops; elsewhere some operation is always possible.

### Fairness

Safety is checked without any. The liveness properties assume what the embedding
loop does, and never that a network delivers:

* `reliable_link`: ticks go on and `retry_due` is called again and again
  (`WF(RetryDue)`, `WF(Tick)`), as `docs/sdk-integration.md` asks. `PacketsSettle`
  needs the transport to stop failing, which is a premise of the property. Liveness is
  not checked again for the client link, which runs the same operators.
* `gateway_sessions`: ticks go on and `expire_disconnected` is called.
* `command_barrier`: every station is advanced again and again, barriers are polled and
  resumed, buffers released, commands applied. The scheduler's bounded plan gives the
  first of these only if the application's limits let every station have its turn. A
  barrier that covers a removed station is the exception `BarrierFreezes` names: each
  poll fails, and nothing cancels it.
* `replication`: each tick plans, sends and prunes. `WF_planned` is the fairness
  of `PlanBatch` in either mode, the only action that sets `planned`. `EveryoneServed`
  has two premises. `Calm`: sends stop failing, no client leaves, frames have room for
  their plan and the tracker for its records, no entity is despawned, nothing is marked
  clean while a plan waits; section 5 has what goes wrong otherwise. And the load: the
  entity that waits has fewer rivals than the budget has turns before the cadence lets a
  rival be sent again (`Servable`). No code enforces either; an application that plans more
  entities for a viewer than this gives some of them up.
* `station_events`: pumps, drains, ticks and applications go on; `EventsSettle` lets an
  event end in any of the ways the code counts or reports. Only the drain of all stations
  is assumed to go on, not `drain_ready` station by station, so its premise for a station
  is that from some time on the router has every station drained before it.

## 4. Where code and documentation disagree

* **Stale refresh** (`handoff_stale_refresh`, `OwnerDemotedForOwner`).
  `Station::upsert_ghost` overwrites the role of an existing record without
  looking whether the station owns the entity or whether the refresh carries an
  older epoch. A refresh sent before a handoff and applied after it turns the only
  owner into a ghost. The README promises single-owner authority.

## 5. Observations

They shaped premises of properties, and are worth knowing; no property is claimed
against them.

Links and transports:

* A retry pass returns at its first failing send and puts the rest of the heap back:
  while one target fails, packets to targets behind it are neither retried nor timed
  out. Hence the premise of `PacketsSettle`.
* A receiver forgets sequence numbers beyond its history and then hands a
  retransmission over again. `ReliableDelivery` is claimed, and checked, for links
  whose history is not outgrown by the packets sent.
* A peer that restarts with a fresh `ReliableClientEndpoint` begins at sequence 1 and
  is suppressed as a duplicate by a receiver that remembers it.
* `pump_owned` loses frames it has already decoded and counted when a later packet of
  the same call is bad. `ReplicationReceiveBridge` and `ClientTransportBridge` on one
  endpoint take each other's frames. `expected_source` is `None` by default.
* A broadcast ends at the first client refused; clients before it have the frame.
* `drain_ready_events_into` returns at the first station of the set that the router does
  not have. As long as it is missing, no event of a station behind it is drained by that
  call, though those stations are registered and tick; and as the buffer is cleared
  at each call, the caller has to apply what an erring call left there. Hence the premise
  of `EventsSettle`; `drain_ready` of a single station is not affected.
* With a best-effort limit of 0 an event is accepted, dropped and reported as dropped.

Authority, storage and components:

* A station's owner epoch is set, not raised, by `commit_incoming_handoff`: after
  the commit of an older transfer the station reserves epochs it has reserved
  before. Epochs do not order handoffs of one entity among stations.
* Moves the source makes between `prepare_outgoing_handoff` and the commits are
  lost; `MovesAccounted` shows they are all that is lost.
* `commit_incoming_handoff` marks an adopted record's transform dirty, but not its
  tags; `TransformChangeMarked` speaks of transforms.
* Handles from before a restore may resolve to other entities after it, since
  generations begin at 0 again.
* Dirty blobs are cleared for all clients at once (`docs/sdk-integration.md` says when);
  copied components keep their dirty flag; a field of size zero inside another counts as
  an overlap.
* `StationSet` takes a second station of an id it has; only the first is ever found.

Replication:

* A frame ends at the first entity that does not fit, yet `record_plan_sent`
  records the plan as a whole. What was left out waits an interval, and an entity
  that is cut off each time is never shown: hence the first conjunct of `Calm`.
* Both selection modes look at the candidates in an order of their own, first fit in the
  order of the index and prioritised by distance and handle, and neither knows who has
  waited longest. Among more entities than budget times interval the first ones may fall
  due again just as the budget comes round to the others, which are never sent: three
  entities at one place, of which a viewer takes one a tick, each at most every second
  tick, are shown to it two by turns and the third never. Priority does not grow with
  waiting, and `min_hz` is no guarantee. Hence the load in `EveryoneServed`.
* A full tracker refuses a plan's records as a whole after the plan was sent; its
  entities are due again at once until pruning makes room. `CadenceKept` therefore
  speaks of what the tracker still knows, and `Calm` has a conjunct for it: with room for
  two records only, a viewer's refreshed records keep another one's out for ever, and
  that one is sent the same entity every tick.
* `ReplicationFrame::entity_count` is documented as the number of entity updates in the
  frame; it is the number of planned entities.

Gateway, barriers and routes:

* `admit_sequence` does not look at generations: an open connection of an earlier
  generation has its commands admitted beside the new one's.
* `connect_existing` assigns another station to a session that returns within its
  grace and leaves its route epoch alone.
* A command's acknowledgement says it was queued or sent, not that it will arrive: a
  dispatched command may still be lost. A command sent again after its acknowledgement
  was lost is answered `ReplayOrStale`, though the first was accepted (`AnswersTrue`
  speaks of the answers of one admission).
* `register_node` puts a node back online without a new epoch; an unassigned station
  begins at epoch 1 again when it is assigned; a node's capacity may drop below what it
  hosts; receivers do not compare epochs.
* The cells of a split action are assigned to the target before its migration,
  which may fail; later passes move nothing of cells the target already has.
  `execute_planned` returns at the first action that fails before it records those that
  succeeded: their sources are planned again inside the cooldown.

Security:

* An envelope whose cipher fails has already entered the replay window. `retire` of a
  revoked key makes it usable for receiving again. `RotationLossless` assumes that the
  receiver has a key before the sender uses it, that the old one expires at the receiver
  no earlier than the network's longest delay, and that the network drops what is later.

## 6. What is proved

TLAPS proves every safety property and action property of the passing runs; what remains
for TLC alone is liveness (see *Only model-checked*). The theorems are in seven modules;
`Ordered_proofs` has the lemmas most of them share. They hold for every value of the constants that satisfies the named
assumptions of the modules, which TLC evaluates in each run:

| Assumption | What it says |
|---|---|
| `StationAssumption`, `NoneAssumption`, `FootprintAssumption` | at least one slot; "none" is no record and no handle; a position covers cells of the index |
| `QueryAssumption`, `ComponentAssumption` | boxes and regions have a lower corner not above the upper one (`CellIndex` documents nothing else, and an inverted one is its caller's error); finitely many owners and components |
| `HandoffAssumption` | bounds are naturals; `Nobody` is no station |
| `EndpointAssumption`, `NoPacketAssumption`, `LinkAssumption` (of `ReliableLink`) | finitely many targets, which are numbers; windows and histories may be 0; the multiple is a positive constant of the code (4). Retry delay and attempts are at least 1: `ReliableStationConfig` takes any number (its defaults are 2 and 4), so a configuration with 0 for either is not covered |
| `HubAssumption`, `LocalAssumption` | queues may hold nothing; there is a registration to give out; `NoClient` is no client and no registration; the clients of the hub are the peers and the local client, which is none of them |
| `GatewayAssumption` | finitely many clients; at least one generation and epoch; `Connected` is no tick |
| `LimitsAssumption`, `BarrierAssumption` | queue limits are naturals, 0 included; only priorities with a queue are used |
| `DeploymentAssumption`, `NoRouteAssumption`, `DispatchAssumption`, `NoQueueAssumption` | finitely many stations; `MaxEpoch` at least 1, so that a first assignment has an epoch; a pump takes at least one packet; "not registered" is no queue |
| `EventAssumption`, `TransportAssumption`, `TrafficAssumption` | finitely many stations, which are numbers; limits are naturals; a pump takes at least one packet |
| `SplitAssumption`, `NobodyAssumption` | finitely many stations, cells and entities, stations and cells being numbers; `Nobody` is no station and no record, `NoSplit` no tick |
| `ReplicationAssumption`, `ViewerAssumption` | the rates and the radius are positive and the lower rate not above the higher; budgets and the tracker may be 0; positions are numbers and cover cells of the index; each client has one viewer |
| `CodecAssumption`, `LinkAssumption` (of `ClientLink`) | units, lengths and limits are naturals, limits of 0 included; a byte budget holds the header, which `encode_binary_bounded_into` demands; client ids are numbers. What other endpoints send may be anything; only a client that does not check its source gets no frame of theirs that names it, since nothing could tell it from the server's (`ForeignSend`) |
| `BatchAssumption` | threads and cached ranges may be 0, which the code raises to one thread and takes as no cache; a world answers every range of every station |
| `KeyRingAssumption`, `NoKeyAssumption`, `SecurityAssumption` | bounds are naturals, a replay history of 0 included |

Two theorems have a premise of their own: `ReliableDeliveryHolds` and
`ClientDeliveryHolds` assume `MaxSequence <= MaxHistory`, that a receiver's history holds
the numbers of a target. It is not a convenience: beyond its history the code hands a
retransmission over again (section 5), and the runs have the same premise in their bounds.
`LinkSoundHolds` and `HubSoundHolds` do without. A module of theorems about several
components stands under the assumptions of all of them, although each theorem uses only
those of its own; they constrain different constants and contradict nowhere.

Each proof has the same plan. The invariant the run checks is seldom inductive, so an
invariant that is, and implies it, is proved of the initial states and kept by each
action, one lemma for an action or an effect; PTL then puts the temporal theorem
together. TLC checked the strengthenings that were not obvious on the runs' instances
before they were proved. An action property or a refinement follows from one step under
the same invariant.

### `StationRuntime_proofs`

`StorageTypeCorrect`, `IdIndexAlwaysCoherent`, `FreeStackAlwaysExact`,
`HandleIdentityHolds`, `ComponentsAlwaysFollow`, `TransformChangeMarkedHolds`,
`IndexFollowsStationHolds`, for any number of entities, slots, generations, positions,
cells and components, and through restores.

The invariant of the first five is `IInv == StationInv /\ IssuedInv /\ ComponentsInv`.
Coherence of the id index and exactness of the free stack need each other: an insertion
takes the top of the stack and must know that no live record is there, and a removal
pushes a slot that must not be there yet. `HandleIdentity` is not inductive, since a
handle to a vacant slot says nothing about what the slot receives next. `IssuedInv`
strengthens it: a handle given out has a generation not above its slot's, and one of
the slot's *current* generation still has its entity there. The argument goes by
effect, not by action: every call is an update in place, an insertion of a fresh
record, a removal or a restore (`UpdateStep`, `InsertStep`, `RemoveStep`,
`RestoreKeepsInv`), and each action is reduced to one of these. A restore builds a
station whose slots are the positions of the snapshot; that the snapshot is without
repetitions is what makes its id index coherent.

`SeenInv` adds what each handle's observer has read, for `TransformChangeMarked`.
`PlaceInv == IndexInv /\ Placed` is what makes `IndexFollowsStation` inductive: the two
maps of the index are each other's inverse with no cell listing a handle twice, and a
handle is in exactly the cells of its entity's footprint if it resolves, in none
otherwise. The swap-removal and the append of a cell's collection are lemmas about
lists without repetitions (`RemovedEntry`, `AddedEntry`).

`QueriesExactHolds`, for any cells, boxes, regions and handles, every limit of the dense
markers and every epoch at which the counter wraps. `QueryInv` has the maps of the index,
that a handle is listed where its boxes are, and `ScratchInv`: no marker is of an epoch
yet to come, which is what a wrap that forgot to clear would break. A query is a loop in
a loop; its invariant is `Scanned(s, E, M)`: the markers of epoch `E` tell exactly the
handles `M` visited so far (`Tells`), and those that passed the test are listed once. That a
handle takes a slot's dense marker, its collision mark or a place in the sparse set
depends on who came first (`Claimed`), and one lemma per case shows that it is
told from the others. `OverlapShares` is the geometry: boxes that overlap share a cell.

`ComponentsSoundHolds`, for any schemas, owners and limit of the dense columns.
`ComponentInv` says that columns lie where their ids put them, that every entry is the
blob last written there, and that what is registered is valid, at its id and under a name
of its own. A write goes to one column (`ColumnsWritten`); that the iteration reads dense
columns, then sparse ones, as one table in the order of ids is `TabledJoined`.

### `Handoff_proofs`

`TypeCorrect`, `OwnerWindowHolds`, `NoForwardingCycleHolds`, `SingleAuthorityHolds`
(that the protocol implements `EntityAuthority`), `OwnerDemotedForOwnerHolds` and
`MovesAccountedHolds`, for any number of stations and entities.

The invariant is `HInv`: types and, for every entity, `RolesMatchPhase` (who may own
it in each phase of its handoff, and which end of the handoff has no ghost) and
`NoCycle`. The second half of `RolesMatchPhase` is what makes the absence of cycles
inductive: while a handoff is prepared its source is not a ghost, and from the switch on
its target is not, so a new ghost always points at a root that no ghost chain
leaves (`PointAtRoot`). A step of one entity leaves the others alone
(`UntouchedHolds`), so each action has one lemma about its own entity. For the
refinement, `HoldersAreOne` shows that `Holders(e)` has at most one member, and
`AuthorityStep` maps each change of it to `Appear`, `Hand` or `Vanish`. `MovesMatch`
strengthens `MovesAccounted` with what an open transfer carries: the version captured,
with the moves made since and those lost before, is all moves.

### `ReliableLink_proofs`

`LinkSoundHolds` and `ReliableDeliveryHolds` (that the link implements
`ReliableChannel`), for any finite set of targets and all limits.

`LinkInv` has the types, `WindowExact`, and what ties the window to the histories:
packets in flight are those the sender has told nothing of yet, and numbers not yet
allocated are unsent. `HeapInv` is about the retry heap. It says more than that no packet
in flight is forgotten: the heap has *one* entry per packet at most, in the order of
ticks (`Heap`), and for a packet in flight that entry carries its last-sent tick. So
the entries a pass drops, which are due, are of packets it sends again, of those it gives
up, and of settled ones, and a packet it sends again has no other entry left
(`PassedHeap`). That a push goes behind the earlier ticks and among its own is
`ScheduledHeap`. The bound on stale entries is not inductive without the windows:
only an ACK that does not compact makes an entry stale, and then there are at most
`Multiple - 1` times the packets still in flight, of which there are at most as many as the windows
hold (`CompactedHeap`, `InFlightFew`); every other step leaves the stale entries or
drops some.

`DeliveryInv` adds, for the refinement, that a receiver remembers exactly the packets it
handed over (`RoomToRemember` is where the premise on the history enters), that only
packets sent are under way, and ACKs only of packets handed over. `DeliveryStep` maps
each step to a step of the channel, a pass to `TimeOut` of the packets it gives up.

`HubSoundHolds` and `ClientDeliveryHolds` are the same for the client endpoint over the
hub, for any finite set of peers, any addresses and capacities of the queues. Sender and
receiver are the operators of `ReliableEndpoint`, so their lemmas are used again; what is
new is the hub. `HubState` says that whoever is registered has a queue within the limit
and that addresses and clients lead to each other; opening under an address of
another's evicts it, which is where the second half is at stake. A pass sends to many
peers and ends at the first full queue, so what it does to the hub is stated of all
queues at once (`Enqueued`, `QueuesChange`). For the refinement, `HubFrames` says what
`FramesTrue` says of the network: only packets sent are queued for a peer, only packets
handed over for the sender.

### `Clients_proofs`

`DisconnectedTrackedHolds` and `SessionsKeptHolds`, for any number of clients and
stations and every limit.

`SessionInv`: types, the limits of the table and of the heap, that a disconnected
session has *its own* deadline in the heap (`DeadlineKept`), and that a session has
counted all commands admitted in the current tick (`AdmittedCounted`). The last one
needs its second half: a session that is dropped and made anew in one tick would
forget its count, were it not that its grace began before the tick. That compaction
keeps the heap within `MaxHeap` is a count of the entries it keeps, one per
disconnected session.

`FrameShowsPlannedHolds` and `CadenceKeptHolds`, for any viewers, entities, slots, cells,
budgets, rates and limit of the tracker. The plans of a batch wait while the world goes
on, so `ReplicationInv` is mostly about what waits. `PlansCurrent`: a handle in a plan
means one of the entities the plan was made for, or nothing ever again, because its
slot's generation only grows. A record inserted takes a slot whose generation is
beyond all handles to it, for which `FreeStackExact` is needed again. `PlansDue` and
`PlansApart`: what a plan is about is due to its client and stays so until it is sent,
as no other plan of the batch is for that client; ages only grow between, and the clearing
or pruning of a client drops entries. From there both properties are those of one step.

`BatchAsAloneHolds`, for every number of threads, viewers, ranges, stations and calls: the
packets and the counters of a parallel call are those of planning each viewer alone, in
the order of the input, whatever the lanes' interleaving and whatever an earlier call
left in the slots. Inside a batch the loop invariant is `Planning`: the cache
of the slot has answers of this station only, each the one the index gives
(`CacheSound`), and the plans up to the turn are those made alone. Across lanes,
`BatchInv` says of each slot whose turn has come that it is planned (`LanesDone`); since
slots are those of a chunk, `NextInChunk` and `SomeLane` are the arithmetic that no slot
is written by two lanes and none is left out (`DealtOut`). When all is joined, `AllPlanned`
puts the slots together (`OutgoingAlone`, `StatisticsAddUp`).

### `CommandBarrier_proofs`

`BarrierSoundHolds`, `AnswersTrueHolds`, `AcceptedInOrderHolds`, for any number of
stations and clients, every order of polls, steps, resumes and upgrades, and every
sequence of commands and repetitions.

`BarrierInv` adds that stations are reported frozen for the active barrier only.
`AnswerInv` adds `UnspentUnknown`: a number above the last admitted one has been told no
answer and taken by no station. `QueuesInv` is the invariant of the queues: for each
station, what it applied, each ready queue and the buffer are chains of one relation on
commands, and what was applied precedes what waits (`QueueOrder`). The relation is
"different commands, and in the order of their numbers for one client and priority"
(`InSequence`), or just "different" for a station that let a command overtake its
buffer (`overtaking`). Pushing, popping, buffering, releasing and clearing are proved once
for any relation that does not order commands of different priorities; a release moves
the picked entries of the buffer behind each ready queue (`ChainPicked`, `ChainConcat`).

`CodecSoundHolds`, for inputs and plans of any length, all limits and every budget that
holds the header; its invariant is only that inputs are units and plans entities
(`CodecTypes`), the work is in the operators. Cursors never go back (`WalkForward`), and
a part of an input is read, from a cursor moved by where it begins, as the whole is
(`Window`, `ComponentShift`, `EntityShift`): so the borrowed decoder, which reads the
validated bytes from 0, sees what the owned one saw from 3. What lies between two cursors is
the encoding of what was read there (`ComponentBack`, `EntityBack`, `EntitiesBack`), and the
parts make up the input (`JoinedParts`). An input cut short ends before some
cursor does, or the last one is not at its end (`NoPrefix`). `RoundTripsHold` puts this
together, one lemma for each frame kind. For the bounded encoder, `BoundedRun` is the
invariant of its loop: what is written so far is the header and the first entities the
builder would take, and it has stopped only if the next one is too much;
since each entity makes the frame longer (`GrowsLonger`), what is left out would not fit.

`FramesHandedHolds`, for any number of clients and any limits of queues, packets and
pumps. `LinkInv` says of each client that it is `Settled`: the frames sent to it are all
different, since each call has a number of its own, the lost ones are among them, and those
sent, without the lost ones, are those handed to it followed by those still in its queue.
A pump takes a run of packets that pass and at most one that does not. What passes at a
client that checks its source is the server's, and at one that does not, what others send
never passes (`ForeignUnusable`); the server's frames come out of their encoding
(`FramesBack`) and pass the mixed bridge (`ServerUsable`), so that its visitor pump can
stumble only over packets of others. That removing lost frames from the middle of a list leaves
the others in order is `MiddleOut` and `NothingLeft` of `Ordered_proofs`.

### `CommandDispatch_proofs`

`RoutesTrueHolds`, for any number of nodes, clients and commands and any finite set of
stations.

`RouteInv` adds `DeliveriesKnown` to the property: a delivery is of an earlier life of its
station, or the station still has the delivery's route or one with a later epoch. Two
deliveries of one epoch are then of one route. `PlacementCoherent` counts the stations
placed on a node, so every change of the table has a lemma about that count.

`DispatchedOnceHolds`, under the same assumptions and for any capacities of the queues
and transports. The commands of one host (a node and a station) are in its transport, its ready
queues, or applied, and the argument follows the relation `InSequence` again: each of
these lines is a chain, what was applied precedes what waits in a queue, and that what
waits in the transport (`HostOrder`); what a host has precedes the reports still to be
sent (`InOnePlace`). The order is what makes the property inductive: `send_envelope`
puts a command at the end of a transport that may be of another node than the one before,
and only the numbers, which `admit_sequence` lets grow, say that nobody has it yet. The
rest of `FlowInv` is that the commands dispatched are those found in some place
(`Accounted`), and that a delivery's number has been spent (`NumbersSpent`). The pump has a
lemma of its own (`PumpKeepsOrder`): it takes a prefix off the transport, queues a prefix
of that by priority, and loses at most the one command behind it.

### `Deployment_proofs`

`ReplaysSuppressedHolds` and `RotationLosslessHolds`, for any set of keys and packets,
every size of the history and every delay.

`ReplayInv` adds that a stamp stands for one envelope, those to come being new
(`StampsUnique`), and that the replay window is the end of the sequence of envelopes let
through (`HistoryRecent`). `RotationInv` adds that the receiver's ring is in step with
the sender's, key by key (`KeyInStep`), and that what is under way was sealed early
enough to arrive before its key expires (`UnderWay`).

`EventsKeptHolds`, for any stations, limits, batches and sizes of a pump, and stations
that leave and come back (it is proved for `EventsSpec`, which the run's specification
with fairness implies). Its invariant says twice where events are: as sequences, each queue, inbox and
buffer bounded and a chain of "sent before, or due before" (`InboxSound`, `RouterSound`,
`BufferSound`, `AppliedSound`), and as sets, that applied events, the buffer, the router and
the transport hold each event ever sent once, or it is among the lost (`Flow`), and what is
further on the way may go first (`InStages`). The second form is what the lemmas about
effects speak of: something joins or leaves one place. A pump and a drain are loops with
an early end; `PumpSound` and `DrainSound` are their invariants, in which the packet in
hand of a refused push goes to the lost, and what a drain appended before it met an
unregistered station stays.

`EntitiesPlacedHolds` and `VacatedCellsHolds`, for any stations, cells and entities and any
plan that is late, repeated, or fails in the middle. Between calls (`SplitInv`) the indexes
follow the records and each entity has one owner, which a migration keeps for whatever
entity, cell and target; a plan is sound in itself (`PlanSound`: targets are not sources),
however old. The turns of the pass keep `PassAt`: that, the cells no action has named
yet have their owners, and what the actions done took has left their sources. An action
with a cell that somebody else took is where the second part is needed for the third.

`LookupsAgreeHolds`, for vectors of any length and any threshold: the map is off, or has
the *first* position of each id (`Indexed`), which insertion at the end keeps and a
removal re-establishes by rebuilding.

### Only model-checked

| Property | Why |
|---|---|
| `PacketsSettle`, `DisconnectedSettles`, `BarrierFreezes`, `AcceptedApplied`, `EveryoneServed`, `EventsSettle` | liveness under fairness, which needs `ENABLED` |

What a loop over a vector computes is proved by induction along its turns
(`Ordered_proofs`); no other induction over data was needed.

## 7. What is not modelled

* **Benchmarks** (`sectorsync-bench`): a load generator with its examples, nearly half
  of the repository's lines; `secure_key_rotation.rs` alone is read, for the order of the
  calls of a rotation. Another sixth of the lines are unit tests inside the library's
  files. The share of all lines that the map covers is small for that reason; of the
  library's own code, what is left out is listed here.
* **UDP transports**: sockets are I/O. Their two tables are registered like the hub's,
  whose `AddressesExact` is checked. **BudgetedTransport**: the byte budget of a batch,
  which only benchmarks send.
* **Encodings below a frame**: reliable-link and security envelopes, what component
  codecs and the schema hash compute, and the cipher, which is a hook of the
  application.
* **Acknowledgement ticks in the tracker** (`last_acked`), which nothing reads, several
  sync policies at once, and visibility filters other than radius and eligibility.
* Statistics, error texts, accessors, retained capacities, byte and tick-cost estimates,
  tick metrics, `map_ordered` of the thread pool, which only the benchmarks use.

The one hazard no property covers has a note in `PROJECT.json` that says why: the code
and its documents promise nothing there.

## 8. Plan

Done: all components but the benchmarks and the UDP sockets are modelled, those the
component list calls *partly* with the exceptions of section 7; all safety and action
properties of the passing runs are proved.

Left: the liveness properties, which the prover does not reach, stay with TLC, and the
bounds of the runs can grow with the time they are given.

Runs are to be extended before new ones are added: a component that can be
checked inside an existing composition gets its properties there.
