---------------------------- MODULE CommandBarrier ----------------------------
(***************************************************************************)
(* Client commands on their way to the stations while the runtime is       *)
(* paused, upgraded and resumed: GatewayClientTransportBridge,             *)
(* GatewayCommandPipeline, BarrierController, BarrierUpgradeExecutor,      *)
(* StationScheduler and StationSet of crates/sectorsync-runtime/src/lib.rs *)
(* over the command queues of each station.                                *)
(*                                                                         *)
(* The library leaves the loop to the embedding application.  Assumed of   *)
(* it, from docs/sdk-integration.md (5. Handle Barriers Explicitly):       *)
(*   - the ingress it passes to the pipeline is the state of the active    *)
(*     barrier, or RUNNING;                                                *)
(*   - while the barrier is frozen it advances no station the barrier      *)
(*     covers and applies none of its commands;                            *)
(*   - it releases or clears the barrier buffers after it has resumed.     *)
(*                                                                         *)
(* Of the gateway only the check of sequence numbers is kept (see          *)
(* GatewaySessions); a client's route may change between two commands, and *)
(* a client that got no answer may send a command again.                   *)
(***************************************************************************)
EXTENDS CommandQueues

CONSTANTS
    Stations,       \* station ids, as numbers: poll visits them in order
    Removable,      \* stations that may be removed from the StationSet
    MaxTick,        \* bound on ticks (u64)
    MaxBarriers,    \* bound on the number of barriers
    MaxUpgrades,    \* bound on the upgrades of a station
    Modes,          \* command modes the application asks for
    Routed,         \* stations that clients are routed to
    Used,           \* priorities of their commands
    NoBarrier

ASSUME BarrierAssumption ==
    /\ Stations \subseteq Nat
    /\ Removable \subseteq Stations
    /\ {MaxTick, MaxBarriers, MaxUpgrades} \subseteq Nat
    /\ Modes \subseteq {"Buffer", "Reject", "Drain"}
    /\ Routed \subseteq Stations
    /\ Used \subseteq {p \in Priorities : Limits[p] > 0}

Barrier ==
    [covered : (SUBSET Stations) \ {{}},
     target_tick : 0 .. MaxTick, mode : Modes,
     state : {"WaitingTickBoundary", "Frozen"}]

\* What an ACK frame says of a command (its reason code).
Answers == {"Accepted", "QueueFull", "BarrierRejected"}

VARIABLES
    stations,        \* ids in the StationSet
    tick,            \* station -> tick
    active,          \* the controller's barrier, or NoBarrier
    frozen,          \* covered stations whose phase is Frozen
    barriers,        \* number of barriers requested so far
    version,         \* station -> upgrades its state has gone through
    reported,        \* history: station -> upgrades reported as done that cover it
    queues,          \* station -> command queues
    last_sequence,   \* client -> last sequence number the gateway admitted
    accepted,        \* history: commands acknowledged as accepted, by station
    applied,         \* history: station -> commands popped, in order
    dropped,         \* history: commands cleared from a barrier buffer
    overtaking,      \* history: stations that took a command past their buffer
    told             \* history: (client, sequence) -> answers the pipeline gave to it

controller == <<active, frozen, barriers>>
upgrades == <<version, reported>>
commands == <<queues, last_sequence, accepted, applied, dropped, overtaking, told>>
vars == <<stations, tick, controller, upgrades, commands>>

\* Queues, barrier and histories keep their types, and no queue outgrows its
\* priority's limit, released buffers included.
TypeOK ==
    /\ stations \subseteq Stations
    /\ tick \in [Stations -> 0 .. MaxTick]
    /\ active \in Barrier \cup {NoBarrier}
    /\ frozen \subseteq Stations
    /\ barriers \in 0 .. MaxBarriers
    /\ {version, reported} \subseteq [Stations -> 0 .. MaxUpgrades]
    /\ queues \in [Stations -> Queues]
    /\ \A s \in Stations : Bounded(queues[s])
    /\ last_sequence \in [Clients -> 0 .. MaxSequence]
    /\ accepted \subseteq Stations \X Command
    /\ applied \in [Stations -> Seq(Command)]
    /\ dropped \subseteq Stations \X Command
    /\ overtaking \subseteq Stations
    /\ told \in [Clients \X (1 .. MaxSequence) -> SUBSET Answers]

Init ==
    /\ stations = Stations
    /\ tick = [s \in Stations |-> 0]
    /\ active = NoBarrier
    /\ frozen = {}
    /\ barriers = 0
    /\ version = [s \in Stations |-> 0]
    /\ reported = [s \in Stations |-> 0]
    /\ queues = [s \in Stations |-> EmptyQueues]
    /\ last_sequence = [c \in Clients |-> 0]
    /\ accepted = {}
    /\ applied = [s \in Stations |-> <<>>]
    /\ dropped = {}
    /\ overtaking = {}
    /\ told = [x \in Clients \X (1 .. MaxSequence) |-> {}]

IsFrozen == active # NoBarrier /\ active.state = "Frozen"

Paused == IF IsFrozen THEN active.covered ELSE {}

\* CommandIngress of the active barrier, or RUNNING.
Ingress ==
    IF active = NoBarrier THEN [state |-> "Running", mode |-> "Buffer"]
    ELSE [state |-> active.state, mode |-> active.mode]

-----------------------------------------------------------------------------
(* Barrier controller. *)

\* request over the stations in scope: one station, or the whole instance.
RequestBarrier(covered, target, mode) ==
    /\ active = NoBarrier
    /\ barriers < MaxBarriers
    /\ covered # {} /\ covered \subseteq stations
    /\ active' = [covered |-> covered,
                  target_tick |-> target, mode |-> mode, state |-> "WaitingTickBoundary"]
    /\ frozen' = {}
    /\ barriers' = barriers + 1
    /\ UNCHANGED <<stations, tick, upgrades, commands>>

Missing == active.covered \ stations

\* Stations poll gets to before it returns MissingStation.
Visited == {s \in active.covered : \A x \in Missing : s < x}

\* Mutated: a station is ready on the target tick only.
ReadyOnTick(s) == tick[s] = active.target_tick

Ready(s) == tick[s] >= active.target_tick

\* Mutated: one ready station is enough.
AlignedSome == Missing = {} /\ \E s \in active.covered : Ready(s)

Aligned == Missing = {} /\ \A s \in active.covered : Ready(s)

\* poll of a barrier that is not frozen yet.
Poll ==
    /\ active # NoBarrier /\ active.state = "WaitingTickBoundary"
    /\ frozen' = frozen \cup {s \in Visited : Ready(s)}
    /\ active' = IF Aligned THEN [active EXCEPT !.state = "Frozen"] ELSE active
    /\ UNCHANGED <<stations, tick, barriers, upgrades, commands>>

\* resume.
Resume ==
    /\ IsFrozen
    /\ active' = NoBarrier
    /\ frozen' = {}
    /\ UNCHANGED <<stations, tick, barriers, upgrades, commands>>

\* export_snapshots is refused otherwise, with NotFrozen or MissingStation.
Exportable == IsFrozen /\ Missing = {}

\* Mutated: each station is replaced as soon as its own snapshot is restored.
RestoredSoFar(invalid) == {s \in active.covered : \A x \in invalid : s < x}

\* What migrate_frozen replaces when restore refuses the migrated snapshots of
\* the invalid stations: all covered stations once all are restored, or none.
Restored(invalid) == IF invalid = {} THEN active.covered ELSE {}

\* migrate_frozen: export_snapshots, the hook and restore for each station.  The
\* hook is the application's; one that migrates well gives back a snapshot of the
\* same station and tick.
MigrateFrozen(invalid) ==
    /\ Exportable
    /\ invalid \subseteq active.covered
    /\ \A s \in active.covered : version[s] < MaxUpgrades
    /\ version' = [s \in Stations |-> IF s \in Restored(invalid) THEN version[s] + 1
                                      ELSE version[s]]
    /\ reported' = [s \in Stations |->
                       IF invalid = {} /\ s \in active.covered THEN reported[s] + 1
                       ELSE reported[s]]
    /\ UNCHANGED <<stations, tick, controller, commands>>

\* advance_all, and advance_loaded_into of the stations it selects: both look
\* at no barrier.
Advance(selected) ==
    /\ selected # {} /\ selected \subseteq stations
    /\ selected \cap Paused = {}
    /\ \A s \in selected : tick[s] < MaxTick
    /\ tick' = [s \in Stations |-> IF s \in selected THEN tick[s] + 1 ELSE tick[s]]
    /\ UNCHANGED <<stations, controller, upgrades, commands>>

\* StationSet::remove; the station's command queues stay where they are.
RemoveStation(s) ==
    /\ s \in Removable \cap stations
    /\ stations' = stations \ {s}
    /\ UNCHANGED <<tick, controller, upgrades, commands>>

-----------------------------------------------------------------------------
(* Commands. *)

\* The answer to a command the queues of its station refuse or take.
QueueAnswer(q, command) ==
    IF Accepts(q, command, Ingress) THEN "Accepted"
    ELSE IF Ingress.state \in Closed /\ Ingress.mode # "Buffer" THEN "BarrierRejected"
    ELSE "QueueFull"

\* Mutated: a command that is refused leaves its number to the next try.
SpentIfAccepted(c, sequence, answer) ==
    IF answer = "Accepted" THEN [last_sequence EXCEPT ![c] = sequence] ELSE last_sequence

\* admit_command spends the number before the queue has its say.
Spent(c, sequence, answer) == [last_sequence EXCEPT ![c] = sequence]

\* process_command_frame of an admitted command routed to s.
ProcessCommandFrame(command, s, answer) ==
    IF answer = "Accepted"
    THEN /\ queues' = [queues EXCEPT ![s] = Pushed(@, command, Ingress)]
         /\ accepted' = accepted \cup {<<s, command>>}
         /\ overtaking' = IF active = NoBarrier /\ queues[s].barrier_buffer # <<>>
                          THEN overtaking \cup {s} ELSE overtaking
    ELSE UNCHANGED <<queues, accepted, overtaking>>

\* pump_ingress of one packet.  Whether the bridge then succeeds in sending the
\* ACK changes nothing here: nobody sends it later.  A number the gateway has seen
\* or passed is answered ReplayOrStale, and nothing else happens.
PumpIngress(c, sequence, priority, s) ==
    LET command == [client |-> c, sequence |-> sequence, priority |-> priority]
        answer == QueueAnswer(queues[s], command)
    IN /\ sequence > last_sequence[c]
       /\ last_sequence' = Spent(c, sequence, answer)
       /\ told' = [told EXCEPT ![<<c, sequence>>] = @ \cup {answer}]
       /\ ProcessCommandFrame(command, s, answer)
       /\ UNCHANGED <<stations, tick, controller, upgrades, applied, dropped>>

\* release_barrier_buffer after a resume.
ReleaseBarrierBuffer(s) ==
    /\ active = NoBarrier
    /\ queues[s].barrier_buffer # <<>>
    /\ queues' = [queues EXCEPT ![s] = Released(@)]
    /\ UNCHANGED <<stations, tick, controller, upgrades, last_sequence, accepted, applied,
                   dropped, overtaking, told>>

\* clear_barrier_buffer after a resume.
ClearBarrierBuffer(s) ==
    /\ active = NoBarrier
    /\ queues[s].barrier_buffer # <<>>
    /\ queues' = [queues EXCEPT ![s] = Cleared(@)]
    /\ dropped' = dropped \cup ({s} \X ToSet(queues[s].barrier_buffer))
    /\ UNCHANGED <<stations, tick, controller, upgrades, last_sequence, accepted, applied,
                   overtaking, told>>

\* The station applies its next command.
PopNext(s) ==
    /\ s \notin Paused
    /\ CanPop(queues[s])
    /\ queues' = [queues EXCEPT ![s] = Popped(@)]
    /\ applied' = [applied EXCEPT ![s] = Append(@, NextCommand(queues[s]))]
    /\ UNCHANGED <<stations, tick, controller, upgrades, last_sequence, accepted, dropped,
                   overtaking, told>>

Next ==
    \/ \E covered \in {stations} \cup {{s} : s \in stations},
          target \in 0 .. MaxTick, mode \in Modes :
             RequestBarrier(covered, target, mode)
    \/ Poll
    \/ Resume
    \/ \E invalid \in SUBSET Stations : MigrateFrozen(invalid)
    \/ \E selected \in SUBSET stations : Advance(selected)
    \/ \E c \in Clients, n \in 1 .. MaxSequence :
          \E p \in Used, s \in Routed : PumpIngress(c, n, p, s)
    \/ \E s \in Stations :
          \/ RemoveStation(s)
          \/ ReleaseBarrierBuffer(s)
          \/ ClearBarrierBuffer(s)
          \/ PopNext(s)

Spec == Init /\ [][Next]_vars

\* The control loop keeps advancing stations, polling, resuming, releasing the
\* buffers and applying commands.
Fairness ==
    /\ \A s \in Stations : WF_vars(Advance({s})) /\ WF_vars(PopNext(s))
    /\ \A s \in Stations : WF_vars(ReleaseBarrierBuffer(s))
    /\ WF_vars(Poll)
    /\ WF_vars(Resume)

FairSpec == Spec /\ Fairness

-----------------------------------------------------------------------------
(* Properties. *)

Queued(s) == Held(queues[s])

\* A command acknowledged as accepted is in the station's queues, was applied
\* once, or was cleared on purpose: none is lost or applied twice, whatever
\* barriers it went through and however often a release was blocked; no queue
\* outgrows its limit (TypeOK).
AcceptedConserved ==
    /\ TypeOK
    /\ \A s \in Stations :
          LET done == applied[s]
          IN /\ {<<s, x>> : x \in Queued(s) \cup ToSet(done)} \cup
                   {e \in dropped : e[1] = s} = {e \in accepted : e[1] = s}
             /\ IsInjective(done)
             /\ Queued(s) \cap ToSet(done) = {}

\* Stations are reported frozen at or past the target tick only, and the barrier
\* is frozen, ready for snapshots, only when all it covers are, in whatever order
\* they advanced and were polled.
FrozenReached ==
    /\ \A s \in frozen : tick[s] >= active.target_tick
    /\ IsFrozen => frozen = active.covered

\* An upgrade leaves no mixture: the states of stations have gone through exactly
\* the upgrades that were reported as done, whatever stations a barrier covered
\* and whichever snapshot was refused.
UpgradedWhole == version = reported

\* Both hold of every barrier, which is what its caller relies on while it is
\* frozen.
BarrierSound == FrozenReached /\ UpgradedWhole

\* A client can rely on the ACKs that reach it, however often it sends a command
\* again: one that was accepted was so once, by one station, and one that was
\* refused for good reason never is.  (ReplayOrStale alone tells it nothing: the
\* ACK of an accepted command may have been lost before.)
AnswersTrue ==
    \A c \in Clients, n \in 1 .. MaxSequence :
        LET takers == {e \in accepted : e[2].client = c /\ e[2].sequence = n}
        IN /\ Cardinality(takers) <= 1
           /\ "Accepted" \in told[<<c, n>>] => takers # {}
           /\ told[<<c, n>>] \ {"Accepted"} # {} => takers = {}

\* Commands of one client and priority are applied by a station in the order of
\* their sequence numbers, through pauses and blocked releases, as long as the
\* station took no new command before its barrier buffer was released.
ClientOrder ==
    \A s \in Stations \ overtaking : \A i, j \in DOMAIN applied[s] :
        LET a == applied[s][i]
            b == applied[s][j]
        IN i < j /\ a.client = b.client /\ a.priority = b.priority
              => a.sequence < b.sequence

\* Accepted commands are neither lost, doubled nor put out of order.
AcceptedInOrder == AcceptedConserved /\ ClientOrder

\* A requested barrier freezes, unless one of its stations is removed meanwhile
\* (it then waits for ever, and no other barrier can be requested).
BarrierFreezes ==
    active # NoBarrier ~> active = NoBarrier \/ IsFrozen \/ Missing # {}

\* An accepted command does not wait for ever, not even in a barrier buffer.
AcceptedApplied ==
    \A s \in Routed : \A x \in {y \in Command : y.priority \in Used} :
        x \in Queued(s) ~> x \notin Queued(s) \/ (active # NoBarrier /\ Missing # {})
=============================================================================
