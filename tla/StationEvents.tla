---------------------------- MODULE StationEvents ----------------------------
(***************************************************************************)
(* Events on their way between stations: StationEventTransportBridge,      *)
(* EventRouter and the draining side of StationScheduler                   *)
(* (crates/sectorsync-runtime/src/lib.rs) over the bounded transport and   *)
(* the priority queues of each target.                                     *)
(*                                                                         *)
(* send_event builds the packet from the event, so the two cannot disagree *)
(* about the endpoints.  The station transport also carries the command    *)
(* frames of CommandDispatchTransportBridge: here a frame that is not an   *)
(* event.                                                                  *)
(*                                                                         *)
(* Assumed of the embedding application: events for stations of its own    *)
(* process go straight to the router, others through the transport; it     *)
(* applies the events of a drain that succeeded before it drains again,    *)
(* and after one that failed drains all stations again or applies what it  *)
(* got.  Each event is sent once: again only if the call returned an       *)
(* error.                                                                  *)
(***************************************************************************)
EXTENDS EventQueues, StationTransport

CONSTANTS
    Sendable,     \* priorities that are sent
    Local,        \* stations of this process, reached without the transport
    MaxPackets,   \* bound on max_packets of a pump
    Detachable,   \* stations that are registered and unregistered
    Foreign       \* a packet that is not an event frame

ASSUME TrafficAssumption ==
    /\ Sendable \subseteq Priorities
    /\ Local \subseteq Targets
    /\ MaxPackets \in Nat \ {0}
    /\ Detachable \subseteq Targets
    /\ Foreign \notin Event

Packet == Event \cup {Foreign}

\* A station without queues is not one with empty queues.
ASSUME NoQueueAssumption == NoQueue \notin Seq(Packet) /\ NoQueue \notin Queues

VARIABLES
    tick,      \* station -> tick
    inbox,     \* station -> packets of the transport, or NoQueue
    router,    \* station -> event queues of the router, or NoQueue
    events,    \* the caller's buffer of drain_ready_events_into
    failed,    \* the drain that filled it returned an error
    sent,      \* number of events sent or routed so far
    applied,   \* history: station -> events applied, in order
    lost       \* history: events lost on the way, with the cause

eventVars == <<tick, inbox, router, events, failed, sent, applied, lost>>

Cause == {"refused", "evicted", "unregistered", "cleared"}

EventsTypeOK ==
    /\ tick \in [Targets -> 0 .. MaxTick]
    /\ \A s \in Targets :
          /\ IsRegistered(inbox, s) =>
                inbox[s] \in Seq(Packet) /\ Len(inbox[s]) <= MaxQueued
          /\ IsRegistered(router, s) =>
                /\ router[s] \in Queues
                /\ \A p \in Reliable : Len(router[s][p]) <= Limits[p]
                /\ Len(router[s]["BestEffort"]) <=
                      (IF Limits["BestEffort"] = 0 THEN 1 ELSE Limits["BestEffort"])
    /\ events \in Seq(Event)
    /\ failed \in BOOLEAN
    /\ sent \in 0 .. MaxEvents
    /\ applied \in [Targets -> Seq(Event)]
    /\ lost \subseteq Event \X Cause

EventsInit ==
    /\ tick = [s \in Targets |-> 0]
    /\ inbox = [s \in Targets |-> <<>>]
    /\ router = [s \in Targets |-> EmptyQueues]
    /\ events = <<>>
    /\ failed = FALSE
    /\ sent = 0
    /\ applied = [s \in Targets |-> <<>>]
    /\ lost = {}

\* Events found in a sequence of packets.
EventsOf(packets) == ToSet(packets) \ {Foreign}

Losing(gone, cause) == lost \cup (gone \X {cause})

-----------------------------------------------------------------------------
(* Sending. *)

NextEvent(target, priority, due) ==
    [id |-> sent + 1, target |-> target, priority |-> priority, target_tick |-> due]

\* send_event.
SendEvent(target, priority, due) ==
    /\ sent < MaxEvents
    /\ CanSend(inbox, target)
    /\ inbox' = Sent(inbox, target, NextEvent(target, priority, due))
    /\ sent' = sent + 1
    /\ UNCHANGED <<tick, router, events, failed, applied, lost>>

\* A command frame of the other bridge for the same station.
SendForeign(target) ==
    /\ CanSend(inbox, target)
    /\ \A i \in DOMAIN inbox[target] : inbox[target][i] # Foreign
    /\ inbox' = Sent(inbox, target, Foreign)
    /\ UNCHANGED <<tick, router, events, failed, sent, applied, lost>>

\* route, called in process for an event it accepts.
Route(target, priority, due) ==
    LET event == NextEvent(target, priority, due)
    IN /\ sent < MaxEvents
       /\ IsRegistered(router, target)
       /\ ~Refuses(router[target], event)
       /\ router' = [router EXCEPT ![target] = Pushed(@, event)]
       /\ lost' = Losing(Evicted(router[target], event), "evicted")
       /\ sent' = sent + 1
       /\ UNCHANGED <<tick, inbox, events, failed, applied>>

-----------------------------------------------------------------------------
(* Pumping packets into the router. *)

\* A pump so far: the target's queues, the packets taken, what was lost.
Start(q) == [queues |-> q, taken |-> 0, refused |-> {}, evicted |-> {}, failed |-> FALSE]

\* One turn of pump_target's loop: the packet is off the transport before it is
\* decoded and routed, and the first error ends the pump.
Taken(pump, packet) ==
    IF pump.failed THEN pump
    ELSE IF packet = Foreign THEN [pump EXCEPT !.failed = TRUE, !.taken = @ + 1]
    ELSE IF pump.queues = NoQueue \/ Refuses(pump.queues, packet)
         THEN [pump EXCEPT !.failed = TRUE, !.taken = @ + 1, !.refused = @ \cup {packet}]
         ELSE [pump EXCEPT !.queues = Pushed(@, packet), !.taken = @ + 1,
                           !.evicted = @ \cup Evicted(pump.queues, packet)]

\* pump_target of up to max packets.
PumpTarget(s, max) ==
    /\ CanReceive(inbox, s)
    /\ UNCHANGED <<tick, events, failed, sent, applied>>
    /\ LET first == SubSeq(inbox[s], 1, IF Len(inbox[s]) < max THEN Len(inbox[s]) ELSE max)
           pump == Loop(Taken, Start(router[s]), first)[Len(first)]
       IN /\ inbox' = AfterReceiving(inbox, s, pump.taken)
          /\ router' = [router EXCEPT ![s] = pump.queues]
          /\ lost' = Losing(pump.refused, "refused") \cup Losing(pump.evicted, "evicted")

\* pump_target of the command bridge: it loses an event it meets.
PumpForeign(s) ==
    /\ CanReceive(inbox, s)
    /\ inbox' = AfterReceiving(inbox, s, 1)
    /\ lost' = Losing({Head(inbox[s])} \ {Foreign}, "refused")
    /\ UNCHANGED <<tick, router, events, failed, sent, applied>>

-----------------------------------------------------------------------------
(* Draining and applying. *)

\* The events of a batch that are for a station, in their order.
OfStation(batch, s) == Picked(batch, {i \in DOMAIN batch : batch[i].target = s})

Apply(batch) == applied' = [s \in Targets |-> applied[s] \o OfStation(batch, s)]

\* drain_ready of one station; its caller gets the events and applies them.
DrainStation(s) ==
    /\ events = <<>>
    /\ IsRegistered(router, s)
    /\ router' = [router EXCEPT ![s] = Retained(@, tick[s])]
    /\ Apply(Ready(router[s], tick[s]))
    /\ UNCHANGED <<tick, inbox, events, failed, sent, lost>>

\* append_ready for one station after the others: the first one that the router
\* has no queues for ends the drain.
Gathered(drain, s) ==
    IF drain.failed \/ ~IsRegistered(drain.router, s)
    THEN [drain EXCEPT !.failed = TRUE]
    ELSE [router |-> [drain.router EXCEPT ![s] = Retained(@, tick[s])],
          events |-> drain.events \o Ready(drain.router[s], tick[s]),
          failed |-> FALSE]

\* drain_ready_events_into: the buffer is cleared first; an error leaves it with
\* the events of the stations before the failing one.
DrainReadyEvents ==
    /\ events # <<>> => failed
    /\ UNCHANGED <<tick, inbox, sent, applied>>
    /\ LET start == [router |-> router, events |-> <<>>, failed |-> FALSE]
           drain == Loop(Gathered, start, InOrder(Targets))[Cardinality(Targets)]
       IN /\ router' = drain.router
          /\ events' = drain.events
          /\ failed' = (drain.failed /\ drain.events # <<>>)
    /\ lost' = Losing(ToSet(events), "cleared")

\* The caller applies what the drain left in its buffer.
ApplyEvents ==
    /\ events # <<>>
    /\ Apply(events)
    /\ events' = <<>>
    /\ failed' = FALSE
    /\ UNCHANGED <<tick, inbox, router, sent, lost>>

-----------------------------------------------------------------------------
(* Stations. *)

\* advance_tick.
AdvanceTick(s) ==
    /\ tick[s] < MaxTick
    /\ tick' = [tick EXCEPT ![s] = @ + 1]
    /\ UNCHANGED <<inbox, router, events, failed, sent, applied, lost>>

\* EventRouter::register_station.
RegisterRouter(s) ==
    /\ ~IsRegistered(router, s)
    /\ router' = [router EXCEPT ![s] = EmptyQueues]
    /\ UNCHANGED <<tick, inbox, events, failed, sent, applied, lost>>

\* EventRouter::unregister_station.
UnregisterRouter(s) ==
    /\ IsRegistered(router, s)
    /\ router' = [router EXCEPT ![s] = NoQueue]
    /\ lost' = Losing(Held(router[s]), "unregistered")
    /\ UNCHANGED <<tick, inbox, events, failed, sent, applied>>

\* InMemoryStationTransport::register_station.
RegisterTransport(s) ==
    /\ ~IsRegistered(inbox, s)
    /\ inbox' = WithStation(inbox, s)
    /\ UNCHANGED <<tick, router, events, failed, sent, applied, lost>>

\* InMemoryStationTransport::unregister_station.
UnregisterTransport(s) ==
    /\ IsRegistered(inbox, s)
    /\ inbox' = WithoutStation(inbox, s)
    /\ lost' = Losing(EventsOf(inbox[s]), "unregistered")
    /\ UNCHANGED <<tick, router, events, failed, sent, applied>>

EventsNext ==
    \/ \E s \in Targets, p \in Sendable, due \in 0 .. MaxTick :
          \/ s \in Local /\ Route(s, p, due)
          \/ s \notin Local /\ SendEvent(s, p, due)
    \/ \E s \in Targets \ Local :
          SendForeign(s) \/ PumpForeign(s) \/ \E max \in 1 .. MaxPackets : PumpTarget(s, max)
    \/ \E s \in Targets : DrainStation(s) \/ AdvanceTick(s)
    \/ DrainReadyEvents
    \/ ApplyEvents
    \/ \E s \in Detachable : RegisterRouter(s) \/ UnregisterRouter(s)
    \/ \E s \in Detachable \ Local : RegisterTransport(s) \/ UnregisterTransport(s)

EventsSpec == EventsInit /\ [][EventsNext]_eventVars

\* The control loop keeps pumping, advancing, draining and applying.
EventsFairness ==
    /\ \A s \in Targets \ Local : WF_eventVars(PumpTarget(s, MaxPackets))
    /\ \A s \in Targets : WF_eventVars(AdvanceTick(s))
    /\ WF_eventVars(DrainReadyEvents)
    /\ WF_eventVars(ApplyEvents)

EventsFairSpec == EventsSpec /\ EventsFairness

-----------------------------------------------------------------------------
(* Properties. *)

\* Where events are: the entries of a queue, as <<queue, station, place, event>>.
Entries(queue, s, packets) ==
    {<<queue, s, i, packets[i]>> : i \in {j \in DOMAIN packets : packets[j] # Foreign}}

\* With the transport, in the router, applied, in the caller's buffer, or lost.
OnTransport ==
    UNION {Entries("transport", s, IF IsRegistered(inbox, s) THEN inbox[s] ELSE <<>>) : s \in Targets}
InRouter ==
    UNION {Entries(x[2], x[1], IF IsRegistered(router, x[1]) THEN router[x[1]][x[2]] ELSE <<>>) :
              x \in Targets \X Priorities}
AtTargets == UNION {Entries("applied", s, applied[s]) : s \in Targets}
AmongLost == {<<x[2], x[1].target, 0, x[1]>> : x \in lost}

Whereabouts == OnTransport \cup InRouter \cup AtTargets \cup Entries("events", 0, events) \cup AmongLost

\* An event that was sent or routed is in one place only: with the transport, in
\* the router, in the caller's buffer, applied, or lost to a known cause.  None
\* is applied twice, none disappears between a pump or a drain that fails half
\* way and the next one, and only best-effort events are evicted.
EventsConserved ==
    /\ EventsTypeOK
    /\ \A x, y \in Whereabouts : x[4].id = y[4].id => x = y
    /\ {x[4].id : x \in Whereabouts} = 1 .. sent
    /\ \A x \in lost : x[2] = "evicted" => x[1].priority = "BestEffort"

\* No station applies an event before its tick, and of two events of one priority
\* it applies the later one first only if the earlier one was due later: delayed
\* events keep their places through every drain, eviction and failed pump.
AppliedInOrder ==
    \A s \in Targets : \A i, j \in DOMAIN applied[s] :
        LET a == applied[s][i]
            b == applied[s][j]
        IN /\ a.target_tick <= tick[s]
           /\ i < j /\ a.priority = b.priority =>
                 a.id < b.id \/ a.target_tick < b.target_tick

\* Events are neither lost, doubled nor put out of order.
EventsKept == EventsConserved /\ AppliedInOrder

\* drain_ready_events_into does not stop before it comes to s: the router has the
\* stations in front of it.
DrainReaches(s) == \A r \in Targets : r < s => IsRegistered(router, r)

\* Event n is with the transport, in the router or in the caller's buffer, for s.
OnTheWay(n, s) ==
    \/ IsRegistered(inbox, s) /\ \E e \in EventsOf(inbox[s]) : e.id = n
    \/ IsRegistered(router, s) /\ \E e \in Held(router[s]) : e.id = n
    \/ \E e \in ToSet(events) : e.id = n /\ e.target = s

\* An event does not stay under way for ever (then it is applied or lost to a known
\* cause: EventsConserved), unless the router lacks, for ever or again and again, a
\* station that the drain of all stations comes to first: the drain ends there, and
\* an event of a later station stays in its queue although its own station is
\* registered and ticks.
EventsSettle ==
    \A s \in Targets :
        <>[]DrainReaches(s) => \A n \in 1 .. MaxEvents : ~<>[]OnTheWay(n, s)
=============================================================================
