------------------------ MODULE CommandBarrier_proofs ------------------------
(***************************************************************************)
(* What the caller of a barrier and the clients rely on, for every set of  *)
(* stations and clients, every order of polls, steps and upgrades, and     *)
(* every sequence of commands and repetitions: what a freeze reports, what *)
(* an answer tells, and the order commands are applied in.                 *)
(*                                                                         *)
(* On the wire a frame comes out of its bytes as it went in, whole or not  *)
(* at all, and a budget cuts between entities: for every input and plan.   *)
(* And what a client's bridges hand on is what the server sent it, in      *)
(* order, whoever else sends and however the client pumps.                 *)
(***************************************************************************)
EXTENDS CommandBarrier, ClientLink, Ordered_proofs

\* The types of what the barrier controller and the stations keep.
BarrierTypes ==
    /\ stations \subseteq Stations
    /\ tick \in [Stations -> 0 .. MaxTick]
    /\ active \in Barrier \cup {NoBarrier}
    /\ frozen \subseteq Stations

\* Stations are reported frozen only for a barrier, and only those it covers.
FrozenCovered == frozen # {} => active \in Barrier /\ frozen \subseteq active.covered

BarrierInv == BarrierTypes /\ FrozenCovered /\ BarrierSound

\* The types of what the clients have been told.
AnswerTypes ==
    /\ last_sequence \in [Clients -> 0 .. MaxSequence]
    /\ accepted \subseteq Stations \X Command
    /\ told \in [Clients \X (1 .. MaxSequence) -> SUBSET Answers]

\* Numbers beyond the last one the gateway admitted are not spent: they have no
\* answer and no station took them.
UnspentUnknown ==
    /\ \A c \in Clients, n \in 1 .. MaxSequence :
          told[<<c, n>>] # {} => n <= last_sequence[c]
    /\ \A e \in accepted : e[2].sequence <= last_sequence[e[2].client]

AnswerInv == AnswerTypes /\ UnspentUnknown /\ AnswersTrue

\* The bounds are numbers.
LEMMA Bounds ==
    /\ MaxTick \in Nat /\ MaxSequence \in Nat
    /\ Used \subseteq Priorities /\ Routed \subseteq Stations
BY BarrierAssumption, LimitsAssumption

-----------------------------------------------------------------------------
(* Barriers. *)

\* A poll reports stations that are ready, and the barrier frozen once it has
\* reported all the stations it covers.
LEMMA PollKeeps ==
    ASSUME BarrierInv, Poll
    PROVE  BarrierInv'
<1> USE Bounds DEF BarrierInv, BarrierSound
<1>1. /\ active # NoBarrier /\ active \in Barrier /\ active.state = "WaitingTickBoundary"
      /\ active.covered \subseteq Stations /\ active.target_tick \in Nat
      /\ frozen' = frozen \cup {s \in Visited : Ready(s)}
      /\ active' = IF Aligned THEN [active EXCEPT !.state = "Frozen"] ELSE active
      /\ UNCHANGED <<stations, tick, version, reported>>
  BY DEF Poll, BarrierTypes, Barrier, upgrades
<1>2. /\ active' \in Barrier
      /\ active'.covered = active.covered /\ active'.target_tick = active.target_tick
      /\ active'.state = IF Aligned THEN "Frozen" ELSE "WaitingTickBoundary"
  BY <1>1 DEF Barrier
<1>3. Visited \subseteq active.covered
  BY DEF Visited
<1>4. BarrierTypes' /\ FrozenCovered'
  BY <1>1, <1>2, <1>3 DEF BarrierTypes, FrozenCovered
<1>5. \A s \in frozen' : tick'[s] >= active'.target_tick
  BY <1>1, <1>2 DEF FrozenReached, Ready
<1>6. IsFrozen' => frozen' = active'.covered
  <2> HAVE IsFrozen'
  <2>1. Aligned
    BY <1>2 DEF IsFrozen
  <2>2. \A s \in active.covered : s \in Visited /\ Ready(s)
    BY <2>1 DEF Aligned, Visited
  <2> QED BY <1>1, <1>2, <1>3, <2>2 DEF FrozenCovered
<1>7. UpgradedWhole'
  BY <1>1 DEF UpgradedWhole
<1> QED BY <1>4, <1>5, <1>6, <1>7 DEF FrozenReached

\* Every step keeps the invariant of barriers.
LEMMA StepBarrier ==
    ASSUME BarrierInv, [Next]_vars
    PROVE  BarrierInv'
<1> USE Bounds DEF BarrierInv, BarrierSound
<1>1. ASSUME UNCHANGED <<stations, tick, active, frozen, version, reported>>
      PROVE  BarrierInv'
  BY <1>1 DEF BarrierTypes, FrozenCovered, FrozenReached, IsFrozen, UpgradedWhole
<1>2. ASSUME NEW covered \in {stations} \cup {{s} : s \in stations},
             NEW target \in 0 .. MaxTick, NEW mode \in Modes,
             RequestBarrier(covered, target, mode)
      PROVE  BarrierInv'
  <2>1. /\ covered \in (SUBSET Stations) \ {{}}
        /\ active' = [covered |-> covered, target_tick |-> target, mode |-> mode,
                      state |-> "WaitingTickBoundary"]
        /\ frozen' = {}
        /\ UNCHANGED <<stations, tick, version, reported>>
    BY <1>2 DEF RequestBarrier, BarrierTypes, upgrades
  <2>2. active' \in Barrier /\ active'.state # "Frozen"
    BY <2>1 DEF Barrier
  <2> QED BY <2>1, <2>2 DEF BarrierTypes, FrozenCovered, FrozenReached, IsFrozen, UpgradedWhole
<1>3. CASE Resume
  BY <1>3 DEF Resume, BarrierTypes, FrozenCovered, FrozenReached, IsFrozen, UpgradedWhole, upgrades
<1>4. ASSUME NEW invalid \in SUBSET Stations, MigrateFrozen(invalid)
      PROVE  BarrierInv'
  <2>1. UNCHANGED <<stations, tick, active, frozen>>
    BY <1>4 DEF MigrateFrozen, controller
  <2>2. version' = reported'
    BY <1>4 DEF MigrateFrozen, Restored, UpgradedWhole
  <2> QED BY <2>1, <2>2 DEF BarrierTypes, FrozenCovered, FrozenReached, IsFrozen, UpgradedWhole
<1>5. ASSUME NEW selected \in SUBSET stations, Advance(selected)
      PROVE  BarrierInv'
  <2>1. /\ \A s \in selected : tick[s] < MaxTick
        /\ tick' = [s \in Stations |-> IF s \in selected THEN tick[s] + 1 ELSE tick[s]]
        /\ UNCHANGED <<stations, active, frozen, version, reported>>
    BY <1>5 DEF Advance, controller, upgrades
  <2>2. tick' \in [Stations -> 0 .. MaxTick]
    BY <2>1 DEF BarrierTypes
  <2>3. \A s \in Stations : tick[s] \in Nat /\ tick'[s] \in Nat /\ tick'[s] >= tick[s]
    BY <2>1 DEF BarrierTypes
  <2>4. ASSUME NEW s \in frozen
        PROVE  tick'[s] >= active.target_tick
    <3>1. s \in Stations /\ tick[s] >= active.target_tick
      BY DEF BarrierTypes, FrozenReached
    <3>2. active.target_tick \in Nat
      BY DEF FrozenCovered, Barrier
    <3> QED BY <2>3, <3>1, <3>2
  <2> QED BY <2>1, <2>2, <2>4
          DEF BarrierTypes, FrozenCovered, FrozenReached, IsFrozen, UpgradedWhole
<1>6. ASSUME NEW s \in Stations, RemoveStation(s)
      PROVE  BarrierInv'
  BY <1>6 DEF RemoveStation, controller, upgrades, BarrierTypes, FrozenCovered, FrozenReached,
             IsFrozen, UpgradedWhole
<1>7. ASSUME NEW s \in Stations, ReleaseBarrierBuffer(s) \/ ClearBarrierBuffer(s) \/ PopNext(s)
      PROVE  BarrierInv'
  BY <1>1, <1>7 DEF ReleaseBarrierBuffer, ClearBarrierBuffer, PopNext, controller, upgrades
<1>8. ASSUME NEW c \in Clients, NEW n \in 1 .. MaxSequence, NEW p \in Used, NEW s \in Routed,
             PumpIngress(c, n, p, s)
      PROVE  BarrierInv'
  BY <1>1, <1>8 DEF PumpIngress, controller, upgrades
<1>9. CASE UNCHANGED vars
  BY <1>1, <1>9 DEF vars, controller, upgrades
<1> QED BY <1>2, <1>3, <1>4, <1>5, <1>6, <1>7, <1>8, <1>9, PollKeeps DEF Next

-----------------------------------------------------------------------------
(* Answers. *)

\* Entries of the accepted history for the command of a client and number.
Takers(c, n) == {e \in accepted : e[2].client = c /\ e[2].sequence = n}

\* A number the gateway admits is new: nobody took a command under it and nobody
\* was told anything of it.
LEMMA NewIsUnknown ==
    ASSUME AnswerInv, NEW c \in Clients, NEW n \in 1 .. MaxSequence, n > last_sequence[c]
    PROVE  Takers(c, n) = {} /\ told[<<c, n>>] = {}
<1> USE Bounds
<1>1. last_sequence[c] \in Nat
  BY DEF AnswerInv, AnswerTypes
<1>2. told[<<c, n>>] = {}
  BY <1>1 DEF AnswerInv, UnspentUnknown
<1>3. ASSUME NEW e \in Takers(c, n)
      PROVE  FALSE
  <2>1. e \in accepted /\ e[2].client = c /\ e[2].sequence = n
    BY <1>3 DEF Takers
  <2>2. e[2].sequence <= last_sequence[e[2].client]
    BY <2>1 DEF AnswerInv, UnspentUnknown
  <2> QED BY <1>1, <2>1, <2>2
<1> QED BY <1>2, <1>3

\* Answering one more command keeps the invariant of answers.
LEMMA PumpKeeps ==
    ASSUME AnswerInv, NEW c \in Clients, NEW n \in 1 .. MaxSequence,
           NEW p \in Used, NEW s \in Routed, PumpIngress(c, n, p, s)
    PROVE  AnswerInv'
<1> USE Bounds
<1> DEFINE command == [client |-> c, sequence |-> n, priority |-> p]
           answer == QueueAnswer(queues[s], command)
<1>0. /\ AnswerTypes /\ UnspentUnknown /\ AnswersTrue
      /\ command \in Command /\ s \in Stations
      /\ answer \in Answers
  BY DEF AnswerInv, Command, QueueAnswer, Answers
<1>1. /\ n > last_sequence[c]
      /\ last_sequence' = [last_sequence EXCEPT ![c] = n]
      /\ told' = [told EXCEPT ![<<c, n>>] = @ \cup {answer}]
      /\ accepted' = IF answer = "Accepted" THEN accepted \cup {<<s, command>>} ELSE accepted
  BY DEF PumpIngress, ProcessCommandFrame, Spent
<1> HIDE DEF answer
<1>2. Takers(c, n) = {} /\ told[<<c, n>>] = {}
  BY <1>1, NewIsUnknown
<1>3. AnswerTypes'
  <2>1. last_sequence' \in [Clients -> 0 .. MaxSequence]
    BY <1>0, <1>1 DEF AnswerTypes
  <2>2. told' \in [Clients \X (1 .. MaxSequence) -> SUBSET Answers]
    BY <1>0, <1>1 DEF AnswerTypes
  <2>3. accepted' \subseteq Stations \X Command
    BY <1>0, <1>1 DEF AnswerTypes
  <2> QED BY <2>1, <2>2, <2>3 DEF AnswerTypes
<1>4. /\ told'[<<c, n>>] = {answer}
      /\ \A d \in Clients, m \in 1 .. MaxSequence :
            <<d, m>> # <<c, n>> => told'[<<d, m>>] = told[<<d, m>>]
  BY <1>0, <1>1, <1>2 DEF AnswerTypes
<1>5. \A d \in Clients : /\ last_sequence[d] \in Nat /\ last_sequence'[d] \in Nat
                         /\ last_sequence[d] <= last_sequence'[d]
      /\ last_sequence'[c] = n
  BY <1>0, <1>1 DEF AnswerTypes
<1>6. UnspentUnknown'
  <2>1. \A d \in Clients, m \in 1 .. MaxSequence : told'[<<d, m>>] # {} => m <= last_sequence'[d]
    BY <1>0, <1>4, <1>5 DEF UnspentUnknown
  <2>2. ASSUME NEW e \in accepted'
        PROVE  e[2].sequence <= last_sequence'[e[2].client]
    <3>1. CASE e \in accepted
      <4>1. e[2].client \in Clients /\ e[2].sequence \in Nat
        BY <1>0, <3>1 DEF AnswerTypes, Command
      <4> QED BY <1>0, <1>5, <3>1, <4>1 DEF UnspentUnknown
    <3>2. CASE e = <<s, command>>
      BY <1>5, <3>2
    <3> QED BY <1>1, <3>1, <3>2
  <2> QED BY <2>1, <2>2 DEF UnspentUnknown
<1>7. ASSUME NEW d \in Clients, NEW m \in 1 .. MaxSequence
      PROVE  /\ Cardinality(Takers(d, m)') <= 1
             /\ "Accepted" \in told'[<<d, m>>] => Takers(d, m)' # {}
             /\ told'[<<d, m>>] \ {"Accepted"} # {} => Takers(d, m)' = {}
  <2>1. CASE <<d, m>> = <<c, n>>
    <3>1. Takers(d, m)' = IF answer = "Accepted" THEN {<<s, command>>} ELSE {}
      BY <1>1, <1>2, <2>1 DEF Takers
    <3>2. Cardinality(Takers(d, m)') <= 1
      <4>1. Cardinality({<<s, command>>}) = 1 /\ Cardinality({}) = 0
        BY FS_EmptySet, FS_Singleton, Zenon
      <4>2. Cardinality(Takers(d, m)') \in {0, 1}
        BY <3>1, <4>1
      <4> QED BY <4>2
    <3> QED BY <1>4, <2>1, <3>1, <3>2
  <2>2. CASE <<d, m>> # <<c, n>>
    <3>1. Takers(d, m)' = Takers(d, m)
      BY <1>1, <2>2 DEF Takers
    <3>2. /\ Cardinality(Takers(d, m)) <= 1
          /\ "Accepted" \in told[<<d, m>>] => Takers(d, m) # {}
          /\ told[<<d, m>>] \ {"Accepted"} # {} => Takers(d, m) = {}
      BY <1>0 DEF AnswersTrue, Takers
    <3> QED BY <1>4, <2>2, <3>1, <3>2
  <2> QED BY <2>1, <2>2
<1>8. AnswersTrue'
  BY <1>7 DEF AnswersTrue, Takers
<1> QED BY <1>3, <1>6, <1>8 DEF AnswerInv

\* No barrier is the start.
LEMMA BarrierInit == Init => BarrierInv
BY Bounds DEF Init, BarrierInv, BarrierTypes, FrozenCovered, BarrierSound, FrozenReached,
              IsFrozen, UpgradedWhole

\* It holds at the start, before anyone asked.
LEMMA AnswerInit == Init => AnswerInv
<1> HAVE Init
<1>1. AnswerTypes /\ UnspentUnknown
  BY Bounds DEF Init, AnswerTypes, UnspentUnknown
<1>2. ASSUME NEW c \in Clients, NEW n \in 1 .. MaxSequence
      PROVE  /\ Cardinality(Takers(c, n)) <= 1
             /\ "Accepted" \in told[<<c, n>>] => Takers(c, n) # {}
             /\ told[<<c, n>>] \ {"Accepted"} # {} => Takers(c, n) = {}
  <2>1. Takers(c, n) = {} /\ told[<<c, n>>] = {}
    BY DEF Init, Takers
  <2> QED BY <2>1, FS_EmptySet
<1>3. AnswersTrue
  BY <1>2 DEF AnswersTrue, Takers
<1> QED BY <1>1, <1>3 DEF AnswerInv

\* Every step keeps the invariant of answers.
LEMMA StepAnswers ==
    ASSUME AnswerInv, [Next]_vars
    PROVE  AnswerInv'
<1>1. ASSUME UNCHANGED <<last_sequence, accepted, told>>
      PROVE  AnswerInv'
  BY <1>1 DEF AnswerInv, AnswerTypes, UnspentUnknown, AnswersTrue
<1>2. ASSUME NEW s \in Stations,
             RemoveStation(s) \/ ReleaseBarrierBuffer(s) \/ ClearBarrierBuffer(s) \/ PopNext(s)
      PROVE  AnswerInv'
  BY <1>1, <1>2 DEF RemoveStation, ReleaseBarrierBuffer, ClearBarrierBuffer, PopNext, commands
<1>3. CASE \/ \E covered \in {stations} \cup {{s} : s \in stations},
                target \in 0 .. MaxTick, mode \in Modes :
                   RequestBarrier(covered, target, mode)
           \/ Poll \/ Resume
           \/ \E invalid \in SUBSET Stations : MigrateFrozen(invalid)
           \/ \E selected \in SUBSET stations : Advance(selected)
           \/ UNCHANGED vars
  BY <1>1, <1>3 DEF RequestBarrier, Poll, Resume, MigrateFrozen, Advance, vars, commands
<1> QED BY <1>2, <1>3, PumpKeeps DEF Next

-----------------------------------------------------------------------------
(* What the queue operations do to the order. *)

\* The orders considered: no command comes twice, and nothing is asked of two
\* commands of different priorities but that.
Apart(R) ==
    \A a, b \in Command :
        /\ <<a, b>> \in R => a # b
        /\ a.priority # b.priority => <<a, b>> \in R

\* The commands applied so far, each ready queue and the buffer, one after another
\* and each in itself, follow R.
QueueOrder(q, done, R) ==
    /\ Chained(done, R) /\ Chained(q.barrier_buffer, R)
    /\ Linked(ToSet(done), ToSet(q.barrier_buffer), R)
    /\ \A p \in Priorities :
          /\ \A c \in ToSet(q.ready[p]) : c.priority = p
          /\ Chained(q.ready[p], R)
          /\ Linked(ToSet(done), ToSet(q.ready[p]), R)
          /\ Linked(ToSet(q.ready[p]), ToSet(q.barrier_buffer), R)

QueueSound(q, done, R) == q \in Queues /\ Bounded(q) /\ QueueOrder(q, done, R)

\* The fields of well-formed queues.
LEMMA QueueFields ==
    ASSUME NEW q \in Queues
    PROVE  /\ \A p \in Priorities : q.ready[p] \in Seq(Command) /\ ToSet(q.ready[p]) \subseteq Command
           /\ q.barrier_buffer \in Seq(Command) /\ ToSet(q.barrier_buffer) \subseteq Command
           /\ q = [ready |-> q.ready, barrier_buffer |-> q.barrier_buffer]
           /\ q.ready \in [Priorities -> Seq(Command)]
           /\ \A x : x \in Held(q) <=> \/ \E p \in Priorities : x \in ToSet(q.ready[p])
                                       \/ x \in ToSet(q.barrier_buffer)
<1>1. /\ q = [ready |-> q.ready, barrier_buffer |-> q.barrier_buffer]
      /\ q.ready \in [Priorities -> Seq(Command)]
      /\ q.barrier_buffer \in Seq(Command)
  BY DEF Queues
<1>2. \A p \in Priorities : q.ready[p] \in Seq(Command)
  BY <1>1
<1>3. \A s \in Seq(Command) : ToSet(s) \subseteq Command
  BY ElementsOf
<1>4. \A x : x \in Held(q) <=> \/ \E p \in Priorities : x \in ToSet(q.ready[p])
                              \/ x \in ToSet(q.barrier_buffer)
  BY DEF Held
<1> QED
  BY <1>1, <1>2, <1>3, <1>4

\* pop_next: the command applied goes behind those applied before.
LEMMA PopKeepsOrder ==
    ASSUME NEW R, Apart(R), NEW q, NEW done \in Seq(Command), QueueSound(q, done, R), CanPop(q)
    PROVE  /\ NextCommand(q) \in Command
           /\ QueueSound(Popped(q), Append(done, NextCommand(q)), R)
           /\ Held(q) = Held(Popped(q)) \cup {NextCommand(q)}
           /\ Append(done, NextCommand(q)) \in Seq(Command)
           /\ ToSet(Append(done, NextCommand(q))) = ToSet(done) \cup {NextCommand(q)}
<1> DEFINE p == NextPriority(q)
           c == NextCommand(q)
           t == Tail(q.ready[p])
           r == Popped(q)
<1>0. q \in Queues /\ Bounded(q) /\ QueueOrder(q, done, R)
  BY DEF QueueSound
<1>1. p \in Priorities /\ q.ready[p] # <<>>
  BY DEF NextPriority, CanPop, Priorities
<1>2. /\ q.ready[p] \in Seq(Command) /\ Chained(q.ready[p], R)
      /\ \A x \in ToSet(q.ready[p]) : x.priority = p
  BY <1>0, <1>1, QueueFields DEF QueueOrder
<1>3. /\ t \in Seq(Command) /\ c \in Command /\ Len(t) <= Len(q.ready[p])
      /\ Chained(t, R)
      /\ ToSet(q.ready[p]) = {c} \cup ToSet(t)
      /\ \A b \in ToSet(t) : <<c, b>> \in R
  BY <1>1, <1>2, ChainTail DEF NextCommand
<1>4. c.priority = p /\ c \in ToSet(q.ready[p])
  BY <1>2, <1>3
<1>5. /\ r \in Queues
      /\ r.ready = [q.ready EXCEPT ![p] = t]
      /\ r.barrier_buffer = q.barrier_buffer
  BY <1>0, <1>1, <1>3, QueueFields DEF Popped, Queues
<1>6. \A o \in Priorities : r.ready[o] = IF o = p THEN t ELSE q.ready[o]
  BY <1>0, <1>5, QueueFields
<1> HIDE DEF p, c, t, r
<1>7. \A a \in ToSet(done) : <<a, c>> \in R
  BY <1>0, <1>1, <1>4 DEF QueueOrder, Linked
<1>8. /\ Append(done, c) \in Seq(Command)
      /\ Chained(Append(done, c), R)
      /\ ToSet(Append(done, c)) = ToSet(done) \cup {c}
  BY <1>0, <1>3, <1>7, ChainAppend DEF QueueOrder
<1>9. ASSUME NEW o \in Priorities
      PROVE  /\ \A x \in ToSet(r.ready[o]) : x.priority = o
             /\ Chained(r.ready[o], R)
             /\ Linked(ToSet(done) \cup {c}, ToSet(r.ready[o]), R)
             /\ Linked(ToSet(r.ready[o]), ToSet(r.barrier_buffer), R)
             /\ Len(r.ready[o]) <= Limits[o]
  <2>0. /\ \A x \in ToSet(q.ready[o]) : x.priority = o
        /\ Chained(q.ready[o], R)
        /\ Linked(ToSet(done), ToSet(q.ready[o]), R)
        /\ Linked(ToSet(q.ready[o]), ToSet(q.barrier_buffer), R)
        /\ Len(q.ready[o]) <= Limits[o]
        /\ ToSet(q.ready[o]) \subseteq Command
    BY <1>0, QueueFields DEF QueueOrder, Bounded
  <2>1. CASE o = p
    <3>1. r.ready[o] = t /\ ToSet(t) \subseteq ToSet(q.ready[o])
      BY <1>3, <1>6, <2>1
    <3>2. Len(t) <= Limits[o]
      <4>1. Len(t) \in Nat /\ Len(q.ready[o]) \in Nat /\ Limits[o] \in Nat
        BY <1>2, <1>3, <2>1, LimitsAssumption
      <4> QED
        BY <1>3, <2>0, <2>1, <4>1
    <3> QED
      BY <1>3, <1>5, <2>0, <3>1, <3>2 DEF Linked
  <2>2. CASE o # p
    <3>1. r.ready[o] = q.ready[o]
      BY <1>6, <2>2
    <3>2. \A b \in ToSet(q.ready[o]) : <<c, b>> \in R
      BY <1>3, <1>4, <2>0, <2>2 DEF Apart
    <3> QED
      BY <1>5, <2>0, <3>1, <3>2 DEF Linked
  <2> QED
    BY <2>1, <2>2
<1>10. Linked(ToSet(done) \cup {c}, ToSet(r.barrier_buffer), R)
  BY <1>0, <1>1, <1>4, <1>5 DEF QueueOrder, Linked
<1>11. QueueSound(r, Append(done, c), R)
  BY <1>0, <1>5, <1>8, <1>9, <1>10 DEF QueueSound, QueueOrder, Bounded
<1>12. Held(q) = Held(r) \cup {c}
  <2>1. \A x : x \in Held(q) <=> \/ \E o \in Priorities : x \in ToSet(q.ready[o])
                                 \/ x \in ToSet(q.barrier_buffer)
    BY <1>0, QueueFields
  <2>2. \A x : x \in Held(r) <=> \/ \E o \in Priorities : x \in ToSet(r.ready[o])
                                 \/ x \in ToSet(r.barrier_buffer)
    BY <1>5, QueueFields
  <2> QED
    BY <1>1, <1>3, <1>5, <1>6, <2>1, <2>2
<1> QED
  BY <1>3, <1>8, <1>11, <1>12 DEF c, r

\* clear_barrier_buffer.
LEMMA ClearKeepsOrder ==
    ASSUME NEW R, NEW q, NEW done, QueueSound(q, done, R)
    PROVE  /\ QueueSound(Cleared(q), done, R)
           /\ Held(q) = Held(Cleared(q)) \cup ToSet(q.barrier_buffer)
<1> DEFINE r == Cleared(q)
<1>0. q \in Queues /\ Bounded(q) /\ QueueOrder(q, done, R)
  BY DEF QueueSound
<1>1. r \in Queues /\ r.ready = q.ready /\ r.barrier_buffer = <<>>
  <2>1. /\ q = [ready |-> q.ready, barrier_buffer |-> q.barrier_buffer]
        /\ q.ready \in [Priorities -> Seq(Command)] /\ <<>> \in Seq(Command)
    BY <1>0, QueueFields
  <2>2. r = [ready |-> q.ready, barrier_buffer |-> <<>>]
    BY <2>1 DEF Cleared
  <2> QED
    BY <2>1, <2>2 DEF Queues
<1> HIDE DEF r
<1>2. Len(r.barrier_buffer) = 0 /\ ToSet(r.barrier_buffer) = {} /\ BufferCapacity \in Nat
  BY <1>1, LimitsAssumption DEF ToSet, BufferCapacity, Priorities
<1>3. Bounded(r)
  BY <1>0, <1>1, <1>2 DEF Bounded
<1>4. QueueOrder(r, done, R)
  BY <1>0, <1>1, <1>2 DEF QueueOrder, Linked, Chained
<1>5. Held(q) = Held(r) \cup ToSet(q.barrier_buffer)
  BY <1>0, <1>1, <1>2, QueueFields
<1> QED
  BY <1>1, <1>3, <1>4, <1>5 DEF QueueSound, r

\* push of a command that comes after all others, to the buffer, or to its queue
\* ahead of what is buffered.
LEMMA PushKeepsOrder ==
    ASSUME NEW R, NEW q, NEW done, QueueSound(q, done, R), NEW c \in Command, NEW ingress,
           Accepts(q, c, ingress),
           \A a \in Held(q) \cup ToSet(done) : <<a, c>> \in R,
           ingress.state \notin Closed => \A b \in ToSet(q.barrier_buffer) : <<c, b>> \in R
    PROVE  /\ QueueSound(Pushed(q, c, ingress), done, R)
           /\ Held(Pushed(q, c, ingress)) = Held(q) \cup {c}
<1> DEFINE r == Pushed(q, c, ingress)
           p == c.priority
<1>0. q \in Queues /\ Bounded(q) /\ QueueOrder(q, done, R) /\ p \in Priorities
  BY DEF QueueSound, Command
<1>1. /\ \A o \in Priorities : \A a \in ToSet(q.ready[o]) : a \in Held(q)
      /\ \A a \in ToSet(q.barrier_buffer) : a \in Held(q)
  BY <1>0, QueueFields
<1>2. CASE ingress.state \in Closed
  <2>1. /\ r \in Queues /\ r.ready = q.ready
        /\ r.barrier_buffer = Append(q.barrier_buffer, c)
    <3>1. /\ q = [ready |-> q.ready, barrier_buffer |-> q.barrier_buffer]
          /\ q.ready \in [Priorities -> Seq(Command)]
          /\ Append(q.barrier_buffer, c) \in Seq(Command)
      BY <1>0, QueueFields
    <3>2. r = [ready |-> q.ready, barrier_buffer |-> Append(q.barrier_buffer, c)]
      BY <1>2, <3>1 DEF Pushed
    <3> QED
      BY <3>1, <3>2 DEF Queues
  <2> HIDE DEF r
  <2>2. /\ Len(r.barrier_buffer) = Len(q.barrier_buffer) + 1
        /\ Chained(r.barrier_buffer, R)
        /\ ToSet(r.barrier_buffer) = ToSet(q.barrier_buffer) \cup {c}
    BY <1>0, <1>1, <2>1, QueueFields, ChainAppend DEF QueueOrder
  <2>3. Len(r.barrier_buffer) <= BufferCapacity
    <3>1. Len(q.barrier_buffer) < BufferCapacity
      BY <1>2 DEF Accepts
    <3>2. Len(q.barrier_buffer) \in Nat /\ BufferCapacity \in Nat
      BY <1>0, QueueFields, LimitsAssumption DEF BufferCapacity, Priorities
    <3> QED
      BY <2>2, <3>1, <3>2
  <2>4. Bounded(r)
    BY <1>0, <2>1, <2>3 DEF Bounded
  <2>5. QueueOrder(r, done, R)
    BY <1>0, <1>1, <2>1, <2>2 DEF QueueOrder, Linked
  <2>6. Held(r) = Held(q) \cup {c}
    BY <1>0, <2>1, <2>2, QueueFields
  <2> QED
    BY <2>1, <2>4, <2>5, <2>6 DEF QueueSound, r
<1>3. CASE ingress.state \notin Closed
  <2>1. /\ r \in Queues /\ r.barrier_buffer = q.barrier_buffer
        /\ r.ready = [q.ready EXCEPT ![p] = Append(@, c)]
    <3>1. /\ q = [ready |-> q.ready, barrier_buffer |-> q.barrier_buffer]
          /\ q.ready \in [Priorities -> Seq(Command)]
          /\ q.barrier_buffer \in Seq(Command)
          /\ Append(q.ready[p], c) \in Seq(Command)
      BY <1>0, QueueFields
    <3>2. r = [ready |-> [q.ready EXCEPT ![p] = Append(@, c)],
               barrier_buffer |-> q.barrier_buffer]
      BY <1>3, <3>1 DEF Pushed
    <3>3. [q.ready EXCEPT ![p] = Append(@, c)] \in [Priorities -> Seq(Command)]
      BY <3>1
    <3> QED
      BY <3>1, <3>2, <3>3 DEF Queues
  <2>2. \A o \in Priorities :
           r.ready[o] = IF o = p THEN Append(q.ready[p], c) ELSE q.ready[o]
    BY <1>0, <2>1, QueueFields
  <2>3. Len(q.ready[p]) < Limits[p]
    BY <1>3 DEF Accepts, HasReadyCapacity
  <2> HIDE DEF r, p
  <2>4. /\ Len(Append(q.ready[p], c)) = Len(q.ready[p]) + 1
        /\ Chained(Append(q.ready[p], c), R)
        /\ ToSet(Append(q.ready[p], c)) = ToSet(q.ready[p]) \cup {c}
    BY <1>0, <1>1, QueueFields, ChainAppend DEF QueueOrder
  <2>5. Len(Append(q.ready[p], c)) <= Limits[p]
    <3>1. Len(q.ready[p]) \in Nat /\ Limits[p] \in Nat
      BY <1>0, QueueFields, LimitsAssumption
    <3> QED
      BY <2>3, <2>4, <3>1
  <2>6. Bounded(r)
    BY <1>0, <2>1, <2>2, <2>5 DEF Bounded
  <2>7. QueueOrder(r, done, R)
    <3>1. ASSUME NEW o \in Priorities
          PROVE  /\ \A x \in ToSet(r.ready[o]) : x.priority = o
                 /\ Chained(r.ready[o], R)
                 /\ Linked(ToSet(done), ToSet(r.ready[o]), R)
                 /\ Linked(ToSet(r.ready[o]), ToSet(r.barrier_buffer), R)
      <4>1. CASE o = p
        <5>1. r.ready[o] = Append(q.ready[p], c)
          BY <2>2, <4>1
        <5>2. \A b \in ToSet(q.barrier_buffer) : <<c, b>> \in R
          BY <1>3
        <5> QED
          BY <1>0, <2>1, <2>4, <4>1, <5>1, <5>2 DEF QueueOrder, Linked, p
      <4>2. CASE o # p
        BY <1>0, <2>1, <2>2, <4>2 DEF QueueOrder
      <4> QED
        BY <4>1, <4>2
    <3> QED
      BY <1>0, <2>1, <3>1 DEF QueueOrder
  <2>8. Held(r) = Held(q) \cup {c}
    <3>1. \A x : x \in Held(q) <=> \/ \E o \in Priorities : x \in ToSet(q.ready[o])
                                   \/ x \in ToSet(q.barrier_buffer)
      BY <1>0, QueueFields
    <3>2. \A x : x \in Held(r) <=> \/ \E o \in Priorities : x \in ToSet(r.ready[o])
                                   \/ x \in ToSet(r.barrier_buffer)
      BY <2>1, QueueFields
    <3> QED
      BY <1>0, <2>1, <2>2, <2>4, <3>1, <3>2
  <2> QED
    BY <2>1, <2>6, <2>7, <2>8 DEF QueueSound, r
<1> QED
  BY <1>2, <1>3

\* What a loop over a list queues before it is blocked is a prefix of the list, and
\* fits.
LEMMA FitCounts ==
    ASSUME NEW q \in Queues, Bounded(q), NEW list \in Seq(Command), NEW n, n = FitCount(q, list)
    PROVE  /\ n \in 0 .. Len(list)
           /\ \A p \in Priorities :
                 Len(q.ready[p]) + Cardinality(Entering(list, n, p)) <= Limits[p]
<1> DEFINE G == {i \in 1 .. Len(list) : \A j \in 1 .. i : Fits(q, list, j)}
<1>0. /\ Len(list) \in Nat /\ DOMAIN list = 1 .. Len(list)
      /\ \A p \in Priorities : /\ Len(q.ready[p]) \in Nat /\ Limits[p] \in Nat
                               /\ Len(q.ready[p]) <= Limits[p]
  BY QueueFields, LimitsAssumption DEF Bounded
<1>1. G \in SUBSET (1 .. Len(list)) /\ n = Cardinality(G)
  BY <1>0 DEF FitCount
<1>2. \A i \in G : Fits(q, list, i) /\ \A j \in 1 .. i : j \in G
  BY <1>0
<1> HIDE DEF G
<1>3. G = 1 .. n /\ n \in 0 .. Len(list)
  BY ONLY <1>0, <1>1, <1>2, Prefix
<1>4. ASSUME NEW p \in Priorities
      PROVE  Len(q.ready[p]) + Cardinality(Entering(list, n, p)) <= Limits[p]
  <2> DEFINE K == Entering(list, n, p)
  <2>1. n \in Nat /\ K \in SUBSET (1 .. n)
    BY <1>3 DEF Entering
  <2>2. ASSUME NEW m \in K
        PROVE  Len(q.ready[p]) + Cardinality({j \in K : j <= m - 1}) < Limits[p]
    <3>1. m \in 1 .. n /\ list[m].priority = p /\ Fits(q, list, m)
      BY <1>2, <1>3, <2>1 DEF Entering
    <3>2. Entering(list, m - 1, p) = {j \in K : j <= m - 1}
      BY <2>1, <3>1 DEF Entering
    <3> QED
      BY <3>1, <3>2 DEF Fits
  <2> HIDE DEF K
  <2>3. Len(q.ready[p]) + Cardinality(K) <= Limits[p]
    BY <1>0, <2>1, <2>2, Room
  <2> QED
    BY <2>3 DEF K
<1> QED
  BY <1>3, <1>4

\* release_barrier_buffer: the commands it takes keep their order, behind those
\* that were ready and ahead of those that stay.
LEMMA ReleaseKeepsOrder ==
    ASSUME NEW R, NEW q, NEW done, QueueSound(q, done, R)
    PROVE  /\ QueueSound(Released(q), done, R)
           /\ Held(Released(q)) = Held(q)
<1> DEFINE r == Released(q)
           b == q.barrier_buffer
<1>0. q \in Queues /\ Bounded(q) /\ QueueOrder(q, done, R)
  BY DEF QueueSound
<1>1. PICK n : n = FitCount(q, b)
  OBVIOUS
<1>2. /\ n \in 0 .. Len(b)
      /\ \A p \in Priorities : Len(q.ready[p]) + Cardinality(Entering(b, n, p)) <= Limits[p]
  BY <1>0, <1>1, FitCounts, QueueFields
<1>3. /\ b \in Seq(Command) /\ Len(b) \in Nat /\ n \in Nat /\ n <= Len(b)
      /\ Chained(b, R) /\ Linked(ToSet(done), ToSet(b), R)
      /\ \A i \in 1 .. Len(b) : b[i] \in Command /\ b[i] \in ToSet(b)
      /\ \A x \in ToSet(b) : \E i \in 1 .. Len(b) : b[i] = x
  BY <1>0, <1>2, QueueFields, ElementsOf DEF QueueOrder
<1>4. /\ r.ready = [p \in Priorities |-> q.ready[p] \o Picked(b, Entering(b, n, p))]
      /\ r.barrier_buffer = SubSeq(b, n + 1, Len(b))
      /\ r = [ready |-> r.ready, barrier_buffer |-> r.barrier_buffer]
  BY <1>1 DEF Released, WithReady
<1> HIDE DEF r, b
<1>5. /\ r.barrier_buffer \in Seq(Command)
      /\ Len(r.barrier_buffer) <= Len(b)
      /\ Chained(r.barrier_buffer, R)
      /\ ToSet(r.barrier_buffer) = {b[i] : i \in n + 1 .. Len(b)}
  <2>1. PICK d : d = SubSeq(b, n + 1, Len(b))
    OBVIOUS
  <2>2. /\ SubSeq(b, n + 1, Len(b)) \in Seq(Command)
        /\ Len(SubSeq(b, n + 1, Len(b))) <= Len(b)
        /\ Chained(SubSeq(b, n + 1, Len(b)), R)
        /\ ToSet(SubSeq(b, n + 1, Len(b))) = {b[i] : i \in n + 1 .. Len(b)}
    BY <1>2, <1>3, ChainDrop
  <2>3. r.barrier_buffer = d
    BY <1>4, <2>1
  <2> QED
    BY ONLY <2>1, <2>2, <2>3
<1>6. ASSUME NEW p \in Priorities
      PROVE  /\ r.ready[p] \in Seq(Command)
             /\ Len(r.ready[p]) <= Limits[p]
             /\ Chained(r.ready[p], R)
             /\ ToSet(r.ready[p]) = ToSet(q.ready[p]) \cup {b[i] : i \in Entering(b, n, p)}
             /\ \A x \in ToSet(r.ready[p]) : x.priority = p
             /\ Linked(ToSet(done), ToSet(r.ready[p]), R)
             /\ Linked(ToSet(r.ready[p]), ToSet(r.barrier_buffer), R)
  <2> DEFINE K == Entering(b, n, p)
             t == Picked(b, K)
  <2>0. /\ q.ready[p] \in Seq(Command)
        /\ \A x \in ToSet(q.ready[p]) : x.priority = p
        /\ Chained(q.ready[p], R)
        /\ Linked(ToSet(done), ToSet(q.ready[p]), R)
        /\ Linked(ToSet(q.ready[p]), ToSet(b), R)
    BY <1>0, QueueFields DEF QueueOrder, b
  <2>1. K \in SUBSET (1 .. n) /\ \A i \in K : b[i].priority = p
    BY DEF Entering
  <2>2. K \in SUBSET (1 .. Len(b))
    BY <1>3, <2>1
  <2> HIDE DEF K
  <2>3. /\ q.ready[p] \o t \in Seq(Command)
        /\ Len(q.ready[p] \o t) = Len(q.ready[p]) + Cardinality(K)
        /\ Chained(q.ready[p] \o t, R)
        /\ ToSet(q.ready[p] \o t) = ToSet(q.ready[p]) \cup {b[i] : i \in K}
        /\ {b[i] : i \in K} \subseteq ToSet(b)
    <3>1. /\ b \in Seq(Command) /\ Chained(b, R)
          /\ q.ready[p] \in Seq(Command) /\ Chained(q.ready[p], R)
          /\ Linked(ToSet(q.ready[p]), ToSet(b), R)
      BY <1>3, <2>0
    <3> QED
      BY ONLY <2>2, <3>1, ChainExtended
  <2>4. r.ready[p] = q.ready[p] \o t
    BY <1>4 DEF K
  <2> HIDE DEF t
  <2>5. Len(r.ready[p]) <= Limits[p]
    BY <1>2, <2>3, <2>4 DEF K
  <2>6. \A x \in ToSet(r.ready[p]) : x.priority = p
    BY <2>0, <2>1, <2>3, <2>4
  <2>7. Linked(ToSet(done), ToSet(r.ready[p]), R)
    BY <1>3, <2>0, <2>3, <2>4 DEF Linked
  <2>8. ASSUME NEW i \in K, NEW y \in ToSet(r.barrier_buffer)
         PROVE  <<b[i], y>> \in R
    <3>1. PICK j \in n + 1 .. Len(b) : y = b[j]
      BY <1>5
    <3>2. i \in 1 .. Len(b) /\ j \in 1 .. Len(b) /\ i < j
      BY <1>3, <2>1
    <3> QED
      BY <1>3, <3>1, <3>2 DEF Chained
  <2>9. ToSet(r.barrier_buffer) \subseteq ToSet(b)
    <3>1. \A i \in n + 1 .. Len(b) : i \in 1 .. Len(b)
      BY <1>3
    <3> QED
      BY <1>3, <1>5, <3>1
  <2>10. Linked(ToSet(r.ready[p]), ToSet(r.barrier_buffer), R)
    BY <2>0, <2>3, <2>4, <2>8, <2>9 DEF Linked
  <2> QED
    BY <2>3, <2>4, <2>5, <2>6, <2>7, <2>10 DEF K
<1>7. \A i \in n + 1 .. Len(b) : i \in 1 .. Len(b)
  BY <1>3
<1>8. r \in Queues
  <2>1. r.ready \in [Priorities -> Seq(Command)]
    BY <1>4, <1>6
  <2> QED
    BY <1>4, <1>5, <2>1 DEF Queues
<1>9. Len(r.barrier_buffer) <= BufferCapacity
  <2>1. Len(b) <= BufferCapacity /\ BufferCapacity \in Nat /\ Len(r.barrier_buffer) \in Nat
    BY <1>0, <1>5, LimitsAssumption DEF Bounded, BufferCapacity, Priorities, b
  <2> QED
    BY <1>3, <1>5, <2>1
<1>10. Bounded(r)
  BY <1>6, <1>9 DEF Bounded
<1>11. Linked(ToSet(done), ToSet(r.barrier_buffer), R)
  BY <1>3, <1>5, <1>7 DEF Linked
<1>12. QueueOrder(r, done, R)
  BY <1>0, <1>5, <1>6, <1>11 DEF QueueOrder
<1>13. Held(r) = Held(q)
  <2>0. /\ \A x : x \in Held(q) <=> \/ \E p \in Priorities : x \in ToSet(q.ready[p])
                                    \/ x \in ToSet(b)
        /\ \A x : x \in Held(r) <=> \/ \E p \in Priorities : x \in ToSet(r.ready[p])
                                    \/ x \in ToSet(r.barrier_buffer)
    BY <1>0, <1>8, QueueFields DEF b
  <2>1. ASSUME NEW x \in Held(r) PROVE x \in Held(q)
    <3>1. CASE x \in ToSet(r.barrier_buffer)
      BY <1>3, <1>5, <1>7, <2>0, <3>1
    <3>2. ASSUME NEW p \in Priorities, x \in ToSet(r.ready[p]) PROVE x \in Held(q)
      <4>1. CASE x \in ToSet(q.ready[p])
        BY <2>0, <4>1
      <4>2. ASSUME NEW i \in Entering(b, n, p), x = b[i] PROVE x \in Held(q)
        <5>1. i \in 1 .. Len(b)
          BY <1>3 DEF Entering
        <5> QED
          BY <1>3, <2>0, <4>2, <5>1
      <4> QED
        BY <1>6, <3>2, <4>1, <4>2
    <3> QED
      BY <2>0, <2>1, <3>1, <3>2
  <2>2. ASSUME NEW x \in Held(q) PROVE x \in Held(r)
    <3>1. ASSUME NEW p \in Priorities, x \in ToSet(q.ready[p]) PROVE x \in Held(r)
      BY <1>6, <2>0, <3>1
    <3>2. CASE x \in ToSet(b)
      <4>1. PICK i \in 1 .. Len(b) : b[i] = x
        BY <1>3, <3>2
      <4>2. CASE i <= n
        <5>1. b[i].priority \in Priorities /\ i \in Entering(b, n, b[i].priority)
          BY <1>3, <4>1, <4>2 DEF Command, Entering
        <5> QED
          BY <1>6, <2>0, <4>1, <5>1
      <4>3. CASE ~(i <= n)
        <5>1. i \in n + 1 .. Len(b)
          BY <1>3, <4>1, <4>3
        <5> QED
          BY <1>5, <2>0, <4>1, <5>1
      <4> QED
        BY <4>2, <4>3
    <3> QED
      BY <2>0, <2>2, <3>1, <3>2
  <2> QED
    BY <2>1, <2>2
<1> QED
  BY <1>8, <1>10, <1>12, <1>13 DEF QueueSound, r

-----------------------------------------------------------------------------
(* Commands under way. *)

\* No command comes twice.
Different == {x \in Command \X Command : x[1] # x[2]}

\* Those of one client and priority come in the order of their numbers, too.
InSequence ==
    {x \in Different : x[1].client = x[2].client /\ x[1].priority = x[2].priority
                          => x[1].sequence < x[2].sequence}

\* What a station can be held to: a command that overtook the buffer may stand
\* anywhere.
OrderOf(s) == IF s \in overtaking THEN Different ELSE InSequence

\* A station accounts for the commands it accepted.
Accounted(s) ==
    \A x \in Command :
        <<s, x>> \in accepted <=>
            x \in Held(queues[s]) \/ x \in ToSet(applied[s]) \/ <<s, x>> \in dropped

\* Queues and what was applied: the inductive invariant of the order of
\* commands.
QueuesInv ==
    /\ queues \in [Stations -> Queues]
    /\ applied \in [Stations -> Seq(Command)]
    /\ dropped \subseteq Stations \X Command
    /\ overtaking \subseteq Stations
    /\ \A s \in Stations : QueueSound(queues[s], applied[s], OrderOf(s)) /\ Accounted(s)

\* Counts of barriers and upgrades, which the bounds of the model read.
CountersInv ==
    /\ barriers \in 0 .. MaxBarriers
    /\ {version, reported} \subseteq [Stations -> 0 .. MaxUpgrades]

\* Neither order relates a command to itself.
LEMMA OrdersApart == Apart(Different) /\ Apart(InSequence)
BY DEF Apart, Different, InSequence

\* What is in order stays so when less is asked of it.
LEMMA WeakerOrder ==
    ASSUME NEW q, NEW done, QueueSound(q, done, InSequence)
    PROVE  QueueSound(q, done, Different)
<1>1. \A x \in InSequence : x \in Different
  BY DEF InSequence
<1>2. \A u : Chained(u, InSequence) => Chained(u, Different)
  BY <1>1 DEF Chained
<1>3. \A U, V : Linked(U, V, InSequence) => Linked(U, V, Different)
  BY <1>1 DEF Linked
<1> QED
  BY <1>2, <1>3 DEF QueueSound, QueueOrder

\* A step that concerns the queues of one station.
LEMMA OneStationStep ==
    ASSUME QueuesInv, NEW s \in Stations, NEW q, NEW done \in Seq(Command),
           queues' = [queues EXCEPT ![s] = q], applied' = [applied EXCEPT ![s] = done],
           dropped' \subseteq Stations \X Command, overtaking' \subseteq Stations,
           \A t \in Stations \ {s} : t \in overtaking' <=> t \in overtaking,
           \A t \in Stations \ {s}, x \in Command :
              /\ <<t, x>> \in accepted' <=> <<t, x>> \in accepted
              /\ <<t, x>> \in dropped' <=> <<t, x>> \in dropped,
           QueueSound(q, done, OrderOf(s)'),
           \A x \in Command :
              <<s, x>> \in accepted' <=> x \in Held(q) \/ x \in ToSet(done) \/ <<s, x>> \in dropped'
    PROVE  QueuesInv'
<1>1. queues \in [Stations -> Queues] /\ applied \in [Stations -> Seq(Command)]
  BY DEF QueuesInv
<1>2. /\ queues'[s] = q /\ applied'[s] = done
      /\ \A t \in Stations \ {s} : queues'[t] = queues[t] /\ applied'[t] = applied[t]
  BY <1>1
<1>3. q \in Queues
  BY DEF QueueSound
<1>4. queues' \in [Stations -> Queues] /\ applied' \in [Stations -> Seq(Command)]
  BY <1>1, <1>3
<1>5. QueueSound(queues'[s], applied'[s], OrderOf(s)') /\ Accounted(s)'
  BY <1>2 DEF Accounted
<1>6. ASSUME NEW t \in Stations \ {s}
      PROVE  QueueSound(queues'[t], applied'[t], OrderOf(t)') /\ Accounted(t)'
  <2>1. QueueSound(queues[t], applied[t], OrderOf(t)) /\ Accounted(t)
    BY DEF QueuesInv
  <2>2. OrderOf(t)' = OrderOf(t)
    BY DEF OrderOf
  <2>3. Accounted(t)'
    BY <1>2, <2>1 DEF Accounted
  <2> QED
    BY <1>2, <2>1, <2>2, <2>3
<1> QED
  BY <1>4, <1>5, <1>6 DEF QueuesInv

\* release_barrier_buffer and clear_barrier_buffer.
LEMMA BufferStep ==
    ASSUME QueuesInv, NEW s \in Stations, ReleaseBarrierBuffer(s) \/ ClearBarrierBuffer(s)
    PROVE  QueuesInv'
<1>0. /\ QueueSound(queues[s], applied[s], OrderOf(s)) /\ Accounted(s)
      /\ queues[s] \in Queues /\ applied[s] \in Seq(Command)
      /\ applied' = [applied EXCEPT ![s] = applied[s]]
      /\ accepted' = accepted /\ overtaking' = overtaking
      /\ dropped \subseteq Stations \X Command /\ overtaking \subseteq Stations
  BY DEF QueuesInv, ReleaseBarrierBuffer, ClearBarrierBuffer
<1>1. OrderOf(s)' = OrderOf(s)
  BY <1>0 DEF OrderOf
<1>2. CASE ReleaseBarrierBuffer(s)
  <2>1. PICK q : q = Released(queues[s])
    OBVIOUS
  <2>2. queues' = [queues EXCEPT ![s] = q] /\ dropped' = dropped
    BY <1>2, <2>1 DEF ReleaseBarrierBuffer
  <2>3. QueueSound(q, applied[s], OrderOf(s)) /\ Held(q) = Held(queues[s])
    BY <1>0, <2>1, ReleaseKeepsOrder
  <2>4. \A x \in Command :
           <<s, x>> \in accepted' <=>
              x \in Held(q) \/ x \in ToSet(applied[s]) \/ <<s, x>> \in dropped'
    BY <1>0, <2>2, <2>3 DEF Accounted
  <2> QED
    BY <1>0, <1>1, <2>2, <2>3, <2>4, OneStationStep
<1>3. CASE ClearBarrierBuffer(s)
  <2>1. PICK q : q = Cleared(queues[s])
    OBVIOUS
  <2>2. /\ queues' = [queues EXCEPT ![s] = q]
        /\ dropped' = dropped \cup ({s} \X ToSet(queues[s].barrier_buffer))
    BY <1>3, <2>1 DEF ClearBarrierBuffer
  <2>3. /\ QueueSound(q, applied[s], OrderOf(s))
        /\ Held(queues[s]) = Held(q) \cup ToSet(queues[s].barrier_buffer)
    BY <1>0, <2>1, ClearKeepsOrder
  <2>4. ToSet(queues[s].barrier_buffer) \subseteq Command
    BY <1>0, QueueFields
  <2>5. dropped' \subseteq Stations \X Command
    BY <1>0, <2>2, <2>4
  <2>6. \A x \in Command : <<s, x>> \in dropped' <=>
           <<s, x>> \in dropped \/ x \in ToSet(queues[s].barrier_buffer)
    BY <2>2
  <2>7. \A t \in Stations \ {s}, x \in Command : <<t, x>> \in dropped' <=> <<t, x>> \in dropped
    BY <2>2
  <2>8. \A x \in Command :
           <<s, x>> \in accepted' <=>
              x \in Held(q) \/ x \in ToSet(applied[s]) \/ <<s, x>> \in dropped'
    BY <1>0, <2>3, <2>6 DEF Accounted
  <2>9. \A t \in Stations \ {s}, x \in Command :
           /\ <<t, x>> \in accepted' <=> <<t, x>> \in accepted
           /\ <<t, x>> \in dropped' <=> <<t, x>> \in dropped
    BY <1>0, <2>7
  <2>10. queues' = [queues EXCEPT ![s] = q] /\ QueueSound(q, applied[s], OrderOf(s)')
    BY <1>1, <2>2, <2>3
  <2>11. /\ QueuesInv /\ applied[s] \in Seq(Command)
         /\ applied' = [applied EXCEPT ![s] = applied[s]]
         /\ overtaking' \subseteq Stations
         /\ \A t \in Stations \ {s} : t \in overtaking' <=> t \in overtaking
    BY <1>0
  <2> QED
    BY ONLY s \in Stations, <2>5, <2>8, <2>9, <2>10, <2>11, OneStationStep
<1> QED
  BY <1>2, <1>3

\* pop_next.
LEMMA PopStep ==
    ASSUME QueuesInv, NEW s \in Stations, PopNext(s)
    PROVE  QueuesInv'
<1>0. /\ QueueSound(queues[s], applied[s], OrderOf(s)) /\ Accounted(s)
      /\ queues[s] \in Queues /\ applied[s] \in Seq(Command) /\ CanPop(queues[s])
      /\ accepted' = accepted /\ overtaking' = overtaking /\ dropped' = dropped
      /\ dropped \subseteq Stations \X Command /\ overtaking \subseteq Stations
      /\ queues \in [Stations -> Queues] /\ applied \in [Stations -> Seq(Command)]
  BY DEF QueuesInv, PopNext
<1>1. OrderOf(s)' = OrderOf(s) /\ Apart(OrderOf(s))
  BY <1>0, OrdersApart DEF OrderOf
<1>2. PICK q, done : q = Popped(queues[s]) /\ done = Append(applied[s], NextCommand(queues[s]))
  OBVIOUS
<1>3. queues' = [queues EXCEPT ![s] = q] /\ applied' = [applied EXCEPT ![s] = done]
  BY <1>0, <1>2 DEF PopNext
<1>4. /\ QueueSound(q, done, OrderOf(s)) /\ done \in Seq(Command)
      /\ Held(queues[s]) = Held(q) \cup {NextCommand(queues[s])}
      /\ ToSet(done) = ToSet(applied[s]) \cup {NextCommand(queues[s])}
  BY <1>0, <1>1, <1>2, PopKeepsOrder
<1>5. \A x \in Command :
         <<s, x>> \in accepted' <=> x \in Held(q) \/ x \in ToSet(done) \/ <<s, x>> \in dropped'
  BY <1>0, <1>4 DEF Accounted
<1> QED
  BY <1>0, <1>1, <1>3, <1>4, <1>5, OneStationStep

\* push of an admitted command: its number is beyond all that were accepted.
LEMMA PumpStep ==
    ASSUME QueuesInv, BarrierTypes, AnswerInv, NEW c \in Clients, NEW n \in 1 .. MaxSequence,
           NEW p \in Used, NEW s \in Routed, PumpIngress(c, n, p, s)
    PROVE  QueuesInv'
<1> DEFINE command == [client |-> c, sequence |-> n, priority |-> p]
           before == Held(queues[s]) \cup ToSet(applied[s])
<1>0. /\ s \in Stations /\ command \in Command
      /\ QueueSound(queues[s], applied[s], OrderOf(s)) /\ Accounted(s)
      /\ queues[s] \in Queues /\ applied[s] \in Seq(Command)
      /\ queues \in [Stations -> Queues] /\ applied \in [Stations -> Seq(Command)]
      /\ dropped \subseteq Stations \X Command /\ overtaking \subseteq Stations
  BY Bounds DEF QueuesInv, Command
<1>1. n > last_sequence[c] /\ UNCHANGED <<applied, dropped>>
  BY DEF PumpIngress
<1>2. CASE ~Accepts(queues[s], command, Ingress)
  <2>1. UNCHANGED <<queues, accepted, overtaking>>
    BY <1>2 DEF PumpIngress, QueueAnswer, ProcessCommandFrame
  <2> QED
    BY <1>1, <2>1 DEF QueuesInv, Accounted, OrderOf
<1>3. CASE Accepts(queues[s], command, Ingress)
  <2>1. PICK q : q = Pushed(queues[s], command, Ingress)
    OBVIOUS
  <2>2. /\ queues' = [queues EXCEPT ![s] = q]
        /\ accepted' = accepted \cup {<<s, command>>}
        /\ overtaking' = IF active = NoBarrier /\ queues[s].barrier_buffer # <<>>
                         THEN overtaking \cup {s} ELSE overtaking
    BY <1>3, <2>1 DEF PumpIngress, QueueAnswer, ProcessCommandFrame
  <2>3. ASSUME NEW a \in before
        PROVE  a \in Command /\ <<a, command>> \in InSequence /\ a # command
    <3>1. a \in Command
      BY <1>0, QueueFields, ElementsOf
    <3>2. <<s, a>> \in accepted
      BY <1>0, <3>1 DEF Accounted
    <3>3. a.sequence <= last_sequence[a.client]
      <4>1. \A e \in accepted : e[2].sequence <= last_sequence[e[2].client]
        BY DEF AnswerInv, UnspentUnknown
      <4>2. <<s, a>>[2] = a
        OBVIOUS
      <4> QED
        BY <3>2, <4>1, <4>2
    <3>4. a.client = c => a.sequence < n
      <4>1. last_sequence[c] \in Nat /\ a.sequence \in Nat /\ n \in Nat
        BY <3>1, Bounds DEF AnswerInv, AnswerTypes, Command
      <4> QED
        BY <1>1, <3>3, <4>1
    <3>5. a # command
      <4>1. n \in Nat
        BY Bounds
      <4> QED
        BY <3>4, <4>1
    <3> QED
      BY <1>0, <3>1, <3>4, <3>5 DEF InSequence, Different
  <2>4. \A a \in before : <<a, command>> \in OrderOf(s)'
    BY <2>3 DEF OrderOf, InSequence
  <2>5. QueueSound(queues[s], applied[s], OrderOf(s)')
    <3>1. CASE s \in overtaking
      <4>1. s \in overtaking'
        BY <2>2, <3>1
      <4> QED
        BY <1>0, <3>1, <4>1 DEF OrderOf
    <3>2. CASE s \notin overtaking
      BY <1>0, <3>2, WeakerOrder DEF OrderOf
    <3> QED
      BY <3>1, <3>2
  <2>6. ASSUME Ingress.state \notin Closed, NEW b \in ToSet(queues[s].barrier_buffer)
        PROVE  <<command, b>> \in OrderOf(s)'
    <3>1. active = NoBarrier
      BY <2>6 DEF Ingress, Closed, BarrierTypes, Barrier
    <3>2. queues[s].barrier_buffer # <<>>
      BY <2>6 DEF ToSet
    <3>3. OrderOf(s)' = Different
      BY <2>2, <3>1, <3>2 DEF OrderOf
    <3>4. b \in before
      BY <1>0, QueueFields
    <3> QED
      BY <1>0, <2>3, <3>3, <3>4 DEF Different
  <2>7. QueueSound(q, applied[s], OrderOf(s)') /\ Held(q) = Held(queues[s]) \cup {command}
    <3> HIDE DEF command
    <3> QED
      BY <1>0, <1>3, <2>1, <2>4, <2>5, <2>6, PushKeepsOrder
  <2>8. \A x \in Command :
           <<s, x>> \in accepted' <=>
              x \in Held(q) \/ x \in ToSet(applied[s]) \/ <<s, x>> \in dropped'
    BY <1>0, <1>1, <2>2, <2>7 DEF Accounted
  <2>9. /\ applied' = [applied EXCEPT ![s] = applied[s]]
        /\ dropped' \subseteq Stations \X Command /\ overtaking' \subseteq Stations
        /\ \A t \in Stations \ {s} : t \in overtaking' <=> t \in overtaking
    BY <1>0, <1>1, <2>2
  <2>10. \A t \in Stations \ {s}, x \in Command :
            /\ <<t, x>> \in accepted' <=> <<t, x>> \in accepted
            /\ <<t, x>> \in dropped' <=> <<t, x>> \in dropped
    BY <1>1, <2>2
  <2> QED
    BY <1>0, <2>2, <2>7, <2>8, <2>9, <2>10, OneStationStep
<1> QED
  BY <1>2, <1>3

\* Every step keeps what the stations account for, and their order.
LEMMA StepQueues ==
    ASSUME QueuesInv, BarrierInv, AnswerInv, [Next]_vars
    PROVE  QueuesInv'
<1>1. ASSUME UNCHANGED <<queues, accepted, applied, dropped, overtaking>>
      PROVE  QueuesInv'
  BY <1>1 DEF QueuesInv, Accounted, OrderOf
<1>2. ASSUME NEW s \in Stations, RemoveStation(s)
      PROVE  QueuesInv'
  BY <1>1, <1>2 DEF RemoveStation, commands
<1>3. CASE \/ \E covered \in {stations} \cup {{s} : s \in stations},
                target \in 0 .. MaxTick, mode \in Modes :
                   RequestBarrier(covered, target, mode)
           \/ Poll \/ Resume
           \/ \E invalid \in SUBSET Stations : MigrateFrozen(invalid)
           \/ \E selected \in SUBSET stations : Advance(selected)
           \/ UNCHANGED vars
  BY <1>1, <1>3 DEF RequestBarrier, Poll, Resume, MigrateFrozen, Advance, vars, commands
<1>4. ASSUME NEW c \in Clients, NEW n \in 1 .. MaxSequence, NEW p \in Used, NEW s \in Routed,
             PumpIngress(c, n, p, s)
      PROVE  QueuesInv'
  BY <1>4, PumpStep DEF BarrierInv
<1> QED
  BY <1>2, <1>3, <1>4, BufferStep, PopStep DEF Next

\* Every step keeps the counters in their bounds.
LEMMA StepCounters ==
    ASSUME CountersInv, BarrierInv, [Next]_vars
    PROVE  CountersInv'
<1>0. /\ MaxBarriers \in Nat /\ MaxUpgrades \in Nat /\ barriers \in 0 .. MaxBarriers
      /\ version \in [Stations -> 0 .. MaxUpgrades] /\ version = reported
  BY BarrierAssumption DEF CountersInv, BarrierInv, BarrierSound, UpgradedWhole
<1>1. ASSUME UNCHANGED <<barriers, version, reported>> PROVE CountersInv'
  BY <1>1 DEF CountersInv
<1>2. ASSUME NEW covered \in {stations} \cup {{s} : s \in stations},
             NEW target \in 0 .. MaxTick, NEW mode \in Modes,
             RequestBarrier(covered, target, mode)
      PROVE  CountersInv'
  BY <1>0, <1>2 DEF RequestBarrier, upgrades, CountersInv
<1>3. ASSUME NEW invalid \in SUBSET Stations, MigrateFrozen(invalid)
      PROVE  CountersInv'
  <2>1. /\ \A s \in active.covered : version[s] < MaxUpgrades
        /\ barriers' = barriers
        /\ version' = [s \in Stations |-> IF s \in Restored(invalid) THEN version[s] + 1
                                          ELSE version[s]]
        /\ reported' = [s \in Stations |->
                           IF invalid = {} /\ s \in active.covered THEN reported[s] + 1
                           ELSE reported[s]]
    BY <1>3 DEF MigrateFrozen, controller
  <2>2. \A s \in Stations : s \in Restored(invalid) => version[s] < MaxUpgrades
    BY <2>1 DEF Restored
  <2>3. version' \in [Stations -> 0 .. MaxUpgrades]
    BY <1>0, <2>1, <2>2
  <2>4. reported' \in [Stations -> 0 .. MaxUpgrades]
    BY <1>0, <2>1
  <2> QED
    BY <1>0, <2>1, <2>3, <2>4 DEF CountersInv
<1>4. CASE Poll \/ Resume \/ UNCHANGED vars
  BY <1>1, <1>4 DEF Poll, Resume, vars, controller, upgrades
<1>5. CASE \E selected \in SUBSET stations : Advance(selected)
  BY <1>1, <1>5 DEF Advance, controller, upgrades
<1>6. CASE \E s \in Stations : \/ RemoveStation(s) \/ ReleaseBarrierBuffer(s)
                               \/ ClearBarrierBuffer(s) \/ PopNext(s)
  BY <1>1, <1>6 DEF RemoveStation, ReleaseBarrierBuffer, ClearBarrierBuffer, PopNext,
     controller, upgrades
<1>7. CASE \E c \in Clients, n \in 1 .. MaxSequence :
              \E p \in Used, s \in Routed : PumpIngress(c, n, p, s)
  BY <1>1, <1>7 DEF PumpIngress, controller, upgrades
<1> QED
  BY <1>2, <1>3, <1>4, <1>5, <1>6, <1>7 DEF Next

-----------------------------------------------------------------------------
(* Theorems. *)

\* BarrierController::poll reports a barrier frozen only when every covered station
\* has reached the target tick, and migrate_frozen replaces the stations it reports.
THEOREM BarrierSoundHolds == Spec => []BarrierSound
<1>1. Init => BarrierInv
  BY BarrierInit
<1>2. BarrierInv /\ [Next]_vars => BarrierInv'
  BY StepBarrier
<1>3. BarrierInv => BarrierSound
  BY DEF BarrierInv
<1> QED BY <1>1, <1>2, <1>3, PTL DEF Spec

\* The answers of process_command_frame are true of the command they name, and one
\* station at most takes it, however often it is sent again.
THEOREM AnswersTrueHolds == Spec => []AnswersTrue
<1>1. Init => AnswerInv
  BY AnswerInit
<1>2. AnswerInv /\ [Next]_vars => AnswerInv'
  BY StepAnswers
<1>3. AnswerInv => AnswersTrue
  BY DEF AnswerInv
<1> QED BY <1>1, <1>2, <1>3, PTL DEF Spec

\* A command a station accepted is in its queues, applied once or cleared on
\* purpose, through pauses, blocked releases and upgrades, and those of one client
\* and priority are applied in the order of their numbers unless one was let past
\* the buffer: process_command_frame, push, release_barrier_buffer and pop_next
\* lose, double and swap none.
THEOREM AcceptedInOrderHolds == Spec => []AcceptedInOrder
<1>1. Init => QueuesInv /\ CountersInv
  <2> SUFFICES ASSUME Init PROVE QueuesInv /\ CountersInv
    OBVIOUS
  <2>1. /\ queues = [s \in Stations |-> EmptyQueues]
        /\ applied = [s \in Stations |-> <<>>]
        /\ accepted = {} /\ dropped = {} /\ overtaking = {}
    BY DEF Init
  <2>2. /\ EmptyQueues \in Queues
        /\ EmptyQueues.barrier_buffer = <<>>
        /\ \A p \in Priorities : EmptyQueues.ready[p] = <<>>
    BY DEF EmptyQueues, Queues
  <2>3. ToSet(<<>>) = {} /\ Len(<<>>) = 0 /\ \A R : Chained(<<>>, R)
    BY DEF ToSet, Chained
  <2>4. Bounded(EmptyQueues)
    BY <2>2, <2>3, LimitsAssumption DEF Bounded, BufferCapacity, Priorities
  <2>5. \A R : QueueSound(EmptyQueues, <<>>, R)
    BY <2>2, <2>3, <2>4 DEF QueueSound, QueueOrder, Linked
  <2>6. Held(EmptyQueues) = {}
    BY <2>2, <2>3, QueueFields
  <2>7. \A s \in Stations : queues[s] = EmptyQueues /\ applied[s] = <<>>
    BY <2>1
  <2>8. \A s \in Stations : Accounted(s)
    BY <2>1, <2>3, <2>6, <2>7 DEF Accounted
  <2>9. QueuesInv
    BY <2>1, <2>2, <2>5, <2>7, <2>8 DEF QueuesInv
  <2> QED
    BY <2>9, BarrierAssumption DEF Init, CountersInv
<1>2. BarrierInv /\ AnswerInv /\ QueuesInv /\ CountersInv => AcceptedInOrder
  <2> SUFFICES ASSUME BarrierInv, AnswerInv, QueuesInv, CountersInv PROVE AcceptedInOrder
    OBVIOUS
  <2>1. TypeOK
    BY DEF TypeOK, BarrierInv, BarrierTypes, AnswerInv, AnswerTypes, QueuesInv, QueueSound,
           CountersInv
  <2>2. ASSUME NEW s \in Stations
        PROVE  /\ {<<s, x>> : x \in Held(queues[s]) \cup ToSet(applied[s])} \cup
                     {e \in dropped : e[1] = s} = {e \in accepted : e[1] = s}
               /\ IsInjective(applied[s])
               /\ Held(queues[s]) \cap ToSet(applied[s]) = {}
               /\ s \notin overtaking => Chained(applied[s], InSequence)
    <3>1. /\ QueueSound(queues[s], applied[s], OrderOf(s)) /\ Accounted(s)
          /\ queues[s] \in Queues /\ applied[s] \in Seq(Command)
          /\ Apart(OrderOf(s))
      BY OrdersApart DEF QueuesInv, OrderOf
    <3>2. /\ ToSet(applied[s]) \subseteq Command
          /\ Held(queues[s]) \subseteq Command
      BY <3>1, QueueFields, ElementsOf
    <3>3. /\ Chained(applied[s], OrderOf(s))
          /\ \A x \in ToSet(applied[s]), y \in Held(queues[s]) : <<x, y>> \in OrderOf(s)
      BY <3>1, QueueFields DEF QueueSound, QueueOrder, Linked
    <3>4. Held(queues[s]) \cap ToSet(applied[s]) = {}
      BY <3>1, <3>2, <3>3 DEF Apart
    <3>5. IsInjective(applied[s])
      <4> DEFINE done == applied[s]
      <4>1. /\ Len(done) \in Nat /\ DOMAIN done = 1 .. Len(done)
            /\ \A i \in 1 .. Len(done) : done[i] \in Command
        BY <3>1
      <4>2. \A i, j \in 1 .. Len(done) : i < j => done[i] # done[j]
        BY <3>1, <3>3, <4>1 DEF Chained, Apart
      <4> HIDE DEF done
      <4>3. \A i, j \in 1 .. Len(done) : done[i] = done[j] => i = j
        BY <4>1, <4>2
      <4> QED
        BY <4>1, <4>3 DEF IsInjective, done
    <3>6. {<<s, x>> : x \in Held(queues[s]) \cup ToSet(applied[s])} \cup
             {e \in dropped : e[1] = s} = {e \in accepted : e[1] = s}
      <4>1. \A e \in accepted \cup dropped : e \in Stations \X Command
        BY DEF AnswerInv, AnswerTypes, QueuesInv
      <4>2. ASSUME NEW e \in accepted, e[1] = s
            PROVE  e \in {<<s, x>> : x \in Held(queues[s]) \cup ToSet(applied[s])}
                          \cup {d \in dropped : d[1] = s}
        <5>1. PICK x \in Command : e = <<s, x>>
          BY <4>1, <4>2
        <5> QED
          BY <3>1, <4>2, <5>1 DEF Accounted
      <4>3. ASSUME NEW x \in Held(queues[s]) \cup ToSet(applied[s])
            PROVE  <<s, x>> \in accepted
        BY <3>1, <3>2 DEF Accounted
      <4>4. ASSUME NEW e \in dropped, e[1] = s PROVE e \in accepted
        <5>1. PICK x \in Command : e = <<s, x>>
          BY <4>1, <4>4
        <5> QED
          BY <3>1, <4>4, <5>1 DEF Accounted
      <4> QED
        BY <4>2, <4>3, <4>4
    <3> QED
      BY <3>3, <3>4, <3>5, <3>6 DEF OrderOf
  <2>3. AcceptedConserved
    BY <2>1, <2>2 DEF AcceptedConserved, Queued
  <2>4. ASSUME NEW s \in Stations \ overtaking, NEW i \in DOMAIN applied[s],
               NEW j \in DOMAIN applied[s], i < j,
               applied[s][i].client = applied[s][j].client,
               applied[s][i].priority = applied[s][j].priority
        PROVE  applied[s][i].sequence < applied[s][j].sequence
    <3>1. i \in 1 .. Len(applied[s]) /\ j \in 1 .. Len(applied[s])
      BY DEF QueuesInv
    <3>2. <<applied[s][i], applied[s][j]>> \in InSequence
      BY <2>2, <2>4, <3>1 DEF Chained
    <3> QED
      BY <2>4, <3>2 DEF InSequence
  <2>5. ClientOrder
    BY <2>4 DEF ClientOrder
  <2> QED
    BY <2>3, <2>5 DEF AcceptedInOrder
<1>3. BarrierInv /\ AnswerInv /\ QueuesInv /\ [Next]_vars => QueuesInv'
  BY StepQueues
<1>4. BarrierInv /\ CountersInv /\ [Next]_vars => CountersInv'
  BY StepCounters
<1> QED
  BY <1>1, <1>2, <1>3, <1>4, BarrierInit, StepBarrier, AnswerInit, StepAnswers, PTL DEF Spec

-----------------------------------------------------------------------------
(* The codec: cursors. *)

\* f has where a cursor is after each of n items, from at on, if E says where an
\* item ends.
Walks(f, E, at, n) ==
    /\ f \in [0 .. n -> Nat]
    /\ f[0] = at /\ \A k \in 1 .. n : f[k] = E[f[k - 1]]

LEMMA WalkRuns ==
    ASSUME NEW E \in [Nat -> Nat], NEW at \in Nat, NEW n \in Nat
    PROVE  \E f : Walks(f, E, at, n)
<1> DEFINE items == [i \in 1 .. n |-> i]
           G == [x \in Nat \X Nat |-> E[x[1]]]
<1>1. items \in Seq(Nat) /\ Len(items) = n /\ \A k \in 1 .. n : items[k] \in Nat
  OBVIOUS
<1>2. G \in [Nat \X Nat -> Nat] /\ \A a, b \in Nat : G[<<a, b>>] = E[a]
  OBVIOUS
<1> HIDE DEF items, G
<1>3. PICK f \in [0 .. n -> Nat] : Turns(f, at, items, G)
  BY <1>1, <1>2, LoopRuns
<1>4. f[0] = at /\ \A k \in 1 .. n : f[k] = G[<<f[k - 1], items[k]>>]
  BY <1>1, <1>3 DEF Turns
<1>5. ASSUME NEW k \in 1 .. n PROVE f[k] = E[f[k - 1]]
  <2>1. k - 1 \in 0 .. n
    OBVIOUS
  <2>2. PICK a \in Nat, b \in Nat : a = f[k - 1] /\ b = items[k]
    BY <1>1, <1>3, <2>1
  <2>3. f[k] = G[<<a, b>>]
    BY <1>4, <2>2
  <2> QED
    BY <1>2, <2>2, <2>3
<1> QED
  BY <1>3, <1>4, <1>5 DEF Walks

\* Two walks of the same items.
LEMMA WalkUnique ==
    ASSUME NEW E, NEW at, NEW n \in Nat, NEW f, NEW g, Walks(f, E, at, n), Walks(g, E, at, n)
    PROVE  f = g
<1> DEFINE P == {k \in 0 .. n : f[k] = g[k]}
<1>1. 0 \in P
  BY DEF Walks
<1>2. ASSUME NEW k \in 0 .. n - 1, k \in P PROVE k + 1 \in P
  <2>1. PICK m \in 1 .. n : m = k + 1 /\ m - 1 = k
    OBVIOUS
  <2>2. f[m] = E[f[m - 1]] /\ g[m] = E[g[m - 1]]
    BY <2>1 DEF Walks
  <2>3. f[m] = g[m] /\ m \in 0 .. n
    BY <1>2, <2>1, <2>2
  <2> QED
    BY <2>1, <2>3
<1> HIDE DEF P
<1>3. 0 .. n \subseteq P
  BY <1>1, <1>2, EveryTurn
<1>4. \A k \in 0 .. n : f[k] = g[k]
  BY <1>3 DEF P
<1> QED
  BY <1>4 DEF Walks

\* A cursor never goes back.
Forward(E) == E \in [Nat -> Nat] /\ \A a \in Nat : a <= E[a]

LEMMA WalkForward ==
    ASSUME NEW E, NEW at \in Nat, NEW n \in Nat, NEW f, Forward(E), Walks(f, E, at, n)
    PROVE  /\ \A k \in 0 .. n : at <= f[k] /\ f[k] <= f[n]
           /\ \A k \in 1 .. n : f[k - 1] <= f[k]
<1>1. ASSUME NEW k \in 1 .. n PROVE f[k - 1] <= f[k]
  <2>1. k - 1 \in 0 .. n
    OBVIOUS
  <2>2. f[k - 1] \in Nat /\ f[k] = E[f[k - 1]]
    BY <2>1 DEF Walks
  <2> QED
    BY <2>2 DEF Forward
<1>2. \A k \in 0 .. n : f[k] \in Nat
  BY DEF Walks
<1>3. \A k \in 0 .. n : at <= f[k]
  <2> DEFINE P == {k \in 0 .. n : at <= f[k]}
  <2>1. 0 \in P
    BY DEF Walks
  <2>2. ASSUME NEW k \in 0 .. n - 1, k \in P PROVE k + 1 \in P
    <3>1. PICK m \in 1 .. n : m = k + 1 /\ m - 1 = k
      OBVIOUS
    <3>2. f[m - 1] <= f[m] /\ f[m - 1] \in Nat /\ f[m] \in Nat /\ at <= f[m - 1]
      BY <1>1, <1>2, <2>2, <3>1
    <3> QED
      BY <3>1, <3>2
  <2> HIDE DEF P
  <2>3. 0 .. n \subseteq P
    BY <2>1, <2>2, EveryTurn
  <2> QED
    BY <2>3 DEF P
<1>4. \A k \in 0 .. n : f[n - k] <= f[n]
  <2> DEFINE P == {k \in 0 .. n : f[n - k] <= f[n]}
  <2>1. 0 \in P
    <3>1. PICK m \in 0 .. n : m = n - 0
      OBVIOUS
    <3>2. f[m] <= f[n]
      BY <1>2, <3>1
    <3> QED
      BY <3>1, <3>2
  <2>2. ASSUME NEW k \in 0 .. n - 1, k \in P PROVE k + 1 \in P
    <3>1. PICK m \in 1 .. n : m = n - k
      OBVIOUS
    <3>2. PICK l \in 0 .. n : l = m - 1 /\ l = n - (k + 1)
      BY <3>1
    <3>3. f[l] <= f[m] /\ f[m] <= f[n] /\ f[l] \in Nat /\ f[m] \in Nat /\ f[n] \in Nat
      BY <1>1, <1>2, <2>2, <3>1, <3>2
    <3>4. f[l] <= f[n]
      BY ONLY <3>3
    <3> QED
      BY <3>2, <3>4
  <2> HIDE DEF P
  <2>3. 0 .. n \subseteq P
    BY <2>1, <2>2, EveryTurn
  <2> QED
    BY <2>3 DEF P
<1>5. ASSUME NEW k \in 0 .. n PROVE f[k] <= f[n]
  <2>1. PICK l \in 0 .. n : l = n - k /\ k = n - l
    OBVIOUS
  <2> QED
    BY <1>4, <2>1
<1> QED
  BY <1>1, <1>3, <1>5

\* What E reads from d on, up to m further, F reads from 0 on.
Shifts(E, F, d, m) ==
    \A a \in Nat : /\ F[a] <= m <=> E[d + a] <= d + m
                   /\ F[a] <= m => E[d + a] = d + F[a]

LEMMA WalkShifts ==
    ASSUME NEW E, NEW F, NEW d \in Nat, NEW m \in Nat, Shifts(E, F, d, m),
           Forward(E), Forward(F),
           NEW at \in Nat, at <= m, NEW n \in Nat, NEW e, NEW f,
           Walks(e, E, d + at, n), Walks(f, F, at, n)
    PROVE  \A k \in 0 .. n : /\ f[k] <= m <=> e[k] <= d + m
                             /\ f[k] <= m => e[k] = d + f[k]
<1> DEFINE Same(k) == /\ f[k] <= m <=> e[k] <= d + m
                      /\ f[k] <= m => e[k] = d + f[k]
           P == {k \in 0 .. n : Same(k)}
<1>1. \A k \in 0 .. n : e[k] \in Nat /\ f[k] \in Nat
  BY DEF Walks
<1>2. Same(0)
  BY DEF Walks
<1>3. ASSUME NEW k \in 0 .. n - 1, Same(k) PROVE Same(k + 1)
  <2>1. PICK j \in 1 .. n : j = k + 1 /\ j - 1 = k /\ k \in 0 .. n /\ j \in 0 .. n
    OBVIOUS
  <2>2. PICK a \in Nat, b \in Nat : a = f[k] /\ b = e[k]
    BY <1>1, <2>1
  <2>3. f[j] = F[a] /\ e[j] = E[b] /\ f[j] \in Nat /\ e[j] \in Nat
    BY <1>1, <2>1, <2>2 DEF Walks
  <2>4. CASE a <= m
    <3>1. b = d + a
      BY <1>3, <2>2, <2>4
    <3>2. /\ F[a] <= m <=> E[d + a] <= d + m
          /\ F[a] <= m => E[d + a] = d + F[a]
      BY DEF Shifts
    <3>3. Same(j)
      BY <2>3, <3>1, <3>2
    <3> QED
      BY <2>1, <3>3
  <2>5. CASE ~(a <= m)
    <3>1. ~(b <= d + m)
      BY <1>3, <2>2, <2>5
    <3>2. a <= F[a] /\ b <= E[b] /\ F[a] \in Nat /\ E[b] \in Nat
      BY DEF Forward
    <3>3. ~(f[j] <= m) /\ ~(e[j] <= d + m)
      BY <2>3, <2>5, <3>1, <3>2
    <3> QED
      BY <2>1, <3>3
  <2> QED
    BY <2>4, <2>5
<1> HIDE DEF Same
<1>4. 0 \in P /\ \A k \in 0 .. n - 1 : k \in P => k + 1 \in P
  BY <1>2, <1>3
<1> HIDE DEF P
<1>5. 0 .. n \subseteq P
  BY <1>4, EveryTurn
<1> QED
  BY <1>5 DEF P, Same

-----------------------------------------------------------------------------
(* The codec: where components and entities end. *)

ComponentReader(input) == [at \in Nat |-> ComponentEnd(input, at)]
EntityReader(input) == [at \in Nat |-> EntityEnd(input, at)]

LEMMA UnitAt ==
    ASSUME NEW input \in Seq(Nat), NEW at \in Nat \ {0}, at <= Len(input)
    PROVE  input[at] \in Nat
<1>1. at \in 1 .. Len(input)
  OBVIOUS
<1> QED
  BY <1>1

LEMMA BytesForward ==
    ASSUME NEW input \in Seq(Nat), NEW at \in Nat \ {0}
    PROVE  /\ BytesEnd(input, at) \in Nat /\ at <= BytesEnd(input, at)
           /\ at > Len(input) => BytesEnd(input, at) = at
           /\ at <= Len(input) => BytesEnd(input, at) = at + input[at]
<1>1. CASE at > Len(input)
  BY <1>1 DEF BytesEnd
<1>2. CASE at <= Len(input)
  <2>1. input[at] \in Nat
    BY <1>2, UnitAt
  <2>2. BytesEnd(input, at) = at + input[at]
    BY <1>2 DEF BytesEnd
  <2> QED
    BY <1>2, <2>1, <2>2
<1> QED
  BY <1>1, <1>2

LEMMA ComponentForward ==
    ASSUME NEW input \in Seq(Nat)
    PROVE  Forward(ComponentReader(input))
<1>1. ASSUME NEW at \in Nat PROVE ComponentEnd(input, at) \in Nat /\ at <= ComponentEnd(input, at)
  <2>1. PICK b \in Nat \ {0} : b = at + 2
    OBVIOUS
  <2>2. BytesEnd(input, b) \in Nat /\ b <= BytesEnd(input, b)
    BY BytesForward
  <2> QED
    BY <2>1, <2>2 DEF ComponentEnd
<1> QED
  BY <1>1 DEF Forward, ComponentReader

LEMMA ComponentWalk ==
    ASSUME NEW input \in Seq(Nat), NEW at \in Nat, NEW n \in Nat
    PROVE  Walks(Ends(ComponentEnd, input, at, n), ComponentReader(input), at, n)
<1> DEFINE ends == Ends(ComponentEnd, input, at, n)
           E == ComponentReader(input)
<1>1. E \in [Nat -> Nat] /\ \A a \in Nat : E[a] = ComponentEnd(input, a)
  BY ComponentForward DEF Forward, ComponentReader
<1> HIDE DEF E
<1>2. PICK f : Walks(f, E, at, n)
  BY <1>1, WalkRuns
<1>3. f = [k \in 0 .. n |-> IF k = 0 THEN at ELSE ComponentEnd(input, f[k - 1])]
  <2>1. ASSUME NEW k \in 0 .. n
        PROVE  f[k] = IF k = 0 THEN at ELSE ComponentEnd(input, f[k - 1])
    <3>1. CASE k = 0
      BY <1>2, <3>1 DEF Walks
    <3>2. CASE k \in 1 .. n
      <4>1. k - 1 \in 0 .. n
        BY <3>2
      <4>2. PICK a \in Nat : a = f[k - 1] /\ f[k] = E[a]
        BY <1>2, <3>2, <4>1 DEF Walks
      <4>3. f[k] = ComponentEnd(input, a)
        BY <1>1, <4>2
      <4>4. k # 0
        BY <3>2
      <4> QED
        BY <4>2, <4>3, <4>4
    <3> QED
      BY <3>1, <3>2
  <2> QED
    BY <1>2, <2>1 DEF Walks
<1>4. ends = CHOOSE g : g = [k \in 0 .. n |-> IF k = 0 THEN at ELSE ComponentEnd(input, g[k - 1])]
  <2>1. Len([item \in 1 .. n |-> item]) = n
    OBVIOUS
  <2> QED
    BY <2>1 DEF Ends, Loop
<1>5. ends = [k \in 0 .. n |-> IF k = 0 THEN at ELSE ComponentEnd(input, ends[k - 1])]
  BY <1>3, <1>4
<1> HIDE DEF ends
<1>6. ends[0] = at /\ \A k \in 1 .. n : ends[k] = ComponentEnd(input, ends[k - 1])
  <2>1. 0 \in 0 .. n /\ \A k \in 1 .. n : k \in 0 .. n /\ k # 0
    OBVIOUS
  <2> QED
    BY <1>5, <2>1
<1>7. \A k \in 0 .. n : ends[k] \in Nat
  <2> DEFINE P == {k \in 0 .. n : ends[k] \in Nat}
  <2>1. 0 \in P
    BY <1>6
  <2>2. ASSUME NEW k \in 0 .. n - 1, k \in P PROVE k + 1 \in P
    <3>1. PICK j \in 1 .. n : j = k + 1 /\ j - 1 = k
      OBVIOUS
    <3>2. PICK a \in Nat : a = ends[j - 1]
      BY <2>2, <3>1
    <3>3. ends[j] = ComponentEnd(input, a)
      BY <1>6, <3>2
    <3>4. ends[j] \in Nat
      BY <1>1, <3>3
    <3> QED
      BY <3>1, <3>4
  <2> HIDE DEF P
  <2>3. 0 .. n \subseteq P
    BY <2>1, <2>2, EveryTurn
  <2> QED
    BY <2>3 DEF P
<1>8. ends \in [0 .. n -> Nat]
  BY <1>5, <1>7
<1>9. \A k \in 1 .. n : ends[k] = E[ends[k - 1]]
  <2> TAKE k \in 1 .. n
  <2>1. k - 1 \in 0 .. n
    OBVIOUS
  <2>2. ends[k - 1] \in Nat
    BY <1>7, <2>1
  <2> QED
    BY <1>1, <1>6, <2>2
<1>10. Walks(ends, E, at, n)
  BY <1>6, <1>8, <1>9 DEF Walks
<1> QED
  BY <1>10 DEF ends, E

LEMMA EntityForward ==
    ASSUME NEW input \in Seq(Nat)
    PROVE  Forward(EntityReader(input))
<1>1. ASSUME NEW at \in Nat PROVE EntityEnd(input, at) \in Nat /\ at <= EntityEnd(input, at)
  <2>1. PICK b \in Nat \ {0} : b = at + 2
    OBVIOUS
  <2>2. CASE b > Len(input)
    BY <2>1, <2>2 DEF EntityEnd
  <2>3. CASE b <= Len(input)
    <3>1. PICK n \in Nat : n = input[b]
      BY <2>3, UnitAt
    <3>2. PICK ends : ends = Ends(ComponentEnd, input, b, n)
      OBVIOUS
    <3>3. Walks(ends, ComponentReader(input), b, n)
      BY <3>2, ComponentWalk
    <3>4. n \in 0 .. n
      OBVIOUS
    <3>5. ends[n] \in Nat /\ b <= ends[n]
      BY <3>3, <3>4, ComponentForward, WalkForward DEF Walks
    <3>6. EntityEnd(input, at) = ends[n]
      BY <2>1, <2>3, <3>1, <3>2 DEF EntityEnd
    <3> QED
      BY <2>1, <3>5, <3>6
  <2> QED
    BY <2>2, <2>3
<1> QED
  BY <1>1 DEF Forward, EntityReader

LEMMA EntityWalk ==
    ASSUME NEW input \in Seq(Nat), NEW at \in Nat, NEW n \in Nat
    PROVE  Walks(Ends(EntityEnd, input, at, n), EntityReader(input), at, n)
<1> DEFINE ends == Ends(EntityEnd, input, at, n)
           E == EntityReader(input)
<1>1. E \in [Nat -> Nat] /\ \A a \in Nat : E[a] = EntityEnd(input, a)
  BY EntityForward DEF Forward, EntityReader
<1> HIDE DEF E
<1>2. PICK f : Walks(f, E, at, n)
  BY <1>1, WalkRuns
<1>3. f = [k \in 0 .. n |-> IF k = 0 THEN at ELSE EntityEnd(input, f[k - 1])]
  <2>1. ASSUME NEW k \in 0 .. n
        PROVE  f[k] = IF k = 0 THEN at ELSE EntityEnd(input, f[k - 1])
    <3>1. CASE k = 0
      BY <1>2, <3>1 DEF Walks
    <3>2. CASE k \in 1 .. n
      <4>1. k - 1 \in 0 .. n
        BY <3>2
      <4>2. PICK a \in Nat : a = f[k - 1] /\ f[k] = E[a]
        BY <1>2, <3>2, <4>1 DEF Walks
      <4>3. f[k] = EntityEnd(input, a)
        BY <1>1, <4>2
      <4>4. k # 0
        BY <3>2
      <4> QED
        BY <4>2, <4>3, <4>4
    <3> QED
      BY <3>1, <3>2
  <2> QED
    BY <1>2, <2>1 DEF Walks
<1>4. ends = CHOOSE g : g = [k \in 0 .. n |-> IF k = 0 THEN at ELSE EntityEnd(input, g[k - 1])]
  <2>1. Len([item \in 1 .. n |-> item]) = n
    OBVIOUS
  <2> QED
    BY <2>1 DEF Ends, Loop
<1>5. ends = [k \in 0 .. n |-> IF k = 0 THEN at ELSE EntityEnd(input, ends[k - 1])]
  BY <1>3, <1>4
<1> HIDE DEF ends
<1>6. ends[0] = at /\ \A k \in 1 .. n : ends[k] = EntityEnd(input, ends[k - 1])
  <2>1. 0 \in 0 .. n /\ \A k \in 1 .. n : k \in 0 .. n /\ k # 0
    OBVIOUS
  <2> QED
    BY <1>5, <2>1
<1>7. \A k \in 0 .. n : ends[k] \in Nat
  <2> DEFINE P == {k \in 0 .. n : ends[k] \in Nat}
  <2>1. 0 \in P
    BY <1>6
  <2>2. ASSUME NEW k \in 0 .. n - 1, k \in P PROVE k + 1 \in P
    <3>1. PICK j \in 1 .. n : j = k + 1 /\ j - 1 = k
      OBVIOUS
    <3>2. PICK a \in Nat : a = ends[j - 1]
      BY <2>2, <3>1
    <3>3. ends[j] = EntityEnd(input, a)
      BY <1>6, <3>2
    <3>4. ends[j] \in Nat
      BY <1>1, <3>3
    <3> QED
      BY <3>1, <3>4
  <2> HIDE DEF P
  <2>3. 0 .. n \subseteq P
    BY <2>1, <2>2, EveryTurn
  <2> QED
    BY <2>3 DEF P
<1>8. ends \in [0 .. n -> Nat]
  BY <1>5, <1>7
<1>9. \A k \in 1 .. n : ends[k] = E[ends[k - 1]]
  <2> TAKE k \in 1 .. n
  <2>1. k - 1 \in 0 .. n
    OBVIOUS
  <2>2. ends[k - 1] \in Nat
    BY <1>7, <2>1
  <2> QED
    BY <1>1, <1>6, <2>2
<1>10. Walks(ends, E, at, n)
  BY <1>6, <1>8, <1>9 DEF Walks
<1> QED
  BY <1>10 DEF ends, E

\* Two units at least.
LEMMA Beyond ==
    ASSUME NEW input \in Seq(Nat), NEW at \in Nat
    PROVE  /\ ComponentEnd(input, at) \in Nat /\ at + 2 <= ComponentEnd(input, at)
           /\ EntityEnd(input, at) \in Nat /\ at + 2 <= EntityEnd(input, at)
<1>1. PICK b \in Nat \ {0} : b = at + 2
  OBVIOUS
<1>2. BytesEnd(input, b) \in Nat /\ b <= BytesEnd(input, b)
  BY BytesForward
<1>3. EntityEnd(input, at) \in Nat
  BY EntityForward DEF Forward, EntityReader
<1>4. CASE b > Len(input)
  BY <1>1, <1>2, <1>4 DEF EntityEnd, ComponentEnd
<1>5. CASE b <= Len(input)
  <2>1. PICK n \in Nat : n = input[b]
    BY <1>5, UnitAt
  <2>2. PICK ends : ends = Ends(ComponentEnd, input, b, n)
    OBVIOUS
  <2>3. Walks(ends, ComponentReader(input), b, n)
    BY <2>2, ComponentWalk
  <2>4. n \in 0 .. n
    OBVIOUS
  <2>5. b <= ends[n]
    BY <2>3, <2>4, ComponentForward, WalkForward
  <2>6. EntityEnd(input, at) = ends[n]
    BY <1>1, <1>5, <2>1, <2>2 DEF EntityEnd
  <2> QED
    BY <1>1, <1>2, <1>3, <2>5, <2>6 DEF ComponentEnd
<1> QED
  BY <1>4, <1>5

-----------------------------------------------------------------------------
(* The codec: parts of an input. *)

\* q is what input has behind the first d units, or the beginning of that.
Window(q, input, d) ==
    /\ q \in Seq(Nat) /\ input \in Seq(Nat) /\ d \in Nat
    /\ d + Len(q) <= Len(input)
    /\ \A i \in 1 .. Len(q) : q[i] = input[d + i]

LEMMA PartOf ==
    ASSUME NEW S, NEW s \in Seq(S), NEW a \in Nat, NEW b \in Nat, a <= b, b <= Len(s)
    PROVE  /\ SubSeq(s, a + 1, b) \in Seq(S)
           /\ Len(SubSeq(s, a + 1, b)) = b - a
           /\ \A i \in 1 .. b - a : SubSeq(s, a + 1, b)[i] = s[a + i]
<1>1. Len(s) \in Nat /\ \A i \in 1 .. Len(s) : s[i] \in S
  OBVIOUS
<1>2. PICK m \in Nat : m = a + 1
  OBVIOUS
<1>3. \A i \in m .. b : s[i] \in S
  BY <1>1, <1>2
<1>4. PICK t : t = SubSeq(s, m, b)
  OBVIOUS
<1>5. /\ SubSeq(s, m, b) \in Seq(S)
      /\ Len(SubSeq(s, m, b)) = IF m <= b THEN b - m + 1 ELSE 0
      /\ \A i \in 1 .. b - m + 1 : SubSeq(s, m, b)[i] = s[m + i - 1]
  BY ONLY <1>3, m \in Nat, b \in Nat, SubSeqProperties
<1>6. /\ t \in Seq(S)
      /\ Len(t) = IF m <= b THEN b - m + 1 ELSE 0
      /\ \A i \in 1 .. b - m + 1 : t[i] = s[m + i - 1]
  BY ONLY <1>4, <1>5
<1>7. Len(t) = b - a
  BY <1>2, <1>6
<1>8. ASSUME NEW i \in 1 .. b - a PROVE t[i] = s[a + i]
  <2>1. i \in 1 .. b - m + 1 /\ m + i - 1 = a + i
    BY <1>2
  <2> QED
    BY <1>6, <2>1
<1> QED
  BY <1>2, <1>4, <1>6, <1>7, <1>8

\* The units of s behind the first a, up to the b-th.
Part(s, a, b) == SubSeq(s, a + 1, b)

\* A part is a window at its place.
LEMMA PartWindow ==
    ASSUME NEW s \in Seq(Nat), NEW a \in Nat, NEW b \in Nat, a <= b, b <= Len(s)
    PROVE  Window(Part(s, a, b), s, a) /\ Len(Part(s, a, b)) = b - a
<1>1. PICK q : q = SubSeq(s, a + 1, b)
  OBVIOUS
<1>2. q \in Seq(Nat) /\ Len(q) = b - a /\ \A i \in 1 .. b - a : q[i] = s[a + i]
  <2>1. /\ SubSeq(s, a + 1, b) \in Seq(Nat)
        /\ Len(SubSeq(s, a + 1, b)) = b - a
        /\ \A i \in 1 .. b - a : SubSeq(s, a + 1, b)[i] = s[a + i]
    BY ONLY s \in Seq(Nat), a \in Nat, b \in Nat, a <= b, b <= Len(s), PartOf
  <2> QED
    BY ONLY <1>1, <2>1
<1>3. Len(s) \in Nat /\ a + (b - a) <= Len(s)
  OBVIOUS
<1>4. Window(q, s, a)
  BY ONLY <1>2, <1>3, s \in Seq(Nat), a \in Nat DEF Window
<1>5. q = Part(s, a, b)
  BY ONLY <1>1 DEF Part
<1> QED
  BY ONLY <1>2, <1>4, <1>5

LEMMA SubWindow ==
    ASSUME NEW q, NEW input, NEW d, Window(q, input, d),
           NEW b \in Nat, NEW c \in Nat, b <= c, c <= Len(q),
           NEW x \in Nat, NEW y \in Nat, x = d + b, y = d + c
    PROVE  Part(q, b, c) = Part(input, x, y)
<1>1. /\ q \in Seq(Nat) /\ input \in Seq(Nat) /\ d \in Nat
      /\ Len(q) \in Nat /\ Len(input) \in Nat /\ d + Len(q) <= Len(input)
  BY DEF Window
<1>2. PICK u : u = Part(q, b, c)
  OBVIOUS
<1>3. PICK v : v = Part(input, x, y)
  OBVIOUS
<1>4. u \in Seq(Nat) /\ Len(u) = c - b /\ \A i \in 1 .. c - b : u[i] = q[b + i]
  <2>1. q \in Seq(Nat) /\ b <= c /\ c <= Len(q)
    BY <1>1
  <2>2. Window(u, q, b) /\ Len(u) = c - b
    BY ONLY <1>2, <2>1, b \in Nat, c \in Nat, PartWindow
  <2> QED
    BY ONLY <2>2 DEF Window
<1>5. v \in Seq(Nat) /\ Len(v) = c - b /\ \A i \in 1 .. c - b : v[i] = input[x + i]
  <2>1. input \in Seq(Nat) /\ x <= y /\ y <= Len(input) /\ y - x = c - b
    BY <1>1
  <2>2. Window(v, input, x) /\ Len(v) = y - x
    BY ONLY <1>3, <2>1, x \in Nat, y \in Nat, PartWindow
  <2> QED
    BY ONLY <2>1, <2>2 DEF Window
<1>6. ASSUME NEW i \in 1 .. c - b PROVE u[i] = v[i]
  <2>1. PICK k \in 1 .. Len(q) : k = b + i /\ d + k = x + i
    BY <1>1
  <2>2. q[k] = input[d + k]
    BY DEF Window
  <2> QED
    BY <1>4, <1>5, <2>1, <2>2
<1>7. u = v
  BY <1>4, <1>5, <1>6, SeqEqual
<1> QED
  BY ONLY <1>2, <1>3, <1>7

LEMMA BytesShift ==
    ASSUME NEW q, NEW input, NEW d, Window(q, input, d), NEW at \in Nat \ {0}
    PROVE  /\ BytesEnd(q, at) <= Len(q) <=> BytesEnd(input, d + at) <= d + Len(q)
           /\ BytesEnd(q, at) <= Len(q) => BytesEnd(input, d + at) = d + BytesEnd(q, at)
<1>1. /\ q \in Seq(Nat) /\ input \in Seq(Nat) /\ d \in Nat
      /\ Len(q) \in Nat /\ Len(input) \in Nat /\ d + Len(q) <= Len(input)
  BY DEF Window
<1>2. PICK b \in Nat \ {0} : b = d + at
  BY <1>1
<1>3. BytesEnd(input, b) \in Nat /\ b <= BytesEnd(input, b)
  BY <1>1, BytesForward
<1>4. CASE at > Len(q)
  <2>1. BytesEnd(q, at) = at
    BY <1>1, <1>4, BytesForward
  <2> QED
    BY <1>1, <1>2, <1>3, <1>4, <2>1
<1>5. CASE at <= Len(q)
  <2>1. at \in 1 .. Len(q) /\ b <= Len(input)
    BY <1>1, <1>2, <1>5
  <2>2. q[at] = input[b] /\ q[at] \in Nat
    BY <1>1, <1>2, <2>1 DEF Window
  <2>3. BytesEnd(q, at) = at + q[at] /\ BytesEnd(input, b) = b + input[b]
    BY <1>1, <1>5, <2>1, BytesForward
  <2>4. BytesEnd(input, b) = d + BytesEnd(q, at)
    BY <1>1, <1>2, <2>2, <2>3
  <2>5. PICK x \in Nat, y \in Nat : x = BytesEnd(q, at) /\ y = BytesEnd(input, d + at)
    BY <1>1, <1>2, <1>3, BytesForward
  <2>6. y = d + x
    BY <1>2, <2>4, <2>5
  <2>7. x <= Len(q) <=> y <= d + Len(q)
    BY <1>1, <2>6
  <2> QED
    BY <2>5, <2>6, <2>7
<1> QED
  BY <1>1, <1>4, <1>5

LEMMA ComponentShifts ==
    ASSUME NEW q, NEW input, NEW d, Window(q, input, d)
    PROVE  Shifts(ComponentReader(input), ComponentReader(q), d, Len(q))
<1>1. d \in Nat
  BY DEF Window
<1>2. ASSUME NEW a \in Nat
      PROVE  /\ ComponentReader(q)[a] <= Len(q)
                   <=> ComponentReader(input)[d + a] <= d + Len(q)
             /\ ComponentReader(q)[a] <= Len(q)
                   => ComponentReader(input)[d + a] = d + ComponentReader(q)[a]
  <2>1. PICK b \in Nat \ {0} : b = a + 2
    OBVIOUS
  <2>2. PICK e \in Nat : e = d + a /\ e + 2 = d + b
    BY <1>1, <2>1
  <2>3. ComponentReader(q)[a] = BytesEnd(q, b)
    BY <2>1 DEF ComponentReader, ComponentEnd
  <2>4. ComponentReader(input)[e] = BytesEnd(input, d + b)
    BY <2>2 DEF ComponentReader, ComponentEnd
  <2> QED
    BY <2>2, <2>3, <2>4, BytesShift
<1> QED
  BY <1>2 DEF Shifts

LEMMA EntityShifts ==
    ASSUME NEW q, NEW input, NEW d, Window(q, input, d)
    PROVE  Shifts(EntityReader(input), EntityReader(q), d, Len(q))
<1>1. /\ q \in Seq(Nat) /\ input \in Seq(Nat) /\ d \in Nat
      /\ Len(q) \in Nat /\ Len(input) \in Nat /\ d + Len(q) <= Len(input)
  BY DEF Window
<1>2. ASSUME NEW a \in Nat
      PROVE  /\ EntityReader(q)[a] <= Len(q)
                   <=> EntityReader(input)[d + a] <= d + Len(q)
             /\ EntityReader(q)[a] <= Len(q)
                   => EntityReader(input)[d + a] = d + EntityReader(q)[a]
  <2>1. PICK b \in Nat \ {0} : b = a + 2
    OBVIOUS
  <2>2. PICK e \in Nat : e = d + a /\ e + 2 = d + b
    BY <1>1, <2>1
  <2>3. EntityReader(q)[a] = EntityEnd(q, a) /\ EntityReader(input)[e] = EntityEnd(input, e)
    BY DEF EntityReader
  <2>4. /\ EntityEnd(q, a) \in Nat /\ a + 2 <= EntityEnd(q, a)
        /\ EntityEnd(input, e) \in Nat /\ e + 2 <= EntityEnd(input, e)
    BY <1>1, Beyond
  <2>5. CASE b > Len(q)
    BY <1>1, <2>1, <2>2, <2>3, <2>4, <2>5
  <2>6. CASE b <= Len(q)
    <3>1. PICK n \in Nat : n = q[b]
      BY <1>1, <2>6, UnitAt
    <3>2. PICK c \in Nat \ {0} : c = d + b /\ c = e + 2 /\ c <= Len(input)
      BY <1>1, <2>2, <2>6
    <3>3. input[c] = n
      <4>1. b \in 1 .. Len(q)
        BY <1>1, <2>6
      <4> QED
        BY <3>1, <3>2, <4>1 DEF Window
    <3>4. PICK f : f = Ends(ComponentEnd, q, b, n)
      OBVIOUS
    <3>5. PICK g : g = Ends(ComponentEnd, input, c, n)
      OBVIOUS
    <3>6. EntityEnd(q, a) = f[n] /\ EntityEnd(input, e) = g[n]
      <4>1. EntityEnd(q, a) = IF b > Len(q) THEN b ELSE Ends(ComponentEnd, q, b, q[b])[q[b]]
        BY <2>1 DEF EntityEnd
      <4>2. EntityEnd(input, e) =
               IF c > Len(input) THEN c ELSE Ends(ComponentEnd, input, c, input[c])[input[c]]
        BY <3>2 DEF EntityEnd
      <4>3. ~(b > Len(q)) /\ ~(c > Len(input))
        BY <1>1, <2>6, <3>2
      <4> QED
        BY <3>1, <3>3, <3>4, <3>5, <4>1, <4>2, <4>3
    <3>7. Walks(f, ComponentReader(q), b, n) /\ Walks(g, ComponentReader(input), d + b, n)
      BY <1>1, <3>2, <3>4, <3>5, ComponentWalk
    <3>8. n \in 0 .. n
      OBVIOUS
    <3>9. /\ f[n] <= Len(q) <=> g[n] <= d + Len(q)
          /\ f[n] <= Len(q) => g[n] = d + f[n]
      <4>1. /\ Shifts(ComponentReader(input), ComponentReader(q), d, Len(q))
            /\ Forward(ComponentReader(input)) /\ Forward(ComponentReader(q))
        BY <1>1, ComponentShifts, ComponentForward
      <4>2. Len(q) \in Nat /\ d \in Nat /\ b \in Nat /\ b <= Len(q) /\ n \in Nat
        BY <1>1, <2>6
      <4>3. \A k \in 0 .. n : /\ f[k] <= Len(q) <=> g[k] <= d + Len(q)
                              /\ f[k] <= Len(q) => g[k] = d + f[k]
        BY ONLY <3>7, <4>1, <4>2, WalkShifts
      <4> QED
        BY ONLY <3>8, <4>3
    <3> QED
      BY <2>2, <2>3, <3>6, <3>9
  <2> QED
    BY <1>1, <2>5, <2>6
<1> QED
  BY <1>2 DEF Shifts

\* What is read to its end from a part of an input is what is read from the input.
LEMMA ComponentShift ==
    ASSUME NEW q, NEW input, NEW d, Window(q, input, d), NEW a \in Nat,
           ComponentEnd(q, a) <= Len(q)
    PROVE  ComponentAt(q, a) = ComponentAt(input, d + a)
<1>1. /\ q \in Seq(Nat) /\ input \in Seq(Nat) /\ d \in Nat
      /\ Len(q) \in Nat /\ Len(input) \in Nat /\ d + Len(q) <= Len(input)
  BY DEF Window
<1>2. PICK b \in Nat \ {0}, i \in Nat : b = a + 2 /\ i = a + 1
  OBVIOUS
<1>3. PICK e \in Nat : e = d + a
  BY <1>1
<1>4. PICK c \in Nat : c = BytesEnd(q, b)
  BY <1>1, BytesForward
<1>5. b <= c /\ c <= Len(q)
  BY <1>1, <1>2, <1>4, BytesForward DEF ComponentEnd
<1>13. PICK l : l = BytesEnd(input, d + b)
  OBVIOUS
<1>14. l = d + c
  BY <1>4, <1>5, <1>13, BytesShift
<1>6. i \in 1 .. Len(q) /\ q[i] = input[d + i]
  <2>1. i \in 1 .. Len(q)
    BY <1>1, <1>2, <1>5
  <2> QED
    BY <2>1 DEF Window
<1>7. PICK x \in Nat, y \in Nat : x = d + b /\ y = d + c
  BY <1>1
<1>8. Part(q, b, c) = Part(input, x, y)
  BY <1>5, <1>7, SubWindow
<1>9. e + 1 = d + i /\ e + 2 = x /\ l = y
  BY <1>1, <1>2, <1>3, <1>7, <1>14
<1>10. ComponentAt(q, a) = [component_id |-> q[i], bytes |-> Part(q, b, c)]
  BY ONLY <1>2, <1>4 DEF ComponentAt, BytesAt, Part
<1>11. ComponentAt(input, e) = [component_id |-> input[d + i], bytes |-> Part(input, x, y)]
  BY ONLY <1>7, <1>13, <1>9 DEF ComponentAt, BytesAt, Part
<1> QED
  BY <1>3, <1>6, <1>8, <1>10, <1>11

LEMMA ComponentsShift ==
    ASSUME NEW q, NEW input, NEW d, Window(q, input, d), NEW at \in Nat, NEW n \in Nat,
           Ends(ComponentEnd, q, at, n)[n] <= Len(q)
    PROVE  ComponentsAt(q, at, n) = ComponentsAt(input, d + at, n)
<1>1. /\ q \in Seq(Nat) /\ input \in Seq(Nat) /\ d \in Nat
      /\ Len(q) \in Nat /\ Len(input) \in Nat /\ d + Len(q) <= Len(input)
  BY DEF Window
<1>2. PICK f : f = Ends(ComponentEnd, q, at, n)
  OBVIOUS
<1>3. PICK g : g = Ends(ComponentEnd, input, d + at, n)
  OBVIOUS
<1>4. PICK e \in Nat : e = d + at
  BY <1>1
<1>5. Walks(f, ComponentReader(q), at, n) /\ Walks(g, ComponentReader(input), d + at, n)
  BY <1>1, <1>2, <1>3, <1>4, ComponentWalk
<1>6. /\ Shifts(ComponentReader(input), ComponentReader(q), d, Len(q))
      /\ Forward(ComponentReader(input)) /\ Forward(ComponentReader(q))
  BY <1>1, ComponentShifts, ComponentForward
<1>7. /\ \A k \in 0 .. n : f[k] \in Nat /\ at <= f[k] /\ f[k] <= f[n]
      /\ \A k \in 1 .. n : f[k] = ComponentEnd(q, f[k - 1])
  <2>1. \A k \in 0 .. n : f[k] \in Nat
    BY <1>5 DEF Walks
  <2>2. \A k \in 0 .. n : at <= f[k] /\ f[k] <= f[n]
    BY <1>5, <1>6, WalkForward
  <2>3. ASSUME NEW k \in 1 .. n PROVE f[k] = ComponentEnd(q, f[k - 1])
    <3>1. k - 1 \in 0 .. n
      OBVIOUS
    <3>2. PICK a \in Nat : a = f[k - 1]
      BY <2>1, <3>1
    <3>3. f[k] = ComponentReader(q)[a]
      BY <1>5, <3>2 DEF Walks
    <3> QED
      BY <3>2, <3>3 DEF ComponentReader
  <2> QED
    BY <2>1, <2>2, <2>3
<1>8. \A k \in 0 .. n : f[k] <= Len(q)
  <2>1. n \in 0 .. n /\ f[n] <= Len(q)
    BY <1>2
  <2> QED
    BY <1>1, <1>7, <2>1
<1>9. \A k \in 0 .. n : g[k] = d + f[k]
  <2>1. at <= Len(q)
    <3>1. 0 \in 0 .. n
      OBVIOUS
    <3>2. f[0] \in Nat /\ at <= f[0] /\ f[0] <= Len(q)
      BY <1>7, <1>8, <3>1
    <3> QED
      BY <1>1, <3>2
  <2>2. \A k \in 0 .. n : /\ f[k] <= Len(q) <=> g[k] <= d + Len(q)
                          /\ f[k] <= Len(q) => g[k] = d + f[k]
    BY <1>1, <1>5, <1>6, <2>1, WalkShifts
  <2> QED
    BY <1>8, <2>2
<1>10. ASSUME NEW i \in 1 .. n PROVE ComponentAt(q, f[i - 1]) = ComponentAt(input, g[i - 1])
  <2>1. PICK k \in 0 .. n : k = i - 1
    OBVIOUS
  <2>2. PICK a \in Nat : a = f[k]
    BY <1>7
  <2>3. g[k] = d + a
    BY <1>9, <2>2
  <2>4. i \in 0 .. n /\ ComponentEnd(q, a) = f[i]
    BY <1>7, <2>1, <2>2
  <2>5. ComponentEnd(q, a) <= Len(q)
    BY <1>8, <2>4
  <2>6. ComponentAt(q, a) = ComponentAt(input, d + a)
    BY <2>5, ComponentShift
  <2> QED
    BY <2>1, <2>2, <2>3, <2>6
<1>11. ComponentsAt(q, at, n) = [i \in 1 .. n |-> ComponentAt(q, f[i - 1])]
  BY <1>2 DEF ComponentsAt
<1>12. ComponentsAt(input, d + at, n) = [i \in 1 .. n |-> ComponentAt(input, g[i - 1])]
  BY <1>3 DEF ComponentsAt
<1> QED
  BY <1>10, <1>11, <1>12

LEMMA EntityShift ==
    ASSUME NEW q, NEW input, NEW d, Window(q, input, d), NEW a \in Nat,
           EntityEnd(q, a) <= Len(q)
    PROVE  EntityAt(q, a) = EntityAt(input, d + a)
<1>1. /\ q \in Seq(Nat) /\ input \in Seq(Nat) /\ d \in Nat
      /\ Len(q) \in Nat /\ Len(input) \in Nat /\ d + Len(q) <= Len(input)
  BY DEF Window
<1>2. PICK b \in Nat \ {0}, i \in Nat : b = a + 2 /\ i = a + 1
  OBVIOUS
<1>3. PICK e \in Nat : e = d + a
  BY <1>1
<1>4. EntityEnd(q, a) \in Nat /\ b <= EntityEnd(q, a)
  BY <1>1, <1>2, Beyond
<1>5. b <= Len(q) /\ b \in 1 .. Len(q) /\ i \in 1 .. Len(q)
  <2>1. PICK l \in Nat, x \in Nat : l = Len(q) /\ x = EntityEnd(q, a) /\ b <= x /\ x <= l
    BY <1>1, <1>4
  <2>2. b \in 1 .. l /\ i \in 1 .. l
    BY ONLY <1>2, <2>1, a \in Nat
  <2> QED
    BY ONLY <2>1, <2>2
<1>6. PICK n \in Nat : n = q[b] /\ n = input[d + b]
  BY <1>1, <1>5, UnitAt DEF Window
<1>7. q[i] = input[d + i]
  BY <1>5 DEF Window
<1>8. EntityEnd(q, a) = Ends(ComponentEnd, q, b, n)[n]
  <2>1. EntityEnd(q, a) = IF b > Len(q) THEN b ELSE Ends(ComponentEnd, q, b, q[b])[q[b]]
    BY <1>2 DEF EntityEnd
  <2>2. ~(b > Len(q))
    BY <1>1, <1>5
  <2> QED
    BY <1>6, <2>1, <2>2
<1>9. ComponentsAt(q, b, n) = ComponentsAt(input, d + b, n)
  BY <1>8, ComponentsShift
<1>10. e + 1 = d + i /\ e + 2 = d + b
  BY <1>1, <1>2, <1>3
<1>11. EntityAt(q, a) = [entity_id |-> q[i], components |-> ComponentsAt(q, b, n)]
  BY <1>2, <1>6 DEF EntityAt
<1>12. EntityAt(input, e) = [entity_id |-> input[d + i], components |-> ComponentsAt(input, d + b, n)]
  BY <1>6, <1>10 DEF EntityAt
<1> QED
  BY <1>3, <1>7, <1>9, <1>11, <1>12

LEMMA EntitiesShift ==
    ASSUME NEW q, NEW input, NEW d, Window(q, input, d), NEW at \in Nat, NEW n \in Nat,
           Ends(EntityEnd, q, at, n)[n] <= Len(q)
    PROVE  EntitiesAt(q, at, n) = EntitiesAt(input, d + at, n)
<1>1. /\ q \in Seq(Nat) /\ input \in Seq(Nat) /\ d \in Nat
      /\ Len(q) \in Nat /\ Len(input) \in Nat /\ d + Len(q) <= Len(input)
  BY DEF Window
<1>2. PICK f : f = Ends(EntityEnd, q, at, n)
  OBVIOUS
<1>3. PICK g : g = Ends(EntityEnd, input, d + at, n)
  OBVIOUS
<1>4. PICK e \in Nat : e = d + at
  BY <1>1
<1>5. Walks(f, EntityReader(q), at, n) /\ Walks(g, EntityReader(input), d + at, n)
  BY <1>1, <1>2, <1>3, <1>4, EntityWalk
<1>6. /\ Shifts(EntityReader(input), EntityReader(q), d, Len(q))
      /\ Forward(EntityReader(input)) /\ Forward(EntityReader(q))
  BY <1>1, EntityShifts, EntityForward
<1>7. /\ \A k \in 0 .. n : f[k] \in Nat /\ at <= f[k] /\ f[k] <= f[n]
      /\ \A k \in 1 .. n : f[k] = EntityEnd(q, f[k - 1])
  <2>1. \A k \in 0 .. n : f[k] \in Nat
    BY <1>5 DEF Walks
  <2>2. \A k \in 0 .. n : at <= f[k] /\ f[k] <= f[n]
    BY <1>5, <1>6, WalkForward
  <2>3. ASSUME NEW k \in 1 .. n PROVE f[k] = EntityEnd(q, f[k - 1])
    <3>1. k - 1 \in 0 .. n
      OBVIOUS
    <3>2. PICK a \in Nat : a = f[k - 1]
      BY <2>1, <3>1
    <3>3. f[k] = EntityReader(q)[a]
      BY <1>5, <3>2 DEF Walks
    <3> QED
      BY <3>2, <3>3 DEF EntityReader
  <2> QED
    BY <2>1, <2>2, <2>3
<1>8. \A k \in 0 .. n : f[k] <= Len(q)
  <2>1. n \in 0 .. n /\ f[n] <= Len(q)
    BY <1>2
  <2> QED
    BY <1>1, <1>7, <2>1
<1>9. \A k \in 0 .. n : g[k] = d + f[k]
  <2>1. at <= Len(q)
    <3>1. 0 \in 0 .. n
      OBVIOUS
    <3>2. f[0] \in Nat /\ at <= f[0] /\ f[0] <= Len(q)
      BY <1>7, <1>8, <3>1
    <3> QED
      BY <1>1, <3>2
  <2>2. \A k \in 0 .. n : /\ f[k] <= Len(q) <=> g[k] <= d + Len(q)
                          /\ f[k] <= Len(q) => g[k] = d + f[k]
    BY <1>1, <1>5, <1>6, <2>1, WalkShifts
  <2> QED
    BY <1>8, <2>2
<1>10. ASSUME NEW i \in 1 .. n PROVE EntityAt(q, f[i - 1]) = EntityAt(input, g[i - 1])
  <2>1. PICK k \in 0 .. n : k = i - 1
    OBVIOUS
  <2>2. PICK a \in Nat : a = f[k]
    BY <1>7
  <2>3. g[k] = d + a
    BY <1>9, <2>2
  <2>4. i \in 0 .. n /\ EntityEnd(q, a) = f[i]
    BY <1>7, <2>1, <2>2
  <2>5. EntityEnd(q, a) <= Len(q)
    BY <1>8, <2>4
  <2>6. EntityAt(q, a) = EntityAt(input, d + a)
    BY <2>5, EntityShift
  <2> QED
    BY <2>1, <2>2, <2>3, <2>6
<1>11. EntitiesAt(q, at, n) = [i \in 1 .. n |-> EntityAt(q, f[i - 1])]
  BY <1>2 DEF EntitiesAt
<1>12. EntitiesAt(input, d + at, n) = [i \in 1 .. n |-> EntityAt(input, g[i - 1])]
  BY <1>3 DEF EntitiesAt
<1> QED
  BY <1>10, <1>11, <1>12

-----------------------------------------------------------------------------
(* The codec: what is decoded is encoded as it was. *)

LEMMA PartsJoin ==
    ASSUME NEW s \in Seq(Nat), NEW a \in Nat, NEW b \in Nat, NEW c \in Nat,
           a <= b, b <= c, c <= Len(s)
    PROVE  Part(s, a, b) \o Part(s, b, c) = Part(s, a, c)
<1>1. Len(s) \in Nat
  OBVIOUS
<1>2. PICK u : u = Part(s, a, b)
  OBVIOUS
<1>3. PICK v : v = Part(s, b, c)
  OBVIOUS
<1>4. PICK w : w = Part(s, a, c)
  OBVIOUS
<1>5. u \in Seq(Nat) /\ Len(u) = b - a /\ \A i \in 1 .. b - a : u[i] = s[a + i]
  <2>1. a <= b /\ b <= Len(s)
    OBVIOUS
  <2>2. Window(u, s, a) /\ Len(u) = b - a
    BY ONLY <1>2, <2>1, s \in Seq(Nat), a \in Nat, b \in Nat, PartWindow
  <2> QED
    BY ONLY <2>2 DEF Window
<1>6. v \in Seq(Nat) /\ Len(v) = c - b /\ \A i \in 1 .. c - b : v[i] = s[b + i]
  <2>1. b <= c /\ c <= Len(s)
    OBVIOUS
  <2>2. Window(v, s, b) /\ Len(v) = c - b
    BY ONLY <1>3, <2>1, s \in Seq(Nat), b \in Nat, c \in Nat, PartWindow
  <2> QED
    BY ONLY <2>2 DEF Window
<1>7. w \in Seq(Nat) /\ Len(w) = c - a /\ \A i \in 1 .. c - a : w[i] = s[a + i]
  <2>1. a <= c /\ c <= Len(s)
    OBVIOUS
  <2>2. Window(w, s, a) /\ Len(w) = c - a
    BY ONLY <1>4, <2>1, s \in Seq(Nat), a \in Nat, c \in Nat, PartWindow
  <2> QED
    BY ONLY <2>2 DEF Window
<1>8. u \o v = w
  <2>1. PICK z : z = u \o v
    OBVIOUS
  <2>2. /\ z \in Seq(Nat) /\ Len(z) = Len(u) + Len(v)
        /\ \A i \in 1 .. Len(u) + Len(v) : z[i] = IF i <= Len(u) THEN u[i] ELSE v[i - Len(u)]
    BY ONLY <1>5, <1>6, <2>1, ConcatProperties
  <2>3. Len(z) = Len(w)
    <3>1. Len(u) = b - a /\ Len(v) = c - b /\ Len(w) = c - a /\ Len(z) = Len(u) + Len(v)
      BY ONLY <1>5, <1>6, <1>7, <2>2
    <3> QED
      BY ONLY <3>1, a \in Nat, b \in Nat, c \in Nat
  <2>4. ASSUME NEW i \in 1 .. Len(z) PROVE z[i] = w[i]
    <3>1. i \in 1 .. c - a /\ i \in 1 .. Len(u) + Len(v)
      BY <1>5, <1>6, <2>2
    <3>2. CASE i <= Len(u)
      <4>1. i \in 1 .. b - a
        BY <1>5, <3>2
      <4> QED
        BY <1>5, <1>7, <2>2, <3>1, <3>2, <4>1
    <3>3. CASE ~(i <= Len(u))
      <4>1. PICK j \in 1 .. c - b : j = i - Len(u) /\ b + j = a + i
        BY <1>5, <3>1, <3>3
      <4>2. z[i] = v[j]
        BY <2>2, <3>1, <3>3, <4>1
      <4>3. v[j] = s[a + i]
        BY <1>6, <4>1
      <4>4. w[i] = s[a + i]
        BY <1>7, <3>1
      <4> QED
        BY <4>2, <4>3, <4>4
    <3> QED
      BY <3>2, <3>3
  <2>5. z = w
    BY <1>7, <2>2, <2>3, <2>4, SeqEqual
  <2> QED
    BY <2>1, <2>5
<1> QED
  BY <1>2, <1>3, <1>4, <1>8

LEMMA PartUnit ==
    ASSUME NEW s \in Seq(Nat), NEW a \in Nat, NEW b \in Nat, b = a + 1, b <= Len(s)
    PROVE  Part(s, a, b) = <<s[b]>>
<1>1. PICK u : u = Part(s, a, b)
  OBVIOUS
<1>2. u \in Seq(Nat) /\ Len(u) = b - a /\ \A i \in 1 .. b - a : u[i] = s[a + i]
  <2>1. a <= b
    OBVIOUS
  <2>2. Window(u, s, a) /\ Len(u) = b - a
    BY ONLY <1>1, <2>1, s \in Seq(Nat), a \in Nat, b \in Nat, b <= Len(s), PartWindow
  <2> QED
    BY ONLY <2>2 DEF Window
<1>3. Len(u) = 1 /\ u[1] = s[b]
  BY <1>2
<1> QED
  BY <1>1, <1>2, <1>3

LEMMA PartWhole ==
    ASSUME NEW s \in Seq(Nat), NEW n, n = Len(s)
    PROVE  Part(s, 0, n) = s
<1>1. PICK u : u = Part(s, 0, n)
  OBVIOUS
<1>2. u \in Seq(Nat) /\ Len(u) = n - 0 /\ \A i \in 1 .. n - 0 : u[i] = s[0 + i]
  <2>1. PICK a \in Nat : a = 0 /\ n \in Nat /\ a <= n /\ n <= Len(s)
    OBVIOUS
  <2>2. u = Part(s, a, n)
    BY ONLY <1>1, <2>1
  <2>3. Window(u, s, a) /\ Len(u) = n - a
    BY ONLY <2>1, <2>2, s \in Seq(Nat), PartWindow
  <2> QED
    BY ONLY <2>1, <2>3 DEF Window
<1>3. Len(u) = Len(s) /\ \A i \in 1 .. Len(s) : u[i] = s[i]
  BY <1>2
<1>4. u = s
  BY <1>2, <1>3, SeqEqual
<1> QED
  BY <1>1, <1>4

\* Parts that follow on each other.
LEMMA JoinedParts ==
    ASSUME NEW input \in Seq(Nat), NEW n \in Nat, NEW e \in [0 .. n -> Nat],
           \A k \in 1 .. n : e[k - 1] <= e[k],
           \A k \in 0 .. n : e[0] <= e[k] /\ e[k] <= e[n],
           e[n] <= Len(input)
    PROVE  Joined([i \in 1 .. n |-> Part(input, e[i - 1], e[i])]) = Part(input, e[0], e[n])
<1> DEFINE parts == [i \in 1 .. n |-> Part(input, e[i - 1], e[i])]
<1>1. \A k \in 0 .. n : e[k] \in Nat /\ e[k] <= Len(input)
  <2>1. n \in 0 .. n
    OBVIOUS
  <2> QED
    BY <2>1
<1>2. ASSUME NEW i \in 1 .. n PROVE Part(input, e[i - 1], e[i]) \in Seq(Nat)
  <2>1. i - 1 \in 0 .. n /\ i \in 0 .. n
    OBVIOUS
  <2>2. PICK a \in Nat, b \in Nat : a = e[i - 1] /\ b = e[i] /\ a <= b /\ b <= Len(input)
    BY <1>1, <2>1
  <2>3. Window(Part(input, a, b), input, a)
    BY ONLY <2>2, input \in Seq(Nat), PartWindow
  <2> QED
    BY ONLY <2>2, <2>3 DEF Window
<1>3. parts \in Seq(Seq(Nat)) /\ Len(parts) = n
  BY <1>2
<1>4. \A i \in 1 .. n : parts[i] = Part(input, e[i - 1], e[i])
  OBVIOUS
<1> HIDE DEF parts
<1>5. PICK f \in [0 .. Len(parts) -> Seq(Nat)] :
        /\ f[0] = <<>> /\ Joined(parts) = f[Len(parts)]
        /\ \A k \in 1 .. Len(parts) : f[k] = f[k - 1] \o parts[k]
  BY <1>3, JoinedRuns
<1>6. f[0] = <<>> /\ Joined(parts) = f[n] /\ \A k \in 1 .. n : f[k] = f[k - 1] \o parts[k]
  BY <1>3, <1>5
<1> DEFINE P == {k \in 0 .. n : f[k] = Part(input, e[0], e[k])}
<1>7. PICK a \in Nat : a = e[0] /\ a <= Len(input)
  BY <1>1
<1>8. 0 \in P
  <2>1. Part(input, a, a) = <<>>
    <3>1. PICK u : u = Part(input, a, a)
      OBVIOUS
    <3>2. u \in Seq(Nat) /\ Len(u) = a - a
      <4>1. a <= a
        OBVIOUS
      <4>2. Window(u, input, a) /\ Len(u) = a - a
        BY ONLY <1>7, <3>1, <4>1, input \in Seq(Nat), a \in Nat, PartWindow
      <4> QED
        BY ONLY <4>2 DEF Window
    <3>3. Len(u) = 0
      BY <3>2
    <3> QED
      BY <3>1, <3>2, <3>3
  <2> QED
    BY <1>6, <1>7, <2>1
<1>9. ASSUME NEW k \in 0 .. n - 1, k \in P PROVE k + 1 \in P
  <2>1. PICK j \in 1 .. n : j = k + 1 /\ j - 1 = k /\ j \in 0 .. n
    OBVIOUS
  <2>2. PICK b \in Nat, c \in Nat : b = e[k] /\ c = e[j]
    <3>1. k \in 0 .. n
      OBVIOUS
    <3>2. e[k] \in Nat /\ e[j] \in Nat
      BY <2>1, <3>1
    <3> QED
      BY <3>2
  <2>8. a <= b /\ b <= c /\ c <= Len(input)
    <3>1. k \in 0 .. n
      OBVIOUS
    <3>2. e[0] <= e[k] /\ e[j - 1] <= e[j] /\ e[j] <= Len(input)
      BY <1>1, <2>1, <3>1
    <3> QED
      BY <1>7, <2>1, <2>2, <3>2
  <2>3. f[k] = Part(input, a, b)
    BY <1>7, <1>9, <2>2
  <2>4. parts[j] = Part(input, b, c)
    BY <1>4, <2>1, <2>2
  <2>5. f[j] = Part(input, a, b) \o Part(input, b, c)
    BY <1>6, <2>1, <2>3, <2>4
  <2>6. f[j] = Part(input, a, c)
    <3>1. Part(input, a, b) \o Part(input, b, c) = Part(input, a, c)
      BY ONLY <2>8, input \in Seq(Nat), a \in Nat, b \in Nat, c \in Nat, PartsJoin
    <3> QED
      BY <2>5, <3>1
  <2>7. f[j] = Part(input, e[0], e[j])
    BY <1>7, <2>2, <2>6
  <2> QED
    BY <2>1, <2>7
<1> HIDE DEF P
<1>10. 0 .. n \subseteq P
  BY <1>8, <1>9, EveryTurn
<1>11. n \in P
  BY <1>10
<1>12. Joined(parts) = Part(input, e[0], e[n])
  BY <1>6, <1>11 DEF P
<1> QED
  BY <1>12 DEF parts

LEMMA ComponentBack ==
    ASSUME NEW input \in Seq(Nat), NEW a \in Nat, NEW c \in Nat,
           c = ComponentEnd(input, a), c <= Len(input)
    PROVE  EncodeComponent(ComponentAt(input, a)) = Part(input, a, c)
<1>1. PICK i \in Nat \ {0}, b \in Nat \ {0} : i = a + 1 /\ b = a + 2 /\ b = i + 1
  OBVIOUS
<1>2. c = BytesEnd(input, b)
  BY <1>1 DEF ComponentEnd
<1>3. b <= c /\ b <= Len(input) /\ i <= Len(input) /\ Len(input) \in Nat
  BY <1>1, <1>2, BytesForward
<1>4. PICK n \in Nat : n = input[b]
  BY <1>3, UnitAt
<1>5. c = b + n
  BY <1>2, <1>3, <1>4, BytesForward
<1>6. PICK v : v = Part(input, b, c)
  OBVIOUS
<1>7. v \in Seq(Nat) /\ Len(v) = c - b
  <2>1. b \in Nat /\ b <= c /\ c <= Len(input)
    BY <1>3
  <2>2. Window(v, input, b) /\ Len(v) = c - b
    BY ONLY <1>6, <2>1, input \in Seq(Nat), c \in Nat, PartWindow
  <2> QED
    BY ONLY <2>2 DEF Window
<1>8. Len(v) = n
  BY <1>5, <1>7
<1>9. ComponentAt(input, a) = [component_id |-> input[i], bytes |-> v]
  BY ONLY <1>1, <1>2, <1>6 DEF ComponentAt, BytesAt, Part
<1>10. EncodeComponent(ComponentAt(input, a)) = <<input[i]>> \o (<<input[b]>> \o v)
  <2>1. PICK r : r = ComponentAt(input, a)
    OBVIOUS
  <2>2. r.component_id = input[i] /\ r.bytes = v
    BY ONLY <1>9, <2>1
  <2>3. EncodeComponent(r) = <<r.component_id>> \o LengthAnd(r.bytes)
    BY ONLY DEF EncodeComponent
  <2>4. LengthAnd(v) = <<n>> \o v
    BY ONLY <1>8 DEF LengthAnd
  <2> QED
    BY ONLY <1>4, <2>1, <2>2, <2>3, <2>4
<1>11. <<input[i]>> = Part(input, a, i) /\ <<input[b]>> = Part(input, i, b)
  BY <1>1, <1>3, PartUnit
<1>12. Part(input, i, b) \o Part(input, b, c) = Part(input, i, c)
  <2>1. i \in Nat /\ b \in Nat /\ i <= b /\ b <= c /\ c <= Len(input)
    BY <1>1, <1>3
  <2> QED
    BY ONLY <2>1, input \in Seq(Nat), c \in Nat, PartsJoin
<1>13. Part(input, a, i) \o Part(input, i, c) = Part(input, a, c)
  <2>1. i \in Nat /\ a <= i /\ i <= c /\ c <= Len(input)
    BY <1>1, <1>3
  <2> QED
    BY ONLY <2>1, input \in Seq(Nat), a \in Nat, c \in Nat, PartsJoin
<1> QED
  BY <1>6, <1>10, <1>11, <1>12, <1>13

LEMMA TwoUnits ==
    ASSUME NEW x \in Nat, NEW y \in Nat
    PROVE  <<x>> \o <<y>> = <<x, y>>
<1>1. <<x>> \in Seq(Nat) /\ Len(<<x>>) = 1 /\ <<x>>[1] = x
  OBVIOUS
<1>2. <<y>> \in Seq(Nat) /\ Len(<<y>>) = 1 /\ <<y>>[1] = y
  OBVIOUS
<1>3. <<x, y>> \in Seq(Nat) /\ Len(<<x, y>>) = 2 /\ <<x, y>>[1] = x /\ <<x, y>>[2] = y
  OBVIOUS
<1>4. PICK z : z = <<x>> \o <<y>>
  OBVIOUS
<1>5. z \in Seq(Nat) /\ Len(z) = 2 /\ z[1] = x /\ z[2] = y
  BY <1>1, <1>2, <1>4
<1>6. \A m \in 1 .. Len(z) : z[m] = <<x, y>>[m]
  BY <1>3, <1>5
<1>7. z = <<x, y>>
  BY <1>3, <1>5, <1>6, SeqEqual
<1> QED
  BY <1>4, <1>7

LEMMA EntityBack ==
    ASSUME NEW input \in Seq(Nat), NEW a \in Nat, NEW c \in Nat,
           c = EntityEnd(input, a), c <= Len(input)
    PROVE  EncodeEntity(EntityAt(input, a)) = Part(input, a, c)
<1>1. PICK i \in Nat \ {0}, b \in Nat \ {0} : i = a + 1 /\ b = a + 2 /\ b = i + 1
  OBVIOUS
<1>2. b <= c /\ b <= Len(input) /\ i <= Len(input) /\ Len(input) \in Nat /\ a <= i /\ i <= b
  <2>1. a + 2 <= c
    BY Beyond
  <2> QED
    BY <1>1, <2>1
<1>3. PICK n \in Nat : n = input[b]
  BY <1>2, UnitAt
<1>4. PICK f : f = Ends(ComponentEnd, input, b, n)
  OBVIOUS
<1>5. c = f[n]
  <2>1. c = IF b > Len(input) THEN b ELSE Ends(ComponentEnd, input, b, input[b])[input[b]]
    BY <1>1 DEF EntityEnd
  <2>2. ~(b > Len(input))
    BY <1>2
  <2> QED
    BY <1>3, <1>4, <2>1, <2>2
<1>6. Walks(f, ComponentReader(input), b, n) /\ Forward(ComponentReader(input))
  BY <1>4, ComponentWalk, ComponentForward
<1>7. /\ f \in [0 .. n -> Nat] /\ f[0] = b
      /\ \A k \in 0 .. n : f[0] <= f[k] /\ f[k] <= f[n]
      /\ \A k \in 1 .. n : f[k - 1] <= f[k]
  <2>1. f \in [0 .. n -> Nat] /\ f[0] = b
    BY <1>6 DEF Walks
  <2>2. /\ \A k \in 0 .. n : b <= f[k] /\ f[k] <= f[n]
        /\ \A k \in 1 .. n : f[k - 1] <= f[k]
    BY <1>6, WalkForward
  <2> QED
    BY <2>1, <2>2
<1>8. ASSUME NEW k \in 1 .. n
      PROVE  EncodeComponent(ComponentAt(input, f[k - 1])) = Part(input, f[k - 1], f[k])
  <2>1. k - 1 \in 0 .. n /\ k \in 0 .. n
    OBVIOUS
  <2>5. f[k - 1] \in Nat /\ f[k] \in Nat /\ f[k] <= f[n] /\ f[n] = c
    BY <1>5, <1>7, <2>1
  <2>2. PICK x \in Nat, y \in Nat : x = f[k - 1] /\ y = f[k] /\ y <= Len(input)
    <3>1. f[k] <= Len(input)
      BY <1>2, <2>5
    <3> QED
      BY <2>5, <3>1
  <2>3. y = ComponentEnd(input, x)
    <3>1. y = ComponentReader(input)[x]
      BY <1>6, <2>2 DEF Walks
    <3> QED
      BY <3>1 DEF ComponentReader
  <2>4. EncodeComponent(ComponentAt(input, x)) = Part(input, x, y)
    BY <2>2, <2>3, ComponentBack
  <2> QED
    BY <2>2, <2>4
<1>9. PICK comps : comps = ComponentsAt(input, b, n)
  OBVIOUS
<1>10. comps = [k \in 1 .. n |-> ComponentAt(input, f[k - 1])]
  BY <1>4, <1>9 DEF ComponentsAt
<1>11. DOMAIN comps = 1 .. n /\ Len(comps) = n
  BY <1>10
<1>12. [k \in DOMAIN comps |-> EncodeComponent(comps[k])]
          = [k \in 1 .. n |-> Part(input, f[k - 1], f[k])]
  BY <1>8, <1>10
<1>13. Joined([k \in 1 .. n |-> Part(input, f[k - 1], f[k])]) = Part(input, f[0], f[n])
  <2>1. f[n] <= Len(input)
    BY <1>5
  <2> QED
    BY <1>7, <2>1, JoinedParts
<1>14. EntityAt(input, a) = [entity_id |-> input[i], components |-> comps]
  BY ONLY <1>1, <1>3, <1>9 DEF EntityAt
<1>15. EncodeEntity(EntityAt(input, a)) = <<input[i], input[b]>> \o Part(input, b, c)
  <2>1. PICK entity : entity = EntityAt(input, a)
    OBVIOUS
  <2>2. entity.entity_id = input[i] /\ entity.components = comps
    BY <1>14, <2>1
  <2>3. Joined([k \in DOMAIN comps |-> EncodeComponent(comps[k])]) = Part(input, b, c)
    BY <1>5, <1>7, <1>12, <1>13
  <2>4. EncodeEntity(entity) =
           <<entity.entity_id, Len(entity.components)>>
              \o Joined([k \in DOMAIN entity.components |->
                            EncodeComponent(entity.components[k])])
    BY DEF EncodeEntity
  <2> QED
    BY <1>3, <1>11, <2>1, <2>2, <2>3, <2>4
<1>16. <<input[i], input[b]>> = Part(input, a, b)
  <2>1. <<input[i]>> = Part(input, a, i) /\ <<input[b]>> = Part(input, i, b)
    BY <1>1, <1>2, PartUnit
  <2>2. Part(input, a, i) \o Part(input, i, b) = Part(input, a, b)
    BY <1>2, PartsJoin
  <2>3. <<input[i]>> \o <<input[b]>> = <<input[i], input[b]>>
    <3>1. input[i] \in Nat /\ input[b] \in Nat
      BY <1>2, UnitAt
    <3> QED
      BY <3>1, TwoUnits
  <2> QED
    BY <2>1, <2>2, <2>3
<1>17. Part(input, a, b) \o Part(input, b, c) = Part(input, a, c)
  <2>1. a <= b /\ b <= c /\ c <= Len(input)
    BY <1>1, <1>2
  <2> QED
    BY ONLY <2>1, input \in Seq(Nat), a \in Nat, b \in Nat, c \in Nat, PartsJoin
<1> QED
  BY <1>15, <1>16, <1>17

LEMMA EntitiesBack ==
    ASSUME NEW input \in Seq(Nat), NEW at \in Nat, NEW n \in Nat, NEW c \in Nat,
           c = Ends(EntityEnd, input, at, n)[n], c <= Len(input)
    PROVE  /\ at <= c
           /\ Len(EntitiesAt(input, at, n)) = n
           /\ EncodeEntities(EntitiesAt(input, at, n)) = Part(input, at, c)
<1>1. PICK f : f = Ends(EntityEnd, input, at, n)
  OBVIOUS
<1>2. Walks(f, EntityReader(input), at, n) /\ Forward(EntityReader(input))
  BY <1>1, EntityWalk, EntityForward
<1>3. /\ f \in [0 .. n -> Nat] /\ f[0] = at
      /\ \A k \in 0 .. n : f[0] <= f[k] /\ f[k] <= f[n]
      /\ \A k \in 1 .. n : f[k - 1] <= f[k]
  <2>1. f \in [0 .. n -> Nat] /\ f[0] = at
    BY <1>2 DEF Walks
  <2>2. /\ \A k \in 0 .. n : at <= f[k] /\ f[k] <= f[n]
        /\ \A k \in 1 .. n : f[k - 1] <= f[k]
    BY <1>2, WalkForward
  <2> QED
    BY <2>1, <2>2
<1>4. c = f[n] /\ at <= c
  <2>1. 0 \in 0 .. n
    OBVIOUS
  <2> QED
    BY <1>1, <1>3, <2>1
<1>5. ASSUME NEW k \in 1 .. n
      PROVE  EncodeEntity(EntityAt(input, f[k - 1])) = Part(input, f[k - 1], f[k])
  <2>1. k - 1 \in 0 .. n /\ k \in 0 .. n
    OBVIOUS
  <2>2. PICK x \in Nat, y \in Nat : x = f[k - 1] /\ y = f[k] /\ y <= Len(input)
    <3>1. f[k - 1] \in Nat /\ f[k] \in Nat /\ f[k] <= c /\ Len(input) \in Nat
      BY <1>3, <1>4, <2>1
    <3> QED
      BY <3>1
  <2>3. y = EntityEnd(input, x)
    <3>1. y = EntityReader(input)[x]
      BY <1>2, <2>2 DEF Walks
    <3> QED
      BY <3>1 DEF EntityReader
  <2>4. EncodeEntity(EntityAt(input, x)) = Part(input, x, y)
    BY <2>2, <2>3, EntityBack
  <2> QED
    BY <2>2, <2>4
<1>6. PICK entities : entities = EntitiesAt(input, at, n)
  OBVIOUS
<1>7. entities = [k \in 1 .. n |-> EntityAt(input, f[k - 1])]
  BY <1>1, <1>6 DEF EntitiesAt
<1>8. DOMAIN entities = 1 .. n /\ Len(entities) = n
  BY <1>7
<1>9. [k \in DOMAIN entities |-> EncodeEntity(entities[k])]
          = [k \in 1 .. n |-> Part(input, f[k - 1], f[k])]
  BY <1>5, <1>7
<1>10. Joined([k \in 1 .. n |-> Part(input, f[k - 1], f[k])]) = Part(input, f[0], f[n])
  <2>1. f[n] <= Len(input)
    BY <1>4
  <2> QED
    BY <1>3, <2>1, JoinedParts
<1>11. EncodeEntities(entities) = Part(input, at, c)
  BY <1>3, <1>4, <1>9, <1>10 DEF EncodeEntities
<1> QED
  BY <1>4, <1>6, <1>8, <1>11

-----------------------------------------------------------------------------
(* The codec: whole inputs. *)

\* Where n entities end in a part of an input and in the input.
LEMMA EndsShift ==
    ASSUME NEW q, NEW input, NEW d, Window(q, input, d), NEW at \in Nat, at <= Len(q),
           NEW n \in Nat, NEW b \in Nat, b = d + at
    PROVE  /\ Ends(EntityEnd, q, at, n)[n] <= Len(q)
                 <=> Ends(EntityEnd, input, b, n)[n] <= d + Len(q)
           /\ Ends(EntityEnd, q, at, n)[n] <= Len(q)
                 => Ends(EntityEnd, input, b, n)[n] = d + Ends(EntityEnd, q, at, n)[n]
<1>1. /\ q \in Seq(Nat) /\ input \in Seq(Nat) /\ d \in Nat
      /\ Len(q) \in Nat /\ Len(input) \in Nat /\ d + Len(q) <= Len(input)
  BY DEF Window
<1>2. PICK f : f = Ends(EntityEnd, q, at, n)
  OBVIOUS
<1>3. PICK g : g = Ends(EntityEnd, input, b, n)
  OBVIOUS
<1>4. Walks(f, EntityReader(q), at, n) /\ Walks(g, EntityReader(input), d + at, n)
  BY <1>1, <1>2, <1>3, EntityWalk
<1>5. /\ Shifts(EntityReader(input), EntityReader(q), d, Len(q))
      /\ Forward(EntityReader(input)) /\ Forward(EntityReader(q))
  BY <1>1, EntityShifts, EntityForward
<1>6. \A k \in 0 .. n : /\ f[k] <= Len(q) <=> g[k] <= d + Len(q)
                        /\ f[k] <= Len(q) => g[k] = d + f[k]
  BY <1>1, <1>4, <1>5, WalkShifts
<1>7. n \in 0 .. n
  OBVIOUS
<1>8. /\ f[n] <= Len(q) <=> g[n] <= d + Len(q)
      /\ f[n] <= Len(q) => g[n] = d + f[n]
  BY <1>6, <1>7
<1> QED
  BY <1>2, <1>3, <1>8

\* An input is its first units and the rest.
LEMMA HeadIs ==
    ASSUME NEW s \in Seq(Nat), NEW u \in Seq(Nat), NEW n \in Nat, NEW l \in Nat,
           l = Len(s), n = Len(u), n <= l, \A i \in 1 .. n : u[i] = s[i]
    PROVE  u \o Part(s, n, l) = s
<1>1. PICK v : v = Part(s, n, l)
  OBVIOUS
<1>2. v \in Seq(Nat) /\ Len(v) = l - n /\ \A i \in 1 .. l - n : v[i] = s[n + i]
  <2>1. n <= l /\ l <= Len(s)
    OBVIOUS
  <2>2. Window(v, s, n) /\ Len(v) = l - n
    BY ONLY <1>1, <2>1, s \in Seq(Nat), n \in Nat, l \in Nat, PartWindow
  <2> QED
    BY ONLY <2>2 DEF Window
<1>3. PICK z : z = u \o v
  OBVIOUS
<1>4. /\ z \in Seq(Nat) /\ Len(z) = Len(u) + Len(v)
      /\ \A i \in 1 .. Len(u) + Len(v) : z[i] = IF i <= Len(u) THEN u[i] ELSE v[i - Len(u)]
  BY ONLY <1>2, <1>3, u \in Seq(Nat), ConcatProperties
<1>5. Len(z) = l /\ Len(u) + Len(v) = l
  BY <1>2, <1>4
<1>6. ASSUME NEW i \in 1 .. l PROVE z[i] = s[i]
  <2>1. CASE i <= n
    <3>1. i \in 1 .. n
      BY <2>1
    <3>2. z[i] = u[i]
      BY <1>4, <1>5, <2>1
    <3> QED
      BY <3>1, <3>2
  <2>2. CASE ~(i <= n)
    <3>1. PICK k \in 1 .. l - n : k = i - n /\ n + k = i
      BY ONLY <2>2, i \in 1 .. l, n \in Nat, l \in Nat
    <3>2. z[i] = v[k]
      BY <1>4, <1>5, <2>2, <3>1
    <3> QED
      BY <1>2, <3>1, <3>2
  <2> QED
    BY <2>1, <2>2
<1>7. z = s
  BY <1>4, <1>5, <1>6, SeqEqual
<1> QED
  BY <1>1, <1>3, <1>7

LEMMA Headed ==
    ASSUME NEW s \in Seq(Nat), NEW l \in Nat, l = Len(s)
    PROVE  /\ 3 <= l => <<s[1], s[2], s[3]>> \o Part(s, 3, l) = s
           /\ 4 <= l => <<s[1], s[2], s[3], s[4]>> \o Part(s, 4, l) = s
           /\ 5 <= l => <<s[1], s[2], s[3], s[4], s[5]>> \o Part(s, 5, l) = s
           /\ 4 = l => <<s[1], s[2], s[3], s[4]>> = s
<1>1. \A i \in 1 .. l : s[i] \in Nat
  OBVIOUS
<1>2. ASSUME 3 <= l PROVE <<s[1], s[2], s[3]>> \o Part(s, 3, l) = s
  <2>1. PICK u : u = <<s[1], s[2], s[3]>>
    OBVIOUS
  <2>2. PICK n \in Nat : n = 3
    OBVIOUS
  <2>3. s[1] \in Nat /\ s[2] \in Nat /\ s[3] \in Nat
    BY <1>1, <1>2
  <2>4. u \in Seq(Nat) /\ Len(u) = n
    BY <2>1, <2>2, <2>3
  <2>5. \A i \in 1 .. n : u[i] = s[i]
    BY <2>1, <2>2
  <2>6. u \o Part(s, n, l) = s
    BY <1>2, <2>2, <2>4, <2>5, HeadIs
  <2> QED
    BY <2>1, <2>2, <2>6
<1>3. ASSUME 4 <= l PROVE <<s[1], s[2], s[3], s[4]>> \o Part(s, 4, l) = s
  <2>1. PICK u : u = <<s[1], s[2], s[3], s[4]>>
    OBVIOUS
  <2>2. PICK n \in Nat : n = 4
    OBVIOUS
  <2>3. s[1] \in Nat /\ s[2] \in Nat /\ s[3] \in Nat /\ s[4] \in Nat
    BY <1>1, <1>3
  <2>4. u \in Seq(Nat) /\ Len(u) = n
    BY <2>1, <2>2, <2>3
  <2>5. \A i \in 1 .. n : u[i] = s[i]
    BY <2>1, <2>2
  <2>6. u \o Part(s, n, l) = s
    BY <1>3, <2>2, <2>4, <2>5, HeadIs
  <2> QED
    BY <2>1, <2>2, <2>6
<1>4. ASSUME 5 <= l PROVE <<s[1], s[2], s[3], s[4], s[5]>> \o Part(s, 5, l) = s
  <2>1. PICK u : u = <<s[1], s[2], s[3], s[4], s[5]>>
    OBVIOUS
  <2>2. PICK n \in Nat : n = 5
    OBVIOUS
  <2>3. s[1] \in Nat /\ s[2] \in Nat /\ s[3] \in Nat /\ s[4] \in Nat /\ s[5] \in Nat
    BY <1>1, <1>4
  <2>4. u \in Seq(Nat) /\ Len(u) = n
    BY <2>1, <2>2, <2>3
  <2>5. \A i \in 1 .. n : u[i] = s[i]
    BY <2>1, <2>2
  <2>6. u \o Part(s, n, l) = s
    BY <1>4, <2>2, <2>4, <2>5, HeadIs
  <2> QED
    BY <2>1, <2>2, <2>6
<1>5. ASSUME 4 = l PROVE <<s[1], s[2], s[3], s[4]>> = s
  <2>1. PICK u : u = <<s[1], s[2], s[3], s[4]>>
    OBVIOUS
  <2>2. PICK n \in Nat : n = 4
    OBVIOUS
  <2>3. n = l /\ n = Len(s)
    BY <1>5, <2>2
  <2>4. 1 \in 1 .. n /\ 2 \in 1 .. n /\ 3 \in 1 .. n /\ 4 \in 1 .. n
    BY ONLY <2>2
  <2>5. s[1] \in Nat /\ s[2] \in Nat /\ s[3] \in Nat /\ s[4] \in Nat
    BY ONLY <1>1, <2>3, <2>4
  <2>6. u \in Seq(Nat) /\ Len(u) = n
    BY ONLY <2>1, <2>2, <2>5
  <2>7. \A i \in 1 .. n : u[i] = s[i]
    BY ONLY <2>1, <2>2
  <2>8. u = s
    BY ONLY s \in Seq(Nat), <2>3, <2>6, <2>7, SeqEqual
  <2> QED
    BY <2>1, <2>8
<1> QED
  BY <1>2, <1>3, <1>4, <1>5

\* A payload that reaches to the end, with its length.
LEMMA LengthBack ==
    ASSUME NEW input \in Seq(Nat), NEW a \in Nat, NEW b \in Nat \ {0}, b = a + 1,
           NEW l \in Nat, l = Len(input), BytesEnd(input, b) = l
    PROVE  b <= l /\ LengthAnd(BytesAt(input, b)) = Part(input, a, l)
<1>1. b <= l
  BY BytesForward
<1>2. PICK n \in Nat : n = input[b]
  BY <1>1, UnitAt
<1>3. l = b + n
  BY <1>1, <1>2, BytesForward
<1>4. PICK v : v = Part(input, b, l)
  OBVIOUS
<1>5. BytesAt(input, b) = v
  BY <1>4 DEF BytesAt, Part
<1>6. v \in Seq(Nat) /\ Len(v) = l - b
  <2>1. b \in Nat /\ b <= l /\ l <= Len(input)
    BY <1>1
  <2>2. Window(v, input, b) /\ Len(v) = l - b
    BY ONLY <1>4, <2>1, input \in Seq(Nat), l \in Nat, PartWindow
  <2> QED
    BY ONLY <2>2 DEF Window
<1>7. Len(v) = n
  BY <1>3, <1>6
<1>8. Part(input, a, b) = <<input[b]>>
  BY <1>1, PartUnit
<1>9. Part(input, a, b) \o Part(input, b, l) = Part(input, a, l)
  <2>1. b \in Nat /\ a <= b /\ b <= l /\ l <= Len(input)
    BY <1>1
  <2> QED
    BY ONLY <2>1, input \in Seq(Nat), a \in Nat, l \in Nat, PartsJoin
<1> QED
  BY <1>1, <1>2, <1>4, <1>5, <1>7, <1>8, <1>9 DEF LengthAnd

LEMMA KindBytes ==
    /\ Byte("Replication") = 0 /\ Byte("CommandAck") = 1 /\ Byte("Barrier") = 2
    /\ Byte("Command") = 3 /\ Byte("StationEvent") = 4 /\ Byte("CommandDispatch") = 5
    /\ KindOf(0) = "Replication" /\ KindOf(1) = "CommandAck" /\ KindOf(2) = "Barrier"
    /\ KindOf(3) = "Command" /\ KindOf(4) = "StationEvent" /\ KindOf(5) = "CommandDispatch"
<1>1. /\ Byte("Replication") = 0 /\ Byte("CommandAck") = 1 /\ Byte("Barrier") = 2
      /\ Byte("Command") = 3 /\ Byte("StationEvent") = 4 /\ Byte("CommandDispatch") = 5
  BY DEF Byte
<1>2. ASSUME NEW unit, NEW k \in Kinds, Byte(k) = unit PROVE KindOf(unit) = k
  <2>1. KindOf(unit) \in Kinds /\ Byte(KindOf(unit)) = unit
    BY <1>2 DEF KindOf
  <2> QED
    BY <1>1, <1>2, <2>1 DEF Kinds
<1> QED
  BY <1>1, <1>2 DEF Kinds

\* decode, kind by kind.
LEMMA Decoded ==
    ASSUME NEW input \in Seq(Nat)
    PROVE  /\ input = <<>> \/ input[1] \notin 0 .. 5 => Decode(input) = Invalid
           /\ input # <<>> /\ input[1] = 0 => Decode(input) = DecodeReplicationOwned(input)
           /\ input # <<>> /\ input[1] = 1 =>
                 Decode(input) =
                    IF Len(input) = 5
                    THEN [kind |-> "CommandAck", client |-> input[2], command |-> input[3],
                          accepted |-> input[4] # 0, reason_code |-> input[5]]
                    ELSE Invalid
           /\ input # <<>> /\ input[1] = 2 =>
                 Decode(input) =
                    IF Len(input) = 4 /\ IsBarrierState(input[4])
                    THEN [kind |-> "Barrier", client |-> input[2], barrier |-> input[3],
                          state |-> input[4]]
                    ELSE Invalid
           /\ input # <<>> /\ input[1] = 3 =>
                 Decode(input) =
                    IF BytesEnd(input, 5) = Len(input) /\ IsPriority(input[4])
                    THEN [kind |-> "Command", client |-> input[2], command |-> input[3],
                          priority |-> input[4], payload |-> BytesAt(input, 5)]
                    ELSE Invalid
           /\ input # <<>> /\ input[1] = 4 =>
                 Decode(input) =
                    IF /\ Len(input) >= 4 /\ IsPriority(input[3]) /\ IsEventKind(input[4])
                       /\ Len(input) = 4 + EventKindFields(input[4])
                    THEN [kind |-> "StationEvent", event |-> input[2], priority |-> input[3],
                          event_kind |-> input[4], fields |-> Drop(input, 4)]
                    ELSE Invalid
           /\ input # <<>> /\ input[1] = 5 =>
                 Decode(input) =
                    IF BytesEnd(input, 6) = Len(input) /\ IsPriority(input[5])
                    THEN [kind |-> "CommandDispatch", station |-> input[2],
                          client |-> input[3], command |-> input[4],
                          priority |-> input[5], payload |-> BytesAt(input, 6)]
                    ELSE Invalid
<1>1. CASE input = <<>> \/ input[1] \notin 0 .. 5
  BY <1>1 DEF Decode, IsKind
<1>2. CASE input # <<>> /\ input[1] = 0
  <2>1. KindOf(input[1]) = "Replication" /\ IsKind(input[1])
    BY <1>2, KindBytes DEF IsKind
  <2> QED
    BY <1>2, <2>1 DEF Decode
<1>3. CASE input # <<>> /\ input[1] = 1
  <2>1. KindOf(input[1]) = "CommandAck" /\ IsKind(input[1])
    BY <1>3, KindBytes DEF IsKind
  <2> QED
    BY ONLY <1>3, <2>1 DEF Decode
<1>4. CASE input # <<>> /\ input[1] = 2
  <2>1. KindOf(input[1]) = "Barrier" /\ IsKind(input[1])
    BY <1>4, KindBytes DEF IsKind
  <2>2. CASE Len(input) = 4 /\ IsBarrierState(input[4])
    BY ONLY <1>4, <2>1, <2>2 DEF Decode
  <2>3. CASE ~(Len(input) = 4 /\ IsBarrierState(input[4]))
    BY ONLY <1>4, <2>1, <2>3 DEF Decode
  <2> QED
    BY ONLY <1>4, <2>2, <2>3
<1>5. CASE input # <<>> /\ input[1] = 3
  <2>1. KindOf(input[1]) = "Command" /\ IsKind(input[1])
    BY <1>5, KindBytes DEF IsKind
  <2>2. CASE BytesEnd(input, 5) = Len(input) /\ IsPriority(input[4])
    BY ONLY <1>5, <2>1, <2>2 DEF Decode
  <2>3. CASE ~(BytesEnd(input, 5) = Len(input) /\ IsPriority(input[4]))
    BY ONLY <1>5, <2>1, <2>3 DEF Decode
  <2> QED
    BY ONLY <1>5, <2>2, <2>3
<1>6. CASE input # <<>> /\ input[1] = 4
  <2>1. KindOf(input[1]) = "StationEvent" /\ IsKind(input[1])
    BY <1>6, KindBytes DEF IsKind
  <2>2. CASE /\ Len(input) >= 4 /\ IsPriority(input[3]) /\ IsEventKind(input[4])
              /\ Len(input) = 4 + EventKindFields(input[4])
    BY ONLY <1>6, <2>1, <2>2 DEF Decode
  <2>3. CASE ~(/\ Len(input) >= 4 /\ IsPriority(input[3]) /\ IsEventKind(input[4])
                /\ Len(input) = 4 + EventKindFields(input[4]))
    BY ONLY <1>6, <2>1, <2>3 DEF Decode
  <2> QED
    BY ONLY <1>6, <2>2, <2>3
<1>7. CASE input # <<>> /\ input[1] = 5
  <2>1. KindOf(input[1]) = "CommandDispatch" /\ IsKind(input[1])
    BY <1>7, KindBytes DEF IsKind
  <2>2. CASE BytesEnd(input, 6) = Len(input) /\ IsPriority(input[5])
    BY ONLY <1>7, <2>1, <2>2 DEF Decode
  <2>3. CASE ~(BytesEnd(input, 6) = Len(input) /\ IsPriority(input[5]))
    BY ONLY <1>7, <2>1, <2>3 DEF Decode
  <2> QED
    BY ONLY <1>7, <2>2, <2>3
<1> QED
  BY <1>1, <1>2, <1>3, <1>4, <1>5, <1>6, <1>7

\* The same for the replication frame.
LEMMA DecodedReplication ==
    ASSUME NEW input \in Seq(Nat)
    PROVE  DecodeReplicationOwned(input) # Invalid
              <=> Len(input) >= 3 /\ Ends(EntityEnd, input, 3, input[3])[input[3]] = Len(input)
  BY DEF DecodeReplicationOwned, Invalid

\* No shorter input is a frame.
NoPrefix(input) == \A n \in 0 .. Len(input) - 1 : Decode(SubSeq(input, 1, n)) = Invalid

LEMMA PrefixOf ==
    ASSUME NEW input \in Seq(Nat), NEW n \in 0 .. Len(input) - 1,
           NEW p, p = SubSeq(input, 1, n), Decode(p) # Invalid
    PROVE  /\ p \in Seq(Nat) /\ p # <<>> /\ Len(p) = n /\ n \in Nat \ {0} /\ n < Len(input)
           /\ \A i \in 1 .. n : p[i] = input[i]
           /\ p[1] = input[1] /\ input # <<>> /\ Window(p, input, 0)
<1>1. n \in Nat /\ n <= Len(input) /\ n < Len(input) /\ Len(input) \in Nat
  OBVIOUS
<1>2. PICK o \in Nat : o = 0 /\ o + 1 = 1 /\ n - o = n
  OBVIOUS
<1>3. p = Part(input, o, n)
  BY <1>2 DEF Part
<1>4. p \in Seq(Nat) /\ Len(p) = n - o /\ \A i \in 1 .. n - o : p[i] = input[o + i]
  <2>1. o <= n
    BY <1>1, <1>2
  <2>2. Window(p, input, o) /\ Len(p) = n - o
    BY ONLY <1>1, <1>3, <2>1, input \in Seq(Nat), o \in Nat, PartWindow
  <2> QED
    BY ONLY <2>2 DEF Window
<1>5. Len(p) = n /\ \A i \in 1 .. n : p[i] = input[i]
  BY <1>2, <1>4
<1>6. Window(p, input, o)
  <2>1. o <= n /\ n <= Len(input) /\ n \in Nat
    BY <1>1, <1>2
  <2> QED
    BY ONLY <1>3, <2>1, input \in Seq(Nat), o \in Nat, PartWindow
<1>7. p # <<>>
  BY <1>4, Decoded
<1>8. n # 0
  BY <1>4, <1>5, <1>7
<1>9. 1 \in 1 .. n
  BY <1>1, <1>8
<1>10. p[1] = input[1]
  BY ONLY <1>5, <1>9
<1>11. input # <<>>
  BY <1>1
<1>12. Window(p, input, 0)
  BY ONLY <1>2, <1>6
<1>13. p \in Seq(Nat) /\ n \in Nat \ {0} /\ n < Len(input)
  BY <1>1, <1>4, <1>8
<1> QED
  BY ONLY <1>5, <1>7, <1>10, <1>11, <1>12, <1>13

LEMMA ReplicationTrips ==
    ASSUME NEW input \in Seq(Nat), input # <<>>, input[1] = 0, Decode(input) # Invalid
    PROVE  /\ Decode(input).kind = "Replication"
           /\ Encode(Decode(input)) = input
           /\ NoPrefix(input)
<1>1. Decode(input) = DecodeReplicationOwned(input)
  BY Decoded
<1>2. Len(input) >= 3 /\ Ends(EntityEnd, input, 3, input[3])[input[3]] = Len(input)
  BY <1>1, DecodedReplication
<1>3. PICK l \in Nat : l = Len(input) /\ 3 <= l
  BY <1>2
<1>4. PICK m \in Nat : m = input[3]
  BY <1>3, UnitAt
<1>5. PICK entities : entities = EntitiesAt(input, 3, m)
  OBVIOUS
<1>6. Len(entities) = m /\ EncodeEntities(entities) = Part(input, 3, l)
  BY <1>2, <1>3, <1>4, <1>5, EntitiesBack
<1>7. Decode(input) = [kind |-> "Replication", client |-> input[2], entities |-> entities]
  BY <1>1, <1>2, <1>4, <1>5 DEF DecodeReplicationOwned
<1>8. Encode(Decode(input)) = <<input[1], input[2], input[3]>> \o Part(input, 3, l)
  <2>1. PICK frame : frame = Decode(input)
    OBVIOUS
  <2>2. frame.kind = "Replication" /\ frame.client = input[2] /\ frame.entities = entities
    BY ONLY <1>7, <2>1
  <2>3. Encode(frame) = EncodeReplication(frame)
    BY ONLY <2>2 DEF Encode
  <2>4. EncodeReplication(frame) =
           <<0, frame.client, Len(frame.entities)>> \o EncodeEntities(frame.entities)
    BY ONLY KindBytes DEF EncodeReplication
  <2>5. input[1] = 0
    OBVIOUS
  <2> QED
    BY ONLY <1>4, <1>6, <2>1, <2>2, <2>3, <2>4, <2>5
<1>9. Encode(Decode(input)) = input
  BY <1>3, <1>8, Headed
<1>10. ASSUME NEW n \in 0 .. Len(input) - 1, Decode(SubSeq(input, 1, n)) # Invalid PROVE FALSE
  <2>1. PICK p : p = SubSeq(input, 1, n)
    OBVIOUS
  <2>2. /\ p \in Seq(Nat) /\ p # <<>> /\ Len(p) = n /\ n < Len(input) /\ n \in Nat
        /\ p[1] = input[1] /\ Window(p, input, 0) /\ Decode(p) # Invalid
    BY ONLY <1>10, <2>1, input \in Seq(Nat), n \in 0 .. Len(input) - 1, PrefixOf
  <2>3. Len(p) >= 3 /\ Ends(EntityEnd, p, 3, p[3])[p[3]] = Len(p)
    BY <2>2, Decoded, DecodedReplication
  <2>4. p[3] = m
    <3>1. \A i \in 1 .. Len(p) : p[i] = input[0 + i]
      BY ONLY <2>2 DEF Window
    <3>2. Len(p) \in Nat /\ Len(p) >= 3
      BY <2>2, <2>3
    <3> QED
      BY ONLY <1>4, <3>1, <3>2
  <2>5. PICK e : e = Ends(EntityEnd, p, 3, m)[m]
    OBVIOUS
  <2>6. PICK g : g = Ends(EntityEnd, input, 3, m)[m]
    OBVIOUS
  <2>7. e = n /\ g = l
    BY <1>2, <1>3, <1>4, <2>2, <2>3, <2>4, <2>5, <2>6
  <2>8. PICK d \in Nat, b \in Nat : d = 0 /\ b = 3 /\ b = d + b
    OBVIOUS
  <2>9. Window(p, input, d) /\ b <= Len(p)
    BY <2>2, <2>3, <2>8
  <2>10. Ends(EntityEnd, p, b, m)[m] <= Len(p)
           => Ends(EntityEnd, input, b, m)[m] = d + Ends(EntityEnd, p, b, m)[m]
    BY <2>8, <2>9, EndsShift
  <2>11. e <= Len(p) => g = d + e
    BY <2>5, <2>6, <2>8, <2>10
  <2> QED
    BY <1>3, <2>2, <2>7, <2>8, <2>11
<1> QED
  BY <1>7, <1>9, <1>10 DEF NoPrefix

LEMMA BarrierTrips ==
    ASSUME NEW input \in Seq(Nat), input # <<>>, input[1] = 2, Decode(input) # Invalid
    PROVE  /\ Decode(input).kind = "Barrier"
           /\ Encode(Decode(input)) = input
           /\ NoPrefix(input)
<1>1. /\ Len(input) = 4
      /\ Decode(input) = [kind |-> "Barrier", client |-> input[2], barrier |-> input[3],
                          state |-> input[4]]
  BY Decoded
<1>2. Encode(Decode(input)) = <<input[1], input[2], input[3], input[4]>>
  BY <1>1, KindBytes DEF Encode
<1>3. Encode(Decode(input)) = input
  BY <1>1, <1>2, Headed
<1>4. ASSUME NEW n \in 0 .. Len(input) - 1, Decode(SubSeq(input, 1, n)) # Invalid PROVE FALSE
  <2>1. PICK p : p = SubSeq(input, 1, n)
    OBVIOUS
  <2>2. /\ p \in Seq(Nat) /\ p # <<>> /\ Len(p) = n /\ n < Len(input)
        /\ p[1] = input[1] /\ Decode(p) # Invalid
    BY ONLY <1>4, <2>1, input \in Seq(Nat), n \in 0 .. Len(input) - 1, PrefixOf
  <2>3. Len(p) = 4
    BY <2>2, Decoded
  <2> QED
    BY <1>1, <2>2, <2>3
<1> QED
  BY <1>1, <1>3, <1>4 DEF NoPrefix

\* An ACK's flag is one for anything but zero.
LEMMA AckTrips ==
    ASSUME NEW input \in Seq(Nat), input # <<>>, input[1] = 1, Decode(input) # Invalid
    PROVE  /\ Decode(input).kind = "CommandAck"
           /\ Decode(Encode(Decode(input))) = Decode(input)
           /\ Len(Encode(Decode(input))) = Len(input)
           /\ NoPrefix(input)
<1>1. /\ Len(input) = 5
      /\ Decode(input) = [kind |-> "CommandAck", client |-> input[2], command |-> input[3],
                          accepted |-> input[4] # 0, reason_code |-> input[5]]
  BY Decoded
<1>2. \A i \in 1 .. 5 : input[i] \in Nat
  <2>1. \A i \in 1 .. Len(input) : input[i] \in Nat
    OBVIOUS
  <2> QED
    BY <1>1, <2>1
<1>3. PICK flag \in Nat : flag = (IF input[4] # 0 THEN 1 ELSE 0)
  OBVIOUS
<1>4. PICK out : out = <<1, input[2], input[3], flag, input[5]>>
  OBVIOUS
<1>5. Encode(Decode(input)) = out
  <2>1. PICK ack : ack = Decode(input)
    OBVIOUS
  <2>2. /\ ack.kind = "CommandAck" /\ ack.client = input[2] /\ ack.command = input[3]
        /\ ack.accepted = (input[4] # 0) /\ ack.reason_code = input[5]
    BY <1>1, <2>1
  <2>3. Encode(ack) = <<Byte("CommandAck"), ack.client, ack.command,
                        IF ack.accepted THEN 1 ELSE 0, ack.reason_code>>
    BY <2>2 DEF Encode
  <2>4. (IF ack.accepted THEN 1 ELSE 0) = flag
    BY <1>3, <2>2
  <2> QED
    BY <1>4, <2>1, <2>2, <2>3, <2>4, KindBytes
<1>6. /\ out \in Seq(Nat) /\ out # <<>> /\ Len(out) = 5 /\ out[1] = 1 /\ out[2] = input[2]
      /\ out[3] = input[3] /\ out[4] = flag /\ out[5] = input[5]
  BY <1>2, <1>4
<1>7. Decode(out) = [kind |-> "CommandAck", client |-> out[2], command |-> out[3],
                     accepted |-> out[4] # 0, reason_code |-> out[5]]
  BY <1>6, Decoded
<1>8. (out[4] # 0) = (input[4] # 0)
  BY <1>3, <1>6
<1>9. Decode(out) = Decode(input)
  BY <1>1, <1>6, <1>7, <1>8
<1>10. ASSUME NEW n \in 0 .. Len(input) - 1, Decode(SubSeq(input, 1, n)) # Invalid PROVE FALSE
  <2>1. PICK p : p = SubSeq(input, 1, n)
    OBVIOUS
  <2>2. /\ p \in Seq(Nat) /\ p # <<>> /\ Len(p) = n /\ n < Len(input)
        /\ p[1] = input[1] /\ Decode(p) # Invalid
    BY ONLY <1>10, <2>1, input \in Seq(Nat), n \in 0 .. Len(input) - 1, PrefixOf
  <2>3. Len(p) = 5
    BY <2>2, Decoded
  <2> QED
    BY <1>1, <2>2, <2>3
<1> QED
  BY <1>1, <1>5, <1>6, <1>9, <1>10 DEF NoPrefix

LEMMA CommandTrips ==
    ASSUME NEW input \in Seq(Nat), input # <<>>, input[1] = 3, Decode(input) # Invalid
    PROVE  /\ Decode(input).kind = "Command"
           /\ Encode(Decode(input)) = input
           /\ NoPrefix(input)
<1>1. /\ BytesEnd(input, 5) = Len(input)
      /\ Decode(input) = [kind |-> "Command", client |-> input[2], command |-> input[3],
                          priority |-> input[4], payload |-> BytesAt(input, 5)]
  BY Decoded
<1>2. PICK l \in Nat, a \in Nat, b \in Nat \ {0} :
         l = Len(input) /\ a = 4 /\ b = 5 /\ b = a + 1
  OBVIOUS
<1>3. b <= l /\ LengthAnd(BytesAt(input, b)) = Part(input, a, l)
  BY <1>1, <1>2, LengthBack
<1>4. PICK order : order = Decode(input)
  OBVIOUS
<1>5. /\ order.kind = "Command" /\ order.client = input[2] /\ order.command = input[3]
      /\ order.priority = input[4] /\ order.payload = BytesAt(input, 5)
  BY <1>1, <1>4
<1>6. Encode(order) = <<Byte("Command"), order.client, order.command, order.priority>> \o LengthAnd(order.payload)
  BY <1>5 DEF Encode
<1>7. Encode(order) = <<input[1], input[2], input[3], input[4]>> \o Part(input, a, l)
  BY <1>2, <1>3, <1>5, <1>6, KindBytes
<1>8. 4 <= l
  BY <1>2, <1>3
<1>9. Encode(Decode(input)) = input
  BY <1>2, <1>4, <1>7, <1>8, Headed
<1>10. ASSUME NEW n \in 0 .. Len(input) - 1, Decode(SubSeq(input, 1, n)) # Invalid PROVE FALSE
  <2>1. PICK p : p = SubSeq(input, 1, n)
    OBVIOUS
  <2>2. /\ p \in Seq(Nat) /\ p # <<>> /\ Len(p) = n /\ n < Len(input) /\ n \in Nat
        /\ p[1] = input[1] /\ Window(p, input, 0) /\ Decode(p) # Invalid
    BY ONLY <1>10, <2>1, input \in Seq(Nat), n \in 0 .. Len(input) - 1, PrefixOf
  <2>3. BytesEnd(p, 5) = Len(p)
    BY <2>2, Decoded
  <2>4. PICK x : x = BytesEnd(p, 5)
    OBVIOUS
  <2>5. PICK d \in Nat : d = 0 /\ d + b = b
    OBVIOUS
  <2>6. BytesEnd(p, b) <= Len(p) => BytesEnd(input, d + b) = d + BytesEnd(p, b)
    BY <2>2, <2>5, BytesShift
  <2>7. x = n /\ (x <= n => Len(input) = d + x)
    BY <1>1, <1>2, <2>2, <2>3, <2>4, <2>5, <2>6
  <2> QED
    BY <2>2, <2>5, <2>7
<1> QED
  BY <1>1, <1>9, <1>10 DEF NoPrefix

LEMMA DispatchTrips ==
    ASSUME NEW input \in Seq(Nat), input # <<>>, input[1] = 5, Decode(input) # Invalid
    PROVE  /\ Decode(input).kind = "CommandDispatch"
           /\ Encode(Decode(input)) = input
           /\ NoPrefix(input)
<1>1. /\ BytesEnd(input, 6) = Len(input)
      /\ Decode(input) = [kind |-> "CommandDispatch", station |-> input[2],
                          client |-> input[3], command |-> input[4],
                          priority |-> input[5], payload |-> BytesAt(input, 6)]
  BY Decoded
<1>2. PICK l \in Nat, a \in Nat, b \in Nat \ {0} :
         l = Len(input) /\ a = 5 /\ b = 6 /\ b = a + 1
  OBVIOUS
<1>3. b <= l /\ LengthAnd(BytesAt(input, b)) = Part(input, a, l)
  BY <1>1, <1>2, LengthBack
<1>4. PICK order : order = Decode(input)
  OBVIOUS
<1>5. /\ order.kind = "CommandDispatch" /\ order.station = input[2]
      /\ order.client = input[3] /\ order.command = input[4]
      /\ order.priority = input[5] /\ order.payload = BytesAt(input, 6)
  BY <1>1, <1>4
<1>6. Encode(order) = <<Byte("CommandDispatch"), order.station, order.client, order.command,
                      order.priority>> \o LengthAnd(order.payload)
  BY <1>5 DEF Encode
<1>7. Encode(order) = <<input[1], input[2], input[3], input[4], input[5]>> \o Part(input, a, l)
  BY <1>2, <1>3, <1>5, <1>6, KindBytes
<1>8. 5 <= l
  BY <1>2, <1>3
<1>9. Encode(Decode(input)) = input
  BY <1>2, <1>4, <1>7, <1>8, Headed
<1>10. ASSUME NEW n \in 0 .. Len(input) - 1, Decode(SubSeq(input, 1, n)) # Invalid PROVE FALSE
  <2>1. PICK p : p = SubSeq(input, 1, n)
    OBVIOUS
  <2>2. /\ p \in Seq(Nat) /\ p # <<>> /\ Len(p) = n /\ n < Len(input) /\ n \in Nat
        /\ p[1] = input[1] /\ Window(p, input, 0) /\ Decode(p) # Invalid
    BY ONLY <1>10, <2>1, input \in Seq(Nat), n \in 0 .. Len(input) - 1, PrefixOf
  <2>3. BytesEnd(p, 6) = Len(p)
    BY <2>2, Decoded
  <2>4. PICK x : x = BytesEnd(p, 6)
    OBVIOUS
  <2>5. PICK d \in Nat : d = 0 /\ d + b = b
    OBVIOUS
  <2>6. BytesEnd(p, b) <= Len(p) => BytesEnd(input, d + b) = d + BytesEnd(p, b)
    BY <2>2, <2>5, BytesShift
  <2>7. x = n /\ (x <= n => Len(input) = d + x)
    BY <1>1, <1>2, <2>2, <2>3, <2>4, <2>5, <2>6
  <2> QED
    BY <2>2, <2>5, <2>7
<1> QED
  BY <1>1, <1>9, <1>10 DEF NoPrefix

LEMMA EventTrips ==
    ASSUME NEW input \in Seq(Nat), input # <<>>, input[1] = 4, Decode(input) # Invalid
    PROVE  /\ Decode(input).kind = "StationEvent"
           /\ Encode(Decode(input)) = input
           /\ NoPrefix(input)
<1>1. /\ Len(input) >= 4 /\ Len(input) = 4 + EventKindFields(input[4])
      /\ Decode(input) = [kind |-> "StationEvent", event |-> input[2],
                          priority |-> input[3], event_kind |-> input[4],
                          fields |-> Drop(input, 4)]
  BY Decoded
<1>2. PICK l \in Nat : l = Len(input) /\ 4 <= l
  BY <1>1
<1>3. Drop(input, 4) = Part(input, 4, l)
  BY <1>2 DEF Drop, Part
<1>4. Encode(Decode(input)) =
         <<input[1], input[2], input[3], input[4]>> \o Part(input, 4, l)
  <2>1. PICK frame : frame = Decode(input)
    OBVIOUS
  <2>2. /\ frame.kind = "StationEvent" /\ frame.event = input[2] /\ frame.priority = input[3]
        /\ frame.event_kind = input[4] /\ frame.fields = Part(input, 4, l)
    BY ONLY <1>1, <1>3, <2>1
  <2>3. Encode(frame) = <<4, frame.event, frame.priority, frame.event_kind>> \o frame.fields
    BY ONLY <2>2, KindBytes DEF Encode
  <2>4. input[1] = 4
    OBVIOUS
  <2> QED
    BY ONLY <2>1, <2>2, <2>3, <2>4
<1>5. Encode(Decode(input)) = input
  BY <1>2, <1>4, Headed
<1>6. ASSUME NEW n \in 0 .. Len(input) - 1, Decode(SubSeq(input, 1, n)) # Invalid PROVE FALSE
  <2>1. PICK p : p = SubSeq(input, 1, n)
    OBVIOUS
  <2>2. /\ p \in Seq(Nat) /\ p # <<>> /\ Len(p) = n /\ n < Len(input) /\ n \in Nat
        /\ p[1] = input[1] /\ Window(p, input, 0) /\ Decode(p) # Invalid
    BY ONLY <1>6, <2>1, input \in Seq(Nat), n \in 0 .. Len(input) - 1, PrefixOf
  <2>3. Len(p) >= 4 /\ Len(p) = 4 + EventKindFields(p[4])
    BY <2>2, Decoded
  <2>4. p[4] = input[4]
    <3>1. \A i \in 1 .. Len(p) : p[i] = input[0 + i]
      BY ONLY <2>2 DEF Window
    <3>2. Len(p) \in Nat /\ Len(p) >= 4
      BY <2>2, <2>3
    <3> QED
      BY ONLY <3>1, <3>2
  <2> QED
    BY <1>1, <2>2, <2>3, <2>4
<1> QED
  BY <1>1, <1>5, <1>6 DEF NoPrefix

\* Every input.
LEMMA RoundTripsHold ==
    ASSUME NEW input \in Seq(Nat)
    PROVE  RoundTrips(input)
<1>1. CASE Decode(input) = Invalid
  <2>1. DecodeReplication(input) = Invalid
    <3>1. SUFFICES ASSUME DecodeReplicationOwned(input) # Invalid, input[1] = 0 PROVE FALSE
      BY KindBytes DEF DecodeReplication
    <3>2. Len(input) >= 3
      BY <3>1, DecodedReplication
    <3>3. input # <<>>
      BY <3>2
    <3> QED
      BY <1>1, <3>1, <3>3, Decoded
  <2> QED
    BY <1>1, <2>1 DEF RoundTrips, Invalid
<1>2. CASE Decode(input) # Invalid
  <2>1. input # <<>> /\ input[1] \in 0 .. 5
    BY <1>2, Decoded
  <2>2. /\ Decode(Encode(Decode(input))) = Decode(input)
        /\ Len(Encode(Decode(input))) = Len(input)
        /\ Decode(input).kind # "CommandAck" => Encode(Decode(input)) = input
        /\ NoPrefix(input)
        /\ Decode(input).kind = "Replication" <=> input[1] = 0
    <3>1. CASE input[1] = 0
      BY <1>2, <2>1, <3>1, ReplicationTrips
    <3>2. CASE input[1] = 1
      BY <1>2, <2>1, <3>2, AckTrips
    <3>3. CASE input[1] = 2
      BY <1>2, <2>1, <3>3, BarrierTrips
    <3>4. CASE input[1] = 3
      BY <1>2, <2>1, <3>4, CommandTrips
    <3>5. CASE input[1] = 4
      BY <1>2, <2>1, <3>5, EventTrips
    <3>6. CASE input[1] = 5
      BY <1>2, <2>1, <3>6, DispatchTrips
    <3> QED
      BY <2>1, <3>1, <3>2, <3>3, <3>4, <3>5, <3>6
  <2>3. CASE input[1] # 0
    <3>1. DecodeReplication(input) = Invalid
      BY <2>3, KindBytes DEF DecodeReplication
    <3> QED
      BY <2>2, <2>3, <3>1 DEF RoundTrips, NoPrefix
  <2>4. CASE input[1] = 0
    <3>1. Decode(input) = DecodeReplicationOwned(input) /\ Byte("Replication") = 0
      BY <2>1, <2>4, Decoded, KindBytes
    <3>2. Len(input) >= 3 /\ Ends(EntityEnd, input, 3, input[3])[input[3]] = Len(input)
      BY <1>2, <3>1, DecodedReplication
    <3>3. PICK m \in Nat, l \in Nat : m = input[3] /\ l = Len(input) /\ 3 <= l
      BY <3>2, UnitAt
    <3>4. PICK q : q = Part(input, 3, l)
      OBVIOUS
    <3>5. Drop(input, 3) = q
      BY <3>3, <3>4 DEF Drop, Part
    <3>6. DecodeReplication(input) =
             [kind |-> "Replication", client |-> input[2], encoded_entity_count |-> m,
              encoded_entities |-> q]
      BY <1>2, <2>4, <3>1, <3>3, <3>5 DEF DecodeReplication
    <3>7. ToOwned(DecodeReplication(input)) =
             [kind |-> "Replication", client |-> input[2], entities |-> EntitiesAt(q, 0, m)]
      BY <3>6 DEF ToOwned
    <3>8. EntitiesAt(q, 0, m) = EntitiesAt(input, 3, m)
      <4>1. Window(q, input, 3) /\ Len(q) = l - 3 /\ q \in Seq(Nat)
        <5>1. 3 \in Nat /\ 3 <= l /\ l <= Len(input)
          BY <3>3
        <5>2. Window(q, input, 3) /\ Len(q) = l - 3
          BY ONLY <3>4, <5>1, input \in Seq(Nat), l \in Nat, PartWindow
        <5> QED
          BY ONLY <5>2 DEF Window
      <4>2. PICK o \in Nat, d \in Nat : o = 0 /\ d = 3 /\ d + o = 3
        OBVIOUS
      <4>3. o <= Len(q) /\ 3 = d + o /\ Window(q, input, d)
        BY <3>3, <4>1, <4>2
      <4>4. Ends(EntityEnd, q, o, m)[m] <= Len(q)
               <=> Ends(EntityEnd, input, 3, m)[m] <= d + Len(q)
        BY <4>3, EndsShift
      <4>5. Ends(EntityEnd, q, o, m)[m] <= Len(q)
        BY <3>2, <3>3, <4>1, <4>2, <4>4
      <4>6. EntitiesAt(q, o, m) = EntitiesAt(input, d + o, m)
        BY <4>3, <4>5, EntitiesShift
      <4> QED
        BY <4>2, <4>6
    <3>9. Decode(input) = [kind |-> "Replication", client |-> input[2],
                           entities |-> EntitiesAt(input, 3, m)]
      BY <3>1, <3>2, <3>3 DEF DecodeReplicationOwned
    <3>10. DecodeReplication(input) # Invalid
      BY <3>6 DEF Invalid
    <3>11. ToOwned(DecodeReplication(input)) = Decode(input)
      BY <3>7, <3>8, <3>9
    <3> QED
      BY <2>2, <2>4, <3>10, <3>11 DEF RoundTrips, NoPrefix
  <2> QED
    BY <2>3, <2>4
<1> QED
  BY <1>1, <1>2

-----------------------------------------------------------------------------
(* The codec: frames built under a budget. *)

ComponentDelta == [component_id : Nat, bytes : Seq(Nat)]
EntityDelta == [entity_id : Nat, components : Seq(ComponentDelta)]

LEMMA AtMostIs ==
    ASSUME NEW n \in Nat, NEW limit \in Nat
    PROVE  /\ AtMost(n, limit) \in Nat /\ AtMost(n, limit) <= n /\ AtMost(n, limit) <= limit
           /\ n <= limit => AtMost(n, limit) = n
           /\ n >= limit => AtMost(n, limit) = limit
  BY DEF AtMost

LEMMA DeltaTyped ==
    ASSUME NEW entity \in PlannedEntity
    PROVE  Delta(entity) \in EntityDelta
<1>1. entity.id \in Nat /\ entity.blobs \in Seq(ComponentBlob)
  BY DEF PlannedEntity
<1>2. PICK blobs \in Seq(ComponentBlob) : blobs = entity.blobs
  BY <1>1
<1>3. PICK K : K = {i \in DOMAIN blobs : Taken(blobs[i])}
  OBVIOUS
<1>4. K \in SUBSET (1 .. Len(blobs))
  BY <1>3
<1>5. PICK t : t = Picked(blobs, K)
  OBVIOUS
<1>6. t \in Seq(ComponentBlob)
  <2>1. Chained(blobs, ComponentBlob \X ComponentBlob)
    BY AllRelated
  <2> QED
    BY <1>4, <1>5, <2>1, ChainPicked
<1>7. PICK n \in Nat : n = AtMost(Len(t), MaxComponentsPerEntity) /\ n <= Len(t)
  <2>1. PICK m \in Nat, limit \in Nat : m = Len(t) /\ limit = MaxComponentsPerEntity
    BY <1>6, CodecAssumption
  <2>2. AtMost(m, limit) \in Nat /\ AtMost(m, limit) <= m
    BY AtMostIs
  <2> QED
    BY <2>1, <2>2
<1>8. Deltas(entity) = [i \in 1 .. n |-> [component_id |-> t[i].component_id,
                                          bytes |-> t[i].bytes]]
  BY <1>2, <1>3, <1>5, <1>7 DEF Deltas
<1>9. ASSUME NEW i \in 1 .. n
      PROVE  [component_id |-> t[i].component_id, bytes |-> t[i].bytes] \in ComponentDelta
  <2>1. t[i] \in ComponentBlob
    BY <1>6, <1>7
  <2> QED
    BY <2>1 DEF ComponentBlob, ComponentDelta
<1>10. Deltas(entity) \in Seq(ComponentDelta)
  BY <1>8, <1>9
<1> QED
  BY <1>1, <1>10 DEF Delta, EntityDelta

LEMMA EntityEncodes ==
    ASSUME NEW entity \in EntityDelta
    PROVE  EncodeEntity(entity) \in Seq(Nat)
<1>1. PICK components \in Seq(ComponentDelta) : components = entity.components
  BY DEF EntityDelta
<1>2. ASSUME NEW i \in DOMAIN components PROVE EncodeComponent(components[i]) \in Seq(Nat)
  <2>1. components[i] \in ComponentDelta
    BY <1>2
  <2>2. PICK b \in Seq(Nat), n \in Nat :
          b = components[i].bytes /\ n = components[i].component_id
    BY <2>1 DEF ComponentDelta
  <2>3. EncodeComponent(components[i]) = <<n>> \o (<<Len(b)>> \o b)
    BY <2>2 DEF EncodeComponent, LengthAnd
  <2> QED
    BY <2>2, <2>3
<1>3. PICK parts : parts = [i \in DOMAIN components |-> EncodeComponent(components[i])]
  OBVIOUS
<1>4. parts \in Seq(Seq(Nat))
  BY <1>2, <1>3
<1>5. Joined(parts) \in Seq(Nat)
  <2>1. PICK f \in [0 .. Len(parts) -> Seq(Nat)] :
          /\ f[0] = <<>> /\ Joined(parts) = f[Len(parts)]
          /\ \A n \in 1 .. Len(parts) : f[n] = f[n - 1] \o parts[n]
    BY <1>4, JoinedRuns
  <2>2. Len(parts) \in 0 .. Len(parts)
    BY <1>4
  <2> QED
    BY <2>1, <2>2
<1>6. PICK w : w = Joined(parts)
  OBVIOUS
<1>7. EncodeEntity(entity) = <<entity.entity_id, Len(components)>> \o w
  BY <1>1, <1>3, <1>6 DEF EncodeEntity
<1>8. entity.entity_id \in Nat /\ Len(components) \in Nat
  BY DEF EntityDelta
<1> QED
  BY <1>5, <1>6, <1>7, <1>8

\* g has the first of some sequences one behind the other.
Grows(g, s) ==
    /\ g \in [0 .. Len(s) -> Seq(Nat)] /\ g[0] = <<>>
    /\ \A k \in 1 .. Len(s) : g[k] = g[k - 1] \o s[k]

LEMMA JoinedPrefix ==
    ASSUME NEW s \in Seq(Seq(Nat)), NEW g, Grows(g, s), NEW m \in 0 .. Len(s)
    PROVE  Joined([i \in 1 .. m |-> s[i]]) = g[m]
<1>1. PICK t : t = [i \in 1 .. m |-> s[i]]
  OBVIOUS
<1>2. t \in Seq(Seq(Nat)) /\ Len(t) = m /\ \A k \in 1 .. m : t[k] = s[k]
  BY <1>1
<1>3. PICK h \in [0 .. Len(t) -> Seq(Nat)] :
        /\ h[0] = <<>> /\ Joined(t) = h[Len(t)]
        /\ \A n \in 1 .. Len(t) : h[n] = h[n - 1] \o t[n]
  BY <1>2, JoinedRuns
<1> DEFINE P == {k \in 0 .. m : h[k] = g[k]}
<1>4. 0 \in P
  BY <1>3 DEF Grows
<1>5. ASSUME NEW k \in 0 .. m - 1, k \in P PROVE k + 1 \in P
  <2>1. PICK j \in 1 .. m : j = k + 1 /\ j - 1 = k /\ j \in 1 .. Len(s)
    OBVIOUS
  <2>4. h[j] = h[j - 1] \o t[j] /\ t[j] = s[j]
    <3>1. j \in 1 .. Len(t)
      BY <1>2, <2>1
    <3> QED
      BY <1>2, <1>3, <2>1, <3>1
  <2>2. h[j] = h[j - 1] \o s[j] /\ g[j] = g[j - 1] \o s[j]
    BY <2>1, <2>4 DEF Grows
  <2>3. h[j - 1] = g[j - 1]
    BY <1>5, <2>1
  <2>5. h[j] = g[j] /\ j \in 0 .. m
    BY <2>1, <2>2, <2>3
  <2>6. j \in P
    BY <2>5
  <2> QED
    BY <2>1, <2>6
<1> HIDE DEF P
<1>6. m \in Nat
  OBVIOUS
<1>7. 0 .. m \subseteq P
  BY <1>4, <1>5, <1>6, EveryTurn
<1>8. m \in P
  BY <1>6, <1>7
<1>9. h[m] = g[m]
  BY <1>8 DEF P
<1> QED
  BY <1>1, <1>2, <1>3, <1>9

LEMMA GrowsLonger ==
    ASSUME NEW s \in Seq(Seq(Nat)), NEW g, Grows(g, s)
    PROVE  \A j, k \in 0 .. Len(s) : j <= k => Len(g[j]) <= Len(g[k])
<1>1. PICK n \in Nat : n = Len(s)
  OBVIOUS
<1>2. \A k \in 0 .. n : Len(g[k]) \in Nat
  BY <1>1 DEF Grows
<1>3. ASSUME NEW k \in 1 .. n PROVE Len(g[k - 1]) <= Len(g[k])
  <2>1. k - 1 \in 0 .. n
    BY <1>1
  <2>5. k \in 1 .. Len(s) /\ k - 1 \in 0 .. Len(s)
    BY <1>1, <2>1
  <2>6. g[k - 1] \in Seq(Nat) /\ s[k] \in Seq(Nat) /\ g[k] = g[k - 1] \o s[k]
    <3>1. g \in [0 .. Len(s) -> Seq(Nat)]
      BY DEF Grows
    <3>2. g[k] = g[k - 1] \o s[k]
      BY <2>5 DEF Grows
    <3>3. s[k] \in Seq(Nat)
      BY <2>5
    <3> QED
      BY <2>5, <3>1, <3>2, <3>3
  <2>2. PICK u \in Seq(Nat), v \in Seq(Nat) : u = g[k - 1] /\ v = s[k]
    BY <2>6
  <2>3. g[k] = u \o v
    BY <2>2, <2>6
  <2>4. Len(u \o v) = Len(u) + Len(v)
    BY ONLY u \in Seq(Nat), v \in Seq(Nat), ConcatProperties
  <2>7. Len(u) \in Nat /\ Len(v) \in Nat
    OBVIOUS
  <2>8. Len(u) <= Len(u \o v)
    BY ONLY <2>4, <2>7
  <2> QED
    BY <2>2, <2>3, <2>8
<1>4. ASSUME NEW j \in 0 .. n PROVE \A k \in 0 .. n : j <= k => Len(g[j]) <= Len(g[k])
  <2> DEFINE P == {k \in 0 .. n : j <= k => Len(g[j]) <= Len(g[k])}
  <2>1. 0 \in P
    <3>1. 0 \in 0 .. n /\ (j <= 0 => j = 0)
      BY <1>1
    <3> QED
      BY <1>2, <3>1
  <2>2. ASSUME NEW k \in 0 .. n - 1, k \in P PROVE k + 1 \in P
    <3>1. PICK i \in 1 .. n : i = k + 1 /\ i - 1 = k /\ i \in 0 .. n /\ k \in 0 .. n
      BY <1>1
    <3>2. Len(g[k]) <= Len(g[i]) /\ Len(g[k]) \in Nat /\ Len(g[i]) \in Nat /\ Len(g[j]) \in Nat
      BY <1>2, <1>3, <3>1
    <3>3. CASE j <= k
      <4>1. Len(g[j]) <= Len(g[k])
        BY <2>2, <3>3
      <4>2. Len(g[j]) <= Len(g[i])
        BY ONLY <3>2, <4>1
      <4> QED
        BY <3>1, <4>2
    <3>4. CASE ~(j <= k)
      <4>1. j <= i => j = i
        BY <3>1, <3>4
      <4>2. j <= i => Len(g[j]) <= Len(g[i])
        BY <3>2, <4>1
      <4> QED
        BY <3>1, <4>2
    <3> QED
      BY <3>3, <3>4
  <2> HIDE DEF P
  <2>3. 0 .. n \subseteq P
    BY <1>1, <2>1, <2>2, EveryTurn
  <2> QED
    BY <2>3 DEF P
<1> QED
  BY <1>1, <1>4

BuildState == [out : Seq(Nat), count : Nat, stopped : BOOLEAN]

\* r is what an entity makes of a state, and x the longer frame.
AppendsTo(state, entity, budget, x, r) ==
    /\ r \in BuildState
    /\ state.stopped \/ state.count >= MaxEntityDeltas \/ ~HasDelta(entity) => r = state
    /\ ~(state.stopped \/ state.count >= MaxEntityDeltas \/ ~HasDelta(entity)) =>
          /\ Len(x) > budget => r.out = state.out /\ r.count = state.count /\ r.stopped = TRUE
          /\ ~(Len(x) > budget) => r.out = x /\ r.count = state.count + 1 /\ r.stopped = FALSE

LEMMA AppendedIs ==
    ASSUME NEW state \in BuildState, NEW entity \in PlannedEntity, NEW budget \in Nat,
           NEW x, x = state.out \o EncodeEntity(Delta(entity)),
           NEW r, r = Appended(state, entity, budget)
    PROVE  AppendsTo(state, entity, budget, x, r)
<1>1. /\ state = [out |-> state.out, count |-> state.count, stopped |-> state.stopped]
      /\ state.out \in Seq(Nat) /\ state.count \in Nat /\ state.stopped \in BOOLEAN
  BY DEF BuildState
<1>2. x \in Seq(Nat)
  <2>1. PICK e \in Seq(Nat) : e = EncodeEntity(Delta(entity))
    BY DeltaTyped, EntityEncodes
  <2> QED
    BY <1>1, <2>1
<1>3. r = IF state.stopped \/ state.count >= MaxEntityDeltas \/ ~HasDelta(entity)
          THEN state
          ELSE IF Len(x) > budget THEN [state EXCEPT !.stopped = TRUE]
          ELSE [state EXCEPT !.out = x, !.count = @ + 1]
  BY DEF Appended
<1>4. CASE state.stopped \/ state.count >= MaxEntityDeltas \/ ~HasDelta(entity)
  BY <1>3, <1>4 DEF AppendsTo
<1>5. CASE ~(state.stopped \/ state.count >= MaxEntityDeltas \/ ~HasDelta(entity))
  <2>1. CASE Len(x) > budget
    <3>1. r = [state EXCEPT !.stopped = TRUE]
      BY <1>3, <1>5, <2>1
    <3>2. r = [out |-> state.out, count |-> state.count, stopped |-> TRUE]
      BY <1>1, <3>1
    <3> QED
      BY <1>1, <1>5, <2>1, <3>2 DEF AppendsTo, BuildState
  <2>2. CASE ~(Len(x) > budget)
    <3>1. r = [state EXCEPT !.out = x, !.count = @ + 1]
      BY <1>3, <1>5, <2>2
    <3>2. ~state.stopped
      BY <1>5
    <3>3. r = [out |-> x, count |-> state.count + 1, stopped |-> FALSE]
      BY <1>1, <3>1, <3>2
    <3>4. state.count + 1 \in Nat
      BY <1>1
    <3> QED
      BY <1>2, <1>5, <2>2, <3>3, <3>4 DEF AppendsTo, BuildState
  <2> QED
    BY <2>1, <2>2
<1> QED
  BY <1>4, <1>5

\* The loop of encode_binary_bounded_into.
LEMMA AppendedRuns ==
    ASSUME NEW plan \in Seq(PlannedEntity), NEW budget \in Nat
    PROVE  \E f \in [0 .. Len(plan) -> BuildState] :
              /\ f[0] = [out |-> <<0, 0, 0>>, count |-> 0, stopped |-> FALSE]
              /\ \A k \in 1 .. Len(plan) : f[k] = Appended(f[k - 1], plan[k], budget)
              /\ EncodeBinaryBounded(0, plan, budget) =
                    [f[Len(plan)].out EXCEPT ![3] = f[Len(plan)].count]
<1> DEFINE G == [x \in BuildState \X PlannedEntity |-> Appended(x[1], x[2], budget)]
<1>1. PICK n \in Nat : n = Len(plan)
  OBVIOUS
<1> DEFINE append(state, entity) == Appended(state, entity, budget)
           first == [out |-> <<Byte("Replication"), 0, 0>>, count |-> 0, stopped |-> FALSE]
           end == Loop(append, first, plan)
<1>2. PICK start : start = first
  OBVIOUS
<1>18. start = [out |-> <<0, 0, 0>>, count |-> 0, stopped |-> FALSE]
  BY <1>2, KindBytes
<1>3. start \in BuildState
  BY <1>18 DEF BuildState
<1>4. ASSUME NEW state \in BuildState, NEW entity \in PlannedEntity
      PROVE  Appended(state, entity, budget) \in BuildState
  <2>1. PICK x, r : /\ x = state.out \o EncodeEntity(Delta(entity))
                    /\ r = Appended(state, entity, budget)
    OBVIOUS
  <2>2. AppendsTo(state, entity, budget, x, r)
    BY ONLY <2>1, state \in BuildState, entity \in PlannedEntity, budget \in Nat, AppendedIs
  <2> QED
    BY ONLY <2>1, <2>2 DEF AppendsTo
<1>5. /\ G \in [BuildState \X PlannedEntity -> BuildState]
      /\ \A a \in BuildState, b \in PlannedEntity : G[<<a, b>>] = Appended(a, b, budget)
  BY <1>4
<1> HIDE DEF G
<1>6. PICK f \in [0 .. n -> BuildState] : Turns(f, start, plan, G)
  BY <1>1, <1>3, <1>5, LoopRuns
<1>7. f[0] = start /\ \A k \in 1 .. n : f[k] = G[<<f[k - 1], plan[k]>>]
  BY <1>1, <1>6 DEF Turns
<1>8. ASSUME NEW k \in 1 .. n PROVE f[k] = Appended(f[k - 1], plan[k], budget)
  <2>1. k - 1 \in 0 .. n
    OBVIOUS
  <2>2. PICK a \in BuildState, b \in PlannedEntity : a = f[k - 1] /\ b = plan[k]
    BY <1>1, <1>6, <2>1
  <2> QED
    BY <1>5, <1>7, <2>2
<1>9. f = [k \in 0 .. n |-> IF k = 0 THEN start ELSE Appended(f[k - 1], plan[k], budget)]
  <2>1. ASSUME NEW k \in 0 .. n
        PROVE  f[k] = IF k = 0 THEN start ELSE Appended(f[k - 1], plan[k], budget)
    <3>1. CASE k = 0
      BY <1>7, <3>1
    <3>2. CASE k \in 1 .. n
      <4>1. k # 0
        BY <3>2
      <4> QED
        BY <1>8, <3>2, <4>1
    <3> QED
      BY <3>1, <3>2
  <2> QED
    BY <1>6, <2>1
<1>10. end = CHOOSE g : g = [k \in 0 .. Len(plan) |->
                            IF k = 0 THEN first ELSE Appended(g[k - 1], plan[k], budget)]
  BY DEF Loop
<1>17. EncodeBinaryBounded(0, plan, budget) =
          [end[Len(plan)].out EXCEPT ![HeaderUnits] = end[Len(plan)].count]
  BY DEF EncodeBinaryBounded, Loop
<1> HIDE DEF end
<1>11. end = [k \in 0 .. n |-> IF k = 0 THEN start ELSE Appended(end[k - 1], plan[k], budget)]
  <2>1. f = [k \in 0 .. Len(plan) |->
                IF k = 0 THEN first ELSE Appended(f[k - 1], plan[k], budget)]
    BY <1>1, <1>2, <1>9
  <2>2. end = [k \in 0 .. Len(plan) |->
                  IF k = 0 THEN first ELSE Appended(end[k - 1], plan[k], budget)]
    BY <1>10, <2>1
  <2> QED
    BY <1>1, <1>2, <2>2
<1>12. end[0] = start /\ \A k \in 1 .. n : end[k] = Appended(end[k - 1], plan[k], budget)
  <2>1. 0 \in 0 .. n /\ \A k \in 1 .. n : k \in 0 .. n /\ k # 0
    BY <1>1
  <2> QED
    BY <1>11, <2>1
<1> DEFINE P == {k \in 0 .. n : end[k] = f[k]}
<1>13. 0 \in P
  BY <1>1, <1>7, <1>12
<1>14. ASSUME NEW k \in 0 .. n - 1, k \in P PROVE k + 1 \in P
  <2>1. PICK j \in 1 .. n : j = k + 1 /\ j - 1 = k
    BY <1>1
  <2>2. end[j] = Appended(end[j - 1], plan[j], budget) /\ end[j - 1] = f[j - 1]
    BY <1>12, <1>14, <2>1
  <2>3. end[j] = f[j]
    BY <1>8, <2>2
  <2> QED
    BY <2>1, <2>3
<1> HIDE DEF P
<1>15. 0 .. n \subseteq P
  BY <1>1, <1>13, <1>14, EveryTurn
<1>16. end[n] = f[n]
  <2>1. n \in P
    BY <1>1, <1>15
  <2> QED
    BY <2>1 DEF P
<1>19. EncodeBinaryBounded(0, plan, budget) = [f[n].out EXCEPT ![3] = f[n].count]
  BY <1>1, <1>16, <1>17 DEF HeaderUnits
<1> QED
  BY <1>1, <1>6, <1>7, <1>8, <1>18, <1>19

LEMMA HeadLength ==
    ASSUME NEW w \in Seq(Nat), NEW n \in Nat
    PROVE  <<0, 0, n>> \o w \in Seq(Nat) /\ Len(<<0, 0, n>> \o w) = 3 + Len(w)
<1>1. PICK h : h = <<0, 0, n>>
  OBVIOUS
<1>2. h \in Seq(Nat) /\ Len(h) = 3
  BY <1>1
<1>3. PICK x : x = h \o w
  OBVIOUS
<1>4. x \in Seq(Nat) /\ Len(x) = Len(h) + Len(w)
  BY ONLY <1>2, <1>3, w \in Seq(Nat), ConcatProperties
<1> QED
  BY <1>1, <1>2, <1>3, <1>4

\* The count in the header.
LEMMA HeadPatched ==
    ASSUME NEW u \in Seq(Nat), NEW n \in Nat
    PROVE  [(<<0, 0, 0>> \o u) EXCEPT ![3] = n] = <<0, 0, n>> \o u
<1>1. PICK h : h = <<0, 0, 0>>
  OBVIOUS
<1>2. h \in Seq(Nat) /\ Len(h) = 3 /\ h[1] = 0 /\ h[2] = 0 /\ h[3] = 0
  BY <1>1
<1>3. PICK k : k = <<0, 0, n>>
  OBVIOUS
<1>4. k \in Seq(Nat) /\ Len(k) = 3 /\ k[1] = 0 /\ k[2] = 0 /\ k[3] = n
  BY <1>3
<1>5. PICK x : x = h \o u
  OBVIOUS
<1>6. /\ x \in Seq(Nat) /\ Len(x) = Len(h) + Len(u)
      /\ \A i \in 1 .. Len(h) + Len(u) : x[i] = IF i <= Len(h) THEN h[i] ELSE u[i - Len(h)]
  BY ONLY <1>2, <1>5, u \in Seq(Nat), ConcatProperties
<1>7. PICK y : y = k \o u
  OBVIOUS
<1>8. /\ y \in Seq(Nat) /\ Len(y) = Len(k) + Len(u)
      /\ \A i \in 1 .. Len(k) + Len(u) : y[i] = IF i <= Len(k) THEN k[i] ELSE u[i - Len(k)]
  BY ONLY <1>4, <1>7, u \in Seq(Nat), ConcatProperties
<1>9. PICK l \in Nat : l = Len(x) /\ l = Len(y) /\ 3 <= l
  BY <1>2, <1>4, <1>6, <1>8
<1>10. PICK z : z = [x EXCEPT ![3] = n]
  OBVIOUS
<1>11. DOMAIN x = 1 .. l
  BY <1>6, <1>9
<1>12. z = [i \in 1 .. l |-> IF i = 3 THEN n ELSE x[i]]
  BY <1>10, <1>11
<1>13. ASSUME NEW i \in 1 .. l PROVE (IF i = 3 THEN n ELSE x[i]) = y[i]
  <2>1. CASE i <= 3
    <3>1. x[i] = h[i] /\ y[i] = k[i]
      BY <1>2, <1>4, <1>6, <1>8, <1>9, <2>1
    <3>2. i = 1 \/ i = 2 \/ i = 3
      BY <2>1
    <3> QED
      BY <1>2, <1>4, <3>1, <3>2
  <2>2. CASE ~(i <= 3)
    <3>1. x[i] = u[i - 3] /\ y[i] = u[i - 3]
      BY <1>2, <1>4, <1>6, <1>8, <1>9, <2>2
    <3> QED
      BY <2>2, <3>1
  <2> QED
    BY <2>1, <2>2
<1>14. z = y
  <2>1. y = [i \in 1 .. l |-> y[i]]
    BY <1>8, <1>9
  <2> QED
    BY <1>12, <1>13, <2>1
<1> QED
  BY <1>1, <1>3, <1>5, <1>7, <1>10, <1>14

\* K are the places of a plan with anything to frame, M how many of them a frame
\* takes, and s what they are encoded as.
Framed(plan, K, M, s) ==
    /\ K = {i \in 1 .. Len(plan) : HasDelta(plan[i])}
    /\ M = AtMost(Cardinality(K), MaxEntityDeltas)
    /\ Len(s) = M
    /\ \A i \in 1 .. M : s[i] = EncodeEntity(Delta(plan[InOrder(K)[i]]))

\* The longest run of them that fits.
FitsLongest(plan, budget, M, g) ==
    \E n \in 0 .. M :
       /\ EncodeBinaryBounded(0, plan, budget) = <<0, 0, n>> \o g[n]
       /\ 3 + Len(g[n]) <= budget
       /\ n < M => ~(3 + Len(g[n + 1]) <= budget)

LEMMA BoundedRun ==
    ASSUME NEW plan \in Seq(PlannedEntity), NEW budget \in Nat, 3 <= budget,
           NEW K, NEW M \in Nat, NEW s \in Seq(Seq(Nat)), Framed(plan, K, M, s),
           NEW g, Grows(g, s)
    PROVE  FitsLongest(plan, budget, M, g)
<1>20. /\ K = {i \in 1 .. Len(plan) : HasDelta(plan[i])}
       /\ M = AtMost(Cardinality(K), MaxEntityDeltas) /\ Len(s) = M
       /\ \A i \in 1 .. M : s[i] = EncodeEntity(Delta(plan[InOrder(K)[i]]))
  BY DEF Framed
<1>1. PICK L \in Nat : L = Len(plan)
  OBVIOUS
<1>2. PICK X \in Nat : X = MaxEntityDeltas
  BY CodecAssumption
<1>3. IsFiniteSet(1 .. L) /\ K \subseteq 1 .. L /\ K \subseteq Nat
  <2>1. PICK a \in Int, b \in Int : a = 1 /\ b = L
    BY <1>1
  <2>2. IsFiniteSet(a .. b)
    BY FS_Interval
  <2> QED
    BY <1>1, <1>20, <2>1, <2>2
<1>4. IsFiniteSet(K) /\ Cardinality(K) \in Nat
  BY <1>3, FS_Subset, FS_CardinalityType
<1>5. M <= Cardinality(K) /\ M <= X /\ (Cardinality(K) <= X => M = Cardinality(K))
      /\ (Cardinality(K) >= X => M = X)
  <2>1. PICK m \in Nat : m = Cardinality(K)
    BY <1>4
  <2>2. M = AtMost(m, X)
    BY <1>2, <1>20, <2>1
  <2>3. /\ AtMost(m, X) <= m /\ AtMost(m, X) <= X
        /\ m <= X => AtMost(m, X) = m
        /\ m >= X => AtMost(m, X) = X
    BY AtMostIs
  <2> QED
    BY <2>1, <2>2, <2>3
<1>6. PICK f \in [0 .. Len(plan) -> BuildState] :
        /\ f[0] = [out |-> <<0, 0, 0>>, count |-> 0, stopped |-> FALSE]
        /\ \A k \in 1 .. Len(plan) : f[k] = Appended(f[k - 1], plan[k], budget)
        /\ EncodeBinaryBounded(0, plan, budget) =
              [f[Len(plan)].out EXCEPT ![3] = f[Len(plan)].count]
  BY AppendedRuns
<1>7. \A i \in 0 .. M : g[i] \in Seq(Nat) /\ Len(g[i]) \in Nat
  <2>1. g \in [0 .. M -> Seq(Nat)]
    BY DEF Grows
  <2>2. ASSUME NEW i \in 0 .. M PROVE g[i] \in Seq(Nat) /\ Len(g[i]) \in Nat
    <3>1. PICK u \in Seq(Nat) : u = g[i]
      BY <2>1
    <3> QED
      BY <3>1
  <2> QED
    BY <2>2
<1> DEFINE before(k) == {i \in K : i <= k}
           Short(n) == 3 + Len(g[n]) <= budget
           Inv(k) == /\ f[k].count \in 0 .. M
                     /\ f[k].out = <<0, 0, 0>> \o g[f[k].count]
                     /\ Short(f[k].count)
                     /\ f[k].stopped => f[k].count < M /\ ~Short(f[k].count + 1)
                     /\ ~f[k].stopped => f[k].count = AtMost(Cardinality(before(k)), X)
           P == {k \in 0 .. L : Inv(k)}
<1>8. ASSUME NEW k \in 0 .. L
      PROVE  /\ before(k) \subseteq K /\ IsFiniteSet(before(k))
             /\ Cardinality(before(k)) \in Nat
             /\ Cardinality(before(k)) <= Cardinality(K)
  <2>1. before(k) \subseteq K
    OBVIOUS
  <2> HIDE DEF before
  <2> QED
    BY <1>4, <2>1, FS_Subset, FS_CardinalityType
<1>9. 0 \in P
  <2>1. before(0) = {}
    BY <1>1, <1>3, <1>20
  <2>2. Cardinality(before(0)) = 0
    BY <2>1, FS_EmptySet
  <2> HIDE DEF before
  <2>3. AtMost(Cardinality(before(0)), X) = 0
    BY <1>2, <2>2, AtMostIs
  <2>4. f[0].count = 0 /\ f[0].stopped = FALSE /\ f[0].out = <<0, 0, 0>>
    BY <1>6
  <2>5. g[0] = <<>> /\ Len(g[0]) = 0
    BY DEF Grows
  <2>6. <<0, 0, 0>> \o <<>> = <<0, 0, 0>>
    OBVIOUS
  <2>7. 0 \in 0 .. M
    OBVIOUS
  <2>8. Inv(0)
    BY <2>3, <2>4, <2>5, <2>6, <2>7
  <2> QED
    BY <1>1, <2>8
<1>10. ASSUME NEW k \in 0 .. L - 1, k \in P PROVE k + 1 \in P
  <2>1. PICK j \in 1 .. L : j = k + 1 /\ j - 1 = k /\ j \in 0 .. L /\ k \in 0 .. L
    BY <1>1
  <2>2. Inv(k)
    BY <1>10
  <2>3. PICK entity \in PlannedEntity : entity = plan[j]
    BY <1>1, <2>1
  <2>4. PICK state \in BuildState : state = f[k]
    BY <1>1, <1>6, <2>1
  <2>5. PICK r : r = f[j]
    OBVIOUS
  <2>6. r = Appended(state, entity, budget)
    BY <1>1, <1>6, <2>1, <2>3, <2>4, <2>5
  <2>7. PICK c \in 0 .. M : c = state.count
    BY <2>2, <2>4
  <2>8. PICK x : x = state.out \o EncodeEntity(Delta(entity))
    OBVIOUS
  <2>9. PICK b \in Nat, a \in Nat : b = Cardinality(before(k)) /\ a = Cardinality(before(j))
    BY <1>8, <2>1
  <2>10. j \in K <=> HasDelta(entity)
    BY <1>1, <1>20, <2>1, <2>3
  <2>11. j \notin K => a = b
    <3>1. j \notin K => before(j) = before(k)
      <4>1. \A i \in K : i \in Int
        BY <1>3
      <4>2. \A i \in K : i <= j <=> i <= k \/ i = j
        BY <2>1, <4>1
      <4> QED
        BY <4>2
    <3> HIDE DEF before
    <3> QED
      BY <2>9, <3>1
  <2>12. j \in K => a = b + 1 /\ InOrder(K)[a] = j /\ a <= Cardinality(K)
    <3>1. SUFFICES ASSUME j \in K PROVE a = b + 1 /\ InOrder(K)[a] = j /\ a <= Cardinality(K)
      OBVIOUS
    <3>2. before(j) = before(k) \cup {j} /\ j \notin before(k)
      <4>1. \A i \in K : i \in Int
        BY <1>3
      <4>2. \A i \in K : i <= j <=> i <= k \/ i = j
        BY <2>1, <4>1
      <4>3. ~(j <= k)
        BY <2>1
      <4> QED
        BY <3>1, <4>2, <4>3
    <3>3. a = b + 1
      <4> HIDE DEF before
      <4>1. IsFiniteSet(before(k))
        BY <1>8, <2>1
      <4> QED
        BY <2>9, <3>2, <4>1, FS_AddElement
    <3>4. a <= Cardinality(K) /\ Cardinality(K) \in Nat
      BY <1>4, <1>8, <2>1, <2>9
    <3>5. a \in 1 .. Cardinality(K)
      BY <3>3, <3>4
    <3>6. Cardinality({i \in K : i <= j}) = a
      BY <2>9
    <3> HIDE DEF before
    <3>7. InOrder(K)[a] = j
      BY <1>3, <1>4, <3>1, <3>5, <3>6, InOrderLists
    <3> QED
      BY <3>3, <3>4, <3>7
  <2>13. ~state.stopped => c = AtMost(b, X)
    BY <2>2, <2>4, <2>7, <2>9
  <2>14. /\ state.out = <<0, 0, 0>> \o g[c] /\ Short(c)
         /\ state.stopped => c < M /\ ~Short(c + 1)
    BY <2>2, <2>4, <2>7
  <2>17. AppendsTo(state, entity, budget, x, r)
    BY <2>6, <2>8, AppendedIs
  <2>15. CASE state.stopped \/ c >= X \/ j \notin K
    <3>1. r = state
      BY ONLY <1>2, <2>7, <2>10, <2>15, <2>17 DEF AppendsTo
    <3>2. ~state.stopped => c = AtMost(a, X)
      <4>1. CASE state.stopped
        BY <4>1
      <4>2. CASE j \notin K
        BY <2>11, <2>13, <4>2
      <4>3. CASE ~state.stopped /\ c >= X /\ j \in K
        <5>1. b >= X
          BY <2>13, <4>3, AtMostIs
        <5>2. a >= X
          BY <2>12, <4>3, <5>1
        <5> QED
          BY <2>13, <5>1, <5>2, AtMostIs
      <4> QED
        BY <2>15, <4>1, <4>2, <4>3
    <3> HIDE DEF before, Short
    <3>3. Inv(j)
      BY <2>5, <2>7, <2>9, <2>14, <3>1, <3>2
    <3> HIDE DEF Inv
    <3> QED
      BY <2>1, <3>3
  <2>16. CASE ~(state.stopped \/ c >= X \/ j \notin K)
    <3>1. c = b /\ b < X
      <4>1. c = AtMost(b, X) /\ c < X
        BY <2>13, <2>16
      <4>2. b <= X => AtMost(b, X) = b
        BY AtMostIs
      <4>3. b >= X => AtMost(b, X) = X
        BY AtMostIs
      <4> QED
        BY <4>1, <4>2, <4>3
    <3>2. a = c + 1 /\ a <= X /\ a <= Cardinality(K) /\ InOrder(K)[a] = j
      BY <2>12, <2>16, <3>1
    <3>3. a \in 1 .. M /\ a - 1 = c /\ a \in 0 .. M
      BY <1>4, <1>5, <2>7, <3>2
    <3>11. s[a] \in Seq(Nat)
      <4>1. a \in 1 .. Len(s)
        BY <3>3
      <4> QED
        BY <4>1
    <3>4. s[a] = EncodeEntity(Delta(entity)) /\ s[a] \in Seq(Nat)
      <4>1. s[a] = EncodeEntity(Delta(plan[InOrder(K)[a]]))
        BY <1>20, <3>3
      <4> QED
        BY <2>3, <3>2, <3>11, <4>1
    <3>5. g[a] = g[c] \o s[a]
      BY <1>20, <3>3 DEF Grows
    <3>6. x = <<0, 0, 0>> \o g[a] /\ Len(x) = 3 + Len(g[a])
      <4>9. PICK h : h = <<0, 0, 0>>
        OBVIOUS
      <4>10. h \in Seq(Nat) /\ Len(h) = 3
        BY ONLY <4>9
      <4>11. PICK u \in Seq(Nat), v \in Seq(Nat) : u = g[c] /\ v = s[a]
        BY <1>7, <3>11
      <4>1. u = g[c] /\ v = s[a] /\ h = <<0, 0, 0>> /\ Len(h) = 3 /\ h \in Seq(Nat)
        BY <4>9, <4>10, <4>11
      <4>2. x = (h \o u) \o v
        BY <2>8, <2>14, <3>4, <4>1
      <4>3. (h \o u) \o v = h \o (u \o v)
        <5>1. h \in Seq(Nat)
          BY <4>10
        <5>2. Glued(Glued(h, u), v) = Glued(h, Glued(u, v))
          BY ONLY <5>1, u \in Seq(Nat), v \in Seq(Nat), GluedGroups
        <5> QED
          BY ONLY <5>2 DEF Glued
      <4>4. g[a] = u \o v
        BY <3>5, <4>1
      <4>5. x = h \o (u \o v)
        BY <4>2, <4>3
      <4>6. u \o v \in Seq(Nat)
        OBVIOUS
      <4>7. PICK w \in Seq(Nat) : w = u \o v
        BY <4>6
      <4>8. Len(h \o w) = 3 + Len(w)
        BY <4>9, HeadLength
      <4> QED
        BY <4>1, <4>4, <4>5, <4>7, <4>8
    <3>7. AtMost(a, X) = a
      BY <3>2, AtMostIs
    <3>8. /\ ~(state.stopped \/ state.count >= MaxEntityDeltas \/ ~HasDelta(entity))
      BY <1>2, <2>7, <2>10, <2>16
    <3>9. CASE Len(x) > budget
      <4>1. r.out = state.out /\ r.count = c /\ r.stopped = TRUE
        BY ONLY <2>7, <2>17, <3>8, <3>9 DEF AppendsTo
      <4>2. ~Short(c + 1) /\ c < M
        BY <1>7, <3>2, <3>3, <3>6, <3>9
      <4> HIDE DEF before, Short
      <4>3. Inv(j)
        BY <2>5, <2>14, <4>1, <4>2
      <4> HIDE DEF Inv
      <4> QED
        BY <2>1, <4>3
    <3>10. CASE ~(Len(x) > budget)
      <4>1. r.out = x /\ r.count = a /\ r.stopped = FALSE
        BY ONLY <2>7, <2>17, <3>2, <3>8, <3>10 DEF AppendsTo
      <4>2. Short(a)
        BY <1>7, <3>3, <3>6, <3>10
      <4> HIDE DEF before, Short
      <4>3. Inv(j)
        BY <2>5, <2>9, <3>3, <3>6, <3>7, <4>1, <4>2
      <4> HIDE DEF Inv
      <4> QED
        BY <2>1, <4>3
    <3> QED
      BY <3>9, <3>10
  <2> QED
    BY <2>15, <2>16
<1> HIDE DEF P
<1>11. 0 .. L \subseteq P
  BY <1>1, <1>9, <1>10, EveryTurn
<1>12. Inv(L)
  <2>1. L \in P
    BY <1>1, <1>11
  <2> QED
    BY <2>1 DEF P
<1>13. PICK n \in 0 .. M : n = f[L].count
  BY <1>12
<1>14. f[L].out = <<0, 0, 0>> \o g[n] /\ Short(n)
       /\ (f[L].stopped => n < M /\ ~Short(n + 1))
       /\ (~f[L].stopped => n = AtMost(Cardinality(before(L)), X))
  BY <1>12, <1>13
<1>15. ~f[L].stopped => n = M
  <2>1. before(L) = K
    <3>1. \A i \in K : i <= L
      BY <1>3
    <3> QED
      BY <3>1
  <2> HIDE DEF before
  <2> QED
    BY <1>2, <1>14, <1>20, <2>1
<1>16. n < M => ~Short(n + 1)
  <2>1. CASE f[L].stopped
    BY <1>14, <2>1
  <2>2. CASE ~f[L].stopped
    <3>1. n = M
      BY <1>15, <2>2
    <3> QED
      BY <3>1
  <2> QED
    BY <2>1, <2>2
<1>17. EncodeBinaryBounded(0, plan, budget) = <<0, 0, n>> \o g[n]
  <2>1. PICK u \in Seq(Nat) : u = g[n]
    BY <1>7
  <2>2. PICK out : out = <<0, 0, 0>> \o u
    OBVIOUS
  <2>3. EncodeBinaryBounded(0, plan, budget) = [out EXCEPT ![3] = n]
    BY <1>1, <1>6, <1>13, <1>14, <2>1, <2>2
  <2>4. [out EXCEPT ![3] = n] = <<0, 0, n>> \o u
    BY <2>2, HeadPatched
  <2> QED
    BY <2>1, <2>3, <2>4
<1> QED
  BY <1>14, <1>16, <1>17 DEF FitsLongest

LEMMA TakeIs ==
    ASSUME NEW S, NEW s \in Seq(S), NEW n \in 0 .. Len(s)
    PROVE  SubSeq(s, 1, n) = [i \in 1 .. n |-> s[i]]
<1>1. PICK o \in Nat : o = 0 /\ o + 1 = 1 /\ n - o = n /\ o <= n
  OBVIOUS
<1>2. n \in Nat /\ n <= Len(s)
  OBVIOUS
<1>3. /\ SubSeq(s, o + 1, n) \in Seq(S) /\ Len(SubSeq(s, o + 1, n)) = n - o
      /\ \A i \in 1 .. n - o : SubSeq(s, o + 1, n)[i] = s[o + i]
  BY ONLY <1>1, <1>2, s \in Seq(S), PartOf
<1>4. PICK t : t = SubSeq(s, 1, n)
  OBVIOUS
<1>5. t \in Seq(S) /\ Len(t) = n /\ \A i \in 1 .. n : t[i] = s[o + i]
  BY <1>1, <1>3, <1>4
<1>6. \A i \in 1 .. n : t[i] = s[i]
  BY <1>1, <1>5
<1>7. t = [i \in 1 .. Len(t) |-> t[i]]
  BY <1>5
<1>8. t = [i \in 1 .. n |-> s[i]]
  BY <1>5, <1>6, <1>7
<1> QED
  BY <1>4, <1>8

\* Every plan and every budget.
LEMMA EncodesWithinHolds ==
    ASSUME NEW plan \in Seq(PlannedEntity), NEW budget \in Budgets
    PROVE  EncodesWithin(plan, budget)
<1>1. budget \in Nat /\ 3 <= budget
  BY CodecAssumption DEF HeaderUnits
<1>2. PICK L \in Nat : L = Len(plan) /\ DOMAIN plan = 1 .. L
  OBVIOUS
<1>3. PICK K : K = {i \in 1 .. L : HasDelta(plan[i])}
  OBVIOUS
<1>4. K \in SUBSET (1 .. Len(plan)) /\ K = {i \in DOMAIN plan : HasDelta(plan[i])}
  BY <1>2, <1>3
<1>5. PICK picked : picked = Picked(plan, K)
  OBVIOUS
<1>6. picked \in Seq(PlannedEntity) /\ Len(picked) = Cardinality(K)
  <2>1. Chained(plan, PlannedEntity \X PlannedEntity)
    BY AllRelated
  <2> QED
    BY <1>4, <1>5, <2>1, ChainPicked
<1>7. PICK m \in Nat : m = Len(picked) /\ m = Cardinality(K)
  BY <1>6
<1>8. \A i \in 1 .. m : picked[i] = plan[InOrder(K)[i]]
  BY <1>5, <1>7 DEF Picked
<1>9. PICK M \in Nat : M = AtMost(m, MaxEntityDeltas) /\ M <= m
  <2>1. PICK limit \in Nat : limit = MaxEntityDeltas
    BY CodecAssumption
  <2>2. AtMost(m, limit) \in Nat /\ AtMost(m, limit) <= m
    BY AtMostIs
  <2> QED
    BY <2>1, <2>2
<1>10. PICK E : E = [i \in 1 .. M |-> Delta(picked[i])]
  OBVIOUS
<1>11. E \in Seq(EntityDelta) /\ Len(E) = M
  <2>1. ASSUME NEW i \in 1 .. M PROVE Delta(picked[i]) \in EntityDelta
    <3>1. picked[i] \in PlannedEntity
      BY <1>6, <1>7, <1>9
    <3> QED
      BY <3>1, DeltaTyped
  <2> QED
    BY <1>10, <2>1
<1>12. PICK s : s = [i \in 1 .. M |-> EncodeEntity(E[i])]
  OBVIOUS
<1>13. s \in Seq(Seq(Nat)) /\ Len(s) = M /\ \A i \in 1 .. M : s[i] = EncodeEntity(E[i])
  <2>1. ASSUME NEW i \in 1 .. M PROVE EncodeEntity(E[i]) \in Seq(Nat)
    <3>1. E[i] \in EntityDelta
      BY <1>11
    <3> QED
      BY <3>1, EntityEncodes
  <2> QED
    BY <1>12, <2>1
<1>14. PICK g : Grows(g, s)
  <2>1. PICK f \in [0 .. Len(s) -> Seq(Nat)] :
          /\ f[0] = <<>> /\ Joined(s) = f[Len(s)]
          /\ \A n \in 1 .. Len(s) : f[n] = f[n - 1] \o s[n]
    BY <1>13, JoinedRuns
  <2> QED
    BY <2>1 DEF Grows
<1>15. \A n \in 0 .. M : g[n] \in Seq(Nat) /\ Len(g[n]) \in Nat
  <2>1. g \in [0 .. M -> Seq(Nat)]
    BY <1>13, <1>14 DEF Grows
  <2>2. ASSUME NEW n \in 0 .. M PROVE g[n] \in Seq(Nat) /\ Len(g[n]) \in Nat
    <3>1. PICK u \in Seq(Nat) : u = g[n]
      BY <2>1
    <3> QED
      BY <3>1
  <2> QED
    BY <2>2
<1> DEFINE built == Build(0, plan)
           cut(n) == [built EXCEPT !.entities = SubSeq(@, 1, n)]
           fits(n) == Len(Encode(cut(n))) <= budget
<1>16. built = [kind |-> "Replication", client |-> 0, entities |-> E]
  <2>1. PICK l : l = Len(picked)
    OBVIOUS
  <2>2. Build(0, plan) =
           [kind |-> "Replication", client |-> 0,
            entities |-> [i \in 1 .. AtMost(Len(picked), MaxEntityDeltas) |-> Delta(picked[i])]]
    BY ONLY <1>4, <1>5 DEF Build
  <2> QED
    BY <1>7, <1>9, <1>10, <2>2
<1>17. ASSUME NEW n \in 0 .. M
       PROVE  Encode(cut(n)) = <<0, 0, n>> \o g[n] /\ Len(Encode(cut(n))) = 3 + Len(g[n])
  <2>1. PICK F : F = [i \in 1 .. n |-> E[i]]
    OBVIOUS
  <2>2. SubSeq(E, 1, n) = F
    BY <1>11, <2>1, TakeIs
  <2>3. cut(n) = [kind |-> "Replication", client |-> 0, entities |-> F]
    <3>1. PICK b : b = built
      OBVIOUS
    <3>2. b = [kind |-> "Replication", client |-> 0, entities |-> E]
      BY <1>16, <3>1
    <3>3. [b EXCEPT !.entities = F] = [kind |-> "Replication", client |-> 0, entities |-> F]
      BY ONLY <3>2
    <3>4. cut(n) = [b EXCEPT !.entities = SubSeq(b.entities, 1, n)]
      BY ONLY <3>1
    <3>5. SubSeq(b.entities, 1, n) = F
      BY ONLY <2>2, <3>2
    <3> QED
      BY ONLY <3>3, <3>4, <3>5
  <2>4. DOMAIN F = 1 .. n /\ Len(F) = n
    <3>1. n \in Nat
      OBVIOUS
    <3> QED
      BY <2>1, <3>1
  <2>5. [i \in DOMAIN F |-> EncodeEntity(F[i])] = [i \in 1 .. n |-> s[i]]
    <3>1. ASSUME NEW i \in 1 .. n PROVE EncodeEntity(F[i]) = s[i]
      <4>1. i \in 1 .. M /\ F[i] = E[i]
        BY <2>1
      <4> QED
        BY <1>13, <4>1
    <3> QED
      BY <2>4, <3>1
  <2>6. Joined([i \in 1 .. n |-> s[i]]) = g[n]
    BY <1>13, <1>14, JoinedPrefix
  <2>7. EncodeEntities(F) = g[n]
    BY <2>5, <2>6 DEF EncodeEntities
  <2> HIDE DEF cut
  <2>8. Encode(cut(n)) = <<0, 0, n>> \o g[n]
    <3>1. PICK whole : whole = cut(n)
      OBVIOUS
    <3>2. whole.kind = "Replication" /\ whole.client = 0 /\ whole.entities = F
      BY <2>3, <3>1
    <3>3. Encode(whole) = <<Byte("Replication"), whole.client, Len(whole.entities)>>
                             \o EncodeEntities(whole.entities)
      BY <3>2 DEF Encode, EncodeReplication
    <3> QED
      BY <2>4, <2>7, <3>1, <3>2, <3>3, KindBytes
  <2>9. PICK u \in Seq(Nat) : u = g[n]
    BY <1>15
  <2>10. n \in Nat
    OBVIOUS
  <2> QED
    BY <2>8, <2>9, <2>10, HeadLength
<1>18. FitsLongest(plan, budget, M, g)
  <2>1. \A i \in 1 .. M : s[i] = EncodeEntity(Delta(plan[InOrder(K)[i]]))
    <3>1. ASSUME NEW i \in 1 .. M PROVE s[i] = EncodeEntity(Delta(plan[InOrder(K)[i]]))
      <4>1. i \in 1 .. m
        BY <1>9
      <4> QED
        BY <1>8, <1>10, <1>13, <4>1
    <3> QED
      BY <3>1
  <2>2. M = AtMost(Cardinality(K), MaxEntityDeltas) /\ K = {i \in 1 .. Len(plan) : HasDelta(plan[i])}
    BY <1>2, <1>3, <1>7, <1>9
  <2>3. Framed(plan, K, M, s)
    BY <1>13, <2>1, <2>2 DEF Framed
  <2> QED
    BY <1>1, <1>13, <1>14, <2>3, BoundedRun
<1>19. PICK n \in 0 .. M :
          /\ EncodeBinaryBounded(0, plan, budget) = <<0, 0, n>> \o g[n]
          /\ 3 + Len(g[n]) <= budget
          /\ n < M => ~(3 + Len(g[n + 1]) <= budget)
  BY <1>18 DEF FitsLongest
<1> HIDE DEF cut
<1>20. ASSUME NEW j \in 0 .. M PROVE fits(j) <=> j <= n
  <2>1. \A i, k \in 0 .. M : i <= k => Len(g[i]) <= Len(g[k])
    BY <1>13, <1>14, GrowsLonger
  <2>2. Len(Encode(cut(j))) = 3 + Len(g[j])
    BY <1>17
  <2>3. CASE j <= n
    <3>1. Len(g[j]) <= Len(g[n])
      BY <2>1, <2>3
    <3>2. Len(g[j]) \in Nat /\ Len(g[n]) \in Nat
      BY <1>15
    <3> QED
      BY <1>1, <1>19, <2>2, <2>3, <3>1, <3>2
  <2>4. CASE ~(j <= n)
    <3>1. PICK k \in 0 .. M : k = n + 1 /\ k <= j /\ n < M
      BY <2>4
    <3>2. Len(g[k]) <= Len(g[j]) /\ ~(3 + Len(g[k]) <= budget)
      BY <1>19, <2>1, <3>1
    <3>3. Len(g[j]) \in Nat /\ Len(g[k]) \in Nat
      BY <1>15
    <3>4. ~(3 + Len(g[j]) <= budget)
      BY <1>1, <3>2, <3>3
    <3> QED
      BY <2>2, <2>4, <3>4
  <2> QED
    BY <2>3, <2>4
<1>21. EncodeBinaryBounded(0, plan, budget) = Encode(cut(n))
  BY <1>17, <1>19
<1>22. Len(built.entities) = M
  BY <1>11, <1>16
<1> HIDE DEF fits, built
<1>23. \E k \in 0 .. Len(built.entities) :
          /\ EncodeBinaryBounded(0, plan, budget) = Encode(cut(k))
          /\ \A j \in 0 .. Len(built.entities) : fits(j) <=> j <= k
  BY <1>20, <1>21, <1>22
<1> QED
  BY <1>23 DEF built, cut, fits, EncodesWithin

-----------------------------------------------------------------------------
(* The codec: theorem. *)

CodecTypes == arrived \in Seq(Nat) /\ asked \in Seq(PlannedEntity)

\* Any bytes that arrive are a whole frame, that encodes back to them and that no
\* shorter input is, the same for the owned and the borrowed decoder, or refused;
\* and a frame built directly under a byte budget is the longest run of whole
\* entities that fits.
THEOREM CodecSoundHolds == CodecSpec => []CodecSound
<1>1. CodecInit => CodecTypes
  BY DEF CodecInit, CodecTypes
<1>2. CodecTypes /\ [CodecNext]_codecVars => CodecTypes'
  <2> SUFFICES ASSUME CodecTypes, [CodecNext]_codecVars PROVE CodecTypes'
    OBVIOUS
  <2>1. arrived \in Seq(Nat) /\ asked \in Seq(PlannedEntity)
    BY DEF CodecTypes
  <2>2. ASSUME NEW unit \in Nat, Arrive(unit) PROVE CodecTypes'
    <3>1. arrived' = Append(arrived, unit) /\ asked' = asked
      BY <2>2 DEF Arrive
    <3>2. arrived' \in Seq(Nat)
      BY <2>1, <3>1
    <3> QED
      BY <2>1, <3>1, <3>2 DEF CodecTypes
  <2>3. ASSUME NEW entity \in PlannedEntities, Ask(entity) PROVE CodecTypes'
    <3>1. asked' = Append(asked, entity) /\ arrived' = arrived
      BY <2>3 DEF Ask
    <3>2. entity \in PlannedEntity
      BY CodecAssumption
    <3>3. asked' \in Seq(PlannedEntity)
      BY <2>1, <3>1, <3>2
    <3> QED
      BY <2>1, <3>1, <3>3 DEF CodecTypes
  <2>4. CASE UNCHANGED codecVars
    BY <2>1, <2>4 DEF codecVars, CodecTypes
  <2>5. KindUnits \subseteq Nat /\ Units \subseteq Nat
    BY CodecAssumption
  <2> QED
    BY <2>2, <2>3, <2>4, <2>5 DEF CodecNext
<1>3. CodecTypes => CodecSound
  <2> SUFFICES ASSUME CodecTypes PROVE CodecSound
    OBVIOUS
  <2>1. RoundTrips(arrived)
    <3>1. arrived \in Seq(Nat)
      BY DEF CodecTypes
    <3> QED
      BY <3>1, RoundTripsHold
  <2>2. ASSUME NEW budget \in Budgets PROVE EncodesWithin(asked, budget)
    <3>1. asked \in Seq(PlannedEntity)
      BY DEF CodecTypes
    <3> QED
      BY <3>1, EncodesWithinHolds
  <2> QED
    BY <2>1, <2>2 DEF CodecSound
<1> QED
  BY <1>1, <1>2, <1>3, PTL DEF CodecSpec

-----------------------------------------------------------------------------
(* The link: the frames of the server. *)

\* The frames a call may send to a client, those of all calls, and the packets that
\* may wait for the client.
SentFrame(c, n) == {AckFrame(c, n), UpdateFrame(c, n), BarrierFrame(c, n)}
FramesTo(c) == UNION {SentFrame(c, n) : n \in Nat}
ServerPacket(f) == [from_server |-> TRUE, bytes |-> Encode(f)]
ForeignPacket(c) ==
    {p \in [from_server : {FALSE}, bytes : Foreign] :
        Meant(c, Decode(p.bytes), "Client") => c \in ChecksSource}
PacketTo(c) == {ServerPacket(f) : f \in FramesTo(c)} \cup ForeignPacket(c)

LEMMA AckBack ==
    ASSUME NEW c \in Nat, NEW n \in Nat
    PROVE  Decode(Encode(AckFrame(c, n))) = AckFrame(c, n)
<1>1. PICK input \in Seq(Nat) : input = <<1, c, n, 1, 0>>
  <2>1. <<1, c, n, 1, 0>> \in Seq(Nat)
    OBVIOUS
  <2> QED
    BY <2>1
<1>2. /\ Len(input) = 5 /\ input # <<>> /\ input[1] = 1 /\ input[2] = c /\ input[3] = n
      /\ input[4] = 1 /\ input[5] = 0
  BY <1>1
<1>3. Decode(input) = IF Len(input) = 5
                      THEN [kind |-> "CommandAck", client |-> input[2], command |-> input[3],
                            accepted |-> input[4] # 0, reason_code |-> input[5]]
                      ELSE Invalid
  BY <1>2, Decoded
<1>4. Decode(input) = AckFrame(c, n)
  <2>1. (input[4] # 0) = TRUE
    BY <1>2
  <2>2. Decode(input) = [kind |-> "CommandAck", client |-> input[2], command |-> input[3],
                         accepted |-> input[4] # 0, reason_code |-> input[5]]
    BY <1>2, <1>3
  <2> QED
    BY <1>2, <2>1, <2>2 DEF AckFrame
<1>5. Encode(AckFrame(c, n)) = input
  <2>1. PICK f : f = AckFrame(c, n)
    OBVIOUS
  <2>2. /\ f.kind = "CommandAck" /\ f.client = c /\ f.command = n /\ f.accepted = TRUE
        /\ f.reason_code = 0
    BY <2>1 DEF AckFrame
  <2>3. Byte("CommandAck") = 1
    BY KindBytes
  <2>4. Encode(f) = <<Byte("CommandAck"), f.client, f.command,
                      IF f.accepted THEN 1 ELSE 0, f.reason_code>>
    BY <2>2 DEF Encode
  <2>5. Encode(f) = <<1, c, n, 1, 0>>
    BY <2>2, <2>3, <2>4
  <2> QED
    BY <1>1, <2>1, <2>5
<1> QED
  BY <1>4, <1>5

LEMMA BarrierBack ==
    ASSUME NEW c \in Nat, NEW n \in Nat
    PROVE  Decode(Encode(BarrierFrame(c, n))) = BarrierFrame(c, n)
<1>1. PICK input \in Seq(Nat) : input = <<2, c, n, 3>>
  <2>1. <<2, c, n, 3>> \in Seq(Nat)
    OBVIOUS
  <2> QED
    BY <2>1
<1>2. /\ Len(input) = 4 /\ input # <<>> /\ input[1] = 2 /\ input[2] = c /\ input[3] = n
      /\ input[4] = 3
  BY <1>1
<1>3. Decode(input) = IF Len(input) = 4 /\ IsBarrierState(input[4])
                      THEN [kind |-> "Barrier", client |-> input[2], barrier |-> input[3],
                            state |-> input[4]]
                      ELSE Invalid
  BY <1>2, Decoded
<1>4. Decode(input) = BarrierFrame(c, n)
  BY <1>2, <1>3 DEF BarrierFrame, IsBarrierState
<1>5. Encode(BarrierFrame(c, n)) = input
  BY <1>1, KindBytes DEF BarrierFrame, Encode
<1> QED
  BY <1>4, <1>5

LEMMA UpdateBack ==
    ASSUME NEW c \in Nat, NEW n \in Nat
    PROVE  Decode(Encode(UpdateFrame(c, n))) = UpdateFrame(c, n)
<1>1. PICK input \in Seq(Nat) : input = <<0, c, 1, n, 1, 0, 1, 0>>
  <2>1. <<0, c, 1, n, 1, 0, 1, 0>> \in Seq(Nat)
    OBVIOUS
  <2> QED
    BY <2>1
<1>2. /\ Len(input) = 8 /\ input # <<>> /\ input[1] = 0 /\ input[2] = c /\ input[3] = 1
      /\ input[4] = n /\ input[5] = 1 /\ input[6] = 0 /\ input[7] = 1 /\ input[8] = 0
  BY <1>1
<1>3. PICK one \in Nat, three \in Nat, five \in Nat, seven \in Nat \ {0} :
         one = 1 /\ three = 3 /\ five = 5 /\ seven = 7
  OBVIOUS
<1>4. BytesEnd(input, seven) = 8
  BY <1>2, <1>3 DEF BytesEnd
<1>5. ComponentEnd(input, five) = 8
  BY <1>3, <1>4 DEF ComponentEnd
<1>6. PICK es : es = Ends(ComponentEnd, input, five, one)
  OBVIOUS
<1>7. Walks(es, ComponentReader(input), five, one)
  BY ONLY <1>1, <1>6, ComponentWalk, five \in Nat, one \in Nat
<1>8. es[0] = 5 /\ es[1] = 8
  BY <1>3, <1>5, <1>7 DEF Walks, ComponentReader
<1>9. EntityEnd(input, three) = 8
  BY <1>2, <1>3, <1>6, <1>8 DEF EntityEnd
<1>10. PICK ns : ns = Ends(EntityEnd, input, three, one)
  OBVIOUS
<1>11. Walks(ns, EntityReader(input), three, one)
  BY ONLY <1>1, <1>10, EntityWalk, three \in Nat, one \in Nat
<1>12. ns[0] = 3 /\ ns[1] = 8
  BY <1>3, <1>9, <1>11 DEF Walks, EntityReader
<1>13. BytesAt(input, seven) = <<0>>
  <2>1. BytesAt(input, seven) = Part(input, 7, 8)
    BY <1>3, <1>4 DEF BytesAt, Part
  <2>2. PICK eight \in Nat : eight = 8
    OBVIOUS
  <2>3. eight = seven + 1 /\ eight <= Len(input) /\ seven \in Nat
    BY <1>2, <1>3, <2>2
  <2>4. Part(input, seven, eight) = <<input[eight]>>
    BY ONLY <2>3, <1>1, PartUnit, eight \in Nat
  <2> QED
    BY <1>2, <1>3, <2>1, <2>2, <2>4
<1>14. ComponentAt(input, five) = [component_id |-> 0, bytes |-> <<0>>]
  BY <1>2, <1>3, <1>13 DEF ComponentAt
<1>15. ComponentsAt(input, five, one) = <<[component_id |-> 0, bytes |-> <<0>>]>>
  <2>1. ComponentsAt(input, five, one) = [i \in 1 .. one |-> ComponentAt(input, es[i - 1])]
    BY <1>6 DEF ComponentsAt
  <2>2. \A i \in 1 .. one : ComponentAt(input, es[i - 1]) = ComponentAt(input, five)
    <3>1. ASSUME NEW i \in 1 .. one PROVE i - 1 = 0
      BY <1>3
    <3> QED
      BY <1>3, <1>8, <3>1
  <2>3. ComponentsAt(input, five, one) = [i \in 1 .. 1 |-> ComponentAt(input, five)]
    BY <1>3, <2>1, <2>2
  <2> QED
    BY <1>14, <2>3
<1>16. EntityAt(input, three) =
          [entity_id |-> n, components |-> <<[component_id |-> 0, bytes |-> <<0>>]>>]
  BY <1>2, <1>3, <1>15 DEF EntityAt
<1>17. EntitiesAt(input, three, one) =
          <<[entity_id |-> n, components |-> <<[component_id |-> 0, bytes |-> <<0>>]>>]>>
  <2>1. EntitiesAt(input, three, one) = [i \in 1 .. one |-> EntityAt(input, ns[i - 1])]
    BY <1>10 DEF EntitiesAt
  <2>2. \A i \in 1 .. one : EntityAt(input, ns[i - 1]) = EntityAt(input, three)
    <3>1. ASSUME NEW i \in 1 .. one PROVE i - 1 = 0
      BY <1>3
    <3> QED
      BY <1>3, <1>12, <3>1
  <2>3. EntitiesAt(input, three, one) = [i \in 1 .. 1 |-> EntityAt(input, three)]
    BY <1>3, <2>1, <2>2
  <2> QED
    BY <1>16, <2>3
<1>18. DecodeReplicationOwned(input) = UpdateFrame(c, n)
  <2>1. Len(input) >= 3 /\ Ends(EntityEnd, input, 3, input[3])[input[3]] = Len(input)
    BY <1>2, <1>3, <1>10, <1>12
  <2> QED
    BY <1>2, <1>3, <1>17, <2>1 DEF DecodeReplicationOwned, UpdateFrame
<1>19. Decode(input) = UpdateFrame(c, n)
  BY <1>2, <1>18, Decoded
<1>20. UpdateFrame(c, n) # Invalid
  BY DEF UpdateFrame, Invalid
<1>21. Encode(Decode(input)) = input
  BY <1>2, <1>19, <1>20, ReplicationTrips
<1> QED
  BY <1>19, <1>21

LEMMA FramesBack ==
    ASSUME NEW c \in Nat, NEW f \in FramesTo(c)
    PROVE  /\ Decode(Encode(f)) = f
           /\ Meant(c, f, "Client")
<1>1. PICK n \in Nat : f \in SentFrame(c, n)
  BY DEF FramesTo
<1>2. CASE f = AckFrame(c, n)
  <2>1. Meant(c, f, "Client")
    BY <1>2 DEF Meant, Taking, AckFrame
  <2> QED
    BY <1>2, <2>1, AckBack
<1>3. CASE f = UpdateFrame(c, n)
  <2>1. Meant(c, f, "Client")
    BY <1>3 DEF Meant, Taking, UpdateFrame
  <2> QED
    BY <1>3, <2>1, UpdateBack
<1>4. CASE f = BarrierFrame(c, n)
  <2>1. Meant(c, f, "Client")
    BY <1>4 DEF Meant, Taking, BarrierFrame
  <2> QED
    BY <1>4, <2>1, BarrierBack
<1> QED
  BY <1>1, <1>2, <1>3, <1>4 DEF SentFrame

LEMMA CallsTell ==
    ASSUME NEW c \in Nat, NEW n \in Nat, NEW m \in Nat, NEW f \in SentFrame(c, n),
           f \in SentFrame(c, m)
    PROVE  n = m
<1>1. CASE f = AckFrame(c, n)
  <2>1. f.kind = "CommandAck" /\ f.command = n
    BY <1>1 DEF AckFrame
  <2>2. f = AckFrame(c, m)
    BY <2>1 DEF SentFrame, UpdateFrame, BarrierFrame
  <2> QED
    BY <2>1, <2>2 DEF AckFrame
<1>2. CASE f = UpdateFrame(c, n)
  <2>1. f.kind = "Replication" /\ f.entities[1].entity_id = n
    BY <1>2 DEF UpdateFrame
  <2>2. f = UpdateFrame(c, m)
    BY <2>1 DEF SentFrame, AckFrame, BarrierFrame
  <2>3. f.entities[1].entity_id = m
    BY <2>2 DEF UpdateFrame
  <2> QED
    BY <2>1, <2>3
<1>3. CASE f = BarrierFrame(c, n)
  <2>1. f.kind = "Barrier" /\ f.barrier = n
    BY <1>3 DEF BarrierFrame
  <2>2. f = BarrierFrame(c, m)
    BY <2>1 DEF SentFrame, UpdateFrame, AckFrame
  <2> QED
    BY <2>1, <2>2 DEF BarrierFrame
<1> QED
  BY <1>1, <1>2, <1>3 DEF SentFrame

-----------------------------------------------------------------------------
(* The link: the packets of a client. *)

\* The frames that packets carry from the server.
Told(packets) == Frames(FromServer(packets))

LEMMA ForeignUnusable ==
    ASSUME NEW c, NEW p \in ForeignPacket(c), NEW bridge
    PROVE  ~Usable(c, p, bridge) /\ ~p.from_server
<1>1. p.from_server = FALSE /\ (Meant(c, Decode(p.bytes), "Client") => c \in ChecksSource)
  BY DEF ForeignPacket
<1>2. Taking(bridge) \subseteq Taking("Client")
  BY DEF Taking
<1>3. Meant(c, Decode(p.bytes), bridge) => Meant(c, Decode(p.bytes), "Client")
  BY <1>2 DEF Meant
<1> QED
  BY <1>1, <1>3 DEF Usable

LEMMA ServerUsable ==
    ASSUME NEW c \in Nat, NEW f \in FramesTo(c)
    PROVE  /\ Usable(c, ServerPacket(f), "Client")
           /\ Decode(ServerPacket(f).bytes) = f
           /\ ServerPacket(f).from_server
           /\ ServerPacket(f) \notin ForeignPacket(c)
<1>1. PICK p : p = ServerPacket(f)
  OBVIOUS
<1>2. p.from_server = TRUE /\ p.bytes = Encode(f)
  BY <1>1 DEF ServerPacket
<1>3. Decode(p.bytes) = f /\ Meant(c, f, "Client")
  BY <1>2, FramesBack
<1>4. Usable(c, p, "Client")
  BY <1>2, <1>3 DEF Usable
<1>5. p \notin ForeignPacket(c)
  BY <1>2, ForeignUnusable
<1> QED
  BY <1>1, <1>2, <1>3, <1>4, <1>5

LEMMA FromServerIs ==
    ASSUME NEW c \in Nat, NEW packets \in Seq(PacketTo(c))
    PROVE  FromServer(packets) = Outside(packets, ForeignPacket(c))
<1>1. PICK A : A = {p \in ToSet(packets) : ~p.from_server}
  OBVIOUS
<1>2. ASSUME NEW i \in DOMAIN packets PROVE packets[i] \in A <=> packets[i] \in ForeignPacket(c)
  <2>1. PICK p : p = packets[i]
    OBVIOUS
  <2>2. p \in PacketTo(c) /\ p \in ToSet(packets)
    <3>1. i \in 1 .. Len(packets)
      OBVIOUS
    <3> QED
      BY <2>1, <3>1, ElementsOf
  <2>3. CASE p \in ForeignPacket(c)
    BY <1>1, <2>1, <2>2, <2>3, ForeignUnusable
  <2>4. CASE p \notin ForeignPacket(c)
    <3>1. PICK f \in FramesTo(c) : p = ServerPacket(f)
      BY <2>2, <2>4 DEF PacketTo
    <3>2. p.from_server
      BY <3>1, ServerUsable
    <3> QED
      BY <1>1, <2>1, <2>4, <3>2
  <2> QED
    BY <2>3, <2>4
<1>3. {i \in DOMAIN packets : packets[i] \notin A}
         = {i \in DOMAIN packets : packets[i] \notin ForeignPacket(c)}
  BY <1>2
<1>4. FromServer(packets) = Outside(packets, A)
  BY <1>1 DEF FromServer
<1> QED
  BY <1>3, <1>4 DEF Outside

\* Every packet of S carries a frame of T.
Carry(S, T) == \A p \in S : Decode(p.bytes) \in T

LEMMA FramesTyped ==
    ASSUME NEW S, NEW T, NEW packets \in Seq(S), Carry(S, T)
    PROVE  /\ Frames(packets) \in Seq(T)
           /\ Len(Frames(packets)) = Len(packets)
           /\ \A i \in 1 .. Len(packets) : Frames(packets)[i] = Decode(packets[i].bytes)
<1>1. PICK n \in Nat : n = Len(packets) /\ DOMAIN packets = 1 .. n
  OBVIOUS
<1>2. Frames(packets) = [i \in 1 .. n |-> Decode(packets[i].bytes)]
  BY <1>1 DEF Frames
<1>3. \A i \in 1 .. n : Decode(packets[i].bytes) \in T
  <2>1. \A i \in 1 .. n : packets[i] \in S
    BY <1>1
  <2> QED
    BY <2>1 DEF Carry
<1> QED
  BY <1>1, <1>2, <1>3

LEMMA FramesConcat ==
    ASSUME NEW S, NEW T, NEW u \in Seq(S), NEW v \in Seq(S), Carry(S, T)
    PROVE  Frames(u \o v) = Frames(u) \o Frames(v)
<1>1. PICK w \in Seq(S) : w = u \o v
  BY ConcatProperties
<1>2. /\ Len(w) = Len(u) + Len(v)
      /\ \A i \in 1 .. Len(u) + Len(v) : w[i] = IF i <= Len(u) THEN u[i] ELSE v[i - Len(u)]
  BY ONLY <1>1, u \in Seq(S), v \in Seq(S), ConcatProperties
<1>3. PICK fu \in Seq(T) : /\ fu = Frames(u) /\ Len(fu) = Len(u)
                           /\ \A i \in 1 .. Len(u) : fu[i] = Decode(u[i].bytes)
  BY FramesTyped
<1>4. PICK fv \in Seq(T) : /\ fv = Frames(v) /\ Len(fv) = Len(v)
                           /\ \A i \in 1 .. Len(v) : fv[i] = Decode(v[i].bytes)
  BY FramesTyped
<1>5. PICK fw \in Seq(T) : /\ fw = Frames(w) /\ Len(fw) = Len(w)
                           /\ \A i \in 1 .. Len(w) : fw[i] = Decode(w[i].bytes)
  BY FramesTyped
<1>6. PICK x \in Seq(T) : x = fu \o fv
  BY ConcatProperties
<1>7. /\ Len(x) = Len(fu) + Len(fv)
      /\ \A i \in 1 .. Len(fu) + Len(fv) : x[i] = IF i <= Len(fu) THEN fu[i] ELSE fv[i - Len(fu)]
  BY ONLY <1>6, fu \in Seq(T), fv \in Seq(T), ConcatProperties
<1>8. PICK a \in Nat, b \in Nat : a = Len(u) /\ b = Len(v)
  OBVIOUS
<1>9. Len(x) = a + b /\ Len(fw) = a + b
  BY <1>2, <1>3, <1>4, <1>5, <1>7, <1>8
<1>10. ASSUME NEW i \in 1 .. Len(x) PROVE x[i] = fw[i]
  <2>1. i \in 1 .. a + b
    BY <1>9
  <2>2. fw[i] = Decode(w[i].bytes)
    BY <1>2, <1>5, <1>8, <2>1
  <2>3. CASE i <= a
    <3>1. i \in 1 .. a
      BY <2>1, <2>3
    <3>2. w[i] = u[i] /\ x[i] = fu[i]
      BY <1>2, <1>3, <1>4, <1>7, <1>8, <2>1, <2>3
    <3> QED
      BY <1>3, <1>8, <2>2, <3>1, <3>2
  <2>4. CASE ~(i <= a)
    <3>1. PICK j \in 1 .. b : j = i - a
      BY <2>1, <2>4
    <3>2. w[i] = v[j] /\ x[i] = fv[j]
      BY <1>2, <1>3, <1>4, <1>7, <1>8, <2>1, <2>4, <3>1
    <3> QED
      BY <1>4, <1>8, <2>2, <3>2
  <2> QED
    BY <2>3, <2>4
<1>11. x = fw
  BY <1>9, <1>10, SeqEqual
<1> QED
  BY <1>1, <1>3, <1>4, <1>5, <1>6, <1>11

LEMMA ToldTyped ==
    ASSUME NEW c \in Nat, NEW packets \in Seq(PacketTo(c))
    PROVE  /\ FromServer(packets) \in Seq(PacketTo(c) \ ForeignPacket(c))
           /\ Told(packets) \in Seq(FramesTo(c))
           /\ Carry(PacketTo(c) \ ForeignPacket(c), FramesTo(c))
<1>1. PICK s \in Seq(PacketTo(c)) : /\ s = FromServer(packets)
                                    /\ ToSet(s) = ToSet(packets) \ ForeignPacket(c)
  BY FromServerIs, OutsideTyped
<1>2. s \in Seq(PacketTo(c) \ ForeignPacket(c))
  <2>1. ASSUME NEW i \in 1 .. Len(s) PROVE s[i] \in PacketTo(c) \ ForeignPacket(c)
    <3>1. s[i] \in ToSet(s) /\ s[i] \in PacketTo(c)
      BY ElementsOf
    <3> QED
      BY <1>1, <3>1
  <2> QED
    BY <2>1
<1>3. Carry(PacketTo(c) \ ForeignPacket(c), FramesTo(c))
  <2>1. ASSUME NEW p \in PacketTo(c) \ ForeignPacket(c) PROVE Decode(p.bytes) \in FramesTo(c)
    <3>1. PICK f \in FramesTo(c) : p = ServerPacket(f)
      BY DEF PacketTo
    <3> QED
      BY <3>1, ServerUsable
  <2> QED
    BY <2>1 DEF Carry
<1>4. Frames(s) \in Seq(FramesTo(c))
  BY <1>2, <1>3, FramesTyped
<1> QED
  BY <1>1, <1>2, <1>3, <1>4 DEF Told

LEMMA ToldConcat ==
    ASSUME NEW c \in Nat, NEW u \in Seq(PacketTo(c)), NEW v \in Seq(PacketTo(c))
    PROVE  Told(u \o v) = Told(u) \o Told(v)
<1>1. PICK w \in Seq(PacketTo(c)) : w = u \o v
  BY ConcatProperties
<1>2. FromServer(w) = FromServer(u) \o FromServer(v)
  <2>1. PICK A : A = ForeignPacket(c)
    OBVIOUS
  <2>2. FromServer(u) = Outside(u, A)
    BY <2>1, FromServerIs
  <2>3. FromServer(v) = Outside(v, A)
    BY <2>1, FromServerIs
  <2>4. FromServer(w) = Outside(w, A)
    BY <2>1, FromServerIs
  <2>5. Outside(u \o v, A) = Outside(u, A) \o Outside(v, A)
    BY OutsideConcat
  <2> QED
    BY <1>1, <2>2, <2>3, <2>4, <2>5
<1>3. PICK S : S = PacketTo(c) \ ForeignPacket(c)
  OBVIOUS
<1>4. PICK su \in Seq(S), sv \in Seq(S) : su = FromServer(u) /\ sv = FromServer(v)
  BY <1>3, ToldTyped
<1>5. Carry(S, FramesTo(c))
  BY <1>3, ToldTyped
<1>6. Frames(su \o sv) = Frames(su) \o Frames(sv)
  BY <1>5, FramesConcat
<1>7. Told(u) = Frames(su) /\ Told(v) = Frames(sv)
  BY <1>4 DEF Told
<1>8. Told(w) = Frames(su \o sv)
  BY <1>2, <1>4 DEF Told
<1> QED
  BY <1>1, <1>6, <1>7, <1>8

LEMMA FramesAppend ==
    ASSUME NEW S, NEW T, NEW u \in Seq(S), NEW p \in S, Carry(S, T)
    PROVE  Frames(Append(u, p)) = Append(Frames(u), Decode(p.bytes))
<1>1. PICK v \in Seq(S) : v = Append(u, p)
  <2>1. Append(u, p) \in Seq(S)
    OBVIOUS
  <2> QED
    BY <2>1
<1>2. Len(v) = Len(u) + 1 /\ v[Len(u) + 1] = p /\ \A i \in 1 .. Len(u) : v[i] = u[i]
  BY <1>1
<1>3. PICK fu \in Seq(T) : /\ fu = Frames(u) /\ Len(fu) = Len(u)
                           /\ \A i \in 1 .. Len(u) : fu[i] = Decode(u[i].bytes)
  BY FramesTyped
<1>4. PICK fv \in Seq(T) : /\ fv = Frames(v) /\ Len(fv) = Len(v)
                           /\ \A i \in 1 .. Len(v) : fv[i] = Decode(v[i].bytes)
  BY FramesTyped
<1>5. PICK f \in T : f = Decode(p.bytes)
  BY DEF Carry
<1>6. PICK x \in Seq(T) : x = Append(fu, f)
  <2>1. Append(fu, f) \in Seq(T)
    OBVIOUS
  <2> QED
    BY <2>1
<1>7. Len(x) = Len(fu) + 1 /\ x[Len(fu) + 1] = f /\ \A i \in 1 .. Len(fu) : x[i] = fu[i]
  BY <1>6
<1>8. PICK a \in Nat : a = Len(u)
  OBVIOUS
<1>9. ASSUME NEW i \in 1 .. Len(x) PROVE x[i] = fv[i]
  <2>1. i \in 1 .. a \/ i = a + 1
    BY <1>3, <1>7, <1>8
  <2>2. fv[i] = Decode(v[i].bytes)
    BY <1>2, <1>3, <1>4, <1>7, <1>8
  <2>3. CASE i \in 1 .. a
    <3>1. v[i] = u[i] /\ x[i] = fu[i] /\ fu[i] = Decode(u[i].bytes)
      BY <1>2, <1>3, <1>7, <1>8, <2>3
    <3> QED
      BY <2>2, <3>1
  <2>4. CASE i = a + 1
    <3>1. v[i] = p /\ x[i] = f
      BY <1>2, <1>3, <1>7, <1>8, <2>4
    <3> QED
      BY <1>5, <2>2, <3>1
  <2> QED
    BY <2>1, <2>3, <2>4
<1>10. x = fv
  <2>1. Len(x) = Len(fv)
    BY <1>2, <1>3, <1>4, <1>7, <1>8
  <2> QED
    BY <1>9, <2>1, SeqEqual
<1> QED
  BY <1>1, <1>3, <1>4, <1>5, <1>6, <1>10

LEMMA ToldAppend ==
    ASSUME NEW c \in Nat, NEW u \in Seq(PacketTo(c)), NEW f \in FramesTo(c)
    PROVE  Told(Append(u, ServerPacket(f))) = Append(Told(u), f)
<1>1. PICK p \in PacketTo(c) : p = ServerPacket(f)
  BY DEF PacketTo
<1>2. p \notin ForeignPacket(c) /\ Decode(p.bytes) = f
  BY <1>1, ServerUsable
<1>3. PICK v \in Seq(PacketTo(c)) : v = Append(u, p)
  <2>1. Append(u, p) \in Seq(PacketTo(c))
    OBVIOUS
  <2> QED
    BY <2>1
<1>4. PICK S : S = PacketTo(c) \ ForeignPacket(c)
  OBVIOUS
<1>5. PICK su \in Seq(S) : su = FromServer(u)
  BY <1>4, ToldTyped
<1>6. FromServer(v) = Append(su, p)
  <2>1. FromServer(v) = Outside(v, ForeignPacket(c))
    BY FromServerIs
  <2>2. FromServer(u) = Outside(u, ForeignPacket(c))
    BY FromServerIs
  <2>3. Outside(Append(u, p), ForeignPacket(c)) = Append(Outside(u, ForeignPacket(c)), p)
    BY <1>2, OutsideTakes
  <2> QED
    BY <1>3, <1>5, <2>1, <2>2, <2>3
<1>7. Carry(S, FramesTo(c)) /\ p \in S
  BY <1>2, <1>4, ToldTyped
<1>8. Frames(Append(su, p)) = Append(Frames(su), Decode(p.bytes))
  BY <1>7, FramesAppend
<1>9. Told(u) = Frames(su) /\ Told(v) = Frames(Append(su, p))
  BY <1>5, <1>6 DEF Told
<1> QED
  BY <1>1, <1>2, <1>3, <1>8, <1>9

LEMMA ToldPasses ==
    ASSUME NEW c \in Nat, NEW u \in Seq(PacketTo(c)), NEW p \in ForeignPacket(c)
    PROVE  Told(Append(u, p)) = Told(u)
<1>1. p \in PacketTo(c)
  BY DEF PacketTo
<1>2. PICK v \in Seq(PacketTo(c)) : v = Append(u, p)
  <2>1. Append(u, p) \in Seq(PacketTo(c))
    BY <1>1
  <2> QED
    BY <2>1
<1>3. FromServer(v) = Outside(v, ForeignPacket(c))
  BY FromServerIs
<1>4. FromServer(u) = Outside(u, ForeignPacket(c))
  BY FromServerIs
<1>5. Outside(Append(u, p), ForeignPacket(c)) = Outside(u, ForeignPacket(c))
  BY <1>1, OutsideSkips
<1>6. FromServer(v) = FromServer(u)
  BY <1>2, <1>3, <1>4, <1>5
<1> QED
  BY <1>2, <1>6 DEF Told

LEMMA ToldEmpty ==
    ASSUME NEW c \in Nat
    PROVE  Told(<<>>) = <<>>
<1>1. PICK none \in Seq(PacketTo(c)) : none = <<>>
  <2>1. <<>> \in Seq(PacketTo(c))
    OBVIOUS
  <2> QED
    BY <2>1
<1>2. FromServer(none) = Outside(none, ForeignPacket(c))
  BY FromServerIs
<1>3. FromServer(none) = none
  BY <1>1, <1>2, OutsideEmpty
<1>4. PICK stated \in Seq(FramesTo(c)) : stated = Told(none)
  BY ToldTyped
<1>5. Told(none) = [i \in 1 .. 0 |-> Decode(none[i].bytes)]
  BY <1>1, <1>3 DEF Told, Frames
<1> QED
  BY <1>1, <1>5

-----------------------------------------------------------------------------
(* The link: what holds of a client. *)

Unlike(c) == {pair \in FramesTo(c) \X FramesTo(c) : pair[1] # pair[2]}

\* A client with what waits for it, what was sent to it, what its application was
\* given and what it never will be, after n calls.
Settled(c, box, went, gave, gone, n) ==
    /\ box \in Seq(PacketTo(c))
    /\ went \in Seq(FramesTo(c)) /\ Chained(went, Unlike(c))
    /\ \A f \in ToSet(went), i \in Nat : f \in SentFrame(c, i) => i < n
    /\ gave \in Seq(FramesTo(c))
    /\ gone \subseteq ToSet(went)
    /\ Outside(went, gone) = gave \o Told(box)

LEMMA SettledLater ==
    ASSUME NEW c, NEW box, NEW went, NEW gave, NEW gone, NEW n \in Nat, NEW m \in Nat, n <= m,
           Settled(c, box, went, gave, gone, n)
    PROVE  Settled(c, box, went, gave, gone, m)
<1>1. \A f \in ToSet(went), i \in Nat : f \in SentFrame(c, i) => i < m
  <2>1. \A f \in ToSet(went), i \in Nat : f \in SentFrame(c, i) => i < n
    BY DEF Settled
  <2>2. \A i \in Nat : i < n => i < m
    OBVIOUS
  <2> QED
    BY <2>1, <2>2
<1> QED
  BY <1>1 DEF Settled

LEMMA SettledSend ==
    ASSUME NEW c \in Nat, NEW box, NEW went, NEW gave, NEW gone, NEW n \in Nat,
           Settled(c, box, went, gave, gone, n), NEW f \in SentFrame(c, n),
           NEW m \in Nat, m = n + 1
    PROVE  Settled(c, Append(box, ServerPacket(f)), Append(went, f), gave, gone, m)
<1>1. f \in FramesTo(c)
  BY DEF FramesTo
<1>2. /\ box \in Seq(PacketTo(c))
      /\ went \in Seq(FramesTo(c)) /\ Chained(went, Unlike(c))
      /\ \A g \in ToSet(went), i \in Nat : g \in SentFrame(c, i) => i < n
      /\ gave \in Seq(FramesTo(c))
      /\ gone \subseteq ToSet(went)
      /\ Outside(went, gone) = gave \o Told(box)
  BY DEF Settled
<1>3. f \notin ToSet(went)
  <2>1. ~(n < n)
    OBVIOUS
  <2> QED
    BY <1>2, <2>1
<1>4. ServerPacket(f) \in PacketTo(c) /\ Append(box, ServerPacket(f)) \in Seq(PacketTo(c))
  BY <1>1, <1>2 DEF PacketTo
<1>5. ToSet(went) \subseteq FramesTo(c)
  BY <1>2, ElementsOf
<1>6. \A a \in ToSet(went) : <<a, f>> \in Unlike(c)
  BY <1>1, <1>3, <1>5 DEF Unlike
<1>7. /\ Append(went, f) \in Seq(FramesTo(c))
      /\ Chained(Append(went, f), Unlike(c))
      /\ ToSet(Append(went, f)) = ToSet(went) \cup {f}
  BY <1>1, <1>2, <1>6, ChainAppend
<1>8. ASSUME NEW g \in ToSet(Append(went, f)), NEW i \in Nat, g \in SentFrame(c, i) PROVE i < m
  <2>1. CASE g = f
    <3>1. i = n
      BY <1>8, <2>1, CallsTell
    <3> QED
      BY <3>1
  <2>2. CASE g \in ToSet(went)
    <3>1. i < n
      BY <1>2, <1>8, <2>2
    <3> QED
      BY <3>1
  <2> QED
    BY <1>7, <2>1, <2>2
<1>9. Outside(Append(went, f), gone) = gave \o Told(Append(box, ServerPacket(f)))
  <2>1. f \notin gone
    BY <1>2, <1>3
  <2>2. Outside(Append(went, f), gone) = Append(Outside(went, gone), f)
    BY <1>1, <1>2, <2>1, OutsideTakes
  <2>3. PICK stated \in Seq(FramesTo(c)) : stated = Told(box)
    BY <1>2, ToldTyped
  <2>4. Told(Append(box, ServerPacket(f))) = Append(stated, f)
    BY <1>1, <1>2, <2>3, ToldAppend
  <2>5. gave \o Append(stated, f) = Append(gave \o stated, f)
    BY <1>1, <1>2, AppendConcat
  <2> QED
    BY <1>2, <2>2, <2>3, <2>4, <2>5
<1> QED
  BY <1>2, <1>4, <1>7, <1>8, <1>9 DEF Settled

LEMMA SettledForeign ==
    ASSUME NEW c \in Nat, NEW box, NEW went, NEW gave, NEW gone, NEW n,
           Settled(c, box, went, gave, gone, n), NEW p \in ForeignPacket(c)
    PROVE  Settled(c, Append(box, p), went, gave, gone, n)
<1>1. box \in Seq(PacketTo(c)) /\ p \in PacketTo(c)
  BY DEF Settled, PacketTo
<1>2. Append(box, p) \in Seq(PacketTo(c))
  BY <1>1
<1>3. Told(Append(box, p)) = Told(box)
  BY <1>1, ToldPasses
<1> QED
  BY <1>2, <1>3 DEF Settled

\* The frames of packets that are not given.
Missed(packets, given) == ToSet(Told(packets)) \ ToSet(given)

\* A queue taken apart: its packets taken tell the frames given and those left.
Parted(c, box, packets, rest, given, left) ==
    /\ packets \in Seq(PacketTo(c)) /\ rest \in Seq(PacketTo(c))
    /\ given \in Seq(FramesTo(c)) /\ left \in Seq(FramesTo(c))
    /\ box = Glued(packets, rest) /\ Told(packets) = Glued(given, left)

LEMMA SettledReceived ==
    ASSUME NEW c \in Nat, NEW box, NEW went, NEW gave, NEW gone, NEW n,
           Settled(c, box, went, gave, gone, n),
           NEW packets, NEW rest, NEW given, NEW left,
           Parted(c, box, packets, rest, given, left)
    PROVE  /\ Settled(c, rest, went, Glued(gave, given), gone \cup Missed(packets, given), n)
           /\ left = <<>> => Missed(packets, given) = {}
<1>0. /\ packets \in Seq(PacketTo(c)) /\ rest \in Seq(PacketTo(c))
      /\ given \in Seq(FramesTo(c)) /\ left \in Seq(FramesTo(c))
      /\ box = Glued(packets, rest) /\ Told(packets) = Glued(given, left)
  BY DEF Parted
<1> USE <1>0
<1>16. PICK D : D = Missed(packets, given)
  OBVIOUS
<1>1. /\ went \in Seq(FramesTo(c)) /\ Chained(went, Unlike(c))
      /\ \A g \in ToSet(went), i \in Nat : g \in SentFrame(c, i) => i < n
      /\ gave \in Seq(FramesTo(c))
      /\ gone \subseteq ToSet(went)
      /\ Outside(went, gone) = Glued(gave, Told(box))
  BY DEF Settled, Glued
<1>2. PICK tr \in Seq(FramesTo(c)) : tr = Told(rest)
  BY ToldTyped
<1>3. Told(box) = Glued(Glued(given, left), tr)
  <2>1. Told(packets \o rest) = Told(packets) \o Told(rest)
    BY ToldConcat
  <2>2. Told(Glued(packets, rest)) = Glued(Told(packets), Told(rest))
    BY <2>1 DEF Glued
  <2> QED
    BY <1>2, <2>2
<1>4. PICK w : /\ w = Outside(went, gone)
               /\ ToSet(w) = ToSet(went) \ gone
  BY <1>1, OutsideTyped
<1>5. w = Glued(gave, Glued(Glued(given, left), tr))
  BY <1>1, <1>3, <1>4
<1>6. Chained(w, Unlike(c))
  <2>1. PICK K \in SUBSET (1 .. Len(went)) : K = {i \in DOMAIN went : went[i] \notin gone}
    <3>1. DOMAIN went = 1 .. Len(went)
      BY <1>1
    <3> QED
      BY <3>1
  <2>2. Chained(Picked(went, K), Unlike(c))
    BY <1>1, <2>1, ChainPicked
  <2> QED
    BY <1>4, <2>1, <2>2 DEF Outside
<1>7. Irreflexive(Unlike(c))
  BY DEF Unlike, Irreflexive
<1>8. /\ w \in Seq(FramesTo(c))
      /\ ToSet(w) = ToSet(gave) \cup ToSet(given) \cup ToSet(left) \cup ToSet(tr)
      /\ ToSet(Glued(given, left)) \ ToSet(given) = ToSet(left)
      /\ Outside(w, ToSet(left)) = Glued(Glued(gave, given), tr)
  <2>1. gave \in Seq(FramesTo(c))
    BY <1>1
  <2> QED
    BY ONLY <2>1, <1>5, <1>6, <1>7, given \in Seq(FramesTo(c)), left \in Seq(FramesTo(c)),
            tr \in Seq(FramesTo(c)), MiddleOut
<1>9. D = ToSet(left)
  BY <1>8, <1>16 DEF Missed
<1>10. Outside(went, gone \cup D) = Outside(Outside(went, gone), D)
  <2>1. went \in Seq(FramesTo(c))
    BY <1>1
  <2> QED
    BY ONLY <2>1, OutsideTwice
<1>11. Outside(went, gone \cup D) = Glued(Glued(gave, given), Told(rest))
  BY <1>2, <1>4, <1>8, <1>9, <1>10
<1>12. gone \cup D \subseteq ToSet(went)
  BY <1>1, <1>4, <1>8, <1>9
<1>13. Glued(gave, given) \in Seq(FramesTo(c))
  BY <1>1, GluedEntries
<1>14. Settled(c, rest, went, Glued(gave, given), gone \cup D, n)
  <2>1. Outside(went, gone \cup D) = Glued(gave, given) \o Told(rest)
    BY <1>11 DEF Glued
  <2> QED
    BY <1>1, <2>1, <1>12, <1>13 DEF Settled
<1>15. ASSUME left = <<>> PROVE D = {}
  <2>1. ToSet(<<>>) = {}
    BY DEF ToSet
  <2> QED
    BY <1>9, <1>15, <2>1
<1> QED
  BY ONLY <1>14, <1>15, <1>16

-----------------------------------------------------------------------------
(* The link: what a pump takes. *)

LEMMA Halves ==
    ASSUME NEW S, NEW s \in Seq(S), NEW k \in 0 .. Len(s)
    PROVE  /\ SubSeq(s, 1, k) \in Seq(S) /\ Drop(s, k) \in Seq(S)
           /\ s = Glued(SubSeq(s, 1, k), Drop(s, k))
           /\ Len(SubSeq(s, 1, k)) = k
           /\ \A i \in 1 .. k : SubSeq(s, 1, k)[i] = s[i]
<1>1. PICK n \in Nat : n = Len(s)
  OBVIOUS
<1>2. PICK t \in Seq(S) : t = SubSeq(s, 1, k) /\ Len(t) = k /\ \A i \in 1 .. k : t[i] = s[i]
  <2>1. PICK a \in Nat, b \in Nat : a = 0 /\ b = k /\ a <= b /\ b <= Len(s)
    BY <1>1
  <2>2. /\ SubSeq(s, a + 1, b) \in Seq(S)
        /\ Len(SubSeq(s, a + 1, b)) = b - a
        /\ \A i \in 1 .. b - a : SubSeq(s, a + 1, b)[i] = s[a + i]
    BY <2>1, PartOf
  <2>3. a + 1 = 1 /\ b - a = k
    BY <2>1
  <2>4. PICK q \in Seq(S) : /\ q = SubSeq(s, 1, k) /\ Len(q) = k
                            /\ \A i \in 1 .. k : q[i] = s[a + i]
    BY <2>1, <2>2, <2>3
  <2>5. ASSUME NEW i \in 1 .. k PROVE q[i] = s[i]
    <3>1. a + i = i
      BY <2>1
    <3> QED
      BY <2>4, <3>1
  <2> QED
    BY <2>4, <2>5
<1>3. PICK d \in Seq(S) : d = Drop(s, k) /\ Len(d) = n - k /\ \A i \in 1 .. n - k : d[i] = s[k + i]
  <2>1. PICK a \in Nat, b \in Nat : a = k /\ b = n /\ a <= b /\ b <= Len(s)
    BY <1>1
  <2>2. /\ SubSeq(s, a + 1, b) \in Seq(S)
        /\ Len(SubSeq(s, a + 1, b)) = b - a
        /\ \A i \in 1 .. b - a : SubSeq(s, a + 1, b)[i] = s[a + i]
    BY <2>1, PartOf
  <2> QED
    BY <1>1, <2>1, <2>2 DEF Drop
<1>4. PICK w \in Seq(S) : w = t \o d
  BY ConcatProperties
<1>5. /\ Len(w) = Len(t) + Len(d)
      /\ \A i \in 1 .. Len(t) + Len(d) : w[i] = IF i <= Len(t) THEN t[i] ELSE d[i - Len(t)]
  BY ONLY <1>4, t \in Seq(S), d \in Seq(S), ConcatProperties
<1>6. Len(w) = n /\ \A i \in 1 .. n : w[i] = IF i <= k THEN t[i] ELSE d[i - k]
  BY <1>1, <1>2, <1>3, <1>5
<1>7. ASSUME NEW i \in 1 .. Len(s) PROVE s[i] = w[i]
  <2>1. CASE i <= k
    BY <1>1, <1>2, <1>6, <2>1
  <2>2. CASE ~(i <= k)
    <3>1. PICK j \in 1 .. n - k : j = i - k /\ k + j = i
      BY <1>1, <2>2
    <3>2. w[i] = d[j]
      BY <1>1, <1>6, <2>2, <3>1
    <3> QED
      BY <1>3, <3>1, <3>2
  <2> QED
    BY <2>1, <2>2
<1>8. s = w
  BY <1>1, <1>6, <1>7, SeqEqual
<1> QED
  BY <1>2, <1>3, <1>4, <1>8 DEF Glued

LEMMA OneMore ==
    ASSUME NEW S, NEW s \in Seq(S), NEW k \in Nat, NEW m \in 1 .. Len(s), m = k + 1
    PROVE  SubSeq(s, 1, m) = Append(SubSeq(s, 1, k), s[m])
<1>1. k \in 0 .. Len(s) /\ m \in 0 .. Len(s)
  OBVIOUS
<1>2. PICK t \in Seq(S) : t = SubSeq(s, 1, k) /\ Len(t) = k /\ \A i \in 1 .. k : t[i] = s[i]
  <2>1. PICK w : w = SubSeq(s, 1, k)
    OBVIOUS
  <2>2. /\ SubSeq(s, 1, k) \in Seq(S) /\ Len(SubSeq(s, 1, k)) = k
        /\ \A i \in 1 .. k : SubSeq(s, 1, k)[i] = s[i]
    BY ONLY <1>1, s \in Seq(S), Halves
  <2>3. w \in Seq(S) /\ Len(w) = k /\ \A i \in 1 .. k : w[i] = s[i]
    BY ONLY <2>1, <2>2
  <2> QED
    BY ONLY <2>1, <2>3
<1>3. PICK u \in Seq(S) : u = SubSeq(s, 1, m) /\ Len(u) = m /\ \A i \in 1 .. m : u[i] = s[i]
  <2>1. PICK w : w = SubSeq(s, 1, m)
    OBVIOUS
  <2>2. /\ SubSeq(s, 1, m) \in Seq(S) /\ Len(SubSeq(s, 1, m)) = m
        /\ \A i \in 1 .. m : SubSeq(s, 1, m)[i] = s[i]
    BY ONLY <1>1, s \in Seq(S), Halves
  <2>3. w \in Seq(S) /\ Len(w) = m /\ \A i \in 1 .. m : w[i] = s[i]
    BY ONLY <2>1, <2>2
  <2> QED
    BY ONLY <2>1, <2>3
<1>4. PICK x \in S : x = s[m]
  OBVIOUS
<1>5. PICK v \in Seq(S) : v = Append(t, x)
  <2>1. Append(t, x) \in Seq(S)
    OBVIOUS
  <2> QED
    BY <2>1
<1>6. Len(v) = Len(t) + 1 /\ v[Len(t) + 1] = x /\ \A i \in 1 .. Len(t) : v[i] = t[i]
  BY <1>5
<1>7. Len(v) = m /\ v[m] = x /\ \A i \in 1 .. k : v[i] = t[i]
  BY <1>2, <1>6
<1>8. ASSUME NEW i \in 1 .. Len(v) PROVE v[i] = u[i]
  <2>1. i \in 1 .. k \/ i = m
    BY <1>7
  <2> QED
    BY <1>2, <1>3, <1>4, <1>7, <2>1
<1>9. v = u
  BY <1>3, <1>7, <1>8, SeqEqual
<1> QED
  BY <1>2, <1>3, <1>4, <1>5, <1>9

LEMMA LeastOf ==
    ASSUME NEW a \in Nat, NEW b \in Nat
    PROVE  Min({a, b}) \in Nat /\ Min({a, b}) <= a /\ Min({a, b}) <= b
<1>1. \E x \in {a, b} : \A y \in {a, b} : x <= y
  <2>1. a <= b \/ b <= a
    OBVIOUS
  <2> QED
    BY <2>1
<1>2. /\ Min({a, b}) \in {a, b}
      /\ \A y \in {a, b} : Min({a, b}) <= y
  BY <1>1 DEF Min
<1> QED
  BY <1>2

LEMMA GreatestOf ==
    ASSUME NEW K, IsFiniteSet(K), K \subseteq Nat, K # {}
    PROVE  Max(K) \in K /\ \A y \in K : y <= Max(K)
<1>1. \E x \in K : \A y \in K : x >= y
  <2>1. PICK x \in K : \A y \in K : y <= x
    BY Highest
  <2> QED
    BY <2>1
<1>2. Max(K) \in K /\ \A y \in K : Max(K) >= y
  BY <1>1 DEF Max
<1> QED
  BY <1>2

\* A pump that may take m of the packets in box passes r.
Passes(c, box, bridge, m, r) ==
    /\ r \in 0 .. m /\ m \in 0 .. Len(box)
    /\ \A i \in 1 .. r : Usable(c, box[i], bridge)
    /\ r < m => ~Usable(c, box[r + 1], bridge)

LEMMA RunIs ==
    ASSUME NEW c, NEW T, inbox[c] \in Seq(T), NEW bridge, NEW n \in Nat,
           NEW m, m = Min({n, Len(inbox[c])}), NEW r, r = Run(c, bridge, n)
    PROVE  Passes(c, inbox[c], bridge, m, r)
<1>1. PICK box \in Seq(T), l \in Nat : box = inbox[c] /\ l = Len(box)
  OBVIOUS
<1>2. m \in Nat /\ m <= l
  BY <1>1, LeastOf
<1>3. PICK K : K = {k \in 0 .. m : \A i \in 1 .. k : Usable(c, box[i], bridge)}
  OBVIOUS
<1>4. r = Max(K)
  BY <1>1, <1>3 DEF Run
<1>5. IsFiniteSet(K) /\ K \subseteq Nat
  <2>1. PICK a \in Int, b \in Int : a = 0 /\ b = m
    BY <1>2
  <2>2. IsFiniteSet(a .. b)
    BY FS_Interval
  <2>3. K \subseteq a .. b /\ K \subseteq Nat
    BY <1>2, <1>3, <2>1
  <2> QED
    BY <2>2, <2>3, FS_Subset
<1>6. 0 \in K
  <2>1. 0 \in 0 .. m /\ \A i \in 1 .. 0 : FALSE
    BY <1>2
  <2> QED
    BY <1>3, <2>1
<1>7. r \in K /\ \A y \in K : y <= r
  <2>1. K # {}
    BY <1>6
  <2> QED
    BY <1>4, <1>5, <2>1, GreatestOf
<1>8. r \in 0 .. m /\ \A i \in 1 .. r : Usable(c, box[i], bridge)
  BY <1>3, <1>7
<1>9. ASSUME r < m, Usable(c, box[r + 1], bridge) PROVE FALSE
  <2>1. PICK k \in 0 .. m : k = r + 1
    BY <1>2, <1>8, <1>9
  <2>2. \A i \in 1 .. k : i \in 1 .. r \/ i = k
    BY <1>8, <2>1
  <2>3. \A i \in 1 .. k : Usable(c, box[i], bridge)
    BY <1>8, <1>9, <2>1, <2>2
  <2>4. k \in K
    BY <1>3, <2>3
  <2>5. ~(k <= r)
    BY <1>8, <2>1
  <2> QED
    BY <1>7, <2>4, <2>5
<1>10. m \in 0 .. Len(box)
  BY <1>1, <1>2
<1> QED
  BY <1>1, <1>8, <1>9, <1>10 DEF Passes

LEMMA AllTold ==
    ASSUME NEW c \in Nat, NEW box \in Seq(PacketTo(c)), NEW k \in 0 .. Len(box), NEW bridge,
           \A i \in 1 .. k : Usable(c, box[i], bridge),
           NEW t, t = SubSeq(box, 1, k)
    PROVE  t \in Seq(PacketTo(c)) /\ Frames(t) = Told(t)
<1>1. t \in Seq(PacketTo(c)) /\ Len(t) = k /\ \A i \in 1 .. k : t[i] = box[i]
  BY Halves
<1>2. ASSUME NEW p \in ToSet(t), p \in ForeignPacket(c) PROVE FALSE
  <2>1. PICK i \in 1 .. k : t[i] = p
    <3>1. t \in Seq(PacketTo(c))
      BY <1>1
    <3>2. \E i \in 1 .. Len(t) : t[i] = p
      BY ONLY <3>1, p \in ToSet(t), ElementsOf
    <3> QED
      BY <1>1, <3>2
  <2>2. Usable(c, p, bridge)
    BY <1>1, <2>1
  <2> QED
    BY <1>2, <2>2, ForeignUnusable
<1>3. ToSet(t) \cap ForeignPacket(c) = {}
  BY <1>2
<1>4. FromServer(t) = Outside(t, ForeignPacket(c))
  BY <1>1, FromServerIs
<1>5. Outside(t, ForeignPacket(c)) = t
  BY <1>1, <1>3, OutsideNone
<1> QED
  BY <1>1, <1>4, <1>5 DEF Told

\* Of the first packets, some frames are given, and those left over come behind them.
Tells(c, bridge, box, taken, given, left) ==
    /\ taken \in 0 .. Len(box)
    /\ given \in Seq(FramesTo(c)) /\ left \in Seq(FramesTo(c))
    /\ Told(SubSeq(box, 1, taken)) = Glued(given, left)
    /\ bridge = "Client" => left = <<>>


LEMMA PassedTells ==
    ASSUME NEW c \in Nat, NEW box \in Seq(PacketTo(c)), NEW bridge, NEW m, NEW r,
           Passes(c, box, bridge, m, r),
           NEW taken, taken = r + (IF r < m THEN 1 ELSE 0),
           NEW given, given = Frames(SubSeq(box, 1, r))
    PROVE  \E left : Tells(c, bridge, box, taken, given, left)
<1>1. /\ r \in Nat /\ m \in Nat /\ r <= m /\ m <= Len(box) /\ r \in 0 .. Len(box)
      /\ \A i \in 1 .. r : Usable(c, box[i], bridge)
      /\ r < m => ~Usable(c, box[r + 1], bridge)
  BY DEF Passes
<1>2. PICK t \in Seq(PacketTo(c)) : t = SubSeq(box, 1, r) /\ Frames(t) = Told(t)
  BY <1>1, AllTold
<1>3. given = Told(t) /\ given \in Seq(FramesTo(c))
  BY <1>2, ToldTyped
<1>4. CASE r < m
  <2>1. PICK k \in 1 .. Len(box) : k = r + 1 /\ k \in 0 .. Len(box) /\ taken = k
    BY <1>1, <1>4
  <2>2. PICK p \in PacketTo(c) : p = box[k] /\ ~Usable(c, p, bridge)
    BY <1>1, <1>4, <2>1
  <2>3. SubSeq(box, 1, k) = Append(t, p)
    BY <1>1, <1>2, <2>1, <2>2, OneMore
  <2>4. CASE p \in ForeignPacket(c)
    <3>1. Told(Append(t, p)) = given
      BY <1>3, <2>4, ToldPasses
    <3>2. <<>> \in Seq(FramesTo(c)) /\ Glued(given, <<>>) = given
      BY <1>3, NothingLeft
    <3>3. Tells(c, bridge, box, taken, given, <<>>)
      BY <1>3, <2>1, <2>3, <3>1, <3>2 DEF Tells
    <3> QED
      BY <3>3
  <2>5. CASE p \notin ForeignPacket(c)
    <3>1. PICK f \in FramesTo(c) : p = ServerPacket(f)
      BY <2>5 DEF PacketTo
    <3>2. bridge # "Client"
      BY <2>2, <3>1, ServerUsable
    <3>3. Told(Append(t, p)) = Append(given, f)
      BY <1>3, <3>1, ToldAppend
    <3>4. PICK left \in Seq(FramesTo(c)) : left = <<f>>
      <4>1. <<f>> \in Seq(FramesTo(c))
        OBVIOUS
      <4> QED
        BY <4>1
    <3>5. Append(given, f) = Glued(given, left)
      <4>1. Append(given, f) = given \o <<f>>
        BY <1>3
      <4> QED
        BY <3>4, <4>1 DEF Glued
    <3>6. Tells(c, bridge, box, taken, given, left)
      BY <1>3, <2>1, <2>3, <3>2, <3>3, <3>5 DEF Tells
    <3> QED
      BY <3>6
  <2> QED
    BY <2>4, <2>5
<1>5. CASE ~(r < m)
  <2>1. taken = r
    BY <1>1, <1>5
  <2>2. <<>> \in Seq(FramesTo(c)) /\ Glued(given, <<>>) = given
    BY <1>3, NothingLeft
  <2>3. Tells(c, bridge, box, taken, given, <<>>)
    BY <1>1, <1>2, <1>3, <2>1, <2>2 DEF Tells
  <2> QED
    BY <2>3
<1> QED
  BY <1>4, <1>5

LEMMA PumpTells ==
    ASSUME NEW c \in Nat, inbox[c] \in Seq(PacketTo(c)), NEW bridge, NEW n \in Nat
    PROVE  \E left : Tells(c, bridge, inbox[c], TakenBy(c, bridge, n),
                           Heard(c, bridge, n), left)
<1>1. PICK box \in Seq(PacketTo(c)) : box = inbox[c]
  OBVIOUS
<1>2. PICK m, r : /\ m = Min({n, Len(inbox[c])}) /\ r = Run(c, bridge, n)
                  /\ Passes(c, inbox[c], bridge, m, r)
  BY RunIs
<1>3. PICK taken, given : /\ taken = TakenBy(c, bridge, n) /\ given = Heard(c, bridge, n)
                          /\ taken = r + (IF r < m THEN 1 ELSE 0)
                          /\ given = Frames(SubSeq(box, 1, r))
  BY <1>1, <1>2 DEF TakenBy, Stumbles, Heard
<1>4. \E left : Tells(c, bridge, box, taken, given, left)
  BY <1>1, <1>2, <1>3, PassedTells
<1> QED
  BY <1>1, <1>3, <1>4

LEMMA OwnedTells ==
    ASSUME NEW c \in Nat, inbox[c] \in Seq(PacketTo(c)), NEW bridge, NEW n \in Nat
    PROVE  \E left : Tells(c, "Any", inbox[c], TakenBy(c, bridge, n),
                           Collected(c, bridge, n), left)
<1>1. PICK taken, given, left :
         /\ taken = TakenBy(c, bridge, n) /\ given = Heard(c, bridge, n)
         /\ Tells(c, bridge, inbox[c], taken, given, left)
  BY PumpTells
<1>2. CASE Stumbles(c, bridge, n)
  <2>1. PICK all \in Seq(FramesTo(c)) : all = Told(SubSeq(inbox[c], 1, taken))
    <3>1. Told(SubSeq(inbox[c], 1, taken)) = Glued(given, left)
      BY <1>1 DEF Tells
    <3>2. given \in Seq(FramesTo(c)) /\ left \in Seq(FramesTo(c))
      BY <1>1 DEF Tells
    <3>3. Glued(given, left) \in Seq(FramesTo(c))
      BY <3>2, GluedEntries
    <3> QED
      BY <3>1, <3>3
  <2>2. <<>> \in Seq(FramesTo(c)) /\ Glued(<<>>, all) = all
    BY GluedEmpty
  <2>3. Tells(c, "Any", inbox[c], taken, <<>>, all)
    BY <1>1, <2>1, <2>2 DEF Tells
  <2>4. Collected(c, bridge, n) = <<>>
    BY <1>2 DEF Collected
  <2> QED
    BY <1>1, <2>3, <2>4
<1>3. CASE ~Stumbles(c, bridge, n)
  <2>1. Collected(c, bridge, n) = given
    BY <1>1, <1>3 DEF Collected, Heard
  <2>2. Tells(c, "Any", inbox[c], taken, given, left)
    BY <1>1 DEF Tells
  <2> QED
    BY <1>1, <2>1, <2>2
<1> QED
  BY <1>2, <1>3

-----------------------------------------------------------------------------
(* The link: every step. *)

AnyFrame == UNION {FramesTo(c) : c \in ClientIds}

LinkInv ==
    /\ calls \in Nat
    /\ DOMAIN inbox = ClientIds /\ DOMAIN sent_to = ClientIds /\ DOMAIN handed = ClientIds
    /\ lost \in [ClientIds -> SUBSET AnyFrame]
    /\ \A c \in ClientIds :
          Settled(c, inbox[c], sent_to[c], handed[c], lost[c], calls)

LEMMA LinkInitSettles == LinkInit => LinkInv
<1> SUFFICES ASSUME LinkInit PROVE LinkInv
  OBVIOUS
<1>1. /\ calls \in Nat
      /\ DOMAIN inbox = ClientIds /\ DOMAIN sent_to = ClientIds /\ DOMAIN handed = ClientIds
      /\ lost \in [ClientIds -> SUBSET AnyFrame]
  BY DEF LinkInit
<1>2. ASSUME NEW c \in ClientIds
      PROVE  Settled(c, inbox[c], sent_to[c], handed[c], lost[c], calls)
  <2>1. c \in Nat
    BY LinkAssumption
  <2>2. PICK none : none = <<>> /\ none \in Seq(PacketTo(c)) /\ none \in Seq(FramesTo(c))
    <3>1. <<>> \in Seq(PacketTo(c)) /\ <<>> \in Seq(FramesTo(c))
      OBVIOUS
    <3> QED
      BY <3>1
  <2>3. PICK nil : nil = {} /\ lost[c] = nil
    BY DEF LinkInit
  <2>4. /\ inbox[c] = none /\ sent_to[c] = none /\ handed[c] = none
    BY <2>2 DEF LinkInit
  <2>5. ToSet(none) = {} /\ Len(none) = 0
    BY <2>2 DEF ToSet
  <2>6. Chained(none, Unlike(c))
    BY <2>5 DEF Chained
  <2>7. Outside(none, nil) = none
    BY <2>2, OutsideEmpty
  <2>8. none \o Told(none) = none
    <3>1. Told(none) = none
      BY <2>1, <2>2, ToldEmpty
    <3> QED
      BY <2>2, <3>1
  <2>9. Settled(c, none, none, none, nil, calls)
    BY <2>2, <2>3, <2>5, <2>6, <2>7, <2>8 DEF Settled
  <2> QED
    BY <2>3, <2>4, <2>9
<1> QED
  BY <1>1, <1>2 DEF LinkInv

LEMMA DeliveredSettles ==
    ASSUME LinkInv, NEW frames, Delivered(frames), DOMAIN frames \subseteq ClientIds,
           \A c \in DOMAIN frames : frames[c] \in SentFrame(c, calls)
    PROVE  LinkInv'
<1>1. PICK n \in Nat, m \in Nat : n = calls /\ m = n + 1 /\ calls' = m /\ n <= m
  BY DEF LinkInv, Delivered
<1>2. /\ calls' \in Nat
      /\ DOMAIN inbox' = ClientIds /\ DOMAIN sent_to' = ClientIds /\ DOMAIN handed' = ClientIds
      /\ lost' \in [ClientIds -> SUBSET AnyFrame]
  BY <1>1 DEF LinkInv, Delivered
<1>3. ASSUME NEW c \in ClientIds
      PROVE  Settled(c, inbox'[c], sent_to'[c], handed'[c], lost'[c], calls')
  <2>1. c \in Nat
    BY LinkAssumption
  <2>2. Settled(c, inbox[c], sent_to[c], handed[c], lost[c], n)
    BY <1>1 DEF LinkInv
  <2>3. handed'[c] = handed[c] /\ lost'[c] = lost[c]
    BY DEF Delivered
  <2>4. CASE c \in DOMAIN frames
    <3>1. PICK f \in SentFrame(c, n) : f = frames[c]
      BY <1>1, <2>4
    <3>2. inbox'[c] = Append(inbox[c], ServerPacket(f)) /\ sent_to'[c] = Append(sent_to[c], f)
      BY <2>4, <3>1 DEF Delivered, ServerPacket
    <3>3. Settled(c, Append(inbox[c], ServerPacket(f)), Append(sent_to[c], f),
                  handed[c], lost[c], m)
      BY <1>1, <2>1, <2>2, SettledSend
    <3> QED
      BY <1>1, <2>3, <3>2, <3>3
  <2>5. CASE c \notin DOMAIN frames
    <3>1. inbox'[c] = inbox[c] /\ sent_to'[c] = sent_to[c]
      BY <2>5 DEF Delivered
    <3>2. Settled(c, inbox[c], sent_to[c], handed[c], lost[c], m)
      BY <1>1, <2>2, SettledLater
    <3> QED
      BY <1>1, <2>3, <3>1, <3>2
  <2> QED
    BY <2>4, <2>5
<1> QED
  BY <1>2, <1>3 DEF LinkInv

LEMMA ForeignSettles ==
    ASSUME LinkInv, NEW c \in ClientIds, NEW bytes \in Foreign, ForeignSend(c, bytes)
    PROVE  LinkInv'
<1>1. PICK p \in ForeignPacket(c) : p = [from_server |-> FALSE, bytes |-> bytes]
  BY DEF ForeignSend, ForeignPacket
<1>2. /\ inbox' = [inbox EXCEPT ![c] = Append(inbox[c], p)]
      /\ calls' = calls /\ sent_to' = sent_to /\ handed' = handed /\ lost' = lost
  BY <1>1 DEF ForeignSend
<1>3. DOMAIN inbox = ClientIds
  BY DEF LinkInv
<1>4. ASSUME NEW d \in ClientIds
      PROVE  Settled(d, inbox'[d], sent_to[d], handed[d], lost[d], calls)
  <2>1. Settled(d, inbox[d], sent_to[d], handed[d], lost[d], calls)
    BY DEF LinkInv
  <2>2. CASE d = c
    <3>1. inbox'[d] = Append(inbox[d], p)
      BY <1>2, <1>3, <2>2
    <3>2. d \in Nat /\ p \in ForeignPacket(d)
      BY <2>2, LinkAssumption
    <3>3. Settled(d, Append(inbox[d], p), sent_to[d], handed[d], lost[d], calls)
      BY <2>1, <3>2, SettledForeign
    <3> QED
      BY <3>1, <3>3
  <2>3. CASE d # c
    <3>1. inbox'[d] = inbox[d]
      BY <1>2, <1>3, <2>3
    <3> QED
      BY <2>1, <3>1
  <2> QED
    BY <2>2, <2>3
<1> QED
  BY <1>2, <1>3, <1>4 DEF LinkInv

LEMMA ReceivedSettles ==
    ASSUME LinkInv, NEW c \in ClientIds, NEW bridge, NEW taken, NEW given, NEW left,
           Received(c, taken, given), Tells(c, bridge, inbox[c], taken, given, left)
    PROVE  /\ LinkInv'
           /\ bridge = "Client" => lost' = lost
<1>1. c \in Nat /\ DOMAIN inbox = ClientIds /\ DOMAIN handed = ClientIds
  BY LinkAssumption DEF LinkInv
<1>2. Settled(c, inbox[c], sent_to[c], handed[c], lost[c], calls)
  BY DEF LinkInv
<1>3. inbox[c] \in Seq(PacketTo(c))
  BY <1>2 DEF Settled
<1>4. /\ taken \in 0 .. Len(inbox[c])
      /\ given \in Seq(FramesTo(c)) /\ left \in Seq(FramesTo(c))
      /\ Told(SubSeq(inbox[c], 1, taken)) = Glued(given, left)
      /\ bridge = "Client" => left = <<>>
  BY DEF Tells
<1>5. PICK packets \in Seq(PacketTo(c)), rest \in Seq(PacketTo(c)) :
         /\ packets = SubSeq(inbox[c], 1, taken) /\ rest = Drop(inbox[c], taken)
         /\ inbox[c] = Glued(packets, rest)
  <2>1. PICK S : S = PacketTo(c)
    OBVIOUS
  <2>2. PICK box \in Seq(S) : box = inbox[c]
    BY <1>3, <2>1
  <2>4. PICK k \in 0 .. Len(box) : k = taken
    BY <1>4, <2>2
  <2>3. /\ SubSeq(box, 1, k) \in Seq(S) /\ Drop(box, k) \in Seq(S)
        /\ box = Glued(SubSeq(box, 1, k), Drop(box, k))
    BY Halves
  <2> QED
    BY <2>1, <2>2, <2>3, <2>4
<1>6. PICK D : D = Missed(packets, given)
  OBVIOUS
<1>7. /\ Settled(c, rest, sent_to[c], Glued(handed[c], given), lost[c] \cup D, calls)
      /\ left = <<>> => D = {}
  <2>1. PICK box, went, gave, gone, n :
           box = inbox[c] /\ went = sent_to[c] /\ gave = handed[c] /\ gone = lost[c] /\ n = calls
    OBVIOUS
  <2>2. Settled(c, box, went, gave, gone, n)
    BY <1>2, <2>1
  <2>3. Parted(c, box, packets, rest, given, left)
    BY <1>4, <1>5, <2>1 DEF Parted
  <2>4. c \in Nat
    BY <1>1
  <2>5. /\ Settled(c, rest, went, Glued(gave, given), gone \cup Missed(packets, given), n)
        /\ left = <<>> => Missed(packets, given) = {}
    BY ONLY <2>2, <2>3, <2>4, SettledReceived
  <2> QED
    BY ONLY <1>6, <2>1, <2>5
<1>8. /\ inbox' = [inbox EXCEPT ![c] = rest]
      /\ handed' = [handed EXCEPT ![c] = Glued(handed[c], given)]
      /\ lost' = [lost EXCEPT ![c] = lost[c] \cup D]
      /\ calls' = calls /\ sent_to' = sent_to
  BY <1>5, <1>6 DEF Received, Glued, Told, Missed
<1>9. lost \in [ClientIds -> SUBSET AnyFrame]
  BY DEF LinkInv
<1>10. lost[c] \cup D \subseteq AnyFrame
  <2>1. sent_to[c] \in Seq(FramesTo(c)) /\ lost[c] \cup D \subseteq ToSet(sent_to[c])
    BY <1>7 DEF Settled
  <2>2. ToSet(sent_to[c]) \subseteq FramesTo(c)
    BY <2>1, ElementsOf
  <2>3. FramesTo(c) \subseteq AnyFrame
    BY DEF AnyFrame
  <2> QED
    BY <2>1, <2>2, <2>3
<1>11. /\ DOMAIN inbox' = ClientIds /\ DOMAIN handed' = ClientIds
       /\ lost' \in [ClientIds -> SUBSET AnyFrame]
  BY <1>1, <1>8, <1>9, <1>10
<1>12. ASSUME NEW d \in ClientIds
       PROVE  Settled(d, inbox'[d], sent_to[d], handed'[d], lost'[d], calls)
  <2>1. CASE d = c
    <3>1. inbox'[d] = rest /\ handed'[d] = Glued(handed[c], given) /\ lost'[d] = lost[c] \cup D
      BY <1>1, <1>8, <1>9, <2>1
    <3> QED
      BY <1>7, <2>1, <3>1
  <2>2. CASE d # c
    <3>1. inbox'[d] = inbox[d] /\ handed'[d] = handed[d] /\ lost'[d] = lost[d]
      BY <1>1, <1>8, <1>9, <2>2
    <3>2. Settled(d, inbox[d], sent_to[d], handed[d], lost[d], calls)
      BY DEF LinkInv
    <3> QED
      BY <3>1, <3>2
  <2> QED
    BY <2>1, <2>2
<1>13. LinkInv'
  <2>1. calls \in Nat /\ DOMAIN sent_to = ClientIds
    BY DEF LinkInv
  <2> QED
    BY <1>8, <1>11, <1>12, <2>1 DEF LinkInv
<1>14. ASSUME bridge = "Client" PROVE lost' = lost
  <2>1. D = {}
    BY <1>4, <1>7, <1>14
  <2>2. lost[c] \cup D = lost[c]
    BY <2>1
  <2>3. lost' = [lost EXCEPT ![c] = lost[c]]
    BY <1>8, <2>2
  <2> QED
    BY <1>9, <2>3
<1> QED
  BY <1>13, <1>14

LEMMA LinkSettles ==
    ASSUME LinkInv, LinkNext
    PROVE  LinkInv'
<1>1. ASSUME NEW c \in ClientIds, NEW f \in SentFrame(c, calls), SendFrame(c, f) PROVE LinkInv'
  <2>1. PICK frames : frames = [x \in {c} |-> f]
    OBVIOUS
  <2>2. Delivered(frames) /\ DOMAIN frames \subseteq ClientIds
    BY <1>1, <2>1 DEF SendFrame
  <2>3. \A x \in DOMAIN frames : frames[x] \in SentFrame(x, calls)
    BY <2>1
  <2> QED
    BY <2>2, <2>3, DeliveredSettles
<1>2. ASSUME BroadcastBarrier PROVE LinkInv'
  <2>1. PICK stated, frames :
           /\ stated \subseteq ClientIds
           /\ frames = [c \in stated |-> BarrierFrame(c, calls)] /\ Delivered(frames)
    BY <1>2 DEF BroadcastBarrier
  <2>2. DOMAIN frames \subseteq ClientIds
    BY <2>1
  <2>3. \A x \in DOMAIN frames : frames[x] \in SentFrame(x, calls)
    BY <2>1 DEF SentFrame
  <2> QED
    BY <2>1, <2>2, <2>3, DeliveredSettles
<1>3. ASSUME NEW c \in ClientIds, NEW bridge, NEW n \in 1 .. MaxPackets,
             Pump(c, bridge, n) \/ PumpOwned(c, bridge, n)
      PROVE  LinkInv'
  <2>1. c \in Nat /\ n \in Nat /\ inbox[c] \in Seq(PacketTo(c))
    BY LinkAssumption DEF LinkInv, Settled
  <2>2. CASE Pump(c, bridge, n)
    <3>1. PICK left : Tells(c, bridge, inbox[c], TakenBy(c, bridge, n),
                            Heard(c, bridge, n), left)
      BY <2>1, PumpTells
    <3> QED
      BY <2>2, <3>1, ReceivedSettles DEF Pump
  <2>3. CASE PumpOwned(c, bridge, n)
    <3>1. PICK left : Tells(c, "Any", inbox[c], TakenBy(c, bridge, n),
                            Collected(c, bridge, n), left)
      BY <2>1, OwnedTells
    <3> QED
      BY <2>3, <3>1, ReceivedSettles DEF PumpOwned
  <2> QED
    BY <1>3, <2>2, <2>3
<1>4. \A c : /\ AckFrame(c, calls) \in SentFrame(c, calls)
             /\ UpdateFrame(c, calls) \in SentFrame(c, calls)
  BY DEF SentFrame
<1> QED
  BY <1>1, <1>2, <1>3, <1>4, ForeignSettles DEF LinkNext

\* Whatever is sent, and by whomever, and however a client pumps, what it was given and
\* what waits for it is what the server sent it, in order, but for the lost frames, and
\* the mixed pump loses none.
THEOREM FramesHandedHolds == LinkSpec => FramesHanded
<1> DEFINE Step == /\ GivenInOrder'
                   /\ \A c \in ClientIds, n \in 1 .. MaxPackets :
                         Pump(c, "Client", n) => UNCHANGED lost
<1>1. LinkInit => LinkInv
  BY LinkInitSettles
<1>2. LinkInv /\ [LinkNext]_linkVars => LinkInv'
  <2>1. ASSUME LinkInv, UNCHANGED linkVars PROVE LinkInv'
    BY <2>1 DEF LinkInv, linkVars
  <2> QED
    BY <2>1, LinkSettles
<1>3. LinkInv' => GivenInOrder'
  BY DEF LinkInv, Settled, GivenInOrder, Told
<1>4. ASSUME LinkInv, NEW c \in ClientIds, NEW n \in 1 .. MaxPackets, Pump(c, "Client", n)
      PROVE  UNCHANGED lost
  <2>1. c \in Nat /\ n \in Nat /\ inbox[c] \in Seq(PacketTo(c))
    BY <1>4, LinkAssumption DEF LinkInv, Settled
  <2>2. PICK left : Tells(c, "Client", inbox[c], TakenBy(c, "Client", n),
                          Heard(c, "Client", n), left)
    BY <2>1, PumpTells
  <2> QED
    BY <1>4, <2>2, ReceivedSettles DEF Pump
<1>5. LinkInv /\ [LinkNext]_linkVars => [Step]_linkVars
  BY <1>2, <1>3, <1>4
<1> QED
  BY <1>1, <1>2, <1>5, PTL DEF LinkSpec, FramesHanded, Step
=============================================================================
