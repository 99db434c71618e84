-------------------------- MODULE Deployment_proofs ---------------------------
(***************************************************************************)
(* What joins the stations of a deployment, beside commands and handoffs.  *)
(*                                                                         *)
(* Events: each is in one place on its way to its station, or is told of   *)
(* when it is lost, and those of one priority are applied in the order     *)
(* they fall due, for every set of stations, every limit of the queues and *)
(* every batch that is routed, pumped or drained.                          *)
(*                                                                         *)
(* Packet keys: the replay window suppresses what it should and nothing    *)
(* else, and rotation loses nothing, for every set of keys and packets,    *)
(* every size of the history and every delay of the network.               *)
(*                                                                         *)
(* Relief of hot stations: entities keep one owner and their places in the *)
(* indexes, and a pass empties the cells it takes, for any stations, cells *)
(* and entities, all thresholds and plans, and passes that fail in the     *)
(* middle; the collections that a pass looks stations and indexes up in    *)
(* find what a search from the front would.                                *)
(***************************************************************************)
EXTENDS StationEvents, PacketSecurity, SplitMigration, StationRegistry,
        Ordered_proofs

-----------------------------------------------------------------------------
(* Events from place to place, as sets. *)

\* Event a may be applied before event b: of one priority it was sent before it
\* or is due before it.
Precedes(a, b) ==
    /\ a # b
    /\ a.target = b.target /\ a.priority = b.priority =>
          a.id < b.id \/ a.target_tick < b.target_tick

Following(U, V) == \A a \in U, b \in V : Precedes(a, b)
SentSooner(U, V) == \A a \in U, b \in V : a.id < b.id

\* The events of the stations A that were applied, B in the caller's buffer, W
\* waiting in the router and I arriving with the transport.
Live(A, B, W, I) == B \cup UNION {A[s] \cup W[s] \cup I[s] : s \in Targets}

\* They are those of their stations.
Addressed(A, W, I) ==
    /\ A \in [Targets -> SUBSET Event] /\ W \in [Targets -> SUBSET Event]
    /\ I \in [Targets -> SUBSET Event]
    /\ \A s \in Targets : \A e \in A[s] \cup W[s] \cup I[s] : e.target = s

\* What is further on the way may be applied first.
InStages(A, B, W, I) ==
    \A s \in Targets :
        /\ Following(A[s], B) /\ Following(A[s], W[s]) /\ Following(A[s], I[s])
        /\ Following(B, W[s]) /\ Following(B, I[s]) /\ SentSooner(W[s], I[s])

\* Nothing has left the router before its tick.
Punctual(A, B, t) ==
    /\ t \in [Targets -> Nat]
    /\ \A s \in Targets : \A e \in A[s] : e.target_tick <= t[s]
    /\ \A e \in B : e.target_tick <= t[e.target]

\* The numbers up to n are each of one event.
Numbered(K, n) ==
    /\ n \in Nat
    /\ \A e \in K : e.id \in 1 .. n
    /\ \A k \in 1 .. n : \E e \in K : e.id = k
    /\ \A a, b \in K : a.id = b.id => a = b

\* D has the events that were lost and n is the number of all.
Flow(A, B, W, I, D, t, n) ==
    /\ Addressed(A, W, I) /\ B \in SUBSET Event /\ D \in SUBSET Event
    /\ InStages(A, B, W, I)
    /\ Punctual(A, B, t)
    /\ D \cap Live(A, B, W, I) = {}
    /\ Numbered(D \cup Live(A, B, W, I), n)

\* An event has a number, a station, a priority and a tick.
LEMMA EventFields ==
    ASSUME NEW e \in Event
    PROVE  /\ e.id \in Nat /\ e.target \in Targets /\ e.priority \in Priorities
           /\ e.target_tick \in Nat
BY EventAssumption DEF Event

\* An event is in one place only.
LEMMA OnePlace ==
    ASSUME NEW A, NEW B, NEW W, NEW I, NEW D, NEW t, NEW n, Flow(A, B, W, I, D, t, n)
    PROVE  /\ \A r, s \in Targets : r # s => A[r] \cap A[s] = {} /\ W[r] \cap W[s] = {}
                                             /\ I[r] \cap I[s] = {}
           /\ \A r, s \in Targets : A[r] \cap W[s] = {} /\ A[r] \cap I[s] = {}
                                    /\ W[r] \cap I[s] = {}
           /\ \A s \in Targets : B \cap A[s] = {} /\ B \cap W[s] = {} /\ B \cap I[s] = {}
           /\ \A s \in Targets : \A e \in A[s] \cup W[s] \cup I[s] \cup B :
                 e \in Live(A, B, W, I) /\ e \notin D
<1>0. /\ Addressed(A, W, I) /\ InStages(A, B, W, I) /\ D \cap Live(A, B, W, I) = {}
      /\ B \in SUBSET Event
  BY DEF Flow
<1>1. \A s \in Targets : A[s] \subseteq Event /\ W[s] \subseteq Event /\ I[s] \subseteq Event
  BY <1>0 DEF Addressed
<1>2. \A s \in Targets : \A e \in A[s] \cup W[s] \cup I[s] : e.target = s
  BY <1>0 DEF Addressed
<1>3. \A r, s \in Targets : r # s => A[r] \cap A[s] = {} /\ W[r] \cap W[s] = {}
                                     /\ I[r] \cap I[s] = {}
  BY <1>2
<1>4. \A s \in Targets : A[s] \cap W[s] = {} /\ A[s] \cap I[s] = {}
  BY <1>0 DEF InStages, Following, Precedes
<1>5. \A s \in Targets : W[s] \cap I[s] = {}
  <2> SUFFICES ASSUME NEW s \in Targets, NEW e \in W[s], e \in I[s] PROVE FALSE
    OBVIOUS
  <2>1. e.id < e.id
    BY <1>0 DEF InStages, SentSooner
  <2>2. e.id \in Nat
    BY <1>1, EventFields
  <2> QED
    BY <2>1, <2>2
<1>6. \A r, s \in Targets : A[r] \cap W[s] = {} /\ A[r] \cap I[s] = {} /\ W[r] \cap I[s] = {}
  BY <1>2, <1>4, <1>5
<1>7. \A s \in Targets : B \cap A[s] = {} /\ B \cap W[s] = {} /\ B \cap I[s] = {}
  BY <1>0 DEF InStages, Following, Precedes
<1>8. \A s \in Targets : \A e \in A[s] \cup W[s] \cup I[s] \cup B : e \in Live(A, B, W, I)
  BY DEF Live
<1> QED
  BY <1>0, <1>3, <1>6, <1>7, <1>8
\* What is live lies in some place.
LEMMA LiveIn ==
    ASSUME NEW A, NEW B, NEW W, NEW I, NEW e
    PROVE  e \in Live(A, B, W, I) <=>
              \/ e \in B
              \/ \E s \in Targets : e \in A[s] \/ e \in W[s] \/ e \in I[s]
BY DEF Live

\* The next number is given to a new event.
LEMMA NextNumber ==
    ASSUME NEW K, NEW n, Numbered(K, n), NEW x, x.id = n + 1
    PROVE  /\ Numbered(K \cup {x}, n + 1)
           /\ x \notin K /\ \A e \in K : e.id < x.id
<1>1. n \in Nat /\ \A e \in K : e.id \in 1 .. n
  BY DEF Numbered
<1>2. \A e \in K : e.id < x.id
  BY <1>1
<1>3. x \notin K
  BY <1>1
<1>4. \A e \in K \cup {x} : e.id \in 1 .. n + 1
  BY <1>1
<1>5. ASSUME NEW k \in 1 .. n + 1 PROVE \E e \in K \cup {x} : e.id = k
  <2>1. CASE k = n + 1
    BY <2>1
  <2>2. CASE k # n + 1
    <3>1. k \in 1 .. n
      BY <1>1, <2>2
    <3> QED
      BY <3>1 DEF Numbered
  <2> QED
    BY <2>1, <2>2
<1>6. ASSUME NEW a \in K \cup {x}, NEW b \in K \cup {x}, a.id = b.id PROVE a = b
  <2>1. \A e \in K : e.id # x.id
    BY <1>1
  <2> QED
    BY <1>6, <2>1 DEF Numbered
<1> QED
  BY <1>1, <1>2, <1>3, <1>4, <1>5, <1>6 DEF Numbered

\* f takes x into its set at s.
Joins(f, s, x, g) == g = [f EXCEPT ![s] = @ \cup {x}]

\* f has the set v at s.
Becomes(f, s, v, g) == g = [f EXCEPT ![s] = v]

\* f loses the events of G at s.
Leaves(f, s, G, g) == g = [f EXCEPT ![s] = @ \ G]

\* An event is sent: it is the last on its way to its station.
LEMMA FlowSent ==
    ASSUME NEW A, NEW B, NEW W, NEW I, NEW D, NEW t, NEW n, Flow(A, B, W, I, D, t, n),
           NEW s \in Targets, NEW x \in Event, x.target = s, x.id = n + 1,
           NEW J, Joins(I, s, x, J)
    PROVE  Flow(A, B, W, J, D, t, n + 1)
<1>0. /\ Addressed(A, W, I) /\ InStages(A, B, W, I) /\ D \cap Live(A, B, W, I) = {}
      /\ B \in SUBSET Event /\ D \in SUBSET Event /\ Punctual(A, B, t)
      /\ Numbered(D \cup Live(A, B, W, I), n)
  BY DEF Flow
<1>1. J \in [Targets -> SUBSET Event] /\ \A r \in Targets : J[r] = IF r = s THEN I[s] \cup {x} ELSE I[r]
  BY <1>0 DEF Joins, Addressed
<1>2. /\ Numbered(D \cup Live(A, B, W, I) \cup {x}, n + 1)
      /\ x \notin D \cup Live(A, B, W, I) /\ \A e \in D \cup Live(A, B, W, I) : e.id < x.id
  BY <1>0, NextNumber
<1>3. Live(A, B, W, J) = Live(A, B, W, I) \cup {x}
  <2>1. \A e : e \in Live(A, B, W, J) <=> e \in Live(A, B, W, I) \/ e = x
    BY <1>1, LiveIn
  <2> QED
    BY <2>1
<1>4. D \cup Live(A, B, W, I) \cup {x} = D \cup Live(A, B, W, J)
  BY <1>3
<1>5. Addressed(A, W, J)
  BY <1>0, <1>1 DEF Addressed
<1>6. \A e \in Live(A, B, W, I) : e.id < x.id /\ Precedes(e, x)
  BY <1>2 DEF Precedes
<1>7. /\ \A e \in B : e \in Live(A, B, W, I)
      /\ \A r \in Targets : \A e \in A[r] \cup W[r] : e \in Live(A, B, W, I)
  BY LiveIn
<1>8. InStages(A, B, W, J)
  <2> SUFFICES ASSUME NEW r \in Targets
               PROVE  Following(A[r], J[r]) /\ Following(B, J[r]) /\ SentSooner(W[r], J[r])
    BY <1>0 DEF InStages
  <2>1. Following(A[r], I[r]) /\ Following(B, I[r]) /\ SentSooner(W[r], I[r])
    BY <1>0 DEF InStages
  <2>2. \A e \in J[r] : e \in I[r] \/ e = x
    BY <1>1
  <2> QED
    BY <1>6, <1>7, <2>1, <2>2 DEF Following, SentSooner
<1> QED
  BY <1>0, <1>2, <1>3, <1>4, <1>5, <1>8 DEF Flow

\* An event is routed to a station nothing is arriving at.
LEMMA FlowRouted ==
    ASSUME NEW A, NEW B, NEW W, NEW I, NEW D, NEW t, NEW n, Flow(A, B, W, I, D, t, n),
           NEW s \in Targets, NEW x \in Event, x.target = s, x.id = n + 1, I[s] = {},
           NEW V, Joins(W, s, x, V)
    PROVE  Flow(A, B, V, I, D, t, n + 1)
<1>0. /\ Addressed(A, W, I) /\ InStages(A, B, W, I) /\ D \cap Live(A, B, W, I) = {}
      /\ B \in SUBSET Event /\ D \in SUBSET Event /\ Punctual(A, B, t)
      /\ Numbered(D \cup Live(A, B, W, I), n)
  BY DEF Flow
<1>1. V \in [Targets -> SUBSET Event] /\ \A r \in Targets : V[r] = IF r = s THEN W[s] \cup {x} ELSE W[r]
  BY <1>0 DEF Joins, Addressed
<1>2. /\ Numbered(D \cup Live(A, B, W, I) \cup {x}, n + 1)
      /\ x \notin D \cup Live(A, B, W, I) /\ \A e \in D \cup Live(A, B, W, I) : e.id < x.id
  BY <1>0, NextNumber
<1>3. Live(A, B, V, I) = Live(A, B, W, I) \cup {x}
  <2>1. \A e : e \in Live(A, B, V, I) <=> e \in Live(A, B, W, I) \/ e = x
    BY <1>1, LiveIn
  <2> QED
    BY <2>1
<1>4. D \cup Live(A, B, W, I) \cup {x} = D \cup Live(A, B, V, I)
  BY <1>3
<1>5. Addressed(A, V, I)
  BY <1>0, <1>1 DEF Addressed
<1>6. \A e \in Live(A, B, W, I) : e.id < x.id /\ Precedes(e, x)
  BY <1>2 DEF Precedes
<1>7. /\ \A e \in B : e \in Live(A, B, W, I)
      /\ \A r \in Targets : \A e \in A[r] \cup W[r] : e \in Live(A, B, W, I)
  BY LiveIn
<1>8. InStages(A, B, V, I)
  <2> SUFFICES ASSUME NEW r \in Targets
               PROVE  Following(A[r], V[r]) /\ Following(B, V[r]) /\ SentSooner(V[r], I[r])
    BY <1>0 DEF InStages
  <2>1. Following(A[r], W[r]) /\ Following(B, W[r]) /\ SentSooner(W[r], I[r])
    BY <1>0 DEF InStages
  <2>2. \A e \in V[r] : e \in W[r] \/ e = x
    BY <1>1
  <2>3. r # s => V[r] = W[r]
    BY <1>1
  <2> QED
    BY <1>6, <1>7, <2>1, <2>2, <2>3 DEF Following, SentSooner
<1> QED
  BY <1>0, <1>2, <1>3, <1>4, <1>5, <1>8 DEF Flow

\* The first event that arrives at a station waits there.
LEMMA FlowPumped ==
    ASSUME NEW A, NEW B, NEW W, NEW I, NEW D, NEW t, NEW n, Flow(A, B, W, I, D, t, n),
           NEW s \in Targets, NEW x \in I[s], \A y \in I[s] \ {x} : x.id < y.id,
           NEW V, NEW J, Joins(W, s, x, V), Leaves(I, s, {x}, J)
    PROVE  Flow(A, B, V, J, D, t, n)
<1>0. /\ Addressed(A, W, I) /\ InStages(A, B, W, I) /\ D \cap Live(A, B, W, I) = {}
      /\ B \in SUBSET Event /\ D \in SUBSET Event /\ Punctual(A, B, t)
      /\ Numbered(D \cup Live(A, B, W, I), n)
  BY DEF Flow
<1>1. V \in [Targets -> SUBSET Event] /\ \A r \in Targets : V[r] = IF r = s THEN W[s] \cup {x} ELSE W[r]
  BY <1>0 DEF Joins, Addressed
<1>2. J \in [Targets -> SUBSET Event] /\ \A r \in Targets : J[r] = IF r = s THEN I[s] \ {x} ELSE I[r]
  BY <1>0 DEF Leaves, Addressed
<1>3. Live(A, B, V, J) = Live(A, B, W, I)
  <2>1. \A e : e \in Live(A, B, V, J) <=> e \in Live(A, B, W, I)
    BY <1>1, <1>2, LiveIn
  <2> QED
    BY <2>1
<1>4. Addressed(A, V, J)
  BY <1>0, <1>1, <1>2 DEF Addressed
<1>5. InStages(A, B, V, J)
  <2> SUFFICES ASSUME NEW r \in Targets
               PROVE  /\ Following(A[r], V[r]) /\ Following(A[r], J[r])
                      /\ Following(B, V[r]) /\ Following(B, J[r]) /\ SentSooner(V[r], J[r])
    BY <1>0 DEF InStages
  <2>1. /\ Following(A[r], W[r]) /\ Following(A[r], I[r])
        /\ Following(B, W[r]) /\ Following(B, I[r]) /\ SentSooner(W[r], I[r])
    BY <1>0 DEF InStages
  <2>2. \A e \in V[r] : e \in W[r] \/ (e = x /\ r = s)
    <3>1. CASE r = s
      BY <1>1, <3>1
    <3>2. CASE r # s
      BY <1>1, <3>2
    <3> QED
      BY <3>1, <3>2
  <2>3. \A e \in J[r] : e \in I[r] /\ (r = s => e \in I[s] \ {x})
    BY <1>2
  <2> QED
    BY <2>1, <2>2, <2>3 DEF Following, SentSooner
<1> QED
  BY <1>0, <1>3, <1>4, <1>5 DEF Flow

\* The events of G and H are lost as those of D were.
FlowWithout(A, B, W, I, D, G, H, t, n) ==
    /\ Flow(A, B, W, I, D \cup G \cup H, t, n)
    /\ D \cap (G \cup H) = {} /\ G \cap H = {}

\* Some of the events at a station are lost.
LEMMA FlowLost ==
    ASSUME NEW A, NEW B, NEW W, NEW I, NEW D, NEW t, NEW n, Flow(A, B, W, I, D, t, n),
           NEW s \in Targets, NEW G, NEW H, G \subseteq W[s], H \subseteq I[s],
           NEW V, NEW J, Leaves(W, s, G, V), Leaves(I, s, H, J)
    PROVE  FlowWithout(A, B, V, J, D, G, H, t, n)
<1>0. /\ Addressed(A, W, I) /\ InStages(A, B, W, I) /\ D \cap Live(A, B, W, I) = {}
      /\ B \in SUBSET Event /\ D \in SUBSET Event /\ Punctual(A, B, t)
      /\ Numbered(D \cup Live(A, B, W, I), n)
  BY DEF Flow
<1>1. V \in [Targets -> SUBSET Event] /\ \A r \in Targets : V[r] = IF r = s THEN W[s] \ G ELSE W[r]
  BY <1>0 DEF Leaves, Addressed
<1>2. J \in [Targets -> SUBSET Event] /\ \A r \in Targets : J[r] = IF r = s THEN I[s] \ H ELSE I[r]
  BY <1>0 DEF Leaves, Addressed
<1>3. /\ \A r, q \in Targets : r # q => W[r] \cap W[q] = {} /\ I[r] \cap I[q] = {}
      /\ \A r, q \in Targets : A[r] \cap W[q] = {} /\ A[r] \cap I[q] = {} /\ W[r] \cap I[q] = {}
      /\ \A q \in Targets : B \cap W[q] = {} /\ B \cap I[q] = {}
      /\ \A q \in Targets : \A e \in W[q] \cup I[q] : e \in Live(A, B, W, I) /\ e \notin D
  BY OnePlace
<1>4. \A e : e \in Live(A, B, V, J) <=> e \in Live(A, B, W, I) /\ e \notin G \cup H
  <2>1. \A e \in G \cup H : e \in W[s] \/ e \in I[s]
    OBVIOUS
  <2>2. \A e \in G : e \notin B /\ \A r \in Targets : e \notin A[r] /\ e \notin I[r] /\ (r # s => e \notin W[r])
    BY <1>3
  <2>3. \A e \in H : e \notin B /\ \A r \in Targets : e \notin A[r] /\ e \notin W[r] /\ (r # s => e \notin I[r])
    BY <1>3
  <2> QED
    BY <1>1, <1>2, <2>1, <2>2, <2>3, LiveIn
<1>5. (D \cup G \cup H) \cup Live(A, B, V, J) = D \cup Live(A, B, W, I)
  <2>1. G \cup H \subseteq Live(A, B, W, I)
    BY <1>3
  <2> QED
    BY <1>4, <2>1
<1>6. (D \cup G \cup H) \cap Live(A, B, V, J) = {}
  BY <1>0, <1>4
<1>7. Addressed(A, V, J)
  BY <1>0, <1>1, <1>2 DEF Addressed
<1>8. InStages(A, B, V, J)
  <2> SUFFICES ASSUME NEW r \in Targets
               PROVE  /\ Following(A[r], V[r]) /\ Following(A[r], J[r])
                      /\ Following(B, V[r]) /\ Following(B, J[r]) /\ SentSooner(V[r], J[r])
    BY <1>0 DEF InStages
  <2>1. /\ Following(A[r], W[r]) /\ Following(A[r], I[r])
        /\ Following(B, W[r]) /\ Following(B, I[r]) /\ SentSooner(W[r], I[r])
    BY <1>0 DEF InStages
  <2>2. V[r] \subseteq W[r] /\ J[r] \subseteq I[r]
    BY <1>1, <1>2
  <2> QED
    BY <2>1, <2>2 DEF Following, SentSooner
<1>9. D \cup G \cup H \in SUBSET Event
  <2>1. W[s] \subseteq Event /\ I[s] \subseteq Event
    BY <1>0 DEF Addressed
  <2> QED
    BY <1>0, <2>1
<1>10. D \cap (G \cup H) = {} /\ G \cap H = {}
  BY <1>3
<1> QED
  BY <1>0, <1>5, <1>6, <1>7, <1>8, <1>9, <1>10 DEF Flow, FlowWithout

\* The events of the buffer are lost.
LEMMA FlowCleared ==
    ASSUME NEW A, NEW B, NEW W, NEW I, NEW D, NEW t, NEW n, Flow(A, B, W, I, D, t, n)
    PROVE  Flow(A, {}, W, I, D \cup B, t, n) /\ D \cap B = {}
<1>0. /\ Addressed(A, W, I) /\ InStages(A, B, W, I) /\ D \cap Live(A, B, W, I) = {}
      /\ B \in SUBSET Event /\ D \in SUBSET Event /\ Punctual(A, B, t)
      /\ Numbered(D \cup Live(A, B, W, I), n)
  BY DEF Flow
<1>1. \A q \in Targets : B \cap A[q] = {} /\ B \cap W[q] = {} /\ B \cap I[q] = {}
  BY OnePlace
<1>2. \A e : e \in Live(A, {}, W, I) <=> e \in Live(A, B, W, I) /\ e \notin B
  BY <1>1, LiveIn
<1>3. B \subseteq Live(A, B, W, I)
  BY LiveIn
<1>4. /\ (D \cup B) \cup Live(A, {}, W, I) = D \cup Live(A, B, W, I)
      /\ (D \cup B) \cap Live(A, {}, W, I) = {} /\ D \cap B = {}
  BY <1>0, <1>2, <1>3
<1>5. InStages(A, {}, W, I) /\ Punctual(A, {}, t)
  BY <1>0 DEF InStages, Following, Punctual
<1> QED
  BY <1>0, <1>4, <1>5 DEF Flow

\* The events that are due at a station go to the buffer.
LEMMA FlowDrained ==
    ASSUME NEW A, NEW B, NEW W, NEW I, NEW D, NEW t, NEW n, Flow(A, B, W, I, D, t, n),
           NEW s \in Targets, NEW G, G = {e \in W[s] : e.target_tick <= t[s]},
           NEW V, Leaves(W, s, G, V)
    PROVE  Flow(A, B \cup G, V, I, D, t, n)
<1>0. /\ Addressed(A, W, I) /\ InStages(A, B, W, I) /\ D \cap Live(A, B, W, I) = {}
      /\ B \in SUBSET Event /\ D \in SUBSET Event /\ Punctual(A, B, t)
      /\ Numbered(D \cup Live(A, B, W, I), n)
  BY DEF Flow
<1>1. V \in [Targets -> SUBSET Event] /\ \A r \in Targets : V[r] = IF r = s THEN W[s] \ G ELSE W[r]
  BY <1>0 DEF Leaves, Addressed
<1>2. G \subseteq W[s] /\ W[s] \subseteq Event /\ \A e \in W[s] : e.target = s
  BY <1>0 DEF Addressed
<1>3. Live(A, B \cup G, V, I) = Live(A, B, W, I)
  <2>1. \A e : e \in Live(A, B \cup G, V, I) <=> e \in Live(A, B, W, I)
    BY <1>1, <1>2, LiveIn
  <2> QED
    BY <2>1
<1>4. Addressed(A, V, I)
  BY <1>0, <1>1 DEF Addressed
<1>5. InStages(A, B \cup G, V, I)
  <2> SUFFICES ASSUME NEW r \in Targets
               PROVE  /\ Following(A[r], B \cup G) /\ Following(A[r], V[r])
                      /\ Following(B \cup G, V[r]) /\ Following(B \cup G, I[r])
                      /\ SentSooner(V[r], I[r])
    BY <1>0 DEF InStages
  <2>1. /\ Following(A[r], B) /\ Following(A[r], W[r])
        /\ Following(B, W[r]) /\ Following(B, I[r]) /\ SentSooner(W[r], I[r])
    BY <1>0 DEF InStages
  <2>2. V[r] \subseteq W[r] /\ \A e \in V[r] \cup I[r] \cup A[r] : e.target = r /\ e \in Event
    BY <1>0, <1>1 DEF Addressed
  <2>3. Following(A[r], G)
    <3>1. CASE r = s
      BY <1>2, <2>1, <3>1 DEF Following
    <3>2. CASE r # s
      BY <1>2, <2>2, <3>2 DEF Following, Precedes
    <3> QED
      BY <3>1, <3>2
  <2>4. Following(G, V[r])
    <3> SUFFICES ASSUME NEW a \in G, NEW b \in V[r] PROVE Precedes(a, b)
      BY DEF Following
    <3>1. CASE r # s
      BY <1>2, <2>2, <3>1 DEF Precedes
    <3>2. CASE r = s
      <4>1. a.target_tick \in Nat /\ b.target_tick \in Nat /\ t[s] \in Nat
        BY <1>0, <1>2, <2>2, EventFields DEF Punctual
      <4>2. a.target_tick <= t[s] /\ ~(b.target_tick <= t[s])
        BY <1>1, <3>2
      <4> QED
        BY <4>1, <4>2 DEF Precedes
    <3> QED
      BY <3>1, <3>2
  <2>5. Following(G, I[r])
    <3> SUFFICES ASSUME NEW a \in G, NEW b \in I[r] PROVE Precedes(a, b)
      BY DEF Following
    <3>1. CASE r # s
      BY <1>2, <2>2, <3>1 DEF Precedes
    <3>2. CASE r = s
      <4>1. a.id \in Nat /\ a.id < b.id
        BY <1>2, <2>1, <3>2, EventFields DEF SentSooner
      <4> QED
        BY <4>1 DEF Precedes
    <3> QED
      BY <3>1, <3>2
  <2> QED
    BY <2>1, <2>2, <2>3, <2>4, <2>5 DEF Following, SentSooner
<1>6. Punctual(A, B \cup G, t)
  BY <1>0, <1>2 DEF Punctual
<1> QED
  BY <1>0, <1>2, <1>3, <1>4, <1>5, <1>6 DEF Flow

\* The events of the buffer are applied.
LEMMA FlowApplied ==
    ASSUME NEW A, NEW B, NEW W, NEW I, NEW D, NEW t, NEW n, Flow(A, B, W, I, D, t, n),
           NEW C, C = [s \in Targets |-> A[s] \cup {e \in B : e.target = s}]
    PROVE  Flow(C, {}, W, I, D, t, n)
<1>0. /\ Addressed(A, W, I) /\ InStages(A, B, W, I) /\ D \cap Live(A, B, W, I) = {}
      /\ B \in SUBSET Event /\ D \in SUBSET Event /\ Punctual(A, B, t)
      /\ Numbered(D \cup Live(A, B, W, I), n)
  BY DEF Flow
<1>1. /\ C \in [Targets -> SUBSET Event]
      /\ \A s \in Targets : \A e : e \in C[s] <=> e \in A[s] \/ (e \in B /\ e.target = s)
  BY <1>0 DEF Addressed
<1>2. \A e \in B : e.target \in Targets
  BY <1>0, EventFields
<1>3. Live(C, {}, W, I) = Live(A, B, W, I)
  <2>1. \A e : e \in Live(C, {}, W, I) <=> e \in Live(A, B, W, I)
    BY <1>1, <1>2, LiveIn
  <2> QED
    BY <2>1
<1>4. Addressed(C, W, I)
  BY <1>0, <1>1 DEF Addressed
<1>5. InStages(C, {}, W, I)
  BY <1>0, <1>1 DEF InStages, Following
<1>6. Punctual(C, {}, t)
  BY <1>0, <1>1 DEF Punctual
<1> QED
  BY <1>0, <1>3, <1>4, <1>5, <1>6 DEF Flow

\* Time passes at a station.
LEMMA FlowTicked ==
    ASSUME NEW A, NEW B, NEW W, NEW I, NEW D, NEW t, NEW n, Flow(A, B, W, I, D, t, n),
           NEW s \in Targets, NEW u, u = [t EXCEPT ![s] = @ + 1]
    PROVE  Flow(A, B, W, I, D, u, n)
<1>0. Addressed(A, W, I) /\ B \in SUBSET Event /\ Punctual(A, B, t)
  BY DEF Flow
<1>1. u \in [Targets -> Nat] /\ t \in [Targets -> Nat] /\ \A r \in Targets : t[r] <= u[r]
  BY <1>0 DEF Punctual
<1>2. ASSUME NEW e \in Event, NEW r \in Targets, e.target_tick <= t[r]
      PROVE  e.target_tick <= u[r]
  BY <1>1, <1>2, EventFields
<1>3. \A r \in Targets : A[r] \subseteq Event
  BY <1>0 DEF Addressed
<1>4. \A e \in B : e \in Event /\ e.target \in Targets
  BY <1>0, EventFields
<1>5. Punctual(A, B, u)
  BY <1>0, <1>1, <1>2, <1>3, <1>4 DEF Punctual
<1> QED
  BY <1>5 DEF Flow
-----------------------------------------------------------------------------
(* Queues. *)

\* Pairs of events in an order they may be applied in, and packets whose events
\* are in the order they were sent in.
EventOrder == {x \in Event \X Event : Precedes(x[1], x[2])}
SentOrder == {x \in Packet \X Packet : x[1] \in Event /\ x[2] \in Event => x[1].id < x[2].id}

\* What a queue of the router holds at most.
QueueBound(p) == IF p = "BestEffort" /\ Limits[p] = 0 THEN 1 ELSE Limits[p]

\* One queue of a station.
OneQueueSound(queue, s, p) ==
    /\ queue \in Seq(Event) /\ Len(queue) <= QueueBound(p)
    /\ Chained(queue, EventOrder)
    /\ \A e \in ToSet(queue) : e.target = s /\ e.priority = p

\* The queues of a station hold its events, each of its priority, in their order.
QueuesSound(q, s) ==
    /\ q \in Queues
    /\ \A p \in Priorities : OneQueueSound(q[p], s, p)

\* In terms of pairs.
LEMMA OrderPairs ==
    /\ \A U, V \in SUBSET Event : Linked(U, V, EventOrder) <=> Following(U, V)
    /\ \A a, b \in Event : <<a, b>> \in EventOrder <=> Precedes(a, b)
<1>1. \A a, b \in Event : <<a, b>> \in EventOrder <=> Precedes(a, b)
  BY DEF EventOrder
<1> QED
  BY <1>1 DEF Linked, Following

\* The limits of the queues.
LEMMA QueueLimits ==
    \A p \in Priorities : Limits[p] \in Nat /\ QueueBound(p) \in Nat
BY EventAssumption DEF QueueBound

\* An event is in the queue of its priority.
LEMMA HeldIn ==
    ASSUME NEW s, NEW q, QueuesSound(q, s)
    PROVE  /\ Held(q) \subseteq Event
           /\ \A e \in Event : e \in Held(q) <=> e \in ToSet(q[e.priority])
           /\ \A p \in Priorities : ToSet(q[p]) \subseteq Held(q)
           /\ \A e \in Held(q) : e.target = s
<1>1. \A e : e \in Held(q) <=> \E p \in Priorities : e \in ToSet(q[p])
  BY DEF Held
<1>2. \A p \in Priorities : /\ ToSet(q[p]) \subseteq Event
                            /\ \A e \in ToSet(q[p]) : e.target = s /\ e.priority = p
  BY ElementsOf DEF QueuesSound, OneQueueSound
<1>3. \A e \in Event : e.priority \in Priorities
  BY EventFields
<1> QED
  BY <1>1, <1>2, <1>3

\* Before a queue takes one more it may drop its head: what is kept, and gone.
MakesRoom(queue, p, kept, gone) ==
    \/ kept = queue /\ gone = {} /\ Len(queue) < QueueBound(p)
    \/ queue # <<>> /\ kept = Tail(queue) /\ gone = {Head(queue)}

\* A queue that takes an event.
LEMMA QueueTakes ==
    ASSUME NEW s \in Targets, NEW p \in Priorities, NEW queue, OneQueueSound(queue, s, p),
           NEW x \in Event, x.target = s, x.priority = p,
           \A e \in ToSet(queue) : e.id < x.id,
           NEW kept, NEW gone, MakesRoom(queue, p, kept, gone)
    PROVE  /\ OneQueueSound(Append(kept, x), s, p)
           /\ gone \subseteq ToSet(queue) /\ gone \cap ToSet(kept) = {}
           /\ ToSet(Append(kept, x)) = (ToSet(queue) \ gone) \cup {x}
<1>0. /\ queue \in Seq(Event) /\ Len(queue) <= QueueBound(p) /\ Len(queue) \in Nat
      /\ Chained(queue, EventOrder) /\ QueueBound(p) \in Nat
      /\ \A e \in ToSet(queue) : e.target = s /\ e.priority = p /\ e \in Event
  BY QueueLimits, ElementsOf DEF OneQueueSound
<1>1. /\ kept \in Seq(Event) /\ Len(kept) + 1 <= QueueBound(p) /\ Chained(kept, EventOrder)
      /\ gone \subseteq ToSet(queue) /\ gone \cap ToSet(kept) = {}
      /\ ToSet(queue) = gone \cup ToSet(kept)
  <2>1. CASE kept = queue /\ gone = {} /\ Len(queue) < QueueBound(p)
    BY <1>0, <2>1
  <2>2. CASE queue # <<>> /\ kept = Tail(queue) /\ gone = {Head(queue)}
    <3>1. /\ Tail(queue) \in Seq(Event) /\ Chained(Tail(queue), EventOrder)
          /\ ToSet(queue) = {Head(queue)} \cup ToSet(Tail(queue))
          /\ \A b \in ToSet(Tail(queue)) : <<Head(queue), b>> \in EventOrder
      BY <1>0, <2>2, ChainTail
    <3>2. Len(Tail(queue)) = Len(queue) - 1
      BY <1>0, <2>2, RemainingEntries
    <3>3. Head(queue) \in ToSet(queue) /\ ToSet(Tail(queue)) \subseteq ToSet(queue)
      BY <3>1
    <3>4. Head(queue) \notin ToSet(Tail(queue))
      BY <1>0, <3>1, <3>3, OrderPairs DEF Precedes
    <3>5. PICK rest, head : rest = Tail(queue) /\ head = Head(queue)
      OBVIOUS
    <3>6. Len(rest) = Len(queue) - 1
      BY ONLY <3>2, <3>5
    <3>7. Len(rest) + 1 <= QueueBound(p)
      BY <1>0, <3>6
    <3>8. /\ rest \in Seq(Event) /\ Chained(rest, EventOrder)
          /\ ToSet(queue) = {head} \cup ToSet(rest) /\ head \notin ToSet(rest)
      BY ONLY <3>1, <3>4, <3>5
    <3>9. kept = rest /\ gone = {head}
      BY ONLY <2>2, <3>5
    <3> QED
      BY ONLY <3>7, <3>8, <3>9
  <2> QED
    BY <2>1, <2>2 DEF MakesRoom
<1>2. \A a \in ToSet(kept) : <<a, x>> \in EventOrder
  BY <1>0, <1>1, OrderPairs, EventFields DEF Precedes
<1>3. /\ Append(kept, x) \in Seq(Event) /\ Len(Append(kept, x)) = Len(kept) + 1
      /\ Chained(Append(kept, x), EventOrder)
      /\ ToSet(Append(kept, x)) = ToSet(kept) \cup {x}
  BY <1>1, <1>2, ChainAppend
<1>4. ToSet(Append(kept, x)) = (ToSet(queue) \ gone) \cup {x}
  BY <1>1, <1>3
<1> QED
  BY <1>0, <1>1, <1>3, <1>4 DEF OneQueueSound

\* push: the event waits behind those of its priority, of which a best-effort one
\* may have made room.
LEMMA PushKeeps ==
    ASSUME NEW s \in Targets, NEW q, QueuesSound(q, s), NEW x \in Event, x.target = s,
           ~Refuses(q, x), \A e \in Held(q) : e.id < x.id
    PROVE  /\ QueuesSound(Pushed(q, x), s)
           /\ Evicted(q, x) \subseteq Held(q)
           /\ Held(Pushed(q, x)) = (Held(q) \ Evicted(q, x)) \cup {x}
           /\ \A e \in Evicted(q, x) : e.priority = "BestEffort"
<1> DEFINE p == x.priority
           kept == IF Evicted(q, x) = {} THEN q[p] ELSE Tail(q[p])
<1>0. p \in Priorities /\ q \in Queues /\ OneQueueSound(q[p], s, p)
      /\ Limits[p] \in Nat /\ Len(q[p]) \in Nat
  BY EventFields, QueueLimits DEF QueuesSound, OneQueueSound
<1>1. \/ kept = q[p] /\ Evicted(q, x) = {} /\ Len(q[p]) < QueueBound(p)
      \/ q[p] # <<>> /\ kept = Tail(q[p]) /\ Evicted(q, x) = {Head(q[p])} /\ p = "BestEffort"
  <2>1. CASE p = "BestEffort"
    <3>1. CASE Full(q, p) /\ q[p] # <<>>
      BY <2>1, <3>1 DEF Evicted
    <3>2. CASE ~Full(q, p)
      <4>1. Evicted(q, x) = {} /\ Len(q[p]) < Limits[p]
        BY <1>0, <2>1, <3>2 DEF Evicted, Full
      <4>2. Limits[p] # 0
        BY <1>0, <4>1
      <4> QED
        BY <1>0, <4>1, <4>2 DEF QueueBound
    <3>3. CASE Full(q, p) /\ q[p] = <<>>
      <4>1. Evicted(q, x) = {} /\ Limits[p] = 0 /\ Len(q[p]) = 0
        BY <1>0, <2>1, <3>3 DEF Evicted, Full
      <4> QED
        BY <2>1, <4>1 DEF QueueBound
    <3> QED
      BY <3>1, <3>2, <3>3
  <2>2. CASE p # "BestEffort"
    <3>1. p \in Reliable /\ Evicted(q, x) = {}
      BY <1>0, <2>2 DEF Priorities, Reliable, Evicted
    <3>2. Len(q[p]) < Limits[p]
      BY <1>0, <3>1 DEF Refuses, Full
    <3> QED
      BY <2>2, <3>1, <3>2 DEF QueueBound
  <2> QED
    BY <2>1, <2>2
<1>2. Pushed(q, x) = [q EXCEPT ![p] = Append(kept, x)]
  BY DEF Pushed
<1>3. \A e \in ToSet(q[p]) : e.id < x.id
  BY <1>0, HeldIn
<1>4. PICK k : k = kept
  OBVIOUS
<1>5. PICK gone : gone = Evicted(q, x)
  OBVIOUS
<1>6. \/ k = q[p] /\ gone = {} /\ Len(q[p]) < QueueBound(p)
      \/ q[p] # <<>> /\ k = Tail(q[p]) /\ gone = {Head(q[p])} /\ p = "BestEffort"
  BY <1>1, <1>4, <1>5
<1>7. Pushed(q, x) = [q EXCEPT ![p] = Append(k, x)]
  BY <1>2, <1>4
<1> HIDE DEF kept, p
<1>8. /\ OneQueueSound(Append(k, x), s, p)
      /\ gone \subseteq ToSet(q[p])
      /\ ToSet(Append(k, x)) = (ToSet(q[p]) \ gone) \cup {x}
  <2>1. x.priority = p
    BY DEF p
  <2>2. MakesRoom(q[p], p, k, gone)
    BY <1>6 DEF MakesRoom
  <2> QED
    BY <1>0, <1>3, <2>1, <2>2, QueueTakes
<1>9. QueuesSound(Pushed(q, x), s)
  <2>1. Append(k, x) \in Seq(Event)
    BY <1>8 DEF OneQueueSound
  <2>2. Pushed(q, x) \in Queues
    BY <1>0, <1>7, <2>1 DEF Queues
  <2>3. ASSUME NEW r \in Priorities PROVE OneQueueSound(Pushed(q, x)[r], s, r)
    <3>1. CASE r = p
      <4>1. Pushed(q, x)[r] = Append(k, x)
        BY <1>0, <1>7, <3>1 DEF Queues
      <4> QED
        BY <1>8, <3>1, <4>1
    <3>2. CASE r # p
      <4>1. Pushed(q, x)[r] = q[r]
        BY <1>0, <1>7, <3>2 DEF Queues
      <4> QED
        BY <4>1 DEF QueuesSound
    <3> QED
      BY <3>1, <3>2
  <2> QED
    BY <2>2, <2>3 DEF QueuesSound
<1>10. \A e \in gone : e \in ToSet(q[p]) /\ e.priority = p /\ p = "BestEffort"
  <2>1. \A e \in gone : p = "BestEffort"
    BY <1>6
  <2> QED
    BY <1>0, <1>8, <2>1 DEF OneQueueSound
<1>11. gone \subseteq Held(q)
  BY <1>0, <1>8, HeldIn
<1>12. Held(Pushed(q, x)) = (Held(q) \ gone) \cup {x}
  <2>1. \A e \in Event : e \in Held(q) <=> e \in ToSet(q[e.priority])
    BY HeldIn
  <2>2. \A e \in Event : e \in Held(Pushed(q, x)) <=> e \in ToSet(Pushed(q, x)[e.priority])
    BY <1>9, HeldIn
  <2>3. Held(q) \subseteq Event /\ Held(Pushed(q, x)) \subseteq Event
    BY <1>9, HeldIn
  <2>4. \A r \in Priorities : Pushed(q, x)[r] = IF r = p THEN Append(k, x) ELSE q[r]
    BY <1>0, <1>7 DEF Queues
  <2>5. x.priority = p
    BY DEF p
  <2>6. \A e \in Event : e.priority \in Priorities
    BY EventFields
  <2>7. ASSUME NEW e \in Event
        PROVE  e \in Held(Pushed(q, x)) <=> e \in (Held(q) \ gone) \cup {x}
    <3>1. CASE e.priority = p
      BY <1>8, <2>1, <2>2, <2>4, <2>5, <2>6, <3>1
    <3>2. CASE e.priority # p
      BY <1>10, <2>1, <2>2, <2>4, <2>5, <2>6, <3>2
    <3> QED
      BY <3>1, <3>2
  <2> QED
    BY <2>3, <2>7
<1> QED
  BY <1>5, <1>9, <1>10, <1>11, <1>12

\* What is due of a queue and what is not, in the queue's order.
PartsSound(queue, t, s, p) ==
    /\ OneQueueSound(Delayed(queue, t), s, p)
    /\ \A e : e \in ToSet(Delayed(queue, t)) <=> e \in ToSet(queue) /\ ~IsReady(e, t)
    /\ Due(queue, t) \in Seq(Event) /\ Chained(Due(queue, t), EventOrder)
    /\ \A e : e \in ToSet(Due(queue, t)) <=> e \in ToSet(queue) /\ IsReady(e, t)

LEMMA DueOrNot ==
    ASSUME NEW s, NEW p \in Priorities, NEW queue, OneQueueSound(queue, s, p), NEW t \in Nat
    PROVE  PartsSound(queue, t, s, p)
<1> DEFINE ready == {i \in 1 .. Len(queue) : IsReady(queue[i], t)}
           later == {i \in 1 .. Len(queue) : ~IsReady(queue[i], t)}
<1>0. /\ queue \in Seq(Event) /\ Len(queue) \in Nat /\ Len(queue) <= QueueBound(p)
      /\ Chained(queue, EventOrder) /\ DOMAIN queue = 1 .. Len(queue)
      /\ \A e \in ToSet(queue) : e.target = s /\ e.priority = p
      /\ \A e : e \in ToSet(queue) <=> \E i \in 1 .. Len(queue) : queue[i] = e
  BY ElementsOf DEF OneQueueSound
<1>1. /\ ready \in SUBSET (1 .. Len(queue)) /\ later \in SUBSET (1 .. Len(queue))
      /\ Due(queue, t) = Picked(queue, ready) /\ Delayed(queue, t) = Picked(queue, later)
  BY <1>0 DEF Due, Delayed
<1>2. /\ \A e : e \in {queue[i] : i \in ready} <=> e \in ToSet(queue) /\ IsReady(e, t)
      /\ \A e : e \in {queue[i] : i \in later} <=> e \in ToSet(queue) /\ ~IsReady(e, t)
  BY <1>0
<1>3. Cardinality(later) <= Len(queue) /\ Cardinality(later) \in Nat
  <2>1. IsFiniteSet(1 .. Len(queue)) /\ Cardinality(1 .. Len(queue)) = Len(queue)
    <3>1. PICK n \in Nat : n = Len(queue)
      BY <1>0
    <3>2. 1 \in Int /\ n \in Int /\ (IF 1 > n THEN 0 ELSE n - 1 + 1) = n
      BY ONLY n \in Nat
    <3>3. /\ IsFiniteSet(1 .. n)
          /\ Cardinality(1 .. n) = IF 1 > n THEN 0 ELSE n - 1 + 1
      BY ONLY <3>2, FS_Interval
    <3> QED
      BY ONLY <3>1, <3>2, <3>3
  <2> HIDE DEF later
  <2>2. IsFiniteSet(later) /\ Cardinality(later) <= Cardinality(1 .. Len(queue))
    BY <1>1, <2>1, FS_Subset
  <2> QED
    BY <2>1, <2>2, FS_CardinalityType
<1> HIDE DEF ready, later
<1>4. /\ Picked(queue, later) \in Seq(Event) /\ Chained(Picked(queue, later), EventOrder)
      /\ Len(Picked(queue, later)) = Cardinality(later)
      /\ ToSet(Picked(queue, later)) = {queue[i] : i \in later}
  BY <1>0, <1>1, ChainPicked
<1>5. /\ Picked(queue, ready) \in Seq(Event) /\ Chained(Picked(queue, ready), EventOrder)
      /\ ToSet(Picked(queue, ready)) = {queue[i] : i \in ready}
  BY <1>0, <1>1, ChainPicked
<1>6. \A e : e \in ToSet(Delayed(queue, t)) <=> e \in ToSet(queue) /\ ~IsReady(e, t)
  BY <1>1, <1>2, <1>4
<1>7. \A e : e \in ToSet(Due(queue, t)) <=> e \in ToSet(queue) /\ IsReady(e, t)
  BY <1>1, <1>2, <1>5
<1>8. Len(Delayed(queue, t)) <= QueueBound(p)
  <2>1. PICK a : a = Len(queue)
    OBVIOUS
  <2>2. PICK b : b = Cardinality(later)
    OBVIOUS
  <2>3. PICK c : c = QueueBound(p)
    OBVIOUS
  <2>4. c \in Nat
    BY <2>3, QueueLimits
  <2> QED
    BY <1>0, <1>1, <1>3, <1>4, <2>1, <2>2, <2>3, <2>4
<1>9. OneQueueSound(Delayed(queue, t), s, p)
  BY <1>0, <1>1, <1>4, <1>6, <1>8 DEF OneQueueSound
<1>10. Due(queue, t) \in Seq(Event) /\ Chained(Due(queue, t), EventOrder)
  BY ONLY <1>1, <1>5
<1> QED
  BY ONLY <1>6, <1>7, <1>9, <1>10 DEF PartsSound

\* drain_priority_ready of each queue: what the router keeps and what it hands
\* over, events of each priority in their order.
LEMMA DrainKeeps ==
    ASSUME NEW s, NEW q, QueuesSound(q, s), NEW t \in Nat
    PROVE  /\ QueuesSound(Retained(q, t), s)
           /\ Held(Retained(q, t)) = {e \in Held(q) : ~IsReady(e, t)}
           /\ Ready(q, t) \in Seq(Event) /\ Chained(Ready(q, t), EventOrder)
           /\ ToSet(Ready(q, t)) = {e \in Held(q) : IsReady(e, t)}
<1>0. q \in Queues /\ \A p \in Priorities : OneQueueSound(q[p], s, p)
  BY DEF QueuesSound
<1>1. \A p \in Priorities :
          /\ OneQueueSound(Delayed(q[p], t), s, p)
          /\ \A e : e \in ToSet(Delayed(q[p], t)) <=> e \in ToSet(q[p]) /\ ~IsReady(e, t)
          /\ Due(q[p], t) \in Seq(Event) /\ Chained(Due(q[p], t), EventOrder)
          /\ \A e : e \in ToSet(Due(q[p], t)) <=> e \in ToSet(q[p]) /\ IsReady(e, t)
  <2>1. \A p \in Priorities : PartsSound(q[p], t, s, p)
    BY <1>0, DueOrNot
  <2> QED
    BY ONLY <2>1 DEF PartsSound
<1>2. QueuesSound(Retained(q, t), s)
  <2>1. \A p \in Priorities : Retained(q, t)[p] = Delayed(q[p], t)
    BY DEF Retained
  <2>2. \A p \in Priorities : Delayed(q[p], t) \in Seq(Event)
    BY <1>1 DEF OneQueueSound
  <2>3. Retained(q, t) \in Queues
    BY ONLY <2>2 DEF Retained, Queues
  <2> QED
    BY <1>1, <2>1, <2>3 DEF QueuesSound
<1>3. \A e : e \in Held(q) <=> \E p \in Priorities : e \in ToSet(q[p])
  BY DEF Held
<1>4. Held(Retained(q, t)) = {e \in Held(q) : ~IsReady(e, t)}
  <2>1. \A e : e \in Held(Retained(q, t)) <=> \E p \in Priorities : e \in ToSet(Delayed(q[p], t))
    BY DEF Held, Retained
  <2>2. \A e : e \in Held(Retained(q, t)) <=> e \in Held(q) /\ ~IsReady(e, t)
    BY <1>1, <1>3, <2>1
  <2> QED
    BY <2>2
<1>5. PICK a, b, c : a = Due(q["Critical"], t) /\ b = Due(q["Important"], t)
                     /\ c = Due(q["BestEffort"], t)
  OBVIOUS
<1>6. /\ a \in Seq(Event) /\ b \in Seq(Event) /\ c \in Seq(Event)
      /\ Chained(a, EventOrder) /\ Chained(b, EventOrder) /\ Chained(c, EventOrder)
      /\ \A e : e \in ToSet(a) <=> e \in ToSet(q["Critical"]) /\ IsReady(e, t)
      /\ \A e : e \in ToSet(b) <=> e \in ToSet(q["Important"]) /\ IsReady(e, t)
      /\ \A e : e \in ToSet(c) <=> e \in ToSet(q["BestEffort"]) /\ IsReady(e, t)
  BY <1>1, <1>5 DEF Priorities
<1>7. /\ \A e \in ToSet(a) : e.priority = "Critical" /\ e \in Event
      /\ \A e \in ToSet(b) : e.priority = "Important" /\ e \in Event
      /\ \A e \in ToSet(c) : e.priority = "BestEffort" /\ e \in Event
  <2>1. \A p \in Priorities : \A e \in ToSet(q[p]) : e.priority = p /\ e \in Event
    BY <1>0, ElementsOf DEF OneQueueSound
  <2> QED
    BY <1>6, <2>1 DEF Priorities
<1>8. Linked(ToSet(a), ToSet(b), EventOrder)
  BY <1>7, OrderPairs DEF Linked, Precedes
<1>9. PICK ab : ab = a \o b
  OBVIOUS
<1>10. ab \in Seq(Event) /\ Chained(ab, EventOrder) /\ ToSet(ab) = ToSet(a) \cup ToSet(b)
  BY <1>6, <1>8, <1>9, ChainConcat
<1>11. Linked(ToSet(ab), ToSet(c), EventOrder)
  BY <1>7, <1>10, OrderPairs DEF Linked, Precedes
<1>12. PICK abc : abc = ab \o c
  OBVIOUS
<1>13. Ready(q, t) = abc
  BY ONLY <1>5, <1>9, <1>12 DEF Ready
<1>16. /\ abc \in Seq(Event) /\ Chained(abc, EventOrder)
       /\ ToSet(abc) = ToSet(ab) \cup ToSet(c)
  <2>1. c \in Seq(Event) /\ ab \in Seq(Event)
    BY ONLY <1>6, <1>10
  <2>2. Chained(c, EventOrder) /\ Chained(ab, EventOrder)
    BY ONLY <1>6, <1>10
  <2>3. /\ ab \o c \in Seq(Event)
        /\ Chained(ab \o c, EventOrder)
        /\ ToSet(ab \o c) = ToSet(ab) \cup ToSet(c)
    BY ONLY <2>1, <2>2, <1>11, ChainConcat, SMTT(60)
  <2> QED
    BY ONLY <2>3, <1>12
<1>14. ToSet(Ready(q, t)) = {e \in Held(q) : IsReady(e, t)}
  <2>1. \A e : e \in Held(q) <=> \/ e \in ToSet(q["Critical"])
                                \/ e \in ToSet(q["Important"])
                                \/ e \in ToSet(q["BestEffort"])
    BY ONLY <1>3 DEF Priorities
  <2>2. \A e : e \in ToSet(abc) <=> e \in Held(q) /\ IsReady(e, t)
    <3>1. ToSet(abc) = ToSet(a) \cup ToSet(b) \cup ToSet(c)
      BY ONLY <1>10, <1>16
    <3> QED
      BY ONLY <1>6, <2>1, <3>1
  <2> QED
    BY <1>13, <2>2
<1>15. Ready(q, t) \in Seq(Event) /\ Chained(Ready(q, t), EventOrder)
  BY ONLY <1>13, <1>16
<1> QED
  BY ONLY <1>2, <1>4, <1>14, <1>15
-----------------------------------------------------------------------------
(* The state. *)

\* The events of each station on their way: with the transport, in the router,
\* applied; and those that were lost.
Arriving(ib) == [s \in Targets |-> IF IsRegistered(ib, s) THEN EventsOf(ib[s]) ELSE {}]
Waiting(rt) == [s \in Targets |-> IF IsRegistered(rt, s) THEN Held(rt[s]) ELSE {}]
Done(ap) == [s \in Targets |-> ToSet(ap[s])]
Dead(l) == {x[1] : x \in l}

\* A queue of the transport has packets in the order they were sent in.
PacketsSound(packets) ==
    /\ packets \in Seq(Packet) /\ Len(packets) <= MaxQueued
    /\ Chained(packets, SentOrder)

\* Nothing is sent to a station of this process.
InboxSound(ib) ==
    /\ ib \in [Targets -> Seq(Packet) \cup {NoQueue}]
    /\ \A s \in Targets : IsRegistered(ib, s) => PacketsSound(ib[s])
    /\ \A s \in Local : ib[s] = <<>>

RouterSound(rt) ==
    /\ rt \in [Targets -> Queues \cup {NoQueue}]
    /\ \A s \in Targets : IsRegistered(rt, s) => QueuesSound(rt[s], s)

BufferSound(batch) == batch \in Seq(Event) /\ Chained(batch, EventOrder)

AppliedSound(ap) == ap \in [Targets -> Seq(Event)] /\ \A s \in Targets : BufferSound(ap[s])

\* An event is lost to one cause.
LostSound(l) ==
    /\ l \subseteq Event \X Cause
    /\ \A x, y \in l : x[1] = y[1] => x = y
    /\ \A x \in l : x[2] = "evicted" => x[1].priority = "BestEffort"

\* What holds between two steps.
EventsInv ==
    /\ tick \in [Targets -> 0 .. MaxTick] /\ failed \in BOOLEAN /\ sent \in 0 .. MaxEvents
    /\ InboxSound(inbox) /\ RouterSound(router) /\ BufferSound(events)
    /\ AppliedSound(applied) /\ LostSound(lost)
    /\ Flow(Done(applied), ToSet(events), Waiting(router), Arriving(inbox), Dead(lost),
            tick, sent)

\* A packet is an event or not.
LEMMA PacketKinds ==
    /\ Foreign \in Packet /\ Event \subseteq Packet
    /\ \A x \in Packet : x \in Event <=> x # Foreign
    /\ \A packets \in Seq(Packet) : EventsOf(packets) = ToSet(packets) \cap Event
<1>1. /\ Foreign \in Packet /\ Event \subseteq Packet
      /\ \A x \in Packet : x \in Event <=> x # Foreign
  BY TrafficAssumption DEF Packet
<1>2. \A packets \in Seq(Packet) : ToSet(packets) \subseteq Packet
  BY ElementsOf
<1> QED
  BY <1>1, <1>2 DEF EventsOf

\* The queue of a registered station is one.
LEMMA InboxQueue ==
    ASSUME NEW ib, InboxSound(ib), NEW s \in Targets
    PROVE  /\ IsRegistered(ib, s) => /\ PacketsSound(ib[s]) /\ ib[s] \in Seq(Packet)
                                     /\ Arriving(ib)[s] = EventsOf(ib[s])
           /\ ~IsRegistered(ib, s) => Arriving(ib)[s] = {}
           /\ ib[s] \in Seq(Packet) => IsRegistered(ib, s)
           /\ s \in Local => Arriving(ib)[s] = {}
<1>1. /\ IsRegistered(ib, s) => PacketsSound(ib[s]) /\ ib[s] \in Seq(Packet)
      /\ s \in Local => ib[s] = <<>>
  BY DEF InboxSound, PacketsSound
<1>2. Arriving(ib)[s] = IF IsRegistered(ib, s) THEN EventsOf(ib[s]) ELSE {}
  BY DEF Arriving
<1>3. ib[s] \in Seq(Packet) => IsRegistered(ib, s)
  BY NoQueueAssumption DEF IsRegistered
<1>4. EventsOf(<<>>) = {}
  BY DEF EventsOf, ToSet
<1> QED
  BY <1>1, <1>2, <1>3, <1>4

\* A station's queue is replaced.
LEMMA InboxChanges ==
    ASSUME NEW ib, InboxSound(ib), NEW s \in Targets \ Local,
           NEW packets, PacketsSound(packets) \/ packets = NoQueue,
           NEW ic, ic = [ib EXCEPT ![s] = packets]
    PROVE  /\ InboxSound(ic)
           /\ packets = NoQueue => Becomes(Arriving(ib), s, {}, Arriving(ic))
           /\ packets # NoQueue => Becomes(Arriving(ib), s, EventsOf(packets), Arriving(ic))
<1>1. /\ ib \in [Targets -> Seq(Packet) \cup {NoQueue}] /\ \A r \in Local : ib[r] = <<>>
      /\ \A r \in Targets : IsRegistered(ib, r) => PacketsSound(ib[r])
  BY DEF InboxSound
<1>2. packets \in Seq(Packet) \cup {NoQueue}
  BY DEF PacketsSound
<1>3. /\ ic \in [Targets -> Seq(Packet) \cup {NoQueue}] /\ ic[s] = packets
      /\ \A r \in Targets : r # s => ic[r] = ib[r]
  BY <1>1, <1>2
<1>4. \A r \in Local : r \in Targets /\ r # s
  BY TrafficAssumption
<1>5. \A r \in Targets : IsRegistered(ic, r) => PacketsSound(ic[r])
  BY <1>1, <1>3 DEF IsRegistered
<1>6. InboxSound(ic)
  BY <1>1, <1>3, <1>4, <1>5 DEF InboxSound
<1>7. ASSUME NEW r \in Targets
      PROVE  (IF IsRegistered(ic, r) THEN EventsOf(ic[r]) ELSE {}) =
                IF r = s THEN (IF packets = NoQueue THEN {} ELSE EventsOf(packets))
                ELSE (IF IsRegistered(ib, r) THEN EventsOf(ib[r]) ELSE {})
  <2>1. CASE r = s
    BY <1>3, <2>1 DEF IsRegistered
  <2>2. CASE r # s
    BY <1>3, <2>2 DEF IsRegistered
  <2> QED
    BY <2>1, <2>2
<1>8. Arriving(ic) = [Arriving(ib) EXCEPT ![s] = IF packets = NoQueue THEN {} ELSE EventsOf(packets)]
  BY <1>7 DEF Arriving
<1> QED
  BY <1>6, <1>8 DEF Becomes

\* send_station: a packet joins the queue of its station.
LEMMA InboxSends ==
    ASSUME NEW ib, InboxSound(ib), NEW s \in Targets \ Local, CanSend(ib, s),
           NEW x \in Packet, x \in Event => \A e \in Arriving(ib)[s] : e.id < x.id
    PROVE  /\ InboxSound(Sent(ib, s, x))
           /\ x \in Event => Joins(Arriving(ib), s, x, Arriving(Sent(ib, s, x)))
           /\ x \notin Event => Arriving(Sent(ib, s, x)) = Arriving(ib)
<1>0. PICK queue : queue = ib[s]
  OBVIOUS
<1>1. /\ queue \in Seq(Packet) /\ Chained(queue, SentOrder) /\ Len(queue) < MaxQueued
      /\ Arriving(ib)[s] = EventsOf(queue) /\ Len(queue) \in Nat
  BY <1>0, InboxQueue DEF CanSend, PacketsSound
<1>2. \A a \in ToSet(queue) : <<a, x>> \in SentOrder
  <2> SUFFICES ASSUME NEW a \in ToSet(queue) PROVE <<a, x>> \in SentOrder
    OBVIOUS
  <2>1. a \in Packet
    BY <1>1, ElementsOf
  <2>2. a \in Event /\ x \in Event => a.id < x.id
    BY <1>1, PacketKinds
  <2> QED
    BY <2>1, <2>2 DEF SentOrder
<1>3. PICK longer : longer = Append(queue, x)
  OBVIOUS
<1>4. /\ longer \in Seq(Packet) /\ Len(longer) = Len(queue) + 1 /\ Chained(longer, SentOrder)
      /\ ToSet(longer) = ToSet(queue) \cup {x}
  BY <1>1, <1>2, <1>3, ChainAppend
<1>5. PacketsSound(longer)
  BY <1>1, <1>4, TransportAssumption DEF PacketsSound
<1>6. /\ x \in Event => EventsOf(longer) = EventsOf(queue) \cup {x}
      /\ x \notin Event => EventsOf(longer) = EventsOf(queue)
  BY <1>1, <1>4, PacketKinds
<1>7. longer # NoQueue
  BY <1>4, NoQueueAssumption
<1>8. Sent(ib, s, x) = [ib EXCEPT ![s] = longer]
  BY <1>0, <1>3 DEF Sent
<1>9. PICK ic : ic = Sent(ib, s, x)
  OBVIOUS
<1>10. InboxSound(ic) /\ Arriving(ic) = [Arriving(ib) EXCEPT ![s] = EventsOf(longer)]
  <2>1. ic = [ib EXCEPT ![s] = longer]
    BY <1>8, <1>9
  <2>2. /\ InboxSound(ic)
        /\ longer # NoQueue => Becomes(Arriving(ib), s, EventsOf(longer), Arriving(ic))
    BY <1>5, <2>1, InboxChanges
  <2> QED
    BY <1>7, <2>2 DEF Becomes
<1>11. x \in Event => Joins(Arriving(ib), s, x, Arriving(ic))
  BY <1>1, <1>6, <1>10 DEF Joins
<1>12. x \notin Event => Arriving(ic) = Arriving(ib)
  BY <1>1, <1>6, <1>10 DEF Arriving
<1> QED
  BY <1>9, <1>10, <1>11, <1>12

\* The events of a queue behind its first n packets.
Behind(packets, n) == {packets[i] : i \in n + 1 .. Len(packets)} \cap Event

\* try_recv_station: the first packets of a queue are gone, and their events.
LEMMA InboxReceives ==
    ASSUME NEW ib, InboxSound(ib), NEW s \in Targets \ Local, IsRegistered(ib, s),
           NEW n \in 0 .. Len(ib[s])
    PROVE  /\ InboxSound(AfterReceiving(ib, s, n))
           /\ IsRegistered(AfterReceiving(ib, s, n), s)
           /\ Becomes(Arriving(ib), s, Behind(ib[s], n), Arriving(AfterReceiving(ib, s, n)))
<1>0. PICK queue : queue = ib[s]
  OBVIOUS
<1>1. /\ queue \in Seq(Packet) /\ Chained(queue, SentOrder) /\ Len(queue) <= MaxQueued
      /\ Len(queue) \in Nat /\ n \in 0 .. Len(queue)
  BY <1>0, InboxQueue DEF PacketsSound
<1>2. PICK rest : rest = SubSeq(queue, n + 1, Len(queue))
  OBVIOUS
<1>3. /\ rest \in Seq(Packet) /\ Len(rest) <= Len(queue) /\ Chained(rest, SentOrder)
      /\ ToSet(rest) = {queue[i] : i \in n + 1 .. Len(queue)}
  BY <1>1, <1>2, ChainDrop
<1>4. PacketsSound(rest)
  BY <1>1, <1>3, TransportAssumption DEF PacketsSound
<1>5. EventsOf(rest) = ToSet(rest) \cap Event
  BY <1>3, PacketKinds
<1>6. rest # NoQueue
  BY <1>3, NoQueueAssumption
<1>7. PICK ic : ic = AfterReceiving(ib, s, n)
  OBVIOUS
<1>8. ic = [ib EXCEPT ![s] = rest]
  BY <1>0, <1>2, <1>7 DEF AfterReceiving
<1>9. /\ InboxSound(ic)
      /\ rest # NoQueue => Becomes(Arriving(ib), s, EventsOf(rest), Arriving(ic))
  BY <1>4, <1>8, InboxChanges
<1>10. ic[s] = rest
  <2>1. ib \in [Targets -> Seq(Packet) \cup {NoQueue}] /\ s \in Targets
    BY DEF InboxSound
  <2> QED
    BY ONLY <1>8, <2>1
<1>11. Becomes(Arriving(ib), s, Behind(queue, n), Arriving(ic))
  <2>1. EventsOf(rest) = Behind(queue, n)
    BY ONLY <1>3, <1>5 DEF Behind
  <2> QED
    BY <1>6, <1>9, <2>1
<1>12. IsRegistered(ic, s)
  BY ONLY <1>6, <1>10 DEF IsRegistered
<1> QED
  BY ONLY <1>0, <1>7, <1>9, <1>11, <1>12

\* The queues of a station of the router are replaced.
LEMMA RouterChanges ==
    ASSUME NEW rt, RouterSound(rt), NEW s \in Targets,
           NEW q, QueuesSound(q, s) \/ q = NoQueue, NEW ru, ru = [rt EXCEPT ![s] = q]
    PROVE  /\ RouterSound(ru)
           /\ q = NoQueue => Becomes(Waiting(rt), s, {}, Waiting(ru))
           /\ q # NoQueue => Becomes(Waiting(rt), s, Held(q), Waiting(ru))
<1>1. /\ rt \in [Targets -> Queues \cup {NoQueue}]
      /\ \A r \in Targets : IsRegistered(rt, r) => QueuesSound(rt[r], r)
  BY DEF RouterSound
<1>2. q \in Queues \cup {NoQueue}
  BY DEF QueuesSound
<1>3. /\ ru \in [Targets -> Queues \cup {NoQueue}] /\ ru[s] = q
      /\ \A r \in Targets : r # s => ru[r] = rt[r]
  BY <1>1, <1>2
<1>4. \A r \in Targets : IsRegistered(ru, r) => QueuesSound(ru[r], r)
  BY <1>1, <1>3 DEF IsRegistered
<1>5. RouterSound(ru)
  BY <1>3, <1>4 DEF RouterSound
<1>6. ASSUME NEW r \in Targets
      PROVE  (IF IsRegistered(ru, r) THEN Held(ru[r]) ELSE {}) =
                IF r = s THEN (IF q = NoQueue THEN {} ELSE Held(q))
                ELSE (IF IsRegistered(rt, r) THEN Held(rt[r]) ELSE {})
  <2>1. CASE r = s
    BY <1>3, <2>1 DEF IsRegistered
  <2>2. CASE r # s
    BY <1>3, <2>2 DEF IsRegistered
  <2> QED
    BY <2>1, <2>2
<1>7. Waiting(ru) = [Waiting(rt) EXCEPT ![s] = IF q = NoQueue THEN {} ELSE Held(q)]
  BY <1>6 DEF Waiting
<1> QED
  BY <1>5, <1>7 DEF Becomes

\* The queues of a registered station are queues.
LEMMA RouterQueues ==
    ASSUME NEW rt, RouterSound(rt), NEW s \in Targets
    PROVE  /\ rt[s] # NoQueue => QueuesSound(rt[s], s) /\ Waiting(rt)[s] = Held(rt[s])
           /\ rt[s] = NoQueue => Waiting(rt)[s] = {}
           /\ QueuesSound(rt[s], s) => rt[s] # NoQueue
           /\ IsRegistered(rt, s) <=> rt[s] # NoQueue
           /\ Waiting(rt) \in [Targets -> SUBSET Event]
<1>1. \A r \in Targets : IsRegistered(rt, r) => QueuesSound(rt[r], r)
  BY DEF RouterSound
<1>2. QueuesSound(rt[s], s) => rt[s] # NoQueue
  BY NoQueueAssumption DEF QueuesSound
<1>3. Waiting(rt) \in [Targets -> SUBSET Event]
  <2>1. \A r \in Targets : IsRegistered(rt, r) => Held(rt[r]) \in SUBSET Event
    BY <1>1, HeldIn
  <2> QED
    BY <2>1 DEF Waiting
<1> QED
  BY <1>1, <1>2, <1>3 DEF Waiting, IsRegistered
-----------------------------------------------------------------------------
(* Pumping. *)

HeldBy(q) == IF q = NoQueue THEN {} ELSE Held(q)

PumpState ==
    [queues : Queues \cup {NoQueue}, taken : Nat, refused : SUBSET Event,
     evicted : SUBSET Event, failed : BOOLEAN]

\* The events of the pumped station are where the packets taken have brought them.
PumpFlow(pump, s, packets, A, B, W, I, D, t, n) ==
    \E V, J : /\ Becomes(W, s, HeldBy(pump.queues), V)
              /\ Becomes(I, s, Behind(packets, pump.taken), J)
              /\ Flow(A, B, V, J, D \cup pump.refused \cup pump.evicted, t, n)

\* A pump after k turns.
PumpSound(pump, s, packets, k, A, B, W, I, D, t, n) ==
    /\ pump \in PumpState /\ (pump.queues # NoQueue => QueuesSound(pump.queues, s))
    /\ pump.taken <= k /\ (~pump.failed => pump.taken = k)
    /\ pump.refused \cap pump.evicted = {} /\ D \cap (pump.refused \cup pump.evicted) = {}
    /\ \A e \in pump.evicted : e.priority = "BestEffort"
    /\ PumpFlow(pump, s, packets, A, B, W, I, D, t, n)

\* push keeps the queues typed.
LEMMA PushTyped ==
    ASSUME NEW q \in Queues, NEW x \in Event
    PROVE  Pushed(q, x) \in Queues /\ Evicted(q, x) \in SUBSET Event
<1>1. x.priority \in Priorities
  BY EventFields
<1>2. q[x.priority] \in Seq(Event) /\ q["BestEffort"] \in Seq(Event)
  BY <1>1 DEF Queues, Priorities
<1>3. q["BestEffort"] # <<>> => Head(q["BestEffort"]) \in Event /\ Tail(q["BestEffort"]) \in Seq(Event)
  BY <1>2, RemainingEntries
<1>4. Evicted(q, x) \in SUBSET Event
  BY <1>3 DEF Evicted
<1>5. Evicted(q, x) # {} => Tail(q[x.priority]) \in Seq(Event)
  BY <1>3 DEF Evicted
<1>6. PICK kept : kept = IF Evicted(q, x) = {} THEN q[x.priority] ELSE Tail(q[x.priority])
  OBVIOUS
<1>7. kept \in Seq(Event)
  BY <1>2, <1>5, <1>6
<1>8. Append(kept, x) \in Seq(Event)
  BY <1>7
<1>9. Pushed(q, x) = [q EXCEPT ![x.priority] = Append(kept, x)]
  BY <1>6 DEF Pushed
<1>10. Pushed(q, x) \in Queues
  BY <1>1, <1>8, <1>9 DEF Queues
<1> QED
  BY <1>4, <1>10

\* A pump stays one.
LEMMA TakenTyped ==
    ASSUME NEW pump \in PumpState, NEW packet \in Packet
    PROVE  Taken(pump, packet) \in PumpState
<1>0. /\ pump.queues \in Queues \cup {NoQueue} /\ pump.taken + 1 \in Nat
      /\ pump.refused \in SUBSET Event /\ pump.evicted \in SUBSET Event
  BY DEF PumpState
<1>1. CASE pump.failed \/ packet = Foreign
  BY <1>0, <1>1 DEF Taken, PumpState
<1>2. CASE ~pump.failed /\ packet # Foreign
  <2>1. packet \in Event
    BY <1>2, PacketKinds
  <2>2. CASE pump.queues = NoQueue \/ Refuses(pump.queues, packet)
    BY <1>0, <1>2, <2>1, <2>2 DEF Taken, PumpState
  <2>3. CASE ~(pump.queues = NoQueue \/ Refuses(pump.queues, packet))
    <3>1. Pushed(pump.queues, packet) \in Queues /\ Evicted(pump.queues, packet) \in SUBSET Event
      BY <1>0, <2>1, <2>3, PushTyped
    <3>2. Taken(pump, packet) = [pump EXCEPT !.queues = Pushed(@, packet), !.taken = @ + 1,
                                             !.evicted = @ \cup Evicted(pump.queues, packet)]
      BY <1>2, <2>3 DEF Taken
    <3> QED
      BY <1>0, <3>1, <3>2 DEF PumpState
  <2> QED
    BY <2>2, <2>3
<1> QED
  BY <1>1, <1>2

\* Behind a packet are the events behind it, sent after it.
LEMMA BehindNext ==
    ASSUME NEW packets \in Seq(Packet), Chained(packets, SentOrder),
           NEW k \in 0 .. Len(packets) - 1, NEW x, x = packets[k + 1]
    PROVE  /\ x \in Packet
           /\ Behind(packets, k) = Behind(packets, k + 1) \cup ({x} \cap Event)
           /\ x \in Event => \A e \in Behind(packets, k + 1) : x.id < e.id /\ e # x
<1>0. Len(packets) \in Nat /\ k \in Nat /\ k + 1 \in 1 .. Len(packets)
  OBVIOUS
<1>1. \A i : i \in k + 1 .. Len(packets) <=> i = k + 1 \/ i \in k + 1 + 1 .. Len(packets)
  BY <1>0
<1>2. Behind(packets, k) = Behind(packets, k + 1) \cup ({x} \cap Event)
  BY <1>1 DEF Behind
<1>3. ASSUME x \in Event, NEW e \in Behind(packets, k + 1) PROVE x.id < e.id /\ e # x
  <2>1. PICK i \in k + 1 + 1 .. Len(packets) : packets[i] = e
    BY DEF Behind
  <2>2. i \in 1 .. Len(packets) /\ k + 1 < i
    BY <1>0
  <2>3. <<x, e>> \in SentOrder
    BY <1>0, <2>1, <2>2 DEF Chained
  <2>4. x.id < e.id /\ x.id \in Nat
    BY <1>3, <2>3, EventFields DEF SentOrder, Behind
  <2> QED
    BY <2>4
<1> QED
  BY <1>0, <1>2, <1>3

\* A packet that is no event leaves the events where they are.
LEMMA TakenForeign ==
    ASSUME NEW pump, NEW s, NEW packets \in Seq(Packet), Chained(packets, SentOrder),
           NEW k \in 0 .. Len(packets) - 1,
           NEW A, NEW B, NEW W, NEW I, NEW D, NEW t, NEW n,
           PumpSound(pump, s, packets, k, A, B, W, I, D, t, n), ~pump.failed,
           packets[k + 1] = Foreign
    PROVE  PumpSound(Taken(pump, Foreign), s, packets, k + 1, A, B, W, I, D, t, n)
<1>0. pump \in PumpState /\ pump.taken = k /\ k \in Nat /\ k <= k + 1
  BY DEF PumpSound
<1>1. PICK after : after = Taken(pump, Foreign)
  OBVIOUS
<1>2. after = [pump EXCEPT !.failed = TRUE, !.taken = @ + 1]
  BY <1>1 DEF Taken
<1>3. /\ after \in PumpState /\ after.queues = pump.queues /\ after.taken = k + 1
      /\ after.refused = pump.refused /\ after.evicted = pump.evicted /\ after.failed = TRUE
  <2>1. after \in PumpState
    BY <1>0, <1>1, PacketKinds, TakenTyped
  <2>2. after.taken = pump.taken + 1
    BY ONLY <1>0, <1>2 DEF PumpState
  <2>3. /\ after.queues = pump.queues /\ after.refused = pump.refused
        /\ after.evicted = pump.evicted /\ after.failed = TRUE
    BY ONLY <1>0, <1>2 DEF PumpState
  <2> QED
    BY ONLY <1>0, <2>1, <2>2, <2>3
<1>4. Behind(packets, k) = Behind(packets, k + 1)
  <2>1. Behind(packets, k) = Behind(packets, k + 1) \cup ({Foreign} \cap Event)
    BY BehindNext
  <2> QED
    BY <2>1, PacketKinds
<1>5. PumpFlow(after, s, packets, A, B, W, I, D, t, n)
  BY <1>0, <1>3, <1>4 DEF PumpSound, PumpFlow
<1>6. PumpSound(after, s, packets, k + 1, A, B, W, I, D, t, n)
  BY <1>0, <1>3, <1>5 DEF PumpSound
<1> QED
  BY <1>1, <1>6

\* An event that is refused is lost.
LEMMA TakenRefused ==
    ASSUME NEW pump, NEW s \in Targets, NEW packets \in Seq(Packet), Chained(packets, SentOrder),
           NEW k \in 0 .. Len(packets) - 1,
           NEW A, NEW B, NEW W \in [Targets -> SUBSET Event], NEW I \in [Targets -> SUBSET Event],
           NEW D, NEW t, NEW n,
           PumpSound(pump, s, packets, k, A, B, W, I, D, t, n), ~pump.failed,
           NEW x \in Event, packets[k + 1] = x,
           pump.queues = NoQueue \/ Refuses(pump.queues, x)
    PROVE  PumpSound(Taken(pump, x), s, packets, k + 1, A, B, W, I, D, t, n)
<1>0. /\ pump \in PumpState /\ pump.taken = k /\ k \in Nat /\ k + 1 <= k + 1
      /\ pump.refused \cap pump.evicted = {} /\ D \cap (pump.refused \cup pump.evicted) = {}
  BY DEF PumpSound
<1>1. PICK after : after = Taken(pump, x)
  OBVIOUS
<1>2. after = [pump EXCEPT !.failed = TRUE, !.taken = @ + 1, !.refused = @ \cup {x}]
  <2>1. x # Foreign
    BY TrafficAssumption
  <2> QED
    BY <1>1, <2>1 DEF Taken
<1>3. /\ after \in PumpState /\ after.queues = pump.queues /\ after.taken = k + 1
      /\ after.refused = pump.refused \cup {x} /\ after.evicted = pump.evicted /\ after.failed = TRUE
  <2>1. after \in PumpState
    BY <1>0, <1>1, PacketKinds, TakenTyped
  <2>2. after.taken = pump.taken + 1
    BY ONLY <1>0, <1>2 DEF PumpState
  <2>3. /\ after.queues = pump.queues /\ after.refused = pump.refused \cup {x}
        /\ after.evicted = pump.evicted /\ after.failed = TRUE
    BY ONLY <1>0, <1>2 DEF PumpState
  <2> QED
    BY ONLY <1>0, <2>1, <2>2, <2>3
<1>4. PICK V, J : /\ Becomes(W, s, HeldBy(pump.queues), V)
                  /\ Becomes(I, s, Behind(packets, k), J)
                  /\ Flow(A, B, V, J, D \cup pump.refused \cup pump.evicted, t, n)
  BY <1>0 DEF PumpSound, PumpFlow
<1>5. /\ Behind(packets, k) = Behind(packets, k + 1) \cup ({x} \cap Event)
      /\ \A e \in Behind(packets, k + 1) : e # x
  BY BehindNext
<1>6. PICK K : Leaves(J, s, {x}, K)
  BY DEF Leaves
<1>7. J[s] = Behind(packets, k) /\ Becomes(I, s, Behind(packets, k + 1), K)
  <2>1. J[s] = Behind(packets, k)
    BY <1>4 DEF Becomes
  <2>2. K = [I EXCEPT ![s] = Behind(packets, k) \ {x}]
    BY ONLY <1>4, <1>6, <2>1, s \in Targets, I \in [Targets -> SUBSET Event] DEF Becomes, Leaves
  <2>3. Behind(packets, k) \ {x} = Behind(packets, k + 1)
    BY <1>5
  <2> QED
    BY <2>1, <2>2, <2>3 DEF Becomes
<1>8. Leaves(V, s, {}, V)
  <2>1. V = [W EXCEPT ![s] = HeldBy(pump.queues)]
    BY <1>4 DEF Becomes
  <2>2. V[s] = HeldBy(pump.queues) /\ V[s] \ {} = V[s]
    BY <2>1
  <2> QED
    BY <2>1, <2>2 DEF Leaves
<1>9. PICK lostBefore : lostBefore = D \cup pump.refused \cup pump.evicted
  OBVIOUS
<1>10. {x} \subseteq J[s]
  BY <1>5, <1>7
<1>11. Flow(A, B, V, K, lostBefore \cup {} \cup {x}, t, n) /\ lostBefore \cap ({} \cup {x}) = {}
  <2>1. PICK none, one : none = {} /\ one = {x}
    OBVIOUS
  <2>2. none \subseteq V[s] /\ one \subseteq J[s]
    BY <1>10, <2>1
  <2>3. Leaves(V, s, none, V) /\ Leaves(J, s, one, K) /\ Flow(A, B, V, J, lostBefore, t, n)
    BY <1>4, <1>6, <1>8, <1>9, <2>1
  <2>4. FlowWithout(A, B, V, K, lostBefore, none, one, t, n)
    BY ONLY s \in Targets, <2>2, <2>3, FlowLost
  <2> QED
    BY ONLY <2>1, <2>4 DEF FlowWithout
<1>12. lostBefore \cup {} \cup {x} = D \cup after.refused \cup after.evicted
  BY <1>3, <1>9
<1>13. PumpFlow(after, s, packets, A, B, W, I, D, t, n)
  BY <1>3, <1>4, <1>7, <1>11, <1>12 DEF PumpFlow
<1>14. after.refused \cap after.evicted = {} /\ D \cap (after.refused \cup after.evicted) = {}
  BY <1>0, <1>3, <1>9, <1>11
<1>15. PumpSound(after, s, packets, k + 1, A, B, W, I, D, t, n)
  BY <1>0, <1>3, <1>13, <1>14 DEF PumpSound
<1> QED
  BY <1>1, <1>15

\* An event that the router takes waits there; a best-effort one may be gone.
LEMMA TakenPushed ==
    ASSUME NEW pump, NEW s \in Targets, NEW packets \in Seq(Packet), Chained(packets, SentOrder),
           NEW k \in 0 .. Len(packets) - 1,
           NEW A, NEW B, NEW W \in [Targets -> SUBSET Event], NEW I \in [Targets -> SUBSET Event],
           NEW D, NEW t, NEW n,
           PumpSound(pump, s, packets, k, A, B, W, I, D, t, n), ~pump.failed,
           NEW x \in Event, packets[k + 1] = x,
           pump.queues # NoQueue, ~Refuses(pump.queues, x)
    PROVE  PumpSound(Taken(pump, x), s, packets, k + 1, A, B, W, I, D, t, n)
<1>0. /\ pump \in PumpState /\ pump.taken = k /\ k \in Nat /\ k + 1 <= k + 1
      /\ pump.refused \cap pump.evicted = {} /\ D \cap (pump.refused \cup pump.evicted) = {}
      /\ QueuesSound(pump.queues, s) /\ \A e \in pump.evicted : e.priority = "BestEffort"
  BY DEF PumpSound
<1>1. PICK after, q, G : after = Taken(pump, x) /\ q = pump.queues /\ G = Evicted(q, x)
  OBVIOUS
<1>2. after = [pump EXCEPT !.queues = Pushed(q, x), !.taken = @ + 1, !.evicted = @ \cup G]
  <2>1. x # Foreign
    BY TrafficAssumption
  <2> QED
    BY <1>1, <2>1 DEF Taken
<1>3. PICK V, J : /\ Becomes(W, s, HeldBy(q), V)
                  /\ Becomes(I, s, Behind(packets, k), J)
                  /\ Flow(A, B, V, J, D \cup pump.refused \cup pump.evicted, t, n)
  BY <1>0, <1>1 DEF PumpSound, PumpFlow
<1>4. /\ Behind(packets, k) = Behind(packets, k + 1) \cup ({x} \cap Event)
      /\ \A e \in Behind(packets, k + 1) : x.id < e.id /\ e # x
  BY BehindNext
<1>5. /\ J[s] = Behind(packets, k) /\ V[s] = Held(q) /\ x \in J[s]
      /\ J \in [Targets -> SUBSET Event] /\ V \in [Targets -> SUBSET Event]
  <2>1. HeldBy(q) = Held(q) /\ Held(q) \subseteq Event
    BY <1>0, <1>1, HeldIn DEF HeldBy
  <2>2. Behind(packets, k) \subseteq Event
    BY DEF Behind
  <2> QED
    BY <1>3, <1>4, <2>1, <2>2 DEF Becomes
<1>6. x.target = s /\ \A e \in Held(q) : e.id < x.id
  BY <1>3, <1>5 DEF Flow, Addressed, InStages, SentSooner
<1>7. /\ QueuesSound(Pushed(q, x), s) /\ G \subseteq Held(q)
      /\ Held(Pushed(q, x)) = (Held(q) \ G) \cup {x}
      /\ \A e \in G : e.priority = "BestEffort"
  BY <1>0, <1>1, <1>6, PushKeeps
<1>8. Pushed(q, x) \in Queues /\ Pushed(q, x) # NoQueue /\ G \in SUBSET Event
  BY <1>0, <1>1, <1>7, PushTyped, NoQueueAssumption DEF QueuesSound
<1>9. /\ after \in PumpState /\ after.queues = Pushed(q, x) /\ after.taken = k + 1
      /\ after.refused = pump.refused /\ after.evicted = pump.evicted \cup G
  <2>1. after \in PumpState
    BY <1>0, <1>1, PacketKinds, TakenTyped
  <2>2. after.taken = pump.taken + 1
    BY ONLY <1>0, <1>2 DEF PumpState
  <2>3. /\ after.queues = Pushed(q, x) /\ after.refused = pump.refused
        /\ after.evicted = pump.evicted \cup G
    BY ONLY <1>0, <1>2 DEF PumpState
  <2> QED
    BY ONLY <1>0, <2>1, <2>2, <2>3
<1>10. PICK lostBefore : lostBefore = D \cup pump.refused \cup pump.evicted
  OBVIOUS
<1>11. PICK V1, V2, K : Leaves(V, s, G, V1) /\ Joins(V1, s, x, V2) /\ Leaves(J, s, {x}, K)
  BY DEF Leaves, Joins
<1>12. Leaves(J, s, {}, J)
  <2>1. J[s] \ {} = J[s]
    OBVIOUS
  <2> QED
    BY <1>5, <2>1 DEF Leaves
<1>13. /\ Flow(A, B, V1, J, lostBefore \cup G \cup {}, t, n)
       /\ lostBefore \cap (G \cup {}) = {}
  <2>1. PICK none : none = {}
    OBVIOUS
  <2>2. G \subseteq V[s] /\ none \subseteq J[s]
    BY <1>5, <1>7, <2>1
  <2>3. Leaves(V, s, G, V1) /\ Leaves(J, s, none, J) /\ Flow(A, B, V, J, lostBefore, t, n)
    BY <1>3, <1>10, <1>11, <1>12, <2>1
  <2>4. FlowWithout(A, B, V1, J, lostBefore, G, none, t, n)
    BY ONLY s \in Targets, <2>2, <2>3, FlowLost
  <2> QED
    BY ONLY <2>1, <2>4 DEF FlowWithout
<1>14. Flow(A, B, V2, K, lostBefore \cup G \cup {}, t, n)
  <2>1. x \in J[s] /\ \A y \in J[s] \ {x} : x.id < y.id
    BY <1>4, <1>5
  <2> QED
    BY <1>11, <1>13, <2>1, FlowPumped
<1>15. Becomes(W, s, HeldBy(after.queues), V2)
  <2>1. V1 = [V EXCEPT ![s] = V[s] \ G] /\ V2 = [V1 EXCEPT ![s] = V1[s] \cup {x}]
    BY <1>11 DEF Leaves, Joins
  <2>2. V2 = [V EXCEPT ![s] = (V[s] \ G) \cup {x}]
    BY ONLY <1>5, <2>1, s \in Targets
  <2>3. V = [W EXCEPT ![s] = Held(q)]
    BY <1>0, <1>1, <1>3 DEF Becomes, HeldBy
  <2>4. V2 = [W EXCEPT ![s] = (Held(q) \ G) \cup {x}]
    BY ONLY <1>5, <2>2, <2>3, s \in Targets, W \in [Targets -> SUBSET Event]
  <2>5. HeldBy(after.queues) = (Held(q) \ G) \cup {x}
    BY <1>7, <1>8, <1>9 DEF HeldBy
  <2> QED
    BY <2>4, <2>5 DEF Becomes
<1>16. Becomes(I, s, Behind(packets, k + 1), K)
  <2>1. K = [I EXCEPT ![s] = Behind(packets, k) \ {x}]
    BY ONLY <1>3, <1>5, <1>11, s \in Targets, I \in [Targets -> SUBSET Event] DEF Becomes, Leaves
  <2>2. Behind(packets, k) \ {x} = Behind(packets, k + 1)
    BY <1>4
  <2> QED
    BY <2>1, <2>2 DEF Becomes
<1>17. lostBefore \cup G \cup {} = D \cup after.refused \cup after.evicted
  BY <1>9, <1>10
<1>18. PumpFlow(after, s, packets, A, B, W, I, D, t, n)
  BY <1>9, <1>14, <1>15, <1>16, <1>17 DEF PumpFlow
<1>19. after.refused \cap after.evicted = {} /\ D \cap (after.refused \cup after.evicted) = {}
  BY <1>0, <1>9, <1>10, <1>13
<1>20. \A e \in after.evicted : e.priority = "BestEffort"
  BY <1>0, <1>7, <1>9
<1>21. PumpSound(after, s, packets, k + 1, A, B, W, I, D, t, n)
  BY <1>0, <1>7, <1>9, <1>18, <1>19, <1>20 DEF PumpSound
<1> QED
  BY <1>1, <1>21

\* One turn, whatever the packet.
LEMMA TakenSound ==
    ASSUME NEW pump, NEW s \in Targets, NEW packets \in Seq(Packet), Chained(packets, SentOrder),
           NEW k \in 0 .. Len(packets) - 1,
           NEW A, NEW B, NEW W \in [Targets -> SUBSET Event], NEW I \in [Targets -> SUBSET Event],
           NEW D, NEW t, NEW n,
           PumpSound(pump, s, packets, k, A, B, W, I, D, t, n), NEW x, x = packets[k + 1]
    PROVE  PumpSound(Taken(pump, x), s, packets, k + 1, A, B, W, I, D, t, n)
<1>0. x \in Packet
  BY BehindNext
<1>1. CASE pump.failed
  <2>1. Taken(pump, x) = pump
    BY <1>1 DEF Taken
  <2>2. pump.taken <= k + 1
    <3>1. pump.taken \in Nat /\ pump.taken <= k /\ k \in Nat
      BY DEF PumpSound, PumpState
    <3> QED
      BY ONLY <3>1
  <2>3. PumpSound(pump, s, packets, k + 1, A, B, W, I, D, t, n)
    BY <1>1, <2>2 DEF PumpSound
  <2> QED
    BY <2>1, <2>3
<1>2. CASE ~pump.failed /\ x = Foreign
  BY <1>2, TakenForeign
<1>3. CASE ~pump.failed /\ x # Foreign
  <2>1. x \in Event
    BY <1>0, <1>3, PacketKinds
  <2>2. CASE pump.queues = NoQueue \/ Refuses(pump.queues, x)
    BY <1>3, <2>1, <2>2, TakenRefused
  <2>3. CASE pump.queues # NoQueue /\ ~Refuses(pump.queues, x)
    BY <1>3, <2>1, <2>3, TakenPushed
  <2> QED
    BY <2>2, <2>3
<1> QED
  BY <1>1, <1>2, <1>3

\* All turns.
LEMMA PumpRuns ==
    ASSUME NEW s \in Targets, NEW packets \in Seq(Packet), Chained(packets, SentOrder),
           NEW A, NEW B, NEW W \in [Targets -> SUBSET Event], NEW I \in [Targets -> SUBSET Event],
           NEW D, NEW t, NEW n,
           NEW start, PumpSound(start, s, packets, 0, A, B, W, I, D, t, n),
           NEW first \in Seq(Packet), Len(first) <= Len(packets),
           \A i \in 1 .. Len(first) : first[i] = packets[i]
    PROVE  PumpSound(Loop(Taken, start, first)[Len(first)], s, packets, Len(first),
                     A, B, W, I, D, t, n)
<1> DEFINE G == [x \in PumpState \X Packet |-> Taken(x[1], x[2])]
           after == Loop(Taken, start, first)
           P == {k \in 0 .. Len(first) : PumpSound(after[k], s, packets, k, A, B, W, I, D, t, n)}
<1>1. start \in PumpState
  BY DEF PumpSound
<1>3. G \in [PumpState \X Packet -> PumpState]
  BY TakenTyped
<1>4. \A x \in PumpState, p \in Packet : G[<<x, p>>] = Taken(x, p)
  OBVIOUS
<1>5. Len(first) \in Nat /\ \A i \in 1 .. Len(first) : first[i] \in Packet
  OBVIOUS
<1>6. after = [i \in 0 .. Len(first) |-> IF i = 0 THEN start ELSE Taken(after[i - 1], first[i])]
  <2> HIDE DEF G
  <2>0. PICK f \in [0 .. Len(first) -> PumpState] : Turns(f, start, first, G)
    BY <1>1, <1>3, LoopRuns
  <2>1. f[0] = start /\ \A i \in 1 .. Len(first) : f[i] = G[<<f[i - 1], first[i]>>]
    BY <2>0 DEF Turns
  <2>2. ASSUME NEW i \in 0 .. Len(first)
        PROVE  f[i] = IF i = 0 THEN start ELSE Taken(f[i - 1], first[i])
    <3>1. CASE i = 0
      BY <2>1, <3>1
    <3>2. CASE i # 0
      <4>1. i \in 1 .. Len(first) /\ i - 1 \in 0 .. Len(first)
        BY <1>5, <3>2
      <4>2. f[i - 1] \in PumpState /\ first[i] \in Packet
        BY <1>5, <2>0, <4>1
      <4> QED
        BY <1>4, <2>1, <3>2, <4>1, <4>2
    <3> QED
      BY <3>1, <3>2
  <2>3. f = [i \in 0 .. Len(first) |-> IF i = 0 THEN start ELSE Taken(f[i - 1], first[i])]
    BY <2>0, <2>2
  <2>4. after = CHOOSE g : g = [i \in 0 .. Len(first) |-> IF i = 0 THEN start ELSE Taken(g[i - 1], first[i])]
    BY DEF Loop
  <2> QED
    BY <2>3, <2>4
<1> HIDE DEF after
<1>7. after[0] = start /\ \A i \in 0 .. Len(first) - 1 : after[i + 1] = Taken(after[i], first[i + 1])
  <2>1. 0 \in 0 .. Len(first)
    BY <1>5
  <2>2. ASSUME NEW i \in 0 .. Len(first) - 1 PROVE after[i + 1] = Taken(after[i], first[i + 1])
    <3>1. i + 1 \in 0 .. Len(first) /\ i + 1 # 0 /\ i + 1 - 1 = i
      BY <1>5
    <3> QED
      BY <1>6, <3>1
  <2> QED
    BY <1>6, <2>1, <2>2
<1>8. 0 \in P
  BY <1>5, <1>7
<1>9. ASSUME NEW k \in 0 .. Len(first) - 1, k \in P PROVE k + 1 \in P
  <2>1. PumpSound(after[k], s, packets, k, A, B, W, I, D, t, n)
    BY <1>9
  <2>2. k + 1 \in 0 .. Len(first) /\ k + 1 \in 1 .. Len(first) /\ k \in 0 .. Len(packets) - 1
    <3>1. PICK a, b : a = Len(first) /\ b = Len(packets)
      OBVIOUS
    <3>2. a \in Nat /\ b \in Nat /\ a <= b /\ k \in 0 .. a - 1
      BY <1>5, <3>1
    <3>3. k + 1 \in 0 .. a /\ k + 1 \in 1 .. a /\ k \in 0 .. b - 1
      BY ONLY <3>2
    <3> QED
      BY ONLY <3>1, <3>3
  <2>3. PICK x, pump : x = first[k + 1] /\ pump = after[k]
    OBVIOUS
  <2>4. x = packets[k + 1] /\ after[k + 1] = Taken(pump, x)
    BY <1>7, <2>2, <2>3
  <2>5. PumpSound(Taken(pump, x), s, packets, k + 1, A, B, W, I, D, t, n)
    BY <2>1, <2>2, <2>3, <2>4, TakenSound
  <2>6. PumpSound(after[k + 1], s, packets, k + 1, A, B, W, I, D, t, n)
    BY <2>4, <2>5
  <2> QED
    BY <2>2, <2>6
<1>10. Len(first) \in P
  <2> HIDE DEF P
  <2>1. 0 .. Len(first) \subseteq P
    BY <1>5, <1>8, <1>9, EveryTurn
  <2> QED
    BY <1>5, <2>1
<1> QED
  BY <1>10 DEF after
-----------------------------------------------------------------------------
(* Draining and applying. *)

DrainState ==
    [router : [Targets -> Queues \cup {NoQueue}], events : Seq(Event), failed : BOOLEAN]

\* A drain so far.
DrainSound(drain, A, I, D, n) ==
    /\ drain \in DrainState /\ RouterSound(drain.router) /\ BufferSound(drain.events)
    /\ Flow(A, ToSet(drain.events), Waiting(drain.router), I, D, tick, n)

\* The events due at a station go behind those of a buffer.
Drains(rt, batch, s, ru, longer) ==
    /\ ru = [rt EXCEPT ![s] = Retained(@, tick[s])]
    /\ longer = batch \o Ready(rt[s], tick[s])

\* A station of the router is drained into a buffer.
LEMMA StationDrains ==
    ASSUME tick \in [Targets -> 0 .. MaxTick],
           NEW rt, RouterSound(rt), NEW batch, BufferSound(batch),
           NEW A, NEW I, NEW D, NEW n, Flow(A, ToSet(batch), Waiting(rt), I, D, tick, n),
           NEW s \in Targets, IsRegistered(rt, s),
           NEW ru, NEW longer, Drains(rt, batch, s, ru, longer)
    PROVE  /\ RouterSound(ru) /\ BufferSound(longer)
           /\ Flow(A, ToSet(longer), Waiting(ru), I, D, tick, n)
<1>1. PICK q, t, B : q = rt[s] /\ t = tick[s] /\ B = ToSet(batch)
  OBVIOUS
<1>2. /\ QueuesSound(q, s) /\ Waiting(rt)[s] = Held(q) /\ t \in Nat
      /\ Waiting(rt) \in [Targets -> SUBSET Event]
  <2>1. t \in Nat
    BY <1>1, EventAssumption
  <2> QED
    BY <1>1, <2>1, RouterQueues
<1>3. PICK kept, ready : kept = Retained(q, t) /\ ready = Ready(q, t)
  OBVIOUS
<1>4. /\ QueuesSound(kept, s) /\ ready \in Seq(Event) /\ Chained(ready, EventOrder)
      /\ Held(kept) = {e \in Held(q) : ~IsReady(e, t)}
      /\ ToSet(ready) = {e \in Held(q) : IsReady(e, t)}
  <2>1. /\ QueuesSound(Retained(q, t), s)
        /\ Held(Retained(q, t)) = {e \in Held(q) : ~IsReady(e, t)}
        /\ Ready(q, t) \in Seq(Event) /\ Chained(Ready(q, t), EventOrder)
        /\ ToSet(Ready(q, t)) = {e \in Held(q) : IsReady(e, t)}
    BY <1>2, DrainKeeps
  <2> QED
    BY ONLY <1>3, <2>1
<1>5. PICK G : G = {e \in Waiting(rt)[s] : e.target_tick <= tick[s]}
  OBVIOUS
<1>6. ToSet(ready) = G /\ Held(kept) = Held(q) \ G /\ G \subseteq Held(q)
  <2>1. \A e : e \in G <=> e \in Held(q) /\ IsReady(e, t)
    BY ONLY <1>1, <1>2, <1>5 DEF IsReady
  <2> QED
    BY ONLY <1>4, <2>1
<1>7. ru = [rt EXCEPT ![s] = kept]
  BY <1>1, <1>3 DEF Drains
<1>8. RouterSound(ru) /\ Becomes(Waiting(rt), s, Held(kept), Waiting(ru))
  <2>1. kept # NoQueue
    BY <1>4, NoQueueAssumption DEF QueuesSound
  <2> QED
    BY <1>4, <1>7, <2>1, RouterChanges
<1>9. Leaves(Waiting(rt), s, G, Waiting(ru))
  BY <1>2, <1>6, <1>8 DEF Leaves, Becomes
<1>10. Flow(A, B \cup G, Waiting(ru), I, D, tick, n)
  BY <1>1, <1>5, <1>9, FlowDrained
<1>11. Linked(B, ToSet(ready), EventOrder)
  <2>1. Following(B, Waiting(rt)[s]) /\ B \subseteq Event
    BY <1>1 DEF Flow, InStages
  <2>2. Following(B, G)
    BY <1>2, <1>6, <2>1 DEF Following
  <2>3. G \in SUBSET Event /\ B \in SUBSET Event
    BY <1>2, <1>6, <2>1
  <2> QED
    BY <1>6, <2>2, <2>3, OrderPairs
<1>12. /\ longer \in Seq(Event) /\ Chained(longer, EventOrder)
       /\ ToSet(longer) = B \cup G
  <2>1. longer = batch \o ready
    BY <1>1, <1>3 DEF Drains
  <2>2. batch \in Seq(Event) /\ Chained(batch, EventOrder)
    BY DEF BufferSound
  <2>3. Linked(ToSet(batch), ToSet(ready), EventOrder)
    BY <1>1, <1>11
  <2>4. /\ batch \o ready \in Seq(Event)
        /\ Chained(batch \o ready, EventOrder)
        /\ ToSet(batch \o ready) = ToSet(batch) \cup ToSet(ready)
    <3>1. ready \in Seq(Event) /\ Chained(ready, EventOrder)
      BY <1>4
    <3> QED
      BY ONLY <2>2, <2>3, <3>1, ChainConcat, SMTT(60)
  <2> QED
    BY ONLY <1>1, <1>6, <2>1, <2>4
<1>13. BufferSound(longer)
  BY <1>12 DEF BufferSound
<1> QED
  BY <1>8, <1>10, <1>12, <1>13

\* One station more.
LEMMA GatheredSound ==
    ASSUME tick \in [Targets -> 0 .. MaxTick],
           NEW A, NEW I, NEW D, NEW n, NEW drain, DrainSound(drain, A, I, D, n),
           NEW s \in Targets
    PROVE  DrainSound(Gathered(drain, s), A, I, D, n)
<1>0. /\ drain.router \in [Targets -> Queues \cup {NoQueue}] /\ drain.events \in Seq(Event)
      /\ drain.failed \in BOOLEAN /\ drain \in DrainState
      /\ RouterSound(drain.router) /\ BufferSound(drain.events)
      /\ Flow(A, ToSet(drain.events), Waiting(drain.router), I, D, tick, n)
  BY DEF DrainSound, DrainState
<1>1. PICK after : after = Gathered(drain, s)
  OBVIOUS
<1>2. CASE drain.failed \/ ~IsRegistered(drain.router, s)
  <2>1. after = [drain EXCEPT !.failed = TRUE]
    BY <1>1, <1>2 DEF Gathered
  <2>2. after \in DrainState /\ after.router = drain.router /\ after.events = drain.events
    BY <1>0, <2>1 DEF DrainState
  <2>3. DrainSound(after, A, I, D, n)
    BY <1>0, <2>2 DEF DrainSound
  <2> QED
    BY <1>1, <2>3
<1>3. CASE ~drain.failed /\ IsRegistered(drain.router, s)
  <2>1. PICK ru, longer : /\ ru = [drain.router EXCEPT ![s] = Retained(@, tick[s])]
                          /\ longer = drain.events \o Ready(drain.router[s], tick[s])
    OBVIOUS
  <2>2. after = [router |-> ru, events |-> longer, failed |-> FALSE]
    BY <1>1, <1>3, <2>1 DEF Gathered
  <2>3. /\ RouterSound(ru) /\ BufferSound(longer)
        /\ Flow(A, ToSet(longer), Waiting(ru), I, D, tick, n)
    <3>1. PICK rt, batch : rt = drain.router /\ batch = drain.events
      OBVIOUS
    <3>2. /\ RouterSound(rt) /\ BufferSound(batch) /\ IsRegistered(rt, s)
          /\ Flow(A, ToSet(batch), Waiting(rt), I, D, tick, n)
          /\ Drains(rt, batch, s, ru, longer)
      BY ONLY <1>0, <1>3, <2>1, <3>1 DEF Drains
    <3> QED
      BY ONLY tick \in [Targets -> 0 .. MaxTick], s \in Targets, <3>2, StationDrains
  <2>4. after.router = ru /\ after.events = longer /\ after.failed = FALSE
    BY <2>2
  <2>5. after \in DrainState
    BY <2>2, <2>3 DEF DrainState, RouterSound, BufferSound
  <2>6. DrainSound(after, A, I, D, n)
    BY <2>3, <2>4, <2>5 DEF DrainSound
  <2> QED
    BY <1>1, <2>6
<1> QED
  BY <1>2, <1>3

\* All stations.
LEMMA DrainRuns ==
    ASSUME tick \in [Targets -> 0 .. MaxTick],
           NEW A, NEW I, NEW D, NEW n, NEW start, DrainSound(start, A, I, D, n),
           NEW drained \in Seq(Targets)
    PROVE  DrainSound(Loop(Gathered, start, drained)[Len(drained)], A, I, D, n)
<1> DEFINE S == {d \in DrainState : DrainSound(d, A, I, D, n)}
           G == [x \in S \X Targets |-> Gathered(x[1], x[2])]
           after == Loop(Gathered, start, drained)
<1>1. start \in S
  BY DEF DrainSound
<1>2. ASSUME NEW d \in S, NEW s \in Targets PROVE Gathered(d, s) \in S
  <2>1. DrainSound(Gathered(d, s), A, I, D, n)
    BY GatheredSound
  <2> QED
    BY <2>1 DEF DrainSound
<1>3. G \in [S \X Targets -> S]
  BY <1>2
<1>4. \A d \in S, s \in Targets : G[<<d, s>>] = Gathered(d, s)
  OBVIOUS
<1>5. Len(drained) \in Nat /\ \A i \in 1 .. Len(drained) : drained[i] \in Targets
  OBVIOUS
<1> HIDE DEF S, G
<1>6. PICK f \in [0 .. Len(drained) -> S] : Turns(f, start, drained, G)
  BY <1>1, <1>3, LoopRuns
<1>7. f[0] = start /\ \A i \in 1 .. Len(drained) : f[i] = G[<<f[i - 1], drained[i]>>]
  BY <1>6 DEF Turns
<1>8. ASSUME NEW i \in 0 .. Len(drained)
      PROVE  f[i] = IF i = 0 THEN start ELSE Gathered(f[i - 1], drained[i])
  <2>1. CASE i = 0
    BY <1>7, <2>1
  <2>2. CASE i # 0
    <3>1. i \in 1 .. Len(drained) /\ i - 1 \in 0 .. Len(drained)
      BY <1>5, <2>2
    <3>2. f[i - 1] \in S /\ drained[i] \in Targets
      BY <1>5, <1>6, <3>1
    <3> QED
      BY <1>4, <1>7, <2>2, <3>1, <3>2
  <2> QED
    BY <2>1, <2>2
<1>9. after = f
  <2>1. f = [i \in 0 .. Len(drained) |-> IF i = 0 THEN start ELSE Gathered(f[i - 1], drained[i])]
    BY <1>6, <1>8
  <2>2. after = CHOOSE g : g = [i \in 0 .. Len(drained) |->
                                   IF i = 0 THEN start ELSE Gathered(g[i - 1], drained[i])]
    BY DEF Loop
  <2>3. \A g : g = [i \in 0 .. Len(drained) |->
                        IF i = 0 THEN start ELSE Gathered(g[i - 1], drained[i])] => g = f
    <3> SUFFICES ASSUME NEW g, g = [i \in 0 .. Len(drained) |->
                                       IF i = 0 THEN start ELSE Gathered(g[i - 1], drained[i])]
                 PROVE  g = f
      OBVIOUS
    <3> DEFINE Same == {i \in 0 .. Len(drained) : g[i] = f[i]}
    <3>1. 0 \in Same
      BY <1>5, <1>7
    <3>2. ASSUME NEW i \in 0 .. Len(drained) - 1, i \in Same PROVE i + 1 \in Same
      <4>1. i + 1 \in 0 .. Len(drained) /\ i + 1 # 0 /\ i + 1 - 1 = i
        BY <1>5
      <4>2. PICK k \in 1 .. Len(drained) : k = i + 1 /\ k - 1 = i /\ k # 0 /\ k \in 0 .. Len(drained)
        BY <4>1
      <4>3. f[k] = Gathered(f[i], drained[k])
        BY <1>8, <4>2
      <4>4. g[k] = Gathered(g[i], drained[k])
        BY <4>2
      <4>5. g[i] = f[i]
        BY <3>2
      <4>6. g[k] = f[k]
        BY <4>3, <4>4, <4>5
      <4> QED
        BY <4>2, <4>6
    <3>3. 0 .. Len(drained) \subseteq Same
      <4> HIDE DEF Same
      <4> QED
        BY <1>5, <3>1, <3>2, EveryTurn
    <3>4. g = [i \in 0 .. Len(drained) |-> f[i]]
      BY <3>3
    <3> QED
      BY <1>6, <3>4
  <2> QED
    BY <2>1, <2>2, <2>3
<1>10. after[Len(drained)] \in S
  BY <1>5, <1>6, <1>9
<1> QED
  BY <1>10 DEF S

\* Targets in order.
LEMMA TargetsInOrder ==
    InOrder(Targets) \in Seq(Targets) /\ Len(InOrder(Targets)) = Cardinality(Targets)
<1>1. PICK n : n = Cardinality(Targets)
  OBVIOUS
<1>2. n \in Nat /\ \A k \in 1 .. n : InOrder(Targets)[k] \in Targets
  BY <1>1, EventAssumption, InOrderLists
<1>3. InOrder(Targets) \in [1 .. n -> Targets]
  BY <1>1, <1>2 DEF InOrder
<1> QED
  BY <1>1, <1>2, <1>3

\* A batch is applied, each event by its station.
BatchGoes(ap, batch, aq) == aq = [s \in Targets |-> ap[s] \o OfStation(batch, s)]

DoneWith(ap, batch, aq) ==
    Done(aq) = [s \in Targets |-> Done(ap)[s] \cup {e \in ToSet(batch) : e.target = s}]

LEMMA BatchApplied ==
    ASSUME NEW ap, AppliedSound(ap), NEW batch, BufferSound(batch),
           \A s \in Targets : Following(ToSet(ap[s]), ToSet(batch)),
           NEW aq, BatchGoes(ap, batch, aq)
    PROVE  AppliedSound(aq) /\ DoneWith(ap, batch, aq)
<1>0. /\ batch \in Seq(Event) /\ Chained(batch, EventOrder) /\ DOMAIN batch = 1 .. Len(batch)
      /\ ToSet(batch) \in SUBSET Event
      /\ \A e : e \in ToSet(batch) <=> \E i \in 1 .. Len(batch) : batch[i] = e
  BY ElementsOf DEF BufferSound
<1>1. ASSUME NEW s \in Targets
      PROVE  /\ BufferSound(aq[s]) /\ aq[s] \in Seq(Event)
             /\ ToSet(aq[s]) = ToSet(ap[s]) \cup {e \in ToSet(batch) : e.target = s}
  <2>1. PICK u : u = ap[s]
    OBVIOUS
  <2>2. u \in Seq(Event) /\ Chained(u, EventOrder) /\ ToSet(u) \in SUBSET Event
    BY <2>1, ElementsOf DEF AppliedSound, BufferSound
  <2>3. PICK K : K = {i \in 1 .. Len(batch) : batch[i].target = s}
    OBVIOUS
  <2>4. K \in SUBSET (1 .. Len(batch)) /\ OfStation(batch, s) = Picked(batch, K)
    BY <1>0, <2>3 DEF OfStation
  <2>5. Linked(ToSet(u), ToSet(batch), EventOrder)
    BY <1>0, <2>1, <2>2, OrderPairs
  <2>6. PICK v : v = Picked(batch, K)
    OBVIOUS
  <2>7. /\ v \in Seq(Event) /\ Chained(v, EventOrder) /\ ToSet(v) = {batch[i] : i \in K}
    BY <1>0, <2>4, <2>6, ChainPicked
  <2>8. \A e : e \in ToSet(v) <=> e \in ToSet(batch) /\ e.target = s
    BY <1>0, <2>3, <2>7
  <2>9. Linked(ToSet(u), ToSet(v), EventOrder)
    BY <2>5, <2>8 DEF Linked
  <2>10. v \in Seq(Event) /\ Chained(v, EventOrder)
    BY <2>7
  <2>11. /\ u \o v \in Seq(Event) /\ Chained(u \o v, EventOrder)
         /\ ToSet(u \o v) = ToSet(u) \cup ToSet(v)
    BY ONLY <2>2, <2>9, <2>10, ChainConcat, SMTT(60)
  <2>12. aq[s] = u \o v
    BY <2>1, <2>4, <2>6 DEF BatchGoes
  <2> QED
    BY ONLY <2>1, <2>8, <2>11, <2>12 DEF BufferSound
<1>2. AppliedSound(aq)
  <2>1. aq \in [Targets -> Seq(Event)]
    BY ONLY <1>1, BatchGoes(ap, batch, aq) DEF BatchGoes
  <2> QED
    BY <1>1, <2>1 DEF AppliedSound
<1>3. Done(aq) = [s \in Targets |-> Done(ap)[s] \cup {e \in ToSet(batch) : e.target = s}]
  BY <1>1 DEF Done
<1> QED
  BY <1>2, <1>3 DEF DoneWith
-----------------------------------------------------------------------------
(* The steps. *)

\* Losses grows l by the events of G, for one cause.
Losses(l, G, cause, m) == m = l \cup (G \X {cause})

LEMMA LostGrows ==
    ASSUME NEW l, LostSound(l), NEW G \in SUBSET Event, NEW cause \in Cause,
           Dead(l) \cap G = {}, cause = "evicted" => \A e \in G : e.priority = "BestEffort",
           NEW m, Losses(l, G, cause, m)
    PROVE  LostSound(m) /\ Dead(m) = Dead(l) \cup G
<1>0. /\ l \subseteq Event \X Cause
      /\ \A x, y \in l : x[1] = y[1] => x = y
      /\ \A x \in l : x[2] = "evicted" => x[1].priority = "BestEffort"
  BY DEF LostSound
<1>1. \A x \in m : x \in l \/ (\E e \in G : x = <<e, cause>>)
  BY DEF Losses
<1>2. \A x \in l : x[1] \notin G
  BY DEF Dead
<1>3. m \subseteq Event \X Cause
  BY <1>0 DEF Losses
<1>4. ASSUME NEW x \in m, NEW y \in m, x[1] = y[1] PROVE x = y
  BY <1>0, <1>1, <1>2, <1>4
<1>5. ASSUME NEW x \in m, x[2] = "evicted" PROVE x[1].priority = "BestEffort"
  BY <1>0, <1>1, <1>5
<1>6. \A e : e \in Dead(m) <=> e \in Dead(l) \/ e \in G
  <2>1. \A e : e \in Dead(l) <=> \E x \in l : x[1] = e
    BY DEF Dead
  <2>2. \A e : e \in Dead(m) <=> \E x \in m : x[1] = e
    BY DEF Dead
  <2>3. \A e \in G : <<e, cause>> \in m /\ <<e, cause>>[1] = e
    BY DEF Losses
  <2>4. l \subseteq m
    BY DEF Losses
  <2>5. ASSUME NEW e, e \in Dead(m) PROVE e \in Dead(l) \/ e \in G
    BY <1>1, <2>1, <2>2, <2>5
  <2>6. ASSUME NEW e, e \in Dead(l) \/ e \in G PROVE e \in Dead(m)
    <3>1. CASE e \in G
      BY <2>2, <2>3, <3>1
    <3>2. CASE e \in Dead(l)
      BY <2>1, <2>2, <2>4, <3>2
    <3> QED
      BY <2>6, <3>1, <3>2
  <2> QED
    BY <2>5, <2>6
<1> QED
  BY <1>3, <1>4, <1>5, <1>6 DEF LostSound

\* The sets of events, as functions of the stations.
LEMMA PlacesTyped ==
    ASSUME EventsInv
    PROVE  /\ Arriving(inbox) \in [Targets -> SUBSET Event]
           /\ Waiting(router) \in [Targets -> SUBSET Event]
           /\ Done(applied) \in [Targets -> SUBSET Event]
           /\ \A s \in Targets : \A e \in Arriving(inbox)[s] \cup Waiting(router)[s] \cup Done(applied)[s] :
                 e.target = s
           /\ Dead(lost) \subseteq Event
BY DEF EventsInv, Flow, Addressed

\* A new event.
LEMMA NewEvent ==
    ASSUME EventsInv, sent < MaxEvents, NEW s \in Targets, NEW p \in Sendable,
           NEW due \in 0 .. MaxTick
    PROVE  /\ NextEvent(s, p, due) \in Event /\ NextEvent(s, p, due).id = sent + 1
           /\ NextEvent(s, p, due).target = s /\ NextEvent(s, p, due).priority = p
           /\ sent + 1 \in 0 .. MaxEvents
           /\ \A r \in Targets : \A e \in Arriving(inbox)[r] \cup Waiting(router)[r] : e.id < sent + 1
<1>1. sent \in 0 .. MaxEvents /\ MaxEvents \in Nat /\ p \in Priorities
  BY EventAssumption, TrafficAssumption DEF EventsInv
<1>2. sent + 1 \in 1 .. MaxEvents
  BY <1>1
<1>3. NextEvent(s, p, due) \in Event
  BY <1>1, <1>2 DEF NextEvent, Event
<1>4. ASSUME NEW r \in Targets, NEW e \in Arriving(inbox)[r] \cup Waiting(router)[r]
      PROVE  e.id < sent + 1
  <2>1. PICK A, B, W, I, D : /\ A = Done(applied) /\ B = ToSet(events) /\ W = Waiting(router)
                             /\ I = Arriving(inbox) /\ D = Dead(lost)
    OBVIOUS
  <2>2. Numbered(D \cup Live(A, B, W, I), sent)
    BY <2>1 DEF EventsInv, Flow
  <2>3. e \in Live(A, B, W, I)
    BY <2>1, LiveIn
  <2>4. e.id \in 1 .. sent /\ sent \in Nat
    BY <2>2, <2>3 DEF Numbered
  <2> QED
    BY ONLY <2>4
<1> QED
  BY <1>1, <1>2, <1>3, <1>4 DEF NextEvent

\* send_event.
LEMMA SendEventKeeps ==
    ASSUME EventsInv, NEW s \in Targets \ Local, NEW p \in Sendable, NEW due \in 0 .. MaxTick,
           SendEvent(s, p, due)
    PROVE  EventsInv'
<1>1. PICK x : x = NextEvent(s, p, due)
  OBVIOUS
<1>2. /\ sent < MaxEvents /\ CanSend(inbox, s) /\ inbox' = Sent(inbox, s, x) /\ sent' = sent + 1
      /\ UNCHANGED <<tick, router, events, failed, applied, lost>>
  BY <1>1 DEF SendEvent
<1>3. /\ x \in Event /\ x.id = sent + 1 /\ x.target = s /\ sent + 1 \in 0 .. MaxEvents
      /\ \A e \in Arriving(inbox)[s] : e.id < x.id
  BY <1>1, <1>2, NewEvent
<1>4. InboxSound(Sent(inbox, s, x)) /\ Joins(Arriving(inbox), s, x, Arriving(Sent(inbox, s, x)))
  BY <1>2, <1>3, PacketKinds, InboxSends DEF EventsInv
<1>5. Flow(Done(applied), ToSet(events), Waiting(router), Arriving(Sent(inbox, s, x)), Dead(lost),
           tick, sent + 1)
  BY <1>3, <1>4, FlowSent DEF EventsInv
<1>6. /\ tick' = tick /\ router' = router /\ events' = events /\ failed' = failed
      /\ applied' = applied /\ lost' = lost
  BY <1>2
<1> QED
  BY <1>2, <1>3, <1>4, <1>5, <1>6 DEF EventsInv

\* A frame of the other bridge.
LEMMA SendForeignKeeps ==
    ASSUME EventsInv, NEW s \in Targets \ Local, SendForeign(s)
    PROVE  EventsInv'
<1>1. /\ CanSend(inbox, s) /\ inbox' = Sent(inbox, s, Foreign)
      /\ UNCHANGED <<tick, router, events, failed, sent, applied, lost>>
  BY DEF SendForeign
<1>2. Foreign \in Packet /\ Foreign \notin Event
  BY PacketKinds
<1>3. InboxSound(Sent(inbox, s, Foreign)) /\ Arriving(Sent(inbox, s, Foreign)) = Arriving(inbox)
  BY <1>1, <1>2, InboxSends DEF EventsInv
<1>4. /\ tick' = tick /\ router' = router /\ events' = events /\ failed' = failed
      /\ applied' = applied /\ lost' = lost /\ sent' = sent
  BY <1>1
<1> QED
  BY <1>1, <1>3, <1>4 DEF EventsInv

\* route.
LEMMA RouteKeeps ==
    ASSUME EventsInv, NEW s \in Local, NEW p \in Sendable, NEW due \in 0 .. MaxTick,
           Route(s, p, due)
    PROVE  EventsInv'
<1>1. PICK x, q : x = NextEvent(s, p, due) /\ q = router[s]
  OBVIOUS
<1>2. /\ sent < MaxEvents /\ q # NoQueue /\ ~Refuses(q, x)
      /\ router' = [router EXCEPT ![s] = Pushed(q, x)]
      /\ lost' = Losing(Evicted(q, x), "evicted") /\ sent' = sent + 1
      /\ UNCHANGED <<tick, inbox, events, failed, applied>>
  BY <1>1 DEF Route, IsRegistered
<1>3. s \in Targets
  BY TrafficAssumption
<1>4. /\ x \in Event /\ x.id = sent + 1 /\ x.target = s /\ sent + 1 \in 0 .. MaxEvents
      /\ \A e \in Waiting(router)[s] : e.id < x.id
  BY <1>1, <1>2, <1>3, NewEvent
<1>5. QueuesSound(q, s) /\ Waiting(router)[s] = Held(q) /\ Arriving(inbox)[s] = {}
  BY <1>1, <1>2, <1>3, RouterQueues, InboxQueue DEF EventsInv
<1>6. PICK G : G = Evicted(q, x)
  OBVIOUS
<1>7. /\ QueuesSound(Pushed(q, x), s) /\ G \subseteq Held(q)
      /\ Held(Pushed(q, x)) = (Held(q) \ G) \cup {x}
      /\ \A e \in G : e.priority = "BestEffort"
  BY <1>2, <1>3, <1>4, <1>5, <1>6, PushKeeps
<1>8. PICK rt, W, I, A, B, D : /\ rt = [router EXCEPT ![s] = Pushed(q, x)]
                               /\ W = Waiting(router) /\ I = Arriving(inbox) /\ A = Done(applied)
                               /\ B = ToSet(events) /\ D = Dead(lost)
  OBVIOUS
<1>9. RouterSound(rt) /\ Becomes(W, s, Held(Pushed(q, x)), Waiting(rt))
  <2>1. Pushed(q, x) # NoQueue
    BY <1>7, NoQueueAssumption DEF QueuesSound
  <2> QED
    BY <1>3, <1>7, <1>8, <2>1, RouterChanges DEF EventsInv
<1>10. W \in [Targets -> SUBSET Event] /\ I \in [Targets -> SUBSET Event]
  BY <1>8, PlacesTyped
<1>11. PICK W1, none : Leaves(W, s, G, W1) /\ none = {}
  BY DEF Leaves
<1>12. Leaves(I, s, none, I) /\ G \subseteq W[s] /\ none \subseteq I[s]
  <2>1. I[s] \ {} = I[s]
    OBVIOUS
  <2> QED
    BY <1>5, <1>7, <1>8, <1>10, <1>11, <2>1 DEF Leaves
<1>13. FlowWithout(A, B, W1, I, D, G, none, tick, sent)
  <2>1. Flow(A, B, W, I, D, tick, sent)
    BY <1>8 DEF EventsInv
  <2> QED
    BY ONLY <1>3, <1>11, <1>12, <2>1, FlowLost
<1>14. Flow(A, B, W1, I, D \cup G, tick, sent) /\ D \cap G = {}
  <2>1. D \cup G \cup none = D \cup G /\ G \cup none = G
    BY <1>11
  <2> QED
    BY ONLY <1>13, <2>1 DEF FlowWithout
<1>15. Joins(W1, s, x, Waiting(rt))
  <2>1. W1 = [W EXCEPT ![s] = W[s] \ G] /\ Waiting(rt) = [W EXCEPT ![s] = (W[s] \ G) \cup {x}]
    BY <1>5, <1>7, <1>8, <1>9, <1>11 DEF Leaves, Becomes
  <2> QED
    BY ONLY <1>3, <1>10, <2>1 DEF Joins
<1>16. Flow(A, B, Waiting(rt), I, D \cup G, tick, sent + 1)
  <2>1. PICK E : E = D \cup G
    OBVIOUS
  <2>2. I[s] = {}
    BY <1>5, <1>8
  <2>3. Flow(A, B, Waiting(rt), I, E, tick, sent + 1)
    BY <1>3, <1>4, <1>14, <1>15, <2>1, <2>2, FlowRouted
  <2> QED
    BY <2>1, <2>3
<1>17. LostSound(lost') /\ Dead(lost') = D \cup G
  <2>1. Losses(lost, G, "evicted", lost')
    BY <1>2, <1>6 DEF Losing, Losses
  <2>2. G \in SUBSET Event /\ "evicted" \in Cause
    BY <1>5, <1>7, HeldIn DEF Cause
  <2> QED
    BY <1>7, <1>8, <1>14, <2>1, <2>2, LostGrows DEF EventsInv
<1>18. /\ tick' = tick /\ inbox' = inbox /\ events' = events /\ failed' = failed
       /\ applied' = applied /\ router' = rt
  BY <1>2, <1>8
<1>19. Flow(Done(applied), ToSet(events), Waiting(rt), Arriving(inbox), Dead(lost'), tick, sent + 1)
  BY <1>8, <1>16, <1>17
<1> QED
  BY <1>2, <1>4, <1>9, <1>17, <1>18, <1>19 DEF EventsInv

\* A pump begins with the events where they are.
LEMMA PumpBegins ==
    ASSUME EventsInv, NEW s \in Targets, IsRegistered(inbox, s)
    PROVE  PumpSound(Start(router[s]), s, inbox[s], 0, Done(applied), ToSet(events),
                     Waiting(router), Arriving(inbox), Dead(lost), tick, sent)
<1>1. PICK pump, q, packets, W, I, D :
          /\ pump = Start(q) /\ q = router[s] /\ packets = inbox[s]
          /\ W = Waiting(router) /\ I = Arriving(inbox) /\ D = Dead(lost)
  OBVIOUS
<1>2. /\ q \in Queues \cup {NoQueue} /\ (q # NoQueue => QueuesSound(q, s))
      /\ W \in [Targets -> SUBSET Event] /\ I \in [Targets -> SUBSET Event]
      /\ W[s] = HeldBy(q)
  <2>1. q \in Queues \cup {NoQueue}
    BY <1>1 DEF EventsInv, RouterSound
  <2>2. (q # NoQueue => QueuesSound(q, s) /\ W[s] = Held(q)) /\ (q = NoQueue => W[s] = {})
    BY <1>1, RouterQueues DEF EventsInv
  <2>3. W[s] = HeldBy(q)
    BY <2>2 DEF HeldBy
  <2> QED
    BY <1>1, <2>1, <2>2, <2>3, PlacesTyped
<1>3. packets \in Seq(Packet) /\ I[s] = EventsOf(packets) /\ Len(packets) \in Nat
  BY <1>1, InboxQueue DEF EventsInv
<1>4. Behind(packets, 0) = I[s]
  <2>1. ToSet(packets) = {packets[i] : i \in 0 + 1 .. Len(packets)}
    BY <1>3, ElementsOf
  <2> QED
    BY <1>3, <2>1, PacketKinds DEF Behind
<1>5. /\ pump.queues = q /\ pump.taken = 0 /\ pump.refused = {} /\ pump.evicted = {}
      /\ pump.failed = FALSE /\ pump \in PumpState
  BY <1>1, <1>2 DEF Start, PumpState
<1>6. Becomes(W, s, HeldBy(pump.queues), W) /\ Becomes(I, s, Behind(packets, pump.taken), I)
  BY <1>2, <1>4, <1>5 DEF Becomes
<1>7. Flow(Done(applied), ToSet(events), W, I, D \cup pump.refused \cup pump.evicted, tick, sent)
  <2>1. D \cup pump.refused \cup pump.evicted = D
    BY <1>5
  <2> QED
    BY <1>1, <2>1 DEF EventsInv
<1>8. PumpFlow(pump, s, packets, Done(applied), ToSet(events), W, I, D, tick, sent)
  BY <1>6, <1>7 DEF PumpFlow
<1>9. PumpSound(pump, s, packets, 0, Done(applied), ToSet(events), W, I, D, tick, sent)
  BY <1>2, <1>5, <1>8 DEF PumpSound
<1> QED
  BY <1>1, <1>9

\* pump_target.
LEMMA PumpTargetKeeps ==
    ASSUME EventsInv, NEW s \in Targets \ Local, NEW max \in 1 .. MaxPackets,
           PumpTarget(s, max)
    PROVE  EventsInv'
<1>1. PICK packets : packets = inbox[s]
  OBVIOUS
<1>2. IsRegistered(inbox, s) /\ PacketsSound(packets) /\ packets \in Seq(Packet) /\ Len(packets) \in Nat
  <2>1. IsRegistered(inbox, s)
    BY DEF PumpTarget, CanReceive
  <2>2. InboxSound(inbox) /\ s \in Targets
    BY DEF EventsInv
  <2>3. PacketsSound(inbox[s]) /\ inbox[s] \in Seq(Packet)
    BY ONLY <2>1, <2>2, InboxQueue
  <2>4. PacketsSound(packets) /\ packets \in Seq(Packet)
    BY ONLY <1>1, <2>3
  <2> QED
    BY <2>1, <2>4
<1>3. PICK m : m = IF Len(packets) < max THEN Len(packets) ELSE max
  OBVIOUS
<1>4. m \in 0 .. Len(packets)
  BY <1>2, <1>3, TrafficAssumption
<1>5. PICK first : first = SubSeq(packets, 1, m)
  OBVIOUS
<1>6. /\ first \in Seq(Packet) /\ Len(first) = m
      /\ \A i \in 1 .. Len(first) : first[i] = packets[i]
  <2>1. first \in Seq(Packet) /\ Len(first) = m
    BY <1>2, <1>4, <1>5, ChainTake DEF PacketsSound
  <2>2. \A i \in 1 .. m : first[i] = packets[i]
    BY <1>2, <1>4, <1>5
  <2> QED
    BY <2>1, <2>2
<1>7. PICK start, pump : start = Start(router[s]) /\ pump = Loop(Taken, start, first)[Len(first)]
  OBVIOUS
<1>8. /\ inbox' = AfterReceiving(inbox, s, pump.taken)
      /\ router' = [router EXCEPT ![s] = pump.queues]
      /\ lost' = Losing(pump.refused, "refused") \cup Losing(pump.evicted, "evicted")
      /\ UNCHANGED <<tick, events, failed, sent, applied>>
  BY <1>1, <1>3, <1>5, <1>7 DEF PumpTarget
<1>9. PICK A, B, W, I, D : /\ A = Done(applied) /\ B = ToSet(events) /\ W = Waiting(router)
                           /\ I = Arriving(inbox) /\ D = Dead(lost)
  OBVIOUS
<1>10. W \in [Targets -> SUBSET Event] /\ I \in [Targets -> SUBSET Event]
  BY <1>9, PlacesTyped
<1>11. PumpSound(pump, s, packets, Len(first), A, B, W, I, D, tick, sent)
  <2>1. PumpSound(start, s, packets, 0, A, B, W, I, D, tick, sent)
    BY <1>1, <1>2, <1>7, <1>9, PumpBegins
  <2>2. Chained(packets, SentOrder) /\ Len(first) <= Len(packets) /\ s \in Targets
    BY <1>2, <1>4, <1>6 DEF PacketsSound
  <2>3. PICK t, n : t = tick /\ n = sent
    OBVIOUS
  <2>4. PumpSound(Loop(Taken, start, first)[Len(first)], s, packets, Len(first), A, B, W, I, D, t, n)
    BY <1>2, <1>6, <1>10, <2>1, <2>2, <2>3, PumpRuns
  <2> QED
    BY <1>7, <2>3, <2>4
<1>12. /\ pump.taken \in 0 .. Len(packets) /\ (pump.queues # NoQueue => QueuesSound(pump.queues, s))
       /\ pump.refused \cap pump.evicted = {} /\ D \cap (pump.refused \cup pump.evicted) = {}
       /\ pump.refused \in SUBSET Event /\ pump.evicted \in SUBSET Event
       /\ \A e \in pump.evicted : e.priority = "BestEffort"
  <2>1. pump \in PumpState /\ pump.taken <= m /\ m \in Nat /\ m <= Len(packets)
    BY <1>4, <1>6, <1>11 DEF PumpSound
  <2>2. pump.taken \in 0 .. Len(packets)
    BY <1>2, <2>1 DEF PumpState
  <2> QED
    BY <1>11, <2>1, <2>2 DEF PumpSound, PumpState
<1>13. InboxSound(inbox') /\ Becomes(I, s, Behind(packets, pump.taken), Arriving(inbox'))
  <2>1. PICK k : k = pump.taken
    OBVIOUS
  <2>2. /\ InboxSound(AfterReceiving(inbox, s, k))
        /\ Becomes(Arriving(inbox), s, Behind(inbox[s], k), Arriving(AfterReceiving(inbox, s, k)))
    <3>1. k \in 0 .. Len(inbox[s]) /\ InboxSound(inbox)
      BY <1>1, <1>12, <2>1 DEF EventsInv
    <3> QED
      BY <1>2, <3>1, InboxReceives
  <2> QED
    BY <1>1, <1>8, <1>9, <2>1, <2>2
<1>14. RouterSound(router') /\ Becomes(W, s, HeldBy(pump.queues), Waiting(router'))
  <2>1. PICK q, rt : q = pump.queues /\ rt = router'
    OBVIOUS
  <2>2. /\ RouterSound(rt) /\ (q = NoQueue => Becomes(W, s, {}, Waiting(rt)))
        /\ (q # NoQueue => Becomes(W, s, Held(q), Waiting(rt)))
    <3>1. (QueuesSound(q, s) \/ q = NoQueue) /\ rt = [router EXCEPT ![s] = q] /\ RouterSound(router)
      BY <1>8, <1>12, <2>1 DEF EventsInv
    <3> QED
      BY <1>9, <3>1, RouterChanges
  <2> QED
    BY <2>1, <2>2 DEF HeldBy
<1>15. Flow(A, B, Waiting(router'), Arriving(inbox'), D \cup pump.refused \cup pump.evicted, tick, sent)
  <2>1. PICK V, J : /\ Becomes(W, s, HeldBy(pump.queues), V)
                    /\ Becomes(I, s, Behind(packets, pump.taken), J)
                    /\ Flow(A, B, V, J, D \cup pump.refused \cup pump.evicted, tick, sent)
    BY <1>11 DEF PumpSound, PumpFlow
  <2>2. V = Waiting(router') /\ J = Arriving(inbox')
    BY ONLY <1>13, <1>14, <2>1 DEF Becomes
  <2> QED
    BY <2>1, <2>2
<1>16. LostSound(lost') /\ Dead(lost') = D \cup pump.refused \cup pump.evicted
  <2>1. PICK R, E, l1, l2 : /\ R = pump.refused /\ E = pump.evicted
                            /\ l1 = lost \cup (R \X {"refused"}) /\ l2 = l1 \cup (E \X {"evicted"})
    OBVIOUS
  <2>2. lost' = l2
    BY <1>8, <2>1 DEF Losing
  <2>3. /\ R \in SUBSET Event /\ E \in SUBSET Event /\ "refused" \in Cause /\ "evicted" \in Cause
        /\ D \cap R = {} /\ (D \cup R) \cap E = {} /\ \A e \in E : e.priority = "BestEffort"
    BY <1>12, <2>1 DEF Cause
  <2>4. Losses(lost, R, "refused", l1) /\ Losses(l1, E, "evicted", l2)
    BY <2>1 DEF Losses
  <2>5. LostSound(l1) /\ Dead(l1) = D \cup R
    <3>1. "refused" # "evicted" /\ LostSound(lost) /\ Dead(lost) \cap R = {}
      BY <1>9, <2>3 DEF EventsInv
    <3> QED
      BY <1>9, <2>3, <2>4, <3>1, LostGrows
  <2>6. LostSound(l2) /\ Dead(l2) = Dead(l1) \cup E
    <3>1. Dead(l1) \cap E = {}
      BY <2>3, <2>5
    <3> QED
      BY <2>3, <2>4, <2>5, <3>1, LostGrows
  <2> QED
    BY ONLY <2>1, <2>2, <2>5, <2>6
<1>17. /\ tick' = tick /\ events' = events /\ failed' = failed /\ sent' = sent
       /\ applied' = applied
  BY <1>8
<1>18. Flow(Done(applied), ToSet(events), Waiting(router'), Arriving(inbox'), Dead(lost'), tick, sent)
  BY <1>9, <1>15, <1>16
<1> QED
  BY <1>13, <1>14, <1>16, <1>17, <1>18 DEF EventsInv

\* The other bridge's pump_target.
LEMMA PumpForeignKeeps ==
    ASSUME EventsInv, NEW s \in Targets \ Local, PumpForeign(s)
    PROVE  EventsInv'
<1>1. PICK packets, x : packets = inbox[s] /\ x = Head(packets)
  OBVIOUS
<1>2. /\ IsRegistered(inbox, s) /\ packets \in Seq(Packet) /\ packets # <<>> /\ Len(packets) \in Nat
      /\ Chained(packets, SentOrder) /\ InboxSound(inbox)
      /\ Arriving(inbox)[s] = EventsOf(packets)
  BY <1>1, InboxQueue DEF PumpForeign, CanReceive, EventsInv, PacketsSound
<1>3. 1 \in 0 .. Len(packets) /\ 0 \in 0 .. Len(packets) - 1 /\ x = packets[0 + 1]
  BY <1>1, <1>2
<1>4. /\ x \in Packet /\ Behind(packets, 0) = Behind(packets, 1) \cup ({x} \cap Event)
      /\ x \in Event => \A e \in Behind(packets, 1) : e # x
  <2>1. PICK k \in 0 .. Len(packets) - 1 : k = 0 /\ k + 1 = 1 /\ x = packets[k + 1]
    BY <1>3
  <2>2. /\ x \in Packet
        /\ Behind(packets, k) = Behind(packets, k + 1) \cup ({x} \cap Event)
        /\ x \in Event => \A e \in Behind(packets, k + 1) : x.id < e.id /\ e # x
    BY ONLY <1>2, <2>1, BehindNext
  <2> QED
    BY <2>1, <2>2
<1>5. /\ inbox' = AfterReceiving(inbox, s, 1)
      /\ lost' = Losing({x} \ {Foreign}, "refused")
      /\ UNCHANGED <<tick, router, events, failed, sent, applied>>
  BY <1>1 DEF PumpForeign
<1>6. PICK A, B, W, I, D, J : /\ A = Done(applied) /\ B = ToSet(events) /\ W = Waiting(router)
                              /\ I = Arriving(inbox) /\ D = Dead(lost) /\ J = Arriving(inbox')
  OBVIOUS
<1>7. InboxSound(inbox') /\ Becomes(I, s, Behind(packets, 1), J)
  <2>1. 1 \in 0 .. Len(inbox[s])
    BY <1>1, <1>3
  <2>2. PICK one : one = 1
    OBVIOUS
  <2>3. /\ InboxSound(AfterReceiving(inbox, s, one))
        /\ Becomes(Arriving(inbox), s, Behind(inbox[s], one), Arriving(AfterReceiving(inbox, s, one)))
    BY <1>2, <2>1, <2>2, InboxReceives
  <2> QED
    BY <1>1, <1>5, <1>6, <2>2, <2>3
<1>8. PICK G, none : G = {x} \cap Event /\ none = {}
  OBVIOUS
<1>9. G = {x} \ {Foreign} /\ G \in SUBSET Event
  BY <1>4, <1>8, PacketKinds
<1>10. Behind(packets, 0) = I[s]
  <2>1. ToSet(packets) = {packets[i] : i \in 0 + 1 .. Len(packets)}
    BY <1>2, ElementsOf
  <2> QED
    BY <1>2, <1>6, <2>1, PacketKinds DEF Behind
<1>11. W \in [Targets -> SUBSET Event] /\ I \in [Targets -> SUBSET Event]
  BY <1>6, PlacesTyped
<1>12. /\ G \subseteq I[s] /\ none \subseteq W[s] /\ Leaves(I, s, G, J) /\ Leaves(W, s, none, W)
  <2>1. I[s] \ G = Behind(packets, 1) /\ G \subseteq I[s]
    BY <1>4, <1>8, <1>10
  <2>2. W[s] \ {} = W[s]
    OBVIOUS
  <2> QED
    BY <1>7, <1>8, <1>11, <2>1, <2>2 DEF Leaves, Becomes
<1>13. FlowWithout(A, B, W, J, D, none, G, tick, sent)
  <2>1. Flow(A, B, W, I, D, tick, sent) /\ s \in Targets
    BY <1>6 DEF EventsInv
  <2> QED
    BY ONLY <1>12, <2>1, FlowLost
<1>14. Flow(A, B, W, J, D \cup G, tick, sent) /\ D \cap G = {}
  <2>1. D \cup none \cup G = D \cup G /\ none \cup G = G
    BY <1>8
  <2> QED
    BY ONLY <1>13, <2>1 DEF FlowWithout
<1>15. LostSound(lost') /\ Dead(lost') = D \cup G
  <2>1. Losses(lost, G, "refused", lost')
    BY <1>5, <1>9 DEF Losing, Losses
  <2>2. "refused" \in Cause /\ "refused" # "evicted" /\ LostSound(lost) /\ Dead(lost) \cap G = {}
    BY <1>6, <1>14 DEF Cause, EventsInv
  <2> QED
    BY <1>6, <1>9, <2>1, <2>2, LostGrows
<1>16. /\ tick' = tick /\ events' = events /\ failed' = failed /\ sent' = sent
       /\ applied' = applied /\ router' = router
  BY <1>5
<1>17. Flow(Done(applied), ToSet(events), Waiting(router), Arriving(inbox'), Dead(lost'), tick, sent)
  BY <1>6, <1>14, <1>15
<1> QED
  BY <1>7, <1>15, <1>16, <1>17 DEF EventsInv

\* A batch of the caller is applied.
LEMMA BatchFlows ==
    ASSUME NEW ap, AppliedSound(ap), NEW batch, BufferSound(batch),
           NEW W, NEW I, NEW D, NEW n, Flow(Done(ap), ToSet(batch), W, I, D, tick, n),
           NEW aq, BatchGoes(ap, batch, aq)
    PROVE  AppliedSound(aq) /\ Flow(Done(aq), {}, W, I, D, tick, n)
<1>1. \A s \in Targets : Following(ToSet(ap[s]), ToSet(batch))
  BY DEF Flow, InStages, Done
<1>2. AppliedSound(aq) /\ DoneWith(ap, batch, aq)
  BY <1>1, BatchApplied
<1>3. PICK A, B, C : /\ A = Done(ap) /\ B = ToSet(batch)
                     /\ C = [s \in Targets |-> A[s] \cup {e \in B : e.target = s}]
  OBVIOUS
<1>4. Flow(C, {}, W, I, D, tick, n)
  BY <1>3, FlowApplied
<1>5. C = Done(aq)
  BY ONLY <1>2, <1>3 DEF DoneWith
<1> QED
  BY <1>2, <1>4, <1>5

\* An empty buffer.
LEMMA NoEvents == BufferSound(<<>>) /\ ToSet(<<>>) = {}
BY DEF BufferSound, Chained, ToSet

\* drain_ready of one station.
LEMMA DrainStationKeeps ==
    ASSUME EventsInv, NEW s \in Targets, DrainStation(s)
    PROVE  EventsInv'
<1>1. PICK ru, ready, longer : /\ ru = [router EXCEPT ![s] = Retained(@, tick[s])]
                               /\ ready = Ready(router[s], tick[s]) /\ longer = <<>> \o ready
  OBVIOUS
<1>2. /\ events = <<>> /\ IsRegistered(router, s) /\ router' = ru
      /\ applied' = [r \in Targets |-> applied[r] \o OfStation(ready, r)]
      /\ UNCHANGED <<tick, inbox, events, failed, sent, lost>>
  BY <1>1 DEF DrainStation, Apply
<1>3. Drains(router, <<>>, s, ru, longer)
  BY <1>1 DEF Drains
<1>4. PICK none, A, I, D : none = <<>> /\ A = Done(applied) /\ I = Arriving(inbox) /\ D = Dead(lost)
  OBVIOUS
<1>5. /\ RouterSound(ru) /\ BufferSound(longer)
      /\ Flow(A, ToSet(longer), Waiting(ru), I, D, tick, sent)
  <2>1. BufferSound(none) /\ RouterSound(router) /\ Flow(A, ToSet(none), Waiting(router), I, D, tick, sent)
    BY <1>2, <1>4, NoEvents DEF EventsInv
  <2>2. tick \in [Targets -> 0 .. MaxTick] /\ Drains(router, none, s, ru, longer)
    BY <1>3, <1>4 DEF EventsInv
  <2> QED
    BY <1>2, <2>1, <2>2, StationDrains
<1>6. longer = ready
  <2>1. ready \in Seq(Event)
    <3>1. QueuesSound(router[s], s) /\ tick[s] \in Nat
      BY <1>2, RouterQueues, EventAssumption DEF EventsInv
    <3> QED
      BY <1>1, <3>1, DrainKeeps
  <2> QED
    BY ONLY <1>1, <2>1
<1>7. AppliedSound(applied') /\ Flow(Done(applied'), {}, Waiting(ru), I, D, tick, sent)
  <2>1. PICK ap, aq : ap = applied /\ aq = applied'
    OBVIOUS
  <2>2. AppliedSound(ap) /\ BatchGoes(ap, ready, aq)
    BY <1>2, <2>1 DEF EventsInv, BatchGoes
  <2>3. BufferSound(ready) /\ Flow(Done(ap), ToSet(ready), Waiting(ru), I, D, tick, sent)
    BY <1>4, <1>5, <1>6, <2>1
  <2>4. AppliedSound(aq) /\ Flow(Done(aq), {}, Waiting(ru), I, D, tick, sent)
    BY <2>2, <2>3, BatchFlows
  <2> QED
    BY <2>1, <2>4
<1>8. /\ tick' = tick /\ inbox' = inbox /\ events' = events /\ failed' = failed
      /\ sent' = sent /\ lost' = lost /\ ToSet(events) = {}
  BY <1>2, NoEvents
<1>9. Flow(Done(applied'), ToSet(events), Waiting(ru), Arriving(inbox), Dead(lost), tick, sent)
  BY <1>4, <1>7, <1>8
<1> QED
  BY <1>2, <1>5, <1>7, <1>8, <1>9 DEF EventsInv

\* drain_ready_events_into.
LEMMA DrainReadyEventsKeeps ==
    ASSUME EventsInv, DrainReadyEvents
    PROVE  EventsInv'
<1>1. PICK start, drain : /\ start = [router |-> router, events |-> <<>>, failed |-> FALSE]
                          /\ drain = Loop(Gathered, start, InOrder(Targets))[Cardinality(Targets)]
  OBVIOUS
<1>2. /\ router' = drain.router /\ events' = drain.events
      /\ failed' = (drain.failed /\ drain.events # <<>>)
      /\ lost' = Losing(ToSet(events), "cleared")
      /\ UNCHANGED <<tick, inbox, sent, applied>>
  BY <1>1 DEF DrainReadyEvents
<1>3. PICK A, B, I, D : A = Done(applied) /\ B = ToSet(events) /\ I = Arriving(inbox) /\ D = Dead(lost)
  OBVIOUS
<1>4. Flow(A, {}, Waiting(router), I, D \cup B, tick, sent) /\ D \cap B = {}
  BY <1>3, FlowCleared DEF EventsInv
<1>5. PICK E, none : E = D \cup B /\ none = <<>>
  OBVIOUS
<1>6. DrainSound(start, A, I, E, sent)
  <2>1. start.router = router /\ start.events = none /\ start.failed = FALSE
    BY <1>1, <1>5
  <2>2. RouterSound(router) /\ BufferSound(none) /\ ToSet(none) = {}
    BY <1>5, NoEvents DEF EventsInv
  <2>3. start \in DrainState
    BY <1>1, <1>5, <2>2 DEF DrainState, RouterSound, BufferSound
  <2> QED
    BY <1>4, <1>5, <2>1, <2>2, <2>3 DEF DrainSound
<1>7. DrainSound(drain, A, I, E, sent)
  <2>1. PICK drained : drained = InOrder(Targets)
    OBVIOUS
  <2>2. drained \in Seq(Targets) /\ Len(drained) = Cardinality(Targets)
    BY <2>1, TargetsInOrder
  <2>3. tick \in [Targets -> 0 .. MaxTick]
    BY DEF EventsInv
  <2>4. DrainSound(Loop(Gathered, start, drained)[Len(drained)], A, I, E, sent)
    BY <1>6, <2>2, <2>3, DrainRuns
  <2> QED
    BY <1>1, <2>1, <2>2, <2>4
<1>8. /\ RouterSound(router') /\ BufferSound(events') /\ failed' \in BOOLEAN
      /\ Flow(A, ToSet(events'), Waiting(router'), I, E, tick, sent)
  BY <1>2, <1>7 DEF DrainSound, DrainState
<1>9. LostSound(lost') /\ Dead(lost') = E
  <2>1. Losses(lost, B, "cleared", lost')
    BY <1>2, <1>3 DEF Losing, Losses
  <2>2. /\ B \in SUBSET Event /\ "cleared" \in Cause /\ "cleared" # "evicted" /\ LostSound(lost)
        /\ Dead(lost) \cap B = {}
    BY <1>3, <1>4, ElementsOf DEF Cause, EventsInv, BufferSound
  <2> QED
    BY <1>3, <1>5, <2>1, <2>2, LostGrows
<1>10. tick' = tick /\ inbox' = inbox /\ sent' = sent /\ applied' = applied
  BY <1>2
<1>11. Flow(Done(applied), ToSet(events'), Waiting(router'), Arriving(inbox), Dead(lost'), tick, sent)
  BY <1>3, <1>8, <1>9
<1> QED
  BY <1>8, <1>9, <1>10, <1>11 DEF EventsInv

\* The caller applies its buffer.
LEMMA ApplyEventsKeeps ==
    ASSUME EventsInv, ApplyEvents
    PROVE  EventsInv'
<1>1. /\ applied' = [r \in Targets |-> applied[r] \o OfStation(events, r)]
      /\ events' = <<>> /\ failed' = FALSE
      /\ tick' = tick /\ inbox' = inbox /\ router' = router /\ sent' = sent /\ lost' = lost
  BY DEF ApplyEvents, Apply
<1>2. PICK ap, aq, batch : ap = applied /\ aq = applied' /\ batch = events
  OBVIOUS
<1>3. /\ AppliedSound(ap) /\ BufferSound(batch)
      /\ Flow(Done(ap), ToSet(batch), Waiting(router), Arriving(inbox), Dead(lost), tick, sent)
  BY <1>2 DEF EventsInv
<1>4. BatchGoes(ap, batch, aq)
  BY <1>1, <1>2 DEF BatchGoes
<1>5. AppliedSound(aq) /\ Flow(Done(aq), {}, Waiting(router), Arriving(inbox), Dead(lost), tick, sent)
  BY <1>3, <1>4, BatchFlows
<1>6. BufferSound(events') /\ ToSet(events') = {} /\ failed' \in BOOLEAN
  BY <1>1, NoEvents
<1> QED
  BY <1>1, <1>2, <1>5, <1>6 DEF EventsInv

\* advance_tick.
LEMMA AdvanceTickKeeps ==
    ASSUME EventsInv, NEW s \in Targets, AdvanceTick(s)
    PROVE  EventsInv'
<1>1. /\ tick[s] < MaxTick /\ tick' = [tick EXCEPT ![s] = @ + 1]
      /\ inbox' = inbox /\ router' = router /\ events' = events /\ failed' = failed
      /\ sent' = sent /\ applied' = applied /\ lost' = lost
  BY DEF AdvanceTick
<1>2. tick' \in [Targets -> 0 .. MaxTick]
  <2>1. tick \in [Targets -> 0 .. MaxTick] /\ MaxTick \in Nat
    BY EventAssumption DEF EventsInv
  <2>2. tick[s] + 1 \in 0 .. MaxTick
    BY <1>1, <2>1
  <2> QED
    BY <1>1, <2>1, <2>2
<1>3. PICK t, u : t = tick /\ u = tick'
  OBVIOUS
<1>4. u = [t EXCEPT ![s] = @ + 1]
  BY <1>1, <1>3
<1>5. Flow(Done(applied), ToSet(events), Waiting(router), Arriving(inbox), Dead(lost), t, sent)
  BY <1>3 DEF EventsInv
<1>6. Flow(Done(applied), ToSet(events), Waiting(router), Arriving(inbox), Dead(lost), u, sent)
  BY <1>4, <1>5, FlowTicked
<1> QED
  BY <1>1, <1>2, <1>3, <1>6 DEF EventsInv

\* A station without queues gets empty ones.
LEMMA NoneHeld ==
    ASSUME NEW s
    PROVE  QueuesSound(EmptyQueues, s) /\ Held(EmptyQueues) = {} /\ EmptyQueues # NoQueue
<1>1. EmptyQueues \in Queues /\ \A p \in Priorities : EmptyQueues[p] = <<>>
  BY DEF EmptyQueues, Queues
<1>2. \A p \in Priorities : OneQueueSound(<<>>, s, p)
  <2>1. \A p \in Priorities : 0 <= QueueBound(p)
    BY QueueLimits
  <2>2. BufferSound(<<>>) /\ ToSet(<<>>) = {} /\ Len(<<>>) = 0
    BY NoEvents
  <2> QED
    BY <2>1, <2>2 DEF OneQueueSound, BufferSound
<1>3. QueuesSound(EmptyQueues, s)
  BY <1>1, <1>2 DEF QueuesSound
<1>4. Held(EmptyQueues) = {}
  BY <1>1, NoEvents DEF Held
<1> QED
  BY <1>1, <1>3, <1>4, NoQueueAssumption

\* EventRouter::register_station.
LEMMA RegisterRouterKeeps ==
    ASSUME EventsInv, NEW s \in Targets, RegisterRouter(s)
    PROVE  EventsInv'
<1>1. PICK q, W : q = EmptyQueues /\ W = Waiting(router)
  OBVIOUS
<1>2. /\ router[s] = NoQueue /\ router' = [router EXCEPT ![s] = q]
      /\ tick' = tick /\ inbox' = inbox /\ events' = events /\ failed' = failed
      /\ sent' = sent /\ applied' = applied /\ lost' = lost
  BY <1>1 DEF RegisterRouter, IsRegistered
<1>3. QueuesSound(q, s) /\ Held(q) = {} /\ q # NoQueue
  BY <1>1, NoneHeld
<1>4. PICK ru : ru = [router EXCEPT ![s] = q]
  OBVIOUS
<1>5. RouterSound(ru) /\ Becomes(W, s, Held(q), Waiting(ru))
  BY <1>1, <1>3, <1>4, RouterChanges DEF EventsInv
<1>6. W[s] = {} /\ W \in [Targets -> SUBSET Event]
  BY <1>1, <1>2, RouterQueues DEF EventsInv
<1>7. Waiting(ru) = W
  BY <1>3, <1>5, <1>6 DEF Becomes
<1> QED
  BY <1>1, <1>2, <1>4, <1>5, <1>7 DEF EventsInv

\* EventRouter::unregister_station.
LEMMA UnregisterRouterKeeps ==
    ASSUME EventsInv, NEW s \in Targets, UnregisterRouter(s)
    PROVE  EventsInv'
<1>1. PICK q, A, B, W, I, D : /\ q = router[s] /\ A = Done(applied) /\ B = ToSet(events)
                              /\ W = Waiting(router) /\ I = Arriving(inbox) /\ D = Dead(lost)
  OBVIOUS
<1>2. /\ q # NoQueue /\ router' = [router EXCEPT ![s] = NoQueue]
      /\ lost' = Losing(Held(q), "unregistered")
      /\ tick' = tick /\ inbox' = inbox /\ events' = events /\ failed' = failed
      /\ sent' = sent /\ applied' = applied
  BY <1>1 DEF UnregisterRouter, IsRegistered
<1>3. PICK G, none, ru : G = Held(q) /\ none = {} /\ ru = [router EXCEPT ![s] = NoQueue]
  OBVIOUS
<1>4. /\ QueuesSound(q, s) /\ W[s] = G /\ G \in SUBSET Event
      /\ W \in [Targets -> SUBSET Event] /\ I \in [Targets -> SUBSET Event]
  BY <1>1, <1>2, <1>3, RouterQueues, HeldIn, PlacesTyped DEF EventsInv
<1>5. RouterSound(ru) /\ Becomes(W, s, {}, Waiting(ru))
  <2>1. PICK empty : empty = NoQueue
    OBVIOUS
  <2>2. RouterSound(router) /\ ru = [router EXCEPT ![s] = empty]
    BY <1>3, <2>1 DEF EventsInv
  <2> QED
    BY <1>1, <2>1, <2>2, RouterChanges
<1>6. Leaves(W, s, G, Waiting(ru)) /\ Leaves(I, s, none, I) /\ G \subseteq W[s] /\ none \subseteq I[s]
  <2>1. W[s] \ G = {} /\ I[s] \ none = I[s]
    BY <1>3, <1>4
  <2> QED
    BY <1>3, <1>4, <1>5, <2>1 DEF Leaves, Becomes
<1>7. FlowWithout(A, B, Waiting(ru), I, D, G, none, tick, sent)
  <2>1. Flow(A, B, W, I, D, tick, sent)
    BY <1>1 DEF EventsInv
  <2> QED
    BY ONLY s \in Targets, <1>6, <2>1, FlowLost
<1>8. Flow(A, B, Waiting(ru), I, D \cup G, tick, sent) /\ D \cap G = {}
  <2>1. D \cup G \cup none = D \cup G /\ G \cup none = G
    BY <1>3
  <2> QED
    BY ONLY <1>7, <2>1 DEF FlowWithout
<1>9. LostSound(lost') /\ Dead(lost') = D \cup G
  <2>1. Losses(lost, G, "unregistered", lost')
    BY <1>2, <1>3 DEF Losing, Losses
  <2>2. /\ "unregistered" \in Cause /\ "unregistered" # "evicted" /\ LostSound(lost)
        /\ Dead(lost) \cap G = {}
    BY <1>1, <1>8 DEF Cause, EventsInv
  <2> QED
    BY <1>1, <1>4, <2>1, <2>2, LostGrows
<1>10. Flow(Done(applied), ToSet(events), Waiting(ru), Arriving(inbox), Dead(lost'), tick, sent)
  BY <1>1, <1>8, <1>9
<1> QED
  BY <1>2, <1>3, <1>5, <1>9, <1>10 DEF EventsInv

\* InMemoryStationTransport::register_station.
LEMMA RegisterTransportKeeps ==
    ASSUME EventsInv, NEW s \in Targets \ Local, RegisterTransport(s)
    PROVE  EventsInv'
<1>1. PICK none, I : none = <<>> /\ I = Arriving(inbox)
  OBVIOUS
<1>2. /\ ~IsRegistered(inbox, s) /\ inbox' = [inbox EXCEPT ![s] = none]
      /\ tick' = tick /\ router' = router /\ events' = events /\ failed' = failed
      /\ sent' = sent /\ applied' = applied /\ lost' = lost
  BY <1>1 DEF RegisterTransport, WithStation
<1>3. PacketsSound(none) /\ EventsOf(none) = {} /\ none # NoQueue
  <2>1. <<>> \in Seq(Packet) /\ Len(<<>>) <= MaxQueued /\ Chained(<<>>, SentOrder)
    BY TransportAssumption DEF Chained
  <2>2. EventsOf(<<>>) = {}
    BY NoEvents DEF EventsOf
  <2> QED
    BY <1>1, <2>1, <2>2, NoQueueAssumption DEF PacketsSound
<1>4. PICK ic : ic = [inbox EXCEPT ![s] = none]
  OBVIOUS
<1>5. InboxSound(ic) /\ Becomes(I, s, EventsOf(none), Arriving(ic))
  BY <1>1, <1>3, <1>4, InboxChanges DEF EventsInv
<1>6. I[s] = {} /\ I \in [Targets -> SUBSET Event]
  BY <1>1, <1>2, InboxQueue, PlacesTyped DEF EventsInv
<1>7. Arriving(ic) = I
  BY <1>3, <1>5, <1>6 DEF Becomes
<1> QED
  BY <1>1, <1>2, <1>4, <1>5, <1>7 DEF EventsInv

\* InMemoryStationTransport::unregister_station.
LEMMA UnregisterTransportKeeps ==
    ASSUME EventsInv, NEW s \in Targets \ Local, UnregisterTransport(s)
    PROVE  EventsInv'
<1>1. PICK A, B, W, I, D : /\ A = Done(applied) /\ B = ToSet(events)
                           /\ W = Waiting(router) /\ I = Arriving(inbox) /\ D = Dead(lost)
  OBVIOUS
<1>2. PICK G, none, ic : G = EventsOf(inbox[s]) /\ none = {} /\ ic = [inbox EXCEPT ![s] = NoQueue]
  OBVIOUS
<1>3. /\ IsRegistered(inbox, s) /\ inbox' = ic
      /\ lost' = Losing(G, "unregistered")
      /\ tick' = tick /\ router' = router /\ events' = events /\ failed' = failed
      /\ sent' = sent /\ applied' = applied
  BY <1>2 DEF UnregisterTransport, WithoutStation
<1>4. /\ I[s] = G /\ G \in SUBSET Event
      /\ W \in [Targets -> SUBSET Event] /\ I \in [Targets -> SUBSET Event]
  <2>1. I[s] = G
    BY <1>1, <1>2, <1>3, InboxQueue DEF EventsInv
  <2> QED
    BY <1>1, <2>1, PlacesTyped
<1>5. InboxSound(ic) /\ Becomes(I, s, {}, Arriving(ic))
  <2>1. PICK empty : empty = NoQueue
    OBVIOUS
  <2>2. InboxSound(inbox) /\ ic = [inbox EXCEPT ![s] = empty]
    BY <1>2, <2>1 DEF EventsInv
  <2> QED
    BY <1>1, <2>1, <2>2, InboxChanges
<1>6. Leaves(I, s, G, Arriving(ic)) /\ Leaves(W, s, none, W) /\ G \subseteq I[s] /\ none \subseteq W[s]
  <2>1. I[s] \ G = {} /\ W[s] \ none = W[s]
    BY <1>2, <1>4
  <2> QED
    BY <1>2, <1>4, <1>5, <2>1 DEF Leaves, Becomes
<1>7. FlowWithout(A, B, W, Arriving(ic), D, none, G, tick, sent)
  <2>1. Flow(A, B, W, I, D, tick, sent) /\ s \in Targets
    BY <1>1 DEF EventsInv
  <2> QED
    BY ONLY <1>6, <2>1, FlowLost
<1>8. Flow(A, B, W, Arriving(ic), D \cup G, tick, sent) /\ D \cap G = {}
  <2>1. D \cup none \cup G = D \cup G /\ none \cup G = G
    BY <1>2
  <2> QED
    BY ONLY <1>7, <2>1 DEF FlowWithout
<1>9. LostSound(lost') /\ Dead(lost') = D \cup G
  <2>1. Losses(lost, G, "unregistered", lost')
    BY <1>3 DEF Losing, Losses
  <2>2. /\ "unregistered" \in Cause /\ "unregistered" # "evicted" /\ LostSound(lost)
        /\ Dead(lost) \cap G = {}
    BY <1>1, <1>8 DEF Cause, EventsInv
  <2> QED
    BY <1>1, <1>4, <2>1, <2>2, LostGrows
<1>10. Flow(Done(applied), ToSet(events), Waiting(router), Arriving(ic), Dead(lost'), tick, sent)
  BY <1>1, <1>8, <1>9
<1> QED
  BY <1>3, <1>5, <1>9, <1>10 DEF EventsInv

\* Nothing was sent.
LEMMA EventsBegin == EventsInit => EventsInv
<1> SUFFICES ASSUME EventsInit PROVE EventsInv
  OBVIOUS
<1>1. /\ tick = [s \in Targets |-> 0] /\ inbox = [s \in Targets |-> <<>>]
      /\ router = [s \in Targets |-> EmptyQueues] /\ events = <<>> /\ failed = FALSE
      /\ sent = 0 /\ applied = [s \in Targets |-> <<>>] /\ lost = {}
  BY DEF EventsInit
<1>2. MaxTick \in Nat /\ MaxEvents \in Nat /\ MaxQueued \in Nat /\ Local \subseteq Targets
  BY EventAssumption, TransportAssumption, TrafficAssumption
<1>3. tick \in [Targets -> 0 .. MaxTick] /\ failed \in BOOLEAN /\ sent \in 0 .. MaxEvents
  <2>1. 0 \in 0 .. MaxTick /\ 0 \in 0 .. MaxEvents
    BY <1>2
  <2>2. tick \in [Targets -> 0 .. MaxTick]
    BY ONLY <1>1, <2>1
  <2> QED
    BY ONLY <1>1, <2>1, <2>2
<1>4. BufferSound(<<>>) /\ ToSet(<<>>) = {} /\ EventsOf(<<>>) = {} /\ BufferSound(events)
  BY <1>1, NoEvents DEF EventsOf
<1>5. InboxSound(inbox)
  <2>1. PacketsSound(<<>>)
    <3>1. <<>> \in Seq(Packet) /\ Len(<<>>) <= MaxQueued /\ Chained(<<>>, SentOrder)
      BY <1>2 DEF Chained
    <3> QED
      BY <3>1 DEF PacketsSound
  <2> QED
    BY <1>1, <1>2, <2>1 DEF InboxSound, PacketsSound
<1>6. RouterSound(router)
  <2>1. \A s \in Targets : QueuesSound(router[s], s) /\ router[s] \in Queues
    BY <1>1, NoneHeld DEF QueuesSound
  <2> QED
    BY <1>1, <2>1, NoneHeld DEF RouterSound, QueuesSound
<1>7. AppliedSound(applied)
  BY <1>1, <1>4 DEF AppliedSound, BufferSound
<1>8. LostSound(lost) /\ Dead(lost) = {}
  BY <1>1 DEF LostSound, Dead
<1>9. PICK none : none = [s \in Targets |-> {}]
  OBVIOUS
<1>10. Done(applied) = none /\ Waiting(router) = none /\ Arriving(inbox) = none /\ ToSet(events) = {}
  <2>1. Done(applied) = none
    BY <1>1, <1>4, <1>9 DEF Done
  <2>2. Waiting(router) = none
    BY <1>1, <1>9, NoneHeld DEF Waiting
  <2>3. Arriving(inbox) = none
    BY <1>1, <1>4, <1>9 DEF Arriving
  <2> QED
    BY <1>1, <1>4, <2>1, <2>2, <2>3
<1>11. Flow(none, {}, none, none, {}, tick, sent)
  <2>1. Addressed(none, none, none)
    BY <1>9 DEF Addressed
  <2>2. InStages(none, {}, none, none)
    BY <1>9 DEF InStages, Following, SentSooner
  <2>3. Punctual(none, {}, tick)
    BY <1>1, <1>9 DEF Punctual
  <2>4. Live(none, {}, none, none) = {}
    BY <1>9 DEF Live
  <2>5. Numbered({}, sent)
    BY <1>1 DEF Numbered
  <2> QED
    BY <2>1, <2>2, <2>3, <2>4, <2>5 DEF Flow
<1> QED
  BY <1>3, <1>4, <1>5, <1>6, <1>7, <1>8, <1>10, <1>11 DEF EventsInv

\* Every step keeps it.
LEMMA EventsStep == EventsInv /\ [EventsNext]_eventVars => EventsInv'
<1> SUFFICES ASSUME EventsInv, [EventsNext]_eventVars PROVE EventsInv'
  OBVIOUS
<1>1. CASE \E s \in Targets, p \in Sendable, due \in 0 .. MaxTick :
              \/ s \in Local /\ Route(s, p, due)
              \/ s \notin Local /\ SendEvent(s, p, due)
  BY <1>1, RouteKeeps, SendEventKeeps
<1>2. CASE \E s \in Targets \ Local :
              SendForeign(s) \/ PumpForeign(s) \/ \E max \in 1 .. MaxPackets : PumpTarget(s, max)
  BY <1>2, SendForeignKeeps, PumpForeignKeeps, PumpTargetKeeps
<1>3. CASE \E s \in Targets : DrainStation(s) \/ AdvanceTick(s)
  BY <1>3, DrainStationKeeps, AdvanceTickKeeps
<1>4. CASE DrainReadyEvents
  BY <1>4, DrainReadyEventsKeeps
<1>5. CASE ApplyEvents
  BY <1>5, ApplyEventsKeeps
<1>6. CASE \E s \in Detachable : RegisterRouter(s) \/ UnregisterRouter(s)
  BY <1>6, TrafficAssumption, RegisterRouterKeeps, UnregisterRouterKeeps
<1>7. CASE \E s \in Detachable \ Local : RegisterTransport(s) \/ UnregisterTransport(s)
  BY <1>7, TrafficAssumption, RegisterTransportKeeps, UnregisterTransportKeeps
<1>8. CASE UNCHANGED eventVars
  BY <1>8 DEF eventVars, EventsInv
<1> QED
  BY <1>1, <1>2, <1>3, <1>4, <1>5, <1>6, <1>7, <1>8 DEF EventsNext
-----------------------------------------------------------------------------
(* What the places of the events say. *)

TransportHas(x) ==
    \E s \in Targets : /\ IsRegistered(inbox, s)
                       /\ \E i \in DOMAIN inbox[s] :
                             inbox[s][i] # Foreign /\ x = <<"transport", s, i, inbox[s][i]>>
TargetsHave(x) ==
    \E s \in Targets : \E i \in DOMAIN applied[s] : x = <<"applied", s, i, applied[s][i]>>
RouterHas(x) ==
    \E s \in Targets, p \in Priorities :
        /\ IsRegistered(router, s)
        /\ \E i \in DOMAIN router[s][p] : x = <<p, s, i, router[s][p][i]>>
BufferHas(x) == \E i \in DOMAIN events : x = <<"events", 0, i, events[i]>>
LostHas(x) == \E l \in lost : x = <<l[2], l[1].target, 0, l[1]>>

\* A place in a sequence that holds no foreign packet.
LEMMA EntryPlaces ==
    ASSUME NEW queue, NEW s, NEW packets, NEW x
    PROVE  x \in Entries(queue, s, packets) <=>
              \E i \in DOMAIN packets : packets[i] # Foreign /\ x = <<queue, s, i, packets[i]>>
BY DEF Entries

\* No entry of a sequence of events is foreign.
LEMMA NoneForeign ==
    ASSUME NEW batch \in Seq(Event)
    PROVE  \A i \in DOMAIN batch : batch[i] # Foreign /\ batch[i] \in Event
<1>1. \A i \in DOMAIN batch : batch[i] \in Event
  OBVIOUS
<1> QED
  BY <1>1, TrafficAssumption

\* An event is in one of the five kinds of places.
LEMMA WhereaboutsAre ==
    ASSUME EventsInv, NEW x
    PROVE  x \in Whereabouts <=>
              TransportHas(x) \/ TargetsHave(x) \/ RouterHas(x) \/ BufferHas(x) \/ LostHas(x)
<1>0. DOMAIN <<>> = {}
  OBVIOUS
<1>1. (\E s \in Targets : x \in Entries("transport", s, IF IsRegistered(inbox, s) THEN inbox[s] ELSE <<>>))
         <=> TransportHas(x)
  <2>1. ASSUME NEW s \in Targets
        PROVE  x \in Entries("transport", s, IF IsRegistered(inbox, s) THEN inbox[s] ELSE <<>>) <=>
                  /\ IsRegistered(inbox, s)
                  /\ \E i \in DOMAIN inbox[s] :
                        inbox[s][i] # Foreign /\ x = <<"transport", s, i, inbox[s][i]>>
    <3>1. CASE IsRegistered(inbox, s)
      BY <3>1, EntryPlaces
    <3>2. CASE ~IsRegistered(inbox, s)
      BY <1>0, <3>2, EntryPlaces
    <3> QED
      BY <3>1, <3>2
  <2> QED
    BY <2>1 DEF TransportHas
<1>2. (\E s \in Targets : x \in Entries("applied", s, applied[s])) <=> TargetsHave(x)
  <2>1. \A s \in Targets : applied[s] \in Seq(Event)
    BY DEF EventsInv, AppliedSound
  <2>2. \A s \in Targets : \A i \in DOMAIN applied[s] : applied[s][i] # Foreign
    BY <2>1, NoneForeign
  <2> QED
    BY <2>2, EntryPlaces DEF TargetsHave
<1>3. (\E y \in Targets \X Priorities :
          x \in Entries(y[2], y[1], IF IsRegistered(router, y[1]) THEN router[y[1]][y[2]] ELSE <<>>))
         <=> RouterHas(x)
  <2>1. ASSUME NEW s \in Targets, NEW p \in Priorities
        PROVE  x \in Entries(p, s, IF IsRegistered(router, s) THEN router[s][p] ELSE <<>>) <=>
                  /\ IsRegistered(router, s)
                  /\ \E i \in DOMAIN router[s][p] : x = <<p, s, i, router[s][p][i]>>
    <3>1. CASE IsRegistered(router, s)
      <4>1. router[s][p] \in Seq(Event)
        BY <3>1 DEF EventsInv, RouterSound, QueuesSound, OneQueueSound
      <4>2. \A i \in DOMAIN router[s][p] : router[s][p][i] # Foreign
        BY <4>1, NoneForeign
      <4> QED
        BY <3>1, <4>2, EntryPlaces
    <3>2. CASE ~IsRegistered(router, s)
      BY <1>0, <3>2, EntryPlaces
    <3> QED
      BY <3>1, <3>2
  <2>2. \A y \in Targets \X Priorities : y[1] \in Targets /\ y[2] \in Priorities
    OBVIOUS
  <2>3. \A s \in Targets, p \in Priorities : <<s, p>> \in Targets \X Priorities
    OBVIOUS
  <2>4. ASSUME NEW y \in Targets \X Priorities,
               x \in Entries(y[2], y[1], IF IsRegistered(router, y[1]) THEN router[y[1]][y[2]] ELSE <<>>)
        PROVE  RouterHas(x)
    BY <2>1, <2>2, <2>4 DEF RouterHas
  <2>5. ASSUME RouterHas(x)
        PROVE  \E y \in Targets \X Priorities :
                  x \in Entries(y[2], y[1], IF IsRegistered(router, y[1]) THEN router[y[1]][y[2]] ELSE <<>>)
    <3>1. PICK s \in Targets, p \in Priorities :
              x \in Entries(p, s, IF IsRegistered(router, s) THEN router[s][p] ELSE <<>>)
      BY <2>1, <2>5 DEF RouterHas
    <3>2. PICK y : y = <<s, p>>
      OBVIOUS
    <3>3. y \in Targets \X Priorities /\ y[1] = s /\ y[2] = p
      BY <3>2
    <3> QED
      BY <3>1, <3>3
  <2> QED
    BY <2>4, <2>5
<1>4. x \in Entries("events", 0, events) <=> BufferHas(x)
  <2>1. events \in Seq(Event)
    BY DEF EventsInv, BufferSound
  <2>2. \A i \in DOMAIN events : events[i] # Foreign
    BY <2>1, NoneForeign
  <2> QED
    BY <2>2, EntryPlaces DEF BufferHas
<1>5. x \in AmongLost <=> LostHas(x)
  BY DEF LostHas, AmongLost
<1>6. /\ x \in OnTransport <=>
            \E s \in Targets : x \in Entries("transport", s, IF IsRegistered(inbox, s) THEN inbox[s] ELSE <<>>)
      /\ x \in AtTargets <=> \E s \in Targets : x \in Entries("applied", s, applied[s])
  BY ONLY DEF OnTransport, AtTargets
<1>7. x \in InRouter <=>
         \E y \in Targets \X Priorities :
             x \in Entries(y[2], y[1], IF IsRegistered(router, y[1]) THEN router[y[1]][y[2]] ELSE <<>>)
  BY ONLY DEF InRouter
<1>8. x \in Whereabouts <=> \/ x \in OnTransport \/ x \in InRouter \/ x \in AtTargets
                           \/ x \in Entries("events", 0, events) \/ x \in AmongLost
  BY ONLY DEF Whereabouts
<1> QED
  BY ONLY <1>1, <1>2, <1>3, <1>4, <1>5, <1>6, <1>7, <1>8

\* An entry of a chain of events is one of its entries only.
LEMMA OneEntry ==
    ASSUME NEW batch \in Seq(Event), Chained(batch, EventOrder),
           NEW i \in DOMAIN batch, NEW j \in DOMAIN batch, batch[i] = batch[j]
    PROVE  i = j
<1>1. i \in 1 .. Len(batch) /\ j \in 1 .. Len(batch) /\ Len(batch) \in Nat /\ batch[i] \in Event
  OBVIOUS
<1>2. <<batch[i], batch[i]>> \notin EventOrder
  BY DEF EventOrder, Precedes
<1>3. ~(i < j) /\ ~(j < i)
  BY <1>1, <1>2 DEF Chained
<1> QED
  BY <1>1, <1>3

\* Neither is one of a queue of the transport.
LEMMA OnePacket ==
    ASSUME NEW packets, PacketsSound(packets),
           NEW i \in DOMAIN packets, NEW j \in DOMAIN packets,
           packets[i] = packets[j], packets[i] # Foreign
    PROVE  i = j
<1>1. /\ packets \in Seq(Packet) /\ Chained(packets, SentOrder)
      /\ i \in 1 .. Len(packets) /\ j \in 1 .. Len(packets) /\ Len(packets) \in Nat
  BY DEF PacketsSound
<1>2. packets[i] \in Event
  BY <1>1, PacketKinds
<1>3. <<packets[i], packets[i]>> \notin SentOrder
  <2>1. packets[i].id \in Nat
    BY <1>2, EventFields
  <2> QED
    BY <1>2, <2>1 DEF SentOrder
<1>4. ~(i < j) /\ ~(j < i)
  BY <1>1, <1>3 DEF Chained
<1> QED
  BY <1>1, <1>4

\* What is where.
LEMMA PlacesHold ==
    ASSUME EventsInv, NEW x
    PROVE  /\ TransportHas(x) => \E s \in Targets : x[4] \in Arriving(inbox)[s]
           /\ TargetsHave(x) => \E s \in Targets : x[4] \in Done(applied)[s]
           /\ RouterHas(x) => \E s \in Targets : x[4] \in Waiting(router)[s]
           /\ BufferHas(x) => x[4] \in ToSet(events)
           /\ LostHas(x) => x[4] \in Dead(lost)
<1>1. ASSUME TransportHas(x) PROVE \E s \in Targets : x[4] \in Arriving(inbox)[s]
  <2>1. PICK s \in Targets : /\ IsRegistered(inbox, s)
                             /\ \E i \in DOMAIN inbox[s] :
                                   inbox[s][i] # Foreign /\ x = <<"transport", s, i, inbox[s][i]>>
    BY <1>1 DEF TransportHas
  <2>2. PICK i \in DOMAIN inbox[s] : inbox[s][i] # Foreign /\ x = <<"transport", s, i, inbox[s][i]>>
    BY <2>1
  <2>3. inbox[s] \in Seq(Packet) /\ Arriving(inbox)[s] = EventsOf(inbox[s])
    BY <2>1, InboxQueue DEF EventsInv
  <2>4. inbox[s][i] \in ToSet(inbox[s])
    BY <2>3, ElementsOf
  <2>5. inbox[s][i] \in Arriving(inbox)[s]
    BY <2>2, <2>3, <2>4 DEF EventsOf
  <2> QED
    BY <2>2, <2>5
<1>2. ASSUME TargetsHave(x) PROVE \E s \in Targets : x[4] \in Done(applied)[s]
  <2>1. PICK s \in Targets : \E i \in DOMAIN applied[s] : x = <<"applied", s, i, applied[s][i]>>
    BY <1>2 DEF TargetsHave
  <2>2. applied[s] \in Seq(Event) /\ Done(applied)[s] = ToSet(applied[s])
    BY DEF EventsInv, AppliedSound, Done
  <2> QED
    BY <2>1, <2>2, ElementsOf
<1>3. ASSUME RouterHas(x) PROVE \E s \in Targets : x[4] \in Waiting(router)[s]
  <2>1. PICK s \in Targets, p \in Priorities :
            /\ IsRegistered(router, s)
            /\ \E i \in DOMAIN router[s][p] : x = <<p, s, i, router[s][p][i]>>
    BY <1>3 DEF RouterHas
  <2>2. QueuesSound(router[s], s) /\ Waiting(router)[s] = Held(router[s])
    BY <2>1, RouterQueues DEF EventsInv
  <2>3. router[s][p] \in Seq(Event) /\ ToSet(router[s][p]) \subseteq Held(router[s])
    BY <2>2, HeldIn DEF QueuesSound, OneQueueSound
  <2> QED
    BY <2>1, <2>2, <2>3, ElementsOf
<1>4. ASSUME BufferHas(x) PROVE x[4] \in ToSet(events)
  <2>1. events \in Seq(Event)
    BY DEF EventsInv, BufferSound
  <2> QED
    BY <1>4, <2>1, ElementsOf DEF BufferHas
<1>5. ASSUME LostHas(x) PROVE x[4] \in Dead(lost)
  BY <1>5 DEF LostHas, Dead
<1> QED
  BY <1>1, <1>2, <1>3, <1>4, <1>5

\* Every event that is somewhere has a place.
LEMMA PlacesShown ==
    ASSUME EventsInv, NEW e
    PROVE  /\ \A s \in Targets : e \in Arriving(inbox)[s] => \E x : TransportHas(x) /\ x[4] = e
           /\ \A s \in Targets : e \in Done(applied)[s] => \E x : TargetsHave(x) /\ x[4] = e
           /\ \A s \in Targets : e \in Waiting(router)[s] => \E x : RouterHas(x) /\ x[4] = e
           /\ e \in ToSet(events) => \E x : BufferHas(x) /\ x[4] = e
           /\ e \in Dead(lost) => \E x : LostHas(x) /\ x[4] = e
<1>1. ASSUME NEW s \in Targets, e \in Arriving(inbox)[s] PROVE \E x : TransportHas(x) /\ x[4] = e
  <2>1. IsRegistered(inbox, s) /\ inbox[s] \in Seq(Packet) /\ e \in EventsOf(inbox[s])
    BY <1>1, InboxQueue DEF EventsInv
  <2>2. PICK i \in DOMAIN inbox[s] : inbox[s][i] = e /\ e # Foreign
    BY <2>1, ElementsOf DEF EventsOf
  <2>3. PICK x : x = <<"transport", s, i, inbox[s][i]>>
    OBVIOUS
  <2>4. TransportHas(x) /\ x[4] = e
    BY <2>1, <2>2, <2>3 DEF TransportHas
  <2> QED
    BY <2>4
<1>2. ASSUME NEW s \in Targets, e \in Done(applied)[s] PROVE \E x : TargetsHave(x) /\ x[4] = e
  <2>1. applied[s] \in Seq(Event) /\ Done(applied)[s] = ToSet(applied[s])
    BY DEF EventsInv, AppliedSound, Done
  <2>2. PICK i \in DOMAIN applied[s] : applied[s][i] = e
    BY <1>2, <2>1, ElementsOf
  <2>3. PICK x : x = <<"applied", s, i, applied[s][i]>>
    OBVIOUS
  <2>4. TargetsHave(x) /\ x[4] = e
    BY <2>2, <2>3 DEF TargetsHave
  <2> QED
    BY <2>4
<1>3. ASSUME NEW s \in Targets, e \in Waiting(router)[s] PROVE \E x : RouterHas(x) /\ x[4] = e
  <2>1. router[s] # NoQueue /\ QueuesSound(router[s], s) /\ Waiting(router)[s] = Held(router[s])
    BY <1>3, RouterQueues DEF EventsInv
  <2>2. PICK p \in Priorities : e \in ToSet(router[s][p])
    BY <1>3, <2>1 DEF Held
  <2>3. router[s][p] \in Seq(Event)
    BY <2>1 DEF QueuesSound, OneQueueSound
  <2>4. PICK i \in DOMAIN router[s][p] : router[s][p][i] = e
    BY <2>2, <2>3, ElementsOf
  <2>5. PICK x : x = <<p, s, i, router[s][p][i]>>
    OBVIOUS
  <2>6. RouterHas(x) /\ x[4] = e
    BY <2>1, <2>4, <2>5 DEF RouterHas, IsRegistered
  <2> QED
    BY <2>6
<1>4. ASSUME e \in ToSet(events) PROVE \E x : BufferHas(x) /\ x[4] = e
  <2>1. events \in Seq(Event)
    BY DEF EventsInv, BufferSound
  <2>2. PICK i \in DOMAIN events : events[i] = e
    BY <1>4, <2>1, ElementsOf
  <2>3. PICK x : x = <<"events", 0, i, events[i]>>
    OBVIOUS
  <2>4. BufferHas(x) /\ x[4] = e
    BY <2>2, <2>3 DEF BufferHas
  <2> QED
    BY <2>4
<1>5. ASSUME e \in Dead(lost) PROVE \E x : LostHas(x) /\ x[4] = e
  <2>1. PICK l \in lost : l[1] = e
    BY <1>5 DEF Dead
  <2>2. PICK x : x = <<l[2], l[1].target, 0, l[1]>>
    OBVIOUS
  <2>3. LostHas(x) /\ x[4] = e
    BY <2>1, <2>2 DEF LostHas
  <2> QED
    BY <2>3
<1> QED
  BY <1>1, <1>2, <1>3, <1>4, <1>5

\* In each kind of place an event has one.
LEMMA PlacesOnce ==
    ASSUME EventsInv, NEW x, NEW y, x[4] = y[4]
    PROVE  /\ TransportHas(x) /\ TransportHas(y) => x = y
           /\ TargetsHave(x) /\ TargetsHave(y) => x = y
           /\ RouterHas(x) /\ RouterHas(y) => x = y
           /\ BufferHas(x) /\ BufferHas(y) => x = y
           /\ LostHas(x) /\ LostHas(y) => x = y
<1>0. \A r \in Targets : \A e \in Arriving(inbox)[r] \cup Waiting(router)[r] \cup Done(applied)[r] :
          e.target = r
  BY PlacesTyped
<1>1. ASSUME TransportHas(x), TransportHas(y) PROVE x = y
  <2>1. PICK s \in Targets : /\ IsRegistered(inbox, s)
                             /\ \E i \in DOMAIN inbox[s] :
                                   inbox[s][i] # Foreign /\ x = <<"transport", s, i, inbox[s][i]>>
    BY <1>1 DEF TransportHas
  <2>2. PICK i \in DOMAIN inbox[s] : inbox[s][i] # Foreign /\ x = <<"transport", s, i, inbox[s][i]>>
    BY <2>1
  <2>3. PICK r \in Targets : /\ IsRegistered(inbox, r)
                             /\ \E j \in DOMAIN inbox[r] :
                                   inbox[r][j] # Foreign /\ y = <<"transport", r, j, inbox[r][j]>>
    BY <1>1 DEF TransportHas
  <2>4. PICK j \in DOMAIN inbox[r] : inbox[r][j] # Foreign /\ y = <<"transport", r, j, inbox[r][j]>>
    BY <2>3
  <2>5. PICK e : e = x[4]
    OBVIOUS
  <2>6. inbox[s][i] = e /\ inbox[r][j] = e
    BY <2>2, <2>4, <2>5
  <2>7. /\ PacketsSound(inbox[s]) /\ Arriving(inbox)[s] = EventsOf(inbox[s]) /\ inbox[s] \in Seq(Packet)
        /\ PacketsSound(inbox[r]) /\ Arriving(inbox)[r] = EventsOf(inbox[r]) /\ inbox[r] \in Seq(Packet)
    BY <2>1, <2>3, InboxQueue DEF EventsInv
  <2>8. e \in Arriving(inbox)[s] /\ e \in Arriving(inbox)[r]
    BY <2>2, <2>4, <2>6, <2>7, ElementsOf DEF EventsOf
  <2>9. s = r
    BY <1>0, <2>8
  <2>10. i = j
    BY <2>2, <2>6, <2>7, <2>9, OnePacket
  <2> QED
    BY <2>2, <2>4, <2>9, <2>10
<1>2. ASSUME TargetsHave(x), TargetsHave(y) PROVE x = y
  <2>1. PICK s \in Targets : \E i \in DOMAIN applied[s] : x = <<"applied", s, i, applied[s][i]>>
    BY <1>2 DEF TargetsHave
  <2>2. PICK i \in DOMAIN applied[s] : x = <<"applied", s, i, applied[s][i]>>
    BY <2>1
  <2>3. PICK r \in Targets : \E j \in DOMAIN applied[r] : y = <<"applied", r, j, applied[r][j]>>
    BY <1>2 DEF TargetsHave
  <2>4. PICK j \in DOMAIN applied[r] : y = <<"applied", r, j, applied[r][j]>>
    BY <2>3
  <2>5. PICK e : e = x[4]
    OBVIOUS
  <2>6. applied[s][i] = e /\ applied[r][j] = e
    BY <2>2, <2>4, <2>5
  <2>7. \A q \in Targets : /\ applied[q] \in Seq(Event) /\ Chained(applied[q], EventOrder)
                           /\ Done(applied)[q] = ToSet(applied[q])
    BY DEF EventsInv, AppliedSound, BufferSound, Done
  <2>8. e \in Done(applied)[s] /\ e \in Done(applied)[r]
    BY <2>6, <2>7, ElementsOf
  <2>9. s = r
    BY <1>0, <2>8
  <2>10. i = j
    BY <2>6, <2>7, <2>9, OneEntry
  <2> QED
    BY <2>2, <2>4, <2>9, <2>10
<1>3. ASSUME RouterHas(x), RouterHas(y) PROVE x = y
  <2>1. PICK s \in Targets, p \in Priorities :
            /\ IsRegistered(router, s)
            /\ \E i \in DOMAIN router[s][p] : x = <<p, s, i, router[s][p][i]>>
    BY <1>3 DEF RouterHas
  <2>2. PICK i \in DOMAIN router[s][p] : x = <<p, s, i, router[s][p][i]>>
    BY <2>1
  <2>3. PICK r \in Targets, q \in Priorities :
            /\ IsRegistered(router, r)
            /\ \E j \in DOMAIN router[r][q] : y = <<q, r, j, router[r][q][j]>>
    BY <1>3 DEF RouterHas
  <2>4. PICK j \in DOMAIN router[r][q] : y = <<q, r, j, router[r][q][j]>>
    BY <2>3
  <2>5. PICK e : e = x[4]
    OBVIOUS
  <2>6. router[s][p][i] = e /\ router[r][q][j] = e
    BY <2>2, <2>4, <2>5
  <2>7. OneQueueSound(router[s][p], s, p) /\ OneQueueSound(router[r][q], r, q)
    BY <2>1, <2>3 DEF EventsInv, RouterSound, QueuesSound
  <2>8. e \in ToSet(router[s][p]) /\ e \in ToSet(router[r][q])
    BY <2>6, <2>7, ElementsOf DEF OneQueueSound
  <2>9. s = r /\ p = q
    BY <2>7, <2>8 DEF OneQueueSound
  <2>10. PICK queue : queue = router[s][p]
    OBVIOUS
  <2>11. /\ queue \in Seq(Event) /\ Chained(queue, EventOrder) /\ i \in DOMAIN queue /\ j \in DOMAIN queue
         /\ queue[i] = queue[j]
    BY <2>6, <2>7, <2>9, <2>10 DEF OneQueueSound
  <2>12. i = j
    BY ONLY <2>11, OneEntry
  <2> QED
    BY <2>2, <2>4, <2>9, <2>12
<1>4. ASSUME BufferHas(x), BufferHas(y) PROVE x = y
  <2>1. events \in Seq(Event) /\ Chained(events, EventOrder)
    BY DEF EventsInv, BufferSound
  <2>2. PICK i \in DOMAIN events, j \in DOMAIN events :
            x = <<"events", 0, i, events[i]>> /\ y = <<"events", 0, j, events[j]>>
    BY <1>4 DEF BufferHas
  <2>3. events[i] = events[j]
    BY <2>2
  <2>4. i = j
    BY <2>1, <2>3, OneEntry
  <2> QED
    BY <2>2, <2>4
<1>5. ASSUME LostHas(x), LostHas(y) PROVE x = y
  <2>1. PICK l \in lost, m \in lost :
            x = <<l[2], l[1].target, 0, l[1]>> /\ y = <<m[2], m[1].target, 0, m[1]>>
    BY <1>5 DEF LostHas
  <2>2. l[1] = m[1]
    BY <2>1
  <2>3. l = m
    BY <2>2 DEF EventsInv, LostSound
  <2> QED
    BY <2>1, <2>3
<1> QED
  BY <1>1, <1>2, <1>3, <1>4, <1>5

\* The types, and the room of each queue.
LEMMA EventsTyped == EventsInv => EventsTypeOK
<1> SUFFICES ASSUME EventsInv PROVE EventsTypeOK
  OBVIOUS
<1>1. /\ tick \in [Targets -> 0 .. MaxTick] /\ failed \in BOOLEAN /\ sent \in 0 .. MaxEvents
      /\ events \in Seq(Event) /\ applied \in [Targets -> Seq(Event)] /\ lost \subseteq Event \X Cause
  BY DEF EventsInv, BufferSound, AppliedSound, LostSound
<1>2. ASSUME NEW s \in Targets, IsRegistered(inbox, s)
      PROVE  inbox[s] \in Seq(Packet) /\ Len(inbox[s]) <= MaxQueued
  BY <1>2, InboxQueue DEF EventsInv, PacketsSound
<1>3. ASSUME NEW s \in Targets, IsRegistered(router, s)
      PROVE  /\ router[s] \in Queues
             /\ \A p \in Reliable : Len(router[s][p]) <= Limits[p]
             /\ Len(router[s]["BestEffort"]) <=
                   (IF Limits["BestEffort"] = 0 THEN 1 ELSE Limits["BestEffort"])
  <2>1. router[s] \in Queues /\ \A p \in Priorities : Len(router[s][p]) <= QueueBound(p)
    BY <1>3 DEF EventsInv, RouterSound, QueuesSound, OneQueueSound
  <2>2. \A p \in Reliable : p \in Priorities /\ QueueBound(p) = Limits[p]
    BY DEF Reliable, Priorities, QueueBound
  <2>3. /\ "BestEffort" \in Priorities
        /\ QueueBound("BestEffort") = IF Limits["BestEffort"] = 0 THEN 1 ELSE Limits["BestEffort"]
    BY DEF Priorities, QueueBound
  <2> QED
    BY <2>1, <2>2, <2>3
<1> QED
  BY <1>1, <1>2, <1>3 DEF EventsTypeOK

\* An event has one place, every number up to the last has an event.
LEMMA EventsAreConserved == EventsInv => EventsConserved
<1> SUFFICES ASSUME EventsInv PROVE EventsConserved
  OBVIOUS
<1>1. PICK A, B, W, I, D : /\ A = Done(applied) /\ B = ToSet(events) /\ W = Waiting(router)
                           /\ I = Arriving(inbox) /\ D = Dead(lost)
  OBVIOUS
<1>2. Flow(A, B, W, I, D, tick, sent)
  BY <1>1 DEF EventsInv
<1>3. Numbered(D \cup Live(A, B, W, I), sent)
  BY <1>2 DEF Flow
<1>4. \A x \in Whereabouts : \/ TransportHas(x) \/ TargetsHave(x) \/ RouterHas(x)
                             \/ BufferHas(x) \/ LostHas(x)
  BY WhereaboutsAre
<1>5. \A x : /\ TransportHas(x) => \E s \in Targets : x[4] \in I[s]
             /\ TargetsHave(x) => \E s \in Targets : x[4] \in A[s]
             /\ RouterHas(x) => \E s \in Targets : x[4] \in W[s]
             /\ BufferHas(x) => x[4] \in B
             /\ LostHas(x) => x[4] \in D
  BY <1>1, PlacesHold
<1>6. \A x \in Whereabouts : x[4] \in D \cup Live(A, B, W, I)
  <2> SUFFICES ASSUME NEW x \in Whereabouts PROVE x[4] \in D \cup Live(A, B, W, I)
    OBVIOUS
  <2>1. PICK e : e = x[4]
    OBVIOUS
  <2>2. \/ e \in D \/ e \in B
        \/ \E s \in Targets : e \in A[s] \/ e \in W[s] \/ e \in I[s]
    BY <1>4, <1>5, <2>1
  <2>3. e \in D \/ e \in Live(A, B, W, I)
    BY <2>2, LiveIn
  <2> QED
    BY <2>1, <2>3
<1>7. \A e \in D \cup Live(A, B, W, I) : \E x \in Whereabouts : x[4] = e
  <2> SUFFICES ASSUME NEW e \in D \cup Live(A, B, W, I) PROVE \E x \in Whereabouts : x[4] = e
    OBVIOUS
  <2>1. \/ e \in D \/ e \in B
        \/ \E s \in Targets : e \in A[s] \/ e \in W[s] \/ e \in I[s]
    BY LiveIn
  <2>2. /\ \A s \in Targets : e \in I[s] => \E x : TransportHas(x) /\ x[4] = e
        /\ \A s \in Targets : e \in A[s] => \E x : TargetsHave(x) /\ x[4] = e
        /\ \A s \in Targets : e \in W[s] => \E x : RouterHas(x) /\ x[4] = e
        /\ e \in B => \E x : BufferHas(x) /\ x[4] = e
        /\ e \in D => \E x : LostHas(x) /\ x[4] = e
    BY <1>1, PlacesShown
  <2>3. PICK x : /\ x[4] = e
                 /\ TransportHas(x) \/ TargetsHave(x) \/ RouterHas(x) \/ BufferHas(x) \/ LostHas(x)
    BY <2>1, <2>2
  <2>4. x \in Whereabouts
    BY <2>3, WhereaboutsAre
  <2> QED
    BY <2>3, <2>4
<1>8. ASSUME NEW x \in Whereabouts, NEW y \in Whereabouts, x[4].id = y[4].id PROVE x = y
  <2>1. PICK e : e = x[4]
    OBVIOUS
  <2>2. y[4] = e
    BY <1>3, <1>6, <1>8, <2>1 DEF Numbered
  <2>3. /\ \A r, s \in Targets : A[r] \cap W[s] = {} /\ A[r] \cap I[s] = {} /\ W[r] \cap I[s] = {}
        /\ \A s \in Targets : B \cap A[s] = {} /\ B \cap W[s] = {} /\ B \cap I[s] = {}
        /\ \A s \in Targets : \A a \in A[s] \cup W[s] \cup I[s] \cup B :
              a \in Live(A, B, W, I) /\ a \notin D
    <3>1. PICK t, n : t = tick /\ n = sent
      OBVIOUS
    <3>2. Flow(A, B, W, I, D, t, n)
      BY <1>2, <3>1
    <3> QED
      BY <3>2, OnePlace
  <2>10. D \cap Live(A, B, W, I) = {}
    BY <1>2 DEF Flow
  <2>4. e \in B => e \notin D
    BY <2>10, LiveIn
  <2>5. /\ TransportHas(x) => \E s \in Targets : e \in I[s]
        /\ TargetsHave(x) => \E s \in Targets : e \in A[s]
        /\ RouterHas(x) => \E s \in Targets : e \in W[s]
        /\ BufferHas(x) => e \in B
        /\ LostHas(x) => e \in D
    BY <1>5, <2>1
  <2>6. /\ TransportHas(y) => \E s \in Targets : e \in I[s]
        /\ TargetsHave(y) => \E s \in Targets : e \in A[s]
        /\ RouterHas(y) => \E s \in Targets : e \in W[s]
        /\ BufferHas(y) => e \in B
        /\ LostHas(y) => e \in D
    BY <1>5, <2>2
  <2>7. /\ TransportHas(x) /\ TransportHas(y) => x = y
        /\ TargetsHave(x) /\ TargetsHave(y) => x = y
        /\ RouterHas(x) /\ RouterHas(y) => x = y
        /\ BufferHas(x) /\ BufferHas(y) => x = y
        /\ LostHas(x) /\ LostHas(y) => x = y
    <3>1. x[4] = y[4]
      BY <2>1, <2>2
    <3> QED
      BY <3>1, PlacesOnce
  <2>8. CASE e \in D
    <3>1. e \notin B /\ \A s \in Targets : e \notin A[s] /\ e \notin W[s] /\ e \notin I[s]
      BY <2>3, <2>4, <2>8
    <3> QED
      BY <1>4, <2>5, <2>6, <2>7, <3>1
  <2>9. CASE e \notin D
    <3>1. ~LostHas(x) /\ ~LostHas(y)
      BY <2>5, <2>6, <2>9
    <3>2. CASE e \in B
      <4>1. \A s \in Targets : e \notin A[s] /\ e \notin W[s] /\ e \notin I[s]
        BY <2>3, <3>2
      <4> QED
        BY <1>4, <2>5, <2>6, <2>7, <3>1, <4>1
    <3>3. CASE e \notin B
      <4>1. ~BufferHas(x) /\ ~BufferHas(y)
        BY <2>5, <2>6, <3>3
      <4>2. CASE \E s \in Targets : e \in A[s]
        <5>1. \A s \in Targets : e \notin W[s] /\ e \notin I[s]
          BY <2>3, <4>2
        <5> QED
          BY <1>4, <2>5, <2>6, <2>7, <3>1, <4>1, <5>1
      <4>3. CASE ~\E s \in Targets : e \in A[s]
        <5>1. ~TargetsHave(x) /\ ~TargetsHave(y)
          BY <2>5, <2>6, <4>3
        <5>2. ~((\E s \in Targets : e \in W[s]) /\ (\E s \in Targets : e \in I[s]))
          BY <2>3
        <5> QED
          BY <1>4, <2>5, <2>6, <2>7, <3>1, <4>1, <5>1, <5>2
      <4> QED
        BY <4>2, <4>3
    <3> QED
      BY <3>2, <3>3
  <2> QED
    BY <2>8, <2>9
<1>9. {x[4].id : x \in Whereabouts} = 1 .. sent
  <2>1. \A x \in Whereabouts : x[4].id \in 1 .. sent
    BY <1>3, <1>6 DEF Numbered
  <2>2. ASSUME NEW k \in 1 .. sent PROVE \E x \in Whereabouts : x[4].id = k
    <3>1. PICK e \in D \cup Live(A, B, W, I) : e.id = k
      BY <1>3 DEF Numbered
    <3> QED
      BY <1>7, <3>1
  <2> QED
    BY <2>1, <2>2
<1>10. \A x \in lost : x[2] = "evicted" => x[1].priority = "BestEffort"
  BY DEF EventsInv, LostSound
<1> QED
  BY <1>8, <1>9, <1>10, EventsTyped DEF EventsConserved

\* What is applied is a chain, and was due.
LEMMA AppliedAreOrdered == EventsInv => AppliedInOrder
<1> SUFFICES ASSUME EventsInv, NEW s \in Targets, NEW i \in DOMAIN applied[s], NEW j \in DOMAIN applied[s]
             PROVE  /\ applied[s][i].target_tick <= tick[s]
                    /\ i < j /\ applied[s][i].priority = applied[s][j].priority =>
                          \/ applied[s][i].id < applied[s][j].id
                          \/ applied[s][i].target_tick < applied[s][j].target_tick
  BY DEF AppliedInOrder
<1>1. PICK done, a, b : done = applied[s] /\ a = done[i] /\ b = done[j]
  OBVIOUS
<1>2. /\ done \in Seq(Event) /\ Chained(done, EventOrder) /\ Done(applied)[s] = ToSet(done)
      /\ i \in 1 .. Len(done) /\ j \in 1 .. Len(done)
  BY <1>1 DEF EventsInv, AppliedSound, BufferSound, Done
<1>3. a \in ToSet(done) /\ b \in ToSet(done)
  BY <1>1, <1>2, ElementsOf
<1>4. a.target = s /\ b.target = s
  BY <1>2, <1>3, PlacesTyped
<1>5. a.target_tick <= tick[s]
  <2>1. Punctual(Done(applied), ToSet(events), tick)
    BY DEF EventsInv, Flow
  <2> QED
    BY <1>2, <1>3, <2>1 DEF Punctual
<1>6. ASSUME i < j, a.priority = b.priority PROVE a.id < b.id \/ a.target_tick < b.target_tick
  <2>1. <<a, b>> \in EventOrder
    BY <1>1, <1>2, <1>6 DEF Chained
  <2> QED
    BY <1>4, <1>6, <2>1 DEF EventOrder, Precedes
<1> QED
  BY <1>1, <1>5, <1>6

\* Every event is in one place until it is applied, in its order and no sooner
\* than it is due, or lost to a known cause: for every number of stations, of
\* events, of ticks, and for all limits of the queues.
THEOREM EventsKeptHolds == EventsSpec => []EventsKept
<1>1. EventsInv => EventsKept
  BY EventsAreConserved, AppliedAreOrdered DEF EventsKept
<1> QED
  BY <1>1, EventsBegin, EventsStep, PTL DEF EventsSpec

-----------------------------------------------------------------------------
(* Packet security. *)

\* Envelopes that are under way or were let through.
Sealed == network \cup {accepted[i] : i \in DOMAIN accepted}

\* A stamp stands for one envelope, and those to come are new.
StampsUnique ==
    /\ \A e, f \in Sealed : e.stamp = f.stamp => e.packet = f.packet
    /\ \A e \in Sealed : e.stamp.nonce < next_nonce[e.stamp.key_id]

\* The history is the latest of the stamps that were let through, as many as it
\* holds.
HistoryRecent ==
    /\ Len(order) <= Len(accepted)
    /\ Len(order) = Len(accepted) \/ Len(order) = MaxSeen
    /\ \A i \in 1 .. Len(order) :
          order[i] = accepted[Len(accepted) - Len(order) + i].stamp

\* The receiver has a key of the sender, for MaxDelay ticks longer.
KeyInStep(k) ==
    /\ Has(sender_ring, k) => Has(receiver_ring, k)
    /\ Has(receiver_ring, k) =>
          /\ receiver_ring[k].activated_at <= now
          /\ k \notin revoked => receiver_ring[k].state # "Revoked"
    /\ Has(sender_ring, k) /\ receiver_ring[k].expires_at # Never =>
          /\ sender_ring[k].expires_at # Never
          /\ receiver_ring[k].expires_at = sender_ring[k].expires_at + MaxDelay
    /\ Has(sender_ring, k) /\ sender_ring[k].expires_at # Never =>
          sender_ring[k].expires_at \in Ticks

\* Both rings are at the same point of the rotation of every key, up to what
\* is under way.
RingsInStep == \A k \in KeyIds : KeyInStep(k)

\* What was sealed with a key at a tick was so before the key expired at the
\* sender, and arrives before it expires at the receiver.
ArrivesInTime(k, sealed_at) ==
    /\ Has(receiver_ring, k)
    /\ receiver_ring[k].expires_at # Never => sealed_at + MaxDelay < receiver_ring[k].expires_at
    /\ Has(sender_ring, k) /\ sender_ring[k].expires_at # Never =>
          sealed_at < sender_ring[k].expires_at

UnderWay ==
    \A e \in network :
        /\ e.sealed_at <= now /\ now <= e.sealed_at + MaxDelay
        /\ ArrivesInTime(e.stamp.key_id, e.sealed_at)

ReplayInv == TypeOK /\ StampsUnique /\ HistoryRecent /\ NoFalseReplay /\ ReplayBeyondWindow
RotationInv == TypeOK /\ RingsInStep /\ UnderWay

-----------------------------------------------------------------------------
(* Types. *)

\* The calls that manage keys keep rings of descriptors.
LEMMA RingUpdates ==
    ASSUME NEW ring \in Rings, NEW k \in KeyIds, NEW at \in Ticks
    PROVE  /\ Inserted(ring, k, at) \in Rings
           /\ WithoutExpired(ring, at) \in Rings
           /\ Has(ring, k) => /\ Activated(ring, k, at) \in Rings
                              /\ Retired(ring, k) \in Rings
                              /\ RevokedIn(ring, k) \in Rings
                              /\ \A x \in Expiry : WithExpiry(ring, k, x) \in Rings
<1>1. Inserted(ring, k, at) \in Rings
  <2>1. [state |-> "Active", activated_at |-> at, expires_at |-> Never] \in Descriptor
    BY DEF Descriptor, Expiry
  <2> QED BY <2>1 DEF Inserted, Rings
<1>2. WithoutExpired(ring, at) \in Rings
  BY DEF WithoutExpired, Rings
<1>3. ASSUME Has(ring, k)
      PROVE  /\ Activated(ring, k, at) \in Rings
             /\ Retired(ring, k) \in Rings
             /\ RevokedIn(ring, k) \in Rings
             /\ \A x \in Expiry : WithExpiry(ring, k, x) \in Rings
  <2>1. ring[k] \in Descriptor
    BY <1>3 DEF Has, Rings
  <2>2. Activated(ring, k, at) \in Rings
    BY <2>1 DEF Activated, Rings, Descriptor
  <2>3. Retired(ring, k) \in Rings /\ RevokedIn(ring, k) \in Rings
    BY <2>1 DEF Retired, RevokedIn, Rings, Descriptor
  <2>4. \A x \in Expiry : WithExpiry(ring, k, x) \in Rings
    BY <2>1 DEF WithExpiry, Rings, Descriptor
  <2> QED BY <2>2, <2>3, <2>4
<1> QED BY <1>1, <1>2, <1>3

\* The bounds are numbers.
LEMMA Bounds ==
    /\ MaxNow \in Nat /\ MaxDelay \in Nat /\ MaxSeen \in Nat /\ MaxNonce \in Nat
    /\ MaxAccepted \in Nat /\ MaxManaged \in Nat
    /\ Never \notin Nat
BY KeyRingAssumption, SecurityAssumption

\* What the replay window makes of its history.
LEMMA RecordedType ==
    ASSUME NEW stamp \in Stamp, order \in Seq(Stamp), Len(order) <= MaxSeen
    PROVE  /\ Recorded(stamp) \in Seq(Stamp)
           /\ Len(Recorded(stamp)) <= MaxSeen
<1> USE Bounds DEF Recorded
<1>1. CASE MaxSeen = 0
  BY <1>1
<1>2. CASE MaxSeen # 0 /\ Len(order) < MaxSeen
  BY <1>2
<1>3. CASE MaxSeen # 0 /\ ~(Len(order) < MaxSeen)
  <2>1. order # <<>> BY <1>3
  <2>2. Tail(order) \in Seq(Stamp) /\ Len(Tail(order)) = Len(order) - 1
    BY <2>1
  <2> QED BY <1>3, <2>2
<1> QED BY <1>1, <1>2, <1>3

\* A call that manages keys keeps the types.
LEMMA RotateTypes ==
    ASSUME TypeOK, RingsInStep, NEW k \in KeyIds, Rotate(k)
    PROVE  TypeOK'
<1> USE Bounds
<1>0. /\ sender_ring \in Rings /\ receiver_ring \in Rings /\ revoked \subseteq KeyIds
      /\ now \in 0 .. MaxNow /\ now \in Ticks /\ now + 1 \in Expiry
  BY DEF TypeOK, Ticks, Expiry
<1>1. sender_ring' \in Rings /\ receiver_ring' \in Rings /\ revoked' \subseteq KeyIds
  <2>1. CASE InsertAtReceiver(k)
    BY <2>1, <1>0, RingUpdates DEF InsertAtReceiver
  <2>2. CASE InsertAtSender(k)
    BY <2>2, <1>0, RingUpdates DEF InsertAtSender
  <2>3. CASE RetireAtReceiver(k)
    BY <2>3, <1>0, RingUpdates DEF RetireAtReceiver
  <2>4. CASE RetireAtSender(k)
    BY <2>4, <1>0, RingUpdates DEF RetireAtSender
  <2>5. CASE ActivateAtSender(k)
    BY <2>5, <1>0, RingUpdates DEF ActivateAtSender
  <2>6. CASE ExpireAtSender(k)
    BY <2>6, <1>0, RingUpdates DEF ExpireAtSender
  <2>7. CASE ExpireAtReceiver(k)
    <3>1. sender_ring[k].expires_at \in Ticks
      BY <2>7 DEF ExpireAtReceiver, RingsInStep, KeyInStep
    <3>2. sender_ring[k].expires_at + MaxDelay \in Expiry
      BY <3>1 DEF Expiry, Ticks
    <3> QED BY <2>7, <1>0, <3>2, RingUpdates DEF ExpireAtReceiver
  <2>8. CASE Revoke(k)
    BY <2>8, <1>0, RingUpdates DEF Revoke
  <2> QED BY <2>1, <2>2, <2>3, <2>4, <2>5, <2>6, <2>7, <2>8 DEF Rotate
<1>2. managed' \in 0 .. MaxManaged
  BY DEF Rotate, TypeOK
<1> QED BY <1>0, <1>1, <1>2 DEF Rotate, TypeOK, traffic

\* The initial state has the types.
LEMMA InitTypes == Init => TypeOK
<1> USE Bounds
<1> HAVE Init
<1>1. sender_ring \in Rings /\ receiver_ring \in Rings
  BY DEF Init, EmptyRing, Rings
<1>2. order \in Seq(Stamp) /\ Len(order) <= MaxSeen /\ accepted \in Seq(Envelope)
  BY DEF Init
<1> QED BY <1>1, <1>2 DEF Init, TypeOK

\* Every step keeps the types.
LEMMA StepTypes ==
    ASSUME TypeOK, RingsInStep, [Next]_vars
    PROVE  TypeOK'
<1> USE Bounds
<1>1. ASSUME NEW k \in KeyIds, SealFails(k)
      PROVE  TypeOK'
  BY <1>1 DEF SealFails, Allocated, TypeOK, rings
<1>2. ASSUME NEW k \in KeyIds, Rotate(k)
      PROVE  TypeOK'
  BY <1>2, RotateTypes
<1>3. ASSUME NEW k \in KeyIds, NEW p \in Packets, Seal(p, k)
      PROVE  TypeOK'
  <2>1. next_nonce[k] \in 1 .. MaxNonce /\ now \in 0 .. MaxNow
    BY <1>3 DEF Seal, TypeOK
  <2>2. [stamp |-> [key_id |-> k, nonce |-> next_nonce[k]],
         packet |-> p, sealed_at |-> now] \in Envelope
    BY <2>1 DEF Envelope, Stamp
  <2>3. network' \subseteq Envelope
    BY <1>3, <2>2 DEF Seal, TypeOK
  <2> QED BY <1>3, <2>1, <2>3 DEF Seal, Allocated, TypeOK, rings
<1>4. ASSUME NEW e \in network, Open(e)
      PROVE  TypeOK'
  <2>1. e \in Envelope /\ e.packet \in Packets /\ e.stamp \in Stamp
    BY DEF TypeOK, Envelope
  <2>2. order' \in Seq(Stamp) /\ Len(order') <= MaxSeen
    BY <1>4, <2>1, RecordedType DEF Open, TypeOK
  <2>3. accepted' \in Seq(Envelope) /\ replayed' \subseteq Packets
    <3>1. accepted \in Seq(Envelope) /\ replayed \subseteq Packets
      BY DEF TypeOK
    <3>2. CASE Seen(e.stamp)
      BY <1>4, <2>1, <3>1, <3>2 DEF Open
    <3>3. CASE ~Seen(e.stamp)
      <4>1. accepted' = Append(accepted, e) /\ replayed' = replayed
        BY <1>4, <3>3 DEF Open
      <4> QED BY <2>1, <3>1, <4>1
    <3> QED BY <3>2, <3>3
  <2> QED BY <1>4, <2>2, <2>3 DEF Open, TypeOK, rings
<1>5. CASE RemoveExpired
  <2>1. now \in Ticks
    BY DEF TypeOK, Ticks
  <2>2. sender_ring' \in Rings /\ receiver_ring' \in Rings
    BY <1>5, <2>1 DEF RemoveExpired, TypeOK, WithoutExpired, Rings
  <2> QED BY <1>5, <2>2 DEF RemoveExpired, TypeOK, traffic
<1>6. CASE Tick
  BY <1>6 DEF Tick, TypeOK, rings
<1>7. CASE UNCHANGED vars
  BY <1>7 DEF vars, rings, traffic, TypeOK
<1> QED BY <1>1, <1>2, <1>3, <1>4, <1>5, <1>6, <1>7 DEF Next

-----------------------------------------------------------------------------
(* Replays. *)

\* What an envelope that is let through makes of the history and of the sequence
\* of accepted ones: the history stays the latest, and the new stamp was not let
\* through within the last MaxSeen.
LEMMA AcceptKeepsHistory ==
    ASSUME TypeOK, HistoryRecent, ReplayBeyondWindow, NEW e \in Envelope,
           ~Seen(e.stamp), order' = Recorded(e.stamp), accepted' = Append(accepted, e)
    PROVE  HistoryRecent' /\ ReplayBeyondWindow'
<1> USE Bounds
<1> DEFINE n == Len(accepted)
           m == Len(order)
<1>0. /\ order \in Seq(Stamp) /\ accepted \in Seq(Envelope)
      /\ m \in Nat /\ n \in Nat /\ m <= MaxSeen /\ e.stamp \in Stamp
  BY DEF TypeOK, Envelope
<1>1. /\ Len(accepted') = n + 1 /\ accepted'[n + 1] = e
      /\ \A i \in 1 .. n : accepted'[i] = accepted[i]
      /\ DOMAIN accepted' = 1 .. n + 1
  BY <1>0
<1>2. HistoryRecent'
  <2>1. CASE MaxSeen = 0
    <3>1. order' = order /\ m = 0
      BY <2>1, <1>0 DEF Recorded
    <3> QED BY <2>1, <3>1, <1>0, <1>1 DEF HistoryRecent
  <2>2. CASE MaxSeen # 0 /\ m < MaxSeen
    <3>1. order' = Append(order, e.stamp)
      BY <2>2 DEF Recorded
    <3>2. /\ Len(order') = m + 1 /\ order'[m + 1] = e.stamp
          /\ \A i \in 1 .. m : order'[i] = order[i]
      BY <3>1, <1>0
    <3>3. m = n
      BY <2>2, <1>0 DEF HistoryRecent
    <3> QED BY <3>2, <3>3, <1>0, <1>1 DEF HistoryRecent
  <2>3. CASE MaxSeen # 0 /\ ~(m < MaxSeen)
    <3>1. order' = Append(Tail(order), e.stamp) /\ m = MaxSeen /\ order # <<>>
      BY <2>3, <1>0 DEF Recorded
    <3>2. /\ Tail(order) \in Seq(Stamp) /\ Len(Tail(order)) = m - 1
          /\ \A i \in 1 .. m - 1 : Tail(order)[i] = order[i + 1]
      BY <3>1, <1>0
    <3>3. /\ Len(order') = m /\ order'[m] = e.stamp
          /\ \A i \in 1 .. m - 1 : order'[i] = order[i + 1]
      BY <3>1, <3>2, <1>0
    <3>4. ASSUME NEW i \in 1 .. m
          PROVE  order'[i] = accepted'[n + 1 - m + i].stamp
      <4>1. CASE i = m
        BY <4>1, <3>3, <1>0, <1>1
      <4>2. CASE i # m
        <5>1. i + 1 \in 1 .. m /\ n - m + (i + 1) \in 1 .. n
          BY <4>2, <1>0 DEF HistoryRecent
        <5>2. order[i + 1] = accepted[n - m + (i + 1)].stamp
          BY <5>1 DEF HistoryRecent
        <5>3. n + 1 - m + i = n - m + (i + 1)
          BY <1>0
        <5> QED BY <4>2, <5>1, <5>2, <5>3, <3>3, <1>0, <1>1
      <4> QED BY <4>1, <4>2
    <3>5. m <= n
      BY <1>0 DEF HistoryRecent
    <3>6. Len(order') = m /\ Len(accepted') = n + 1 /\ n \in Nat /\ m \in Nat /\ m = MaxSeen
      BY <3>1, <3>3, <1>0, <1>1
    <3> HIDE DEF n, m
    <3>7. \A i \in 1 .. Len(order') :
             order'[i] = accepted'[Len(accepted') - Len(order') + i].stamp
      <4> SUFFICES ASSUME NEW i \in 1 .. Len(order')
                   PROVE  order'[i] = accepted'[Len(accepted') - Len(order') + i].stamp
        OBVIOUS
      <4>1. i \in 1 .. m
        BY <3>6
      <4>2. Len(accepted') - Len(order') + i = n + 1 - m + i
        BY <3>6, <4>1
      <4>3. order'[i] = accepted'[n + 1 - m + i].stamp
        BY <3>4, <4>1
      <4> QED BY <4>2, <4>3
    <3>8. Len(order') <= Len(accepted') /\ Len(order') = MaxSeen
      BY <3>5, <3>6
    <3> QED BY <3>7, <3>8 DEF HistoryRecent
  <2> QED BY <2>1, <2>2, <2>3
<1>3. ReplayBeyondWindow'
  <2> SUFFICES ASSUME NEW i \in DOMAIN accepted', NEW j \in DOMAIN accepted',
                      i < j, accepted'[i].stamp = accepted'[j].stamp
               PROVE  j - i > MaxSeen
    BY DEF ReplayBeyondWindow
  <2>0. i \in 1 .. n /\ j \in 1 .. n + 1
    BY <1>0, <1>1
  <2>1. CASE j \in 1 .. n
    BY <2>0, <2>1, <1>0, <1>1 DEF ReplayBeyondWindow
  <2>2. CASE j = n + 1
    <3>1. accepted[i].stamp = e.stamp
      BY <2>0, <2>2, <1>1
    <3>2. ASSUME i > n - m
          PROVE  FALSE
      <4>1. i - (n - m) \in 1 .. m /\ n - m + (i - (n - m)) = i
        BY <3>2, <2>0, <1>0
      <4>2. order[i - (n - m)] = e.stamp
        BY <4>1, <3>1 DEF HistoryRecent
      <4> QED BY <4>1, <4>2, <1>0 DEF Seen, ToSet
    <3>3. i <= n - m /\ m = MaxSeen
      BY <3>2, <2>0, <1>0 DEF HistoryRecent
    <3> QED BY <3>3, <2>2, <2>0, <1>0
  <2> QED BY <2>0, <2>1, <2>2, <1>0
<1> QED BY <1>2, <1>3

\* A stamp the window knows is that of an envelope it let through.
LEMMA SeenWasAccepted ==
    ASSUME TypeOK, HistoryRecent, NEW stamp, Seen(stamp)
    PROVE  \E i \in DOMAIN accepted : accepted[i].stamp = stamp
<1>0. order \in Seq(Stamp) /\ accepted \in Seq(Envelope)
  BY DEF TypeOK
<1>1. PICK i \in 1 .. Len(order) : order[i] = stamp
  BY <1>0 DEF Seen, ToSet
<1>2. Len(accepted) - Len(order) + i \in 1 .. Len(accepted)
  BY <1>0 DEF HistoryRecent
<1>3. order[i] = accepted[Len(accepted) - Len(order) + i].stamp
  BY DEF HistoryRecent
<1> QED BY <1>0, <1>1, <1>2, <1>3

\* What was sealed is an envelope.
LEMMA SealedTypes ==
    ASSUME TypeOK
    PROVE  /\ Sealed \subseteq Envelope
           /\ \A e \in Sealed : e.stamp.key_id \in KeyIds /\ e.stamp.nonce \in Nat
<1>1. \A i \in DOMAIN accepted : accepted[i] \in Envelope
  BY DEF TypeOK
<1>2. Sealed \subseteq Envelope
  BY <1>1 DEF Sealed, TypeOK
<1> QED BY <1>2, Bounds DEF Envelope, Stamp

\* The initial state satisfies the invariant of replays.
LEMMA InitReplay == Init => ReplayInv
<1> HAVE Init
<1>1. TypeOK
  BY InitTypes
<1>2. /\ accepted = <<>> /\ order = <<>> /\ network = {} /\ replayed = {}
      /\ Len(accepted) = 0 /\ Len(order) = 0 /\ DOMAIN accepted = {}
  BY DEF Init
<1> QED BY <1>1, <1>2, Bounds
        DEF ReplayInv, StampsUnique, Sealed, HistoryRecent, NoFalseReplay, ReplayBeyondWindow

\* Every step keeps it.
LEMMA StepReplay ==
    ASSUME ReplayInv, TypeOK', [Next]_vars
    PROVE  ReplayInv'
<1> USE Bounds
<1>0. TypeOK /\ StampsUnique /\ HistoryRecent /\ NoFalseReplay /\ ReplayBeyondWindow
  BY DEF ReplayInv
<1>1. ASSUME network' \subseteq network, UNCHANGED <<next_nonce, order, accepted, replayed>>
      PROVE  ReplayInv'
  <2>1. StampsUnique'
    BY <1>0, <1>1 DEF StampsUnique, Sealed
  <2>2. HistoryRecent' /\ NoFalseReplay' /\ ReplayBeyondWindow'
    BY <1>0, <1>1 DEF HistoryRecent, NoFalseReplay, ReplayBeyondWindow
  <2> QED BY <2>1, <2>2 DEF ReplayInv
<1>2. ASSUME NEW k \in KeyIds, SealFails(k)
      PROVE  ReplayInv'
  <2>1. UNCHANGED <<network, order, accepted, replayed>>
    BY <1>2 DEF SealFails
  <2>2. \A x \in KeyIds : next_nonce[x] \in Nat /\ next_nonce'[x] \in Nat
                          /\ next_nonce[x] <= next_nonce'[x]
    BY <1>0, <1>2 DEF SealFails, Allocated, TypeOK
  <2>3. Sealed' = Sealed /\ \A e \in Sealed : e.stamp.key_id \in KeyIds /\ e.stamp.nonce \in Nat
    BY <1>0, <2>1, SealedTypes DEF Sealed
  <2>4. StampsUnique'
    BY <1>0, <2>2, <2>3 DEF StampsUnique
  <2>5. HistoryRecent' /\ NoFalseReplay' /\ ReplayBeyondWindow'
    BY <1>0, <2>1 DEF HistoryRecent, NoFalseReplay, ReplayBeyondWindow
  <2> QED BY <2>4, <2>5 DEF ReplayInv
<1>3. ASSUME NEW k \in KeyIds, NEW p \in Packets, Seal(p, k)
      PROVE  ReplayInv'
  <2> DEFINE new == [stamp |-> [key_id |-> k, nonce |-> next_nonce[k]],
                     packet |-> p, sealed_at |-> now]
  <2>1. /\ UNCHANGED <<order, accepted, replayed>>
        /\ network' = network \cup {new}
        /\ next_nonce' = [next_nonce EXCEPT ![k] = @ + 1]
    BY <1>3 DEF Seal, Allocated
  <2>2. \A x \in KeyIds : /\ next_nonce[x] \in Nat /\ next_nonce'[x] \in Nat
                          /\ next_nonce[x] <= next_nonce'[x]
    BY <1>0, <2>1 DEF TypeOK
  <2>3. next_nonce[k] < next_nonce'[k]
    BY <1>0, <2>1 DEF TypeOK
  <2>4. Sealed' = Sealed \cup {new}
    BY <2>1 DEF Sealed
  <2>5. \A e \in Sealed : e.stamp.key_id \in KeyIds /\ e.stamp.nonce \in Nat
    BY <1>0, SealedTypes
  <2>6. \A e \in Sealed : e.stamp # new.stamp
    BY <1>0, <2>2, <2>5 DEF StampsUnique
  <2>7. StampsUnique'
    <3>1. \A e, f \in Sealed' : e.stamp = f.stamp => e.packet = f.packet
      BY <1>0, <2>4, <2>6 DEF StampsUnique
    <3>2. \A e \in Sealed' : e.stamp.nonce < next_nonce'[e.stamp.key_id]
      BY <1>0, <2>2, <2>3, <2>4, <2>5 DEF StampsUnique
    <3> QED BY <3>1, <3>2 DEF StampsUnique
  <2>8. HistoryRecent' /\ NoFalseReplay' /\ ReplayBeyondWindow'
    BY <1>0, <2>1 DEF HistoryRecent, NoFalseReplay, ReplayBeyondWindow
  <2> QED BY <2>7, <2>8 DEF ReplayInv
<1>4. ASSUME NEW e \in network, Open(e)
      PROVE  ReplayInv'
  <2>0. e \in Envelope /\ e \in Sealed /\ accepted \in Seq(Envelope)
    BY <1>0 DEF TypeOK, Sealed
  <2>1. CASE Seen(e.stamp)
    <3>1. UNCHANGED <<network, next_nonce, order, accepted>> /\ replayed' = replayed \cup {e.packet}
      BY <1>4, <2>1 DEF Open
    <3>2. PICK i \in DOMAIN accepted : accepted[i].stamp = e.stamp
      BY <1>0, <2>1, SeenWasAccepted
    <3>3. accepted[i].packet = e.packet
      BY <1>0, <2>0, <3>2 DEF StampsUnique, Sealed
    <3>4. NoFalseReplay'
      BY <1>0, <3>1, <3>3 DEF NoFalseReplay
    <3>5. StampsUnique' /\ HistoryRecent' /\ ReplayBeyondWindow'
      BY <1>0, <3>1 DEF StampsUnique, Sealed, HistoryRecent, ReplayBeyondWindow
    <3> QED BY <3>4, <3>5 DEF ReplayInv
  <2>2. CASE ~Seen(e.stamp)
    <3>1. /\ UNCHANGED <<network, next_nonce, replayed>>
          /\ order' = Recorded(e.stamp) /\ accepted' = Append(accepted, e)
      BY <1>4, <2>2 DEF Open
    <3>2. HistoryRecent' /\ ReplayBeyondWindow'
      BY <1>0, <2>0, <2>2, <3>1, AcceptKeepsHistory
    <3>3. /\ \A i \in DOMAIN accepted : i \in DOMAIN accepted' /\ accepted'[i] = accepted[i]
          /\ \A i \in DOMAIN accepted' : i \in DOMAIN accepted \/ accepted'[i] = e
      BY <2>0, <3>1
    <3>4. NoFalseReplay'
      BY <1>0, <3>1, <3>3 DEF NoFalseReplay
    <3>5. Sealed' \subseteq Sealed
      BY <2>0, <3>1, <3>3 DEF Sealed
    <3>6. StampsUnique'
      BY <1>0, <3>1, <3>5 DEF StampsUnique
    <3> QED BY <3>2, <3>4, <3>6 DEF ReplayInv
  <2> QED BY <2>1, <2>2
<1>5. CASE Tick \/ RemoveExpired \/ UNCHANGED vars \/ \E k \in KeyIds : Rotate(k)
  BY <1>1, <1>5 DEF Tick, RemoveExpired, Rotate, vars, traffic
<1> QED BY <1>2, <1>3, <1>4, <1>5 DEF Next

-----------------------------------------------------------------------------
(* Rotation. *)

\* A key the rings hold has a descriptor.
LEMMA DescriptorTypes ==
    ASSUME TypeOK, NEW k \in KeyIds
    PROVE  /\ Has(sender_ring, k) => sender_ring[k] \in Descriptor
           /\ Has(receiver_ring, k) => receiver_ring[k] \in Descriptor
           /\ now \in Nat /\ now <= MaxNow
           /\ NoKey \notin Descriptor
BY Bounds, NoKeyAssumption DEF TypeOK, Rings, Has

\* A call that manages one key keeps both facts about that key.
LEMMA ManagedKeyInStep ==
    ASSUME TypeOK, NEW k \in KeyIds, Rotate(k), KeyInStep(k)
    PROVE  /\ KeyInStep(k)'
           /\ \A at \in 0 .. now : ArrivesInTime(k, at) => ArrivesInTime(k, at)'
<1> USE Bounds, DescriptorTypes
<1> USE DEF KeyInStep, ArrivesInTime, Has
<1>0. /\ sender_ring \in [KeyIds -> Descriptor \cup {NoKey}]
      /\ receiver_ring \in [KeyIds -> Descriptor \cup {NoKey}]
      /\ now' = now
  BY DEF TypeOK, Rings, Rotate
<1>1. CASE InsertAtReceiver(k)
  BY <1>0, <1>1 DEF InsertAtReceiver, CanInsert, Inserted, Descriptor
<1>2. CASE InsertAtSender(k)
  BY <1>0, <1>2 DEF InsertAtSender, CanInsert, Inserted, Descriptor
<1>3. CASE RetireAtReceiver(k)
  BY <1>0, <1>3 DEF RetireAtReceiver, Retired, Descriptor
<1>4. CASE RetireAtSender(k)
  BY <1>0, <1>4 DEF RetireAtSender, Retired, Descriptor
<1>5. CASE ActivateAtSender(k)
  BY <1>0, <1>5 DEF ActivateAtSender, Activated, Descriptor
<1>6. CASE ExpireAtSender(k)
  BY <1>0, <1>6 DEF ExpireAtSender, WithExpiry, Descriptor, Ticks
<1>7. CASE ExpireAtReceiver(k)
  <2> DEFINE x == sender_ring[k].expires_at
  <2>1. /\ sender_ring' = sender_ring /\ revoked' = revoked
        /\ Has(sender_ring, k) /\ Has(receiver_ring, k)
        /\ x # Never /\ x \in Ticks /\ receiver_ring[k] \in Descriptor
        /\ receiver_ring' = [receiver_ring EXCEPT ![k].expires_at = x + MaxDelay]
    BY <1>7 DEF ExpireAtReceiver, WithExpiry
  <2>2. x + MaxDelay \in Nat /\ x \in Nat /\ x + MaxDelay # Never
    BY <2>1 DEF Ticks
  <2>3. /\ receiver_ring'[k].expires_at = x + MaxDelay
        /\ receiver_ring'[k].state = receiver_ring[k].state
        /\ receiver_ring'[k].activated_at = receiver_ring[k].activated_at
        /\ receiver_ring'[k] # NoKey
    <3>1. x + MaxDelay \in Expiry
      BY <2>1, <2>2 DEF Ticks, Expiry
    <3>2. receiver_ring'[k] = [receiver_ring[k] EXCEPT !.expires_at = x + MaxDelay]
      BY <1>0, <2>1
    <3>3. receiver_ring'[k] \in Descriptor
      BY <2>1, <3>1, <3>2 DEF Descriptor
    <3> QED BY <2>1, <3>2, <3>3 DEF Descriptor
  <2>4. KeyInStep(k)'
    BY <1>0, <2>1, <2>2, <2>3
  <2>5. \A at \in 0 .. now : ArrivesInTime(k, at) => ArrivesInTime(k, at)'
    BY <1>0, <2>1, <2>2, <2>3
  <2> QED BY <2>4, <2>5
<1>8. CASE Revoke(k)
  BY <1>0, <1>8 DEF Revoke, RevokedIn, Descriptor
<1> QED BY <1>1, <1>2, <1>3, <1>4, <1>5, <1>6, <1>7, <1>8 DEF Rotate

\* Managing one key keeps what is under way with any key acceptable.
LEMMA RotateKeepsRotation ==
    ASSUME RotationInv, TypeOK', NEW k \in KeyIds, Rotate(k)
    PROVE  RotationInv'
<1> USE Bounds
<1>0. /\ TypeOK /\ RingsInStep /\ UnderWay
      /\ now' = now /\ network' = network
  BY DEF RotationInv, Rotate, traffic
<1>1. KeyInStep(k)' /\ \A at \in 0 .. now : ArrivesInTime(k, at) => ArrivesInTime(k, at)'
  BY <1>0, ManagedKeyInStep DEF RingsInStep
<1>2. ASSUME NEW x \in KeyIds, x # k
      PROVE  /\ sender_ring'[x] = sender_ring[x]
             /\ receiver_ring'[x] = receiver_ring[x]
             /\ x \in revoked' <=> x \in revoked
  <2>1. sender_ring \in [KeyIds -> Descriptor \cup {NoKey}]
        /\ receiver_ring \in [KeyIds -> Descriptor \cup {NoKey}]
    BY <1>0 DEF TypeOK, Rings
  <2> QED BY <1>2, <2>1
          DEF Rotate, InsertAtReceiver, InsertAtSender, RetireAtReceiver, RetireAtSender,
              ActivateAtSender, ExpireAtSender, ExpireAtReceiver, Revoke,
              Inserted, Activated, Retired, RevokedIn, WithExpiry
<1>3. ASSUME NEW x \in KeyIds
      PROVE  KeyInStep(x)'
  BY <1>0, <1>1, <1>2 DEF RingsInStep, KeyInStep, Has
<1>4. ASSUME NEW e \in network
      PROVE  ArrivesInTime(e.stamp.key_id, e.sealed_at)'
  <2>1. e.stamp.key_id \in KeyIds /\ e.sealed_at \in 0 .. now
    BY <1>0 DEF TypeOK, Envelope, Stamp, UnderWay
  <2>2. ArrivesInTime(e.stamp.key_id, e.sealed_at)
    BY <1>0 DEF UnderWay
  <2>3. CASE e.stamp.key_id = k
    BY <1>1, <2>1, <2>2, <2>3
  <2>4. CASE e.stamp.key_id # k
    BY <1>2, <2>1, <2>2, <2>4 DEF ArrivesInTime, Has
  <2> QED BY <2>3, <2>4
<1> QED BY <1>0, <1>3, <1>4 DEF RotationInv, RingsInStep, UnderWay

\* Every step keeps the invariant of rotation.
LEMMA StepRotation ==
    ASSUME RotationInv, TypeOK', [Next]_vars
    PROVE  RotationInv'
<1> USE Bounds
<1>0. TypeOK /\ RingsInStep /\ UnderWay
  BY DEF RotationInv
<1>1. ASSUME network' \subseteq network, UNCHANGED <<now, sender_ring, receiver_ring, revoked>>
      PROVE  RotationInv'
  BY <1>0, <1>1 DEF RotationInv, RingsInStep, KeyInStep, UnderWay, ArrivesInTime, Has
<1>2. ASSUME NEW k \in KeyIds, NEW p \in Packets, Seal(p, k)
      PROVE  RotationInv'
  <2> DEFINE new == [stamp |-> [key_id |-> k, nonce |-> next_nonce[k]],
                     packet |-> p, sealed_at |-> now]
  <2>1. /\ network' = network \cup {new}
        /\ UNCHANGED <<now, sender_ring, receiver_ring, revoked>>
        /\ InForce(sender_ring, k, now)
    BY <1>2 DEF Seal, IsSendKey, SendEligible, rings
  <2>2. RingsInStep'
    BY <1>0, <2>1 DEF RingsInStep, KeyInStep, Has
  <2>3. ArrivesInTime(k, now)
    BY <1>0, <2>1, DescriptorTypes
       DEF RingsInStep, KeyInStep, ArrivesInTime, InForce, IsExpired, Ticks
  <2>4. UnderWay'
    BY <1>0, <2>1, <2>3, DescriptorTypes DEF UnderWay, ArrivesInTime, Has
  <2> QED BY <2>2, <2>4 DEF RotationInv
<1>3. CASE RemoveExpired
  <2>1. /\ now' = now /\ revoked' = revoked /\ network' = network
        /\ sender_ring' = WithoutExpired(sender_ring, now)
        /\ receiver_ring' = WithoutExpired(receiver_ring, now)
    BY <1>3 DEF RemoveExpired, traffic
  <2>2. \A k \in KeyIds :
           /\ sender_ring'[k] = IF Has(sender_ring, k) /\ IsExpired(sender_ring[k], now)
                                THEN NoKey ELSE sender_ring[k]
           /\ receiver_ring'[k] = IF Has(receiver_ring, k) /\ IsExpired(receiver_ring[k], now)
                                  THEN NoKey ELSE receiver_ring[k]
    BY <2>1 DEF WithoutExpired
  <2>3. ASSUME NEW k \in KeyIds
        PROVE  KeyInStep(k)'
    BY <1>0, <2>1, <2>2, DescriptorTypes DEF RingsInStep, KeyInStep, Has, IsExpired, Ticks
  <2>4. ASSUME NEW e \in network
        PROVE  ArrivesInTime(e.stamp.key_id, e.sealed_at)'
    <3>1. e.stamp.key_id \in KeyIds /\ e.sealed_at \in Nat
      BY <1>0 DEF TypeOK, Envelope, Stamp
    <3>2. ArrivesInTime(e.stamp.key_id, e.sealed_at) /\ now <= e.sealed_at + MaxDelay
      BY <1>0 DEF UnderWay
    <3>3. receiver_ring[e.stamp.key_id] \in Descriptor
      BY <1>0, <3>1, <3>2, DescriptorTypes DEF ArrivesInTime
    <3>4. ~IsExpired(receiver_ring[e.stamp.key_id], now)
      BY <3>1, <3>2, <3>3, <1>0, DescriptorTypes
         DEF ArrivesInTime, IsExpired, Descriptor, Expiry
    <3> QED BY <2>2, <3>1, <3>2, <3>4 DEF ArrivesInTime, Has
  <2> QED BY <1>0, <2>1, <2>3, <2>4 DEF RotationInv, RingsInStep, UnderWay
<1>4. CASE Tick
  <2>1. /\ now' = now + 1 /\ UNCHANGED <<sender_ring, receiver_ring, revoked>>
        /\ network' = {e \in network : now + 1 - e.sealed_at <= MaxDelay}
    BY <1>4 DEF Tick, rings
  <2>2. RingsInStep'
    BY <1>0, <2>1, DescriptorTypes DEF RingsInStep, KeyInStep, Has, Descriptor, Ticks
  <2>3. ASSUME NEW e \in network'
        PROVE  /\ e.sealed_at <= now' /\ now' <= e.sealed_at + MaxDelay
               /\ ArrivesInTime(e.stamp.key_id, e.sealed_at)'
    <3>1. e \in network /\ now + 1 - e.sealed_at <= MaxDelay
      BY <2>1, <2>3
    <3>2. /\ e.sealed_at <= now /\ ArrivesInTime(e.stamp.key_id, e.sealed_at)
          /\ e.sealed_at \in Nat /\ now \in Nat /\ MaxDelay \in Nat
      BY <1>0, <3>1, Bounds DEF UnderWay, TypeOK, Envelope
    <3>3. ArrivesInTime(e.stamp.key_id, e.sealed_at)'
      BY <2>1, <3>2 DEF ArrivesInTime, Has
    <3> QED BY <2>1, <3>1, <3>2, <3>3
  <2>4. UnderWay'
    BY <2>3 DEF UnderWay
  <2> QED BY <2>2, <2>4 DEF RotationInv
<1>5. CASE UNCHANGED vars \/ (\E e \in network : Open(e)) \/ \E k \in KeyIds : SealFails(k)
  BY <1>1, <1>5 DEF Open, SealFails, vars, rings, traffic
<1> QED BY <1>2, <1>3, <1>4, <1>5, RotateKeepsRotation DEF Next

-----------------------------------------------------------------------------
(* Theorems. *)

\* Both invariants hold at first and are kept.
LEMMA SecurityInvariant == Spec => [](ReplayInv /\ RotationInv)
<1>1. Init => ReplayInv /\ RotationInv
  <2> HAVE Init
  <2>1. RingsInStep /\ UnderWay
    BY DEF Init, RingsInStep, KeyInStep, UnderWay, EmptyRing, Has
  <2> QED BY <2>1, InitReplay, InitTypes DEF RotationInv
<1>2. ReplayInv /\ RotationInv /\ [Next]_vars => (ReplayInv /\ RotationInv)'
  <2> HAVE ReplayInv /\ RotationInv /\ [Next]_vars
  <2>1. TypeOK'
    BY StepTypes DEF RotationInv
  <2> QED BY <2>1, StepReplay, StepRotation
<1> QED BY <1>1, <1>2, PTL DEF Spec

\* PacketReplayWindow::accept refuses repeated packets only, and forgets one only
\* after max_replay_history others, whatever happens to the keys in between.
THEOREM ReplaysSuppressedHolds == Spec => []ReplaysSuppressed
<1>1. ReplayInv => ReplaysSuppressed
  BY DEF ReplayInv, ReplaysSuppressed
<1> QED BY <1>1, SecurityInvariant, PTL

\* accept_key finds the key of every envelope that is under way, unless the key
\* was revoked, through insertions, retirements, expiries and removals.
THEOREM RotationLosslessHolds == Spec => []RotationLossless
<1>1. RotationInv => RotationLossless
  <2> SUFFICES ASSUME RotationInv, NEW e \in network, e.stamp.key_id \notin revoked
               PROVE  Accepts(receiver_ring, e.stamp.key_id, now)
    BY DEF RotationLossless
  <2> DEFINE k == e.stamp.key_id
  <2>1. /\ k \in KeyIds /\ e.sealed_at \in Nat
        /\ ArrivesInTime(k, e.sealed_at) /\ now <= e.sealed_at + MaxDelay /\ KeyInStep(k)
    BY DEF RotationInv, TypeOK, Envelope, Stamp, UnderWay, RingsInStep
  <2>2. receiver_ring[k] \in Descriptor /\ now \in Nat
    BY <2>1, DescriptorTypes DEF RotationInv, ArrivesInTime
  <2> QED BY <2>1, <2>2, Bounds
          DEF Accepts, InForce, IsExpired, ArrivesInTime, KeyInStep, Descriptor, Expiry
<1> QED BY <1>1, SecurityInvariant, PTL

-----------------------------------------------------------------------------
(* The collections of stations and indexes. *)

\* The map is off, or has the first position of each id.
Indexed(list, positions) ==
    list \in Seq(StationIds) /\ (positions = <<>> \/ positions = FirstPositions(list))

RegistryInv ==
    Indexed(station_list, station_positions) /\ Indexed(index_list, index_positions)

LEMMA MinOfNumbers ==
    ASSUME NEW K, IsFiniteSet(K), K \subseteq Nat, K # {}
    PROVE  Min(K) \in K /\ \A i \in K : Min(K) <= i
<1>1. PICK m \in K : \A i \in K : m <= i
  BY Lowest
<1> QED
  BY <1>1 DEF Min

\* The places of an id, and the first of them.
Places(list, id) == {k \in DOMAIN list : list[k] = id}

LEMMA FirstPlace ==
    ASSUME NEW list \in Seq(StationIds), NEW id
    PROVE  /\ IsFiniteSet(Places(list, id)) /\ Places(list, id) \subseteq 1 .. Len(list)
           /\ id \in ToSet(list) <=> Places(list, id) # {}
           /\ Places(list, id) # {} =>
                 /\ Min(Places(list, id)) \in Places(list, id)
                 /\ \A k \in Places(list, id) : Min(Places(list, id)) <= k
<1>1. Places(list, id) \subseteq 1 .. Len(list)
  BY DEF Places
<1>2. IsFiniteSet(Places(list, id))
  <2>1. IsFiniteSet(1 .. Len(list))
    BY FS_Interval
  <2> QED
    BY <1>1, <2>1, FS_Subset
<1>3. id \in ToSet(list) <=> Places(list, id) # {}
  BY ElementsOf DEF Places
<1>4. Places(list, id) \subseteq Nat
  BY <1>1
<1> QED
  BY <1>1, <1>2, <1>3, <1>4, MinOfNumbers

\* A search from the front.
LEMMA Searched ==
    ASSUME NEW list \in Seq(StationIds), NEW id
    PROVE  SelectInSeq(list, LAMBDA element : element = id) =
              IF Places(list, id) = {} THEN 0 ELSE Min(Places(list, id))
<1>1. DOMAIN list = 1 .. Len(list)
  OBVIOUS
<1> QED
  BY <1>1 DEF SelectInSeq, Places

\* A lookup, by search or map.
LEMMA Found ==
    ASSUME NEW list, NEW positions, Indexed(list, positions), NEW id
    PROVE  Position(list, positions, id) =
              IF Places(list, id) = {} THEN 0 ELSE Min(Places(list, id))
<1>1. list \in Seq(StationIds)
  BY DEF Indexed
<1>2. CASE positions = <<>>
  BY <1>1, <1>2, Searched DEF Position
<1>3. CASE positions # <<>> /\ positions = FirstPositions(list)
  <2>1. DOMAIN positions = ToSet(list)
    BY <1>3 DEF FirstPositions
  <2>2. id \in ToSet(list) => positions[id] = Min(Places(list, id))
    BY <1>3 DEF FirstPositions, Places
  <2>3. id \in ToSet(list) <=> Places(list, id) # {}
    BY <1>1, FirstPlace
  <2> QED
    BY <1>3, <2>1, <2>2, <2>3 DEF Position
<1> QED
  BY <1>2, <1>3 DEF Indexed

LEMMA FirstIsFound ==
    ASSUME NEW list, NEW positions, Indexed(list, positions)
    PROVE  FindsFirst(list, positions)
<1> SUFFICES ASSUME NEW id \in StationIds
             PROVE  Position(list, positions, id) =
                       IF Places(list, id) = {} THEN 0 ELSE Min(Places(list, id))
  BY DEF FindsFirst, Places
<1> QED
  BY Found

\* A new element at the end leaves the first places as they were.
LEMMA PushedIndexed ==
    ASSUME NEW list, NEW positions, Indexed(list, positions), NEW id \in StationIds
    PROVE  Indexed(Append(list, id), WithNext(list, ActivatedFor(list, positions), id))
<1>1. PICK active : active = ActivatedFor(list, positions)
  OBVIOUS
<1>2. Indexed(list, active)
  BY <1>1 DEF Indexed, ActivatedFor
<1>3. PICK longer : longer = Append(list, id)
  OBVIOUS
<1>4. /\ list \in Seq(StationIds) /\ longer \in Seq(StationIds)
      /\ Len(longer) = Len(list) + 1 /\ longer[Len(list) + 1] = id
      /\ \A k \in 1 .. Len(list) : longer[k] = list[k]
      /\ Len(list) \in Nat
  BY <1>2, <1>3 DEF Indexed
<1>5. ToSet(longer) = ToSet(list) \cup {id}
  BY <1>3, <1>4, AppendedEntries
<1>6. ASSUME NEW x \in ToSet(list) PROVE Min(Places(longer, x)) = Min(Places(list, x))
  <2>1. PICK m : m = Min(Places(list, x))
    OBVIOUS
  <2>2. m \in Places(list, x) /\ \A k \in Places(list, x) : m <= k
    BY <1>4, <1>6, <2>1, FirstPlace
  <2>3. m \in 1 .. Len(list) /\ list[m] = x
    BY <1>4, <2>2 DEF Places
  <2>4. m \in Places(longer, x)
    BY <1>4, <2>3 DEF Places
  <2>5. ASSUME NEW k \in Places(longer, x) PROVE m <= k
    <3>1. k \in 1 .. Len(list) + 1 /\ longer[k] = x
      BY <1>4 DEF Places
    <3>2. CASE k = Len(list) + 1
      BY <1>4, <2>3, <3>2
    <3>3. CASE k # Len(list) + 1
      <4>1. k \in 1 .. Len(list)
        BY <1>4, <3>1, <3>3
      <4>2. k \in Places(list, x)
        BY <1>4, <3>1, <4>1 DEF Places
      <4> QED
        BY <2>2, <4>2
    <3> QED
      BY <3>2, <3>3
  <2>6. PICK n : n = Min(Places(longer, x))
    OBVIOUS
  <2>7. n \in Places(longer, x) /\ n <= m
    BY <1>4, <2>4, <2>6, FirstPlace
  <2>8. n \in Nat /\ m \in Nat /\ m <= n
    BY <1>4, <2>3, <2>5, <2>7 DEF Places
  <2> QED
    BY <2>1, <2>6, <2>7, <2>8
<1>7. ASSUME id \notin ToSet(list) PROVE Min(Places(longer, id)) = Len(list) + 1
  <2>1. Places(longer, id) = {Len(list) + 1}
    <3>1. \A k \in 1 .. Len(list) : list[k] # id
      BY <1>4, <1>7, ElementsOf
    <3>2. \A k \in 1 .. Len(list) + 1 : k \in 1 .. Len(list) \/ k = Len(list) + 1
      BY <1>4
    <3>3. DOMAIN longer = 1 .. Len(list) + 1 /\ Len(list) + 1 \in 1 .. Len(list) + 1
      BY <1>4
    <3> QED
      BY <1>4, <3>1, <3>2, <3>3 DEF Places
  <2>2. Min(Places(longer, id)) \in Places(longer, id)
    BY <1>4, <2>1, FirstPlace
  <2> QED
    BY <2>1, <2>2
<1>8. CASE active = <<>>
  <2>1. WithNext(list, active, id) = <<>>
    BY <1>8 DEF WithNext
  <2> QED
    BY <1>1, <1>3, <1>4, <2>1 DEF Indexed
<1>9. CASE active # <<>>
  <2>1. active = FirstPositions(list)
    BY <1>2, <1>9 DEF Indexed
  <2>2. /\ DOMAIN active = ToSet(list)
        /\ \A x \in ToSet(list) : active[x] = Min(Places(list, x))
    BY <2>1 DEF FirstPositions, Places
  <2>3. PICK next : next = WithNext(list, active, id)
    OBVIOUS
  <2>4. next = [x \in ToSet(list) \cup {id} |-> IF x \in ToSet(list) THEN active[x] ELSE Len(list) + 1]
    BY <1>9, <2>2, <2>3 DEF WithNext
  <2>5. \A x \in ToSet(longer) : next[x] = Min(Places(longer, x))
    BY <1>5, <1>6, <1>7, <2>2, <2>4
  <2>6. next = FirstPositions(longer)
    BY <1>5, <2>4, <2>5 DEF FirstPositions, Places
  <2> QED
    BY <1>1, <1>3, <1>4, <2>3, <2>6 DEF Indexed
<1> QED
  BY <1>8, <1>9

\* A removal rebuilds the map.
LEMMA RemovedIndexed ==
    ASSUME NEW list, NEW positions, Indexed(list, positions), NEW id \in StationIds,
           Position(list, positions, id) # 0
    PROVE  LET shorter == RemoveAt(list, Position(list, positions, id))
           IN  Indexed(shorter, Rebuilt(shorter, positions))
<1>1. PICK at : at = Position(list, positions, id)
  OBVIOUS
<1>2. list \in Seq(StationIds) /\ at \in 1 .. Len(list)
  BY <1>1, Found, FirstPlace DEF Indexed
<1>3. RemoveAt(list, at) \in Seq(StationIds)
  <2>1. SubSeq(list, 1, at - 1) \in Seq(StationIds) /\ SubSeq(list, at + 1, Len(list)) \in Seq(StationIds)
    BY <1>2
  <2> QED
    BY <2>1 DEF RemoveAt
<1> QED
  BY <1>1, <1>3 DEF Indexed, Rebuilt

\* The pair is the two that were asked for.
LEMMA PairAsked ==
    ASSUME NEW list, NEW positions, Indexed(list, positions),
           NEW a \in StationIds, NEW b \in StationIds, Pair(list, positions, a, b) # <<>>
    PROVE  Pair(list, positions, a, b) = <<a, b>> /\ a # b
<1>1. PICK l, r : l = Position(list, positions, a) /\ r = Position(list, positions, b)
  OBVIOUS
<1>2. /\ list \in Seq(StationIds) /\ Len(list) \in Nat
      /\ l # 0 => l \in 1 .. Len(list) /\ list[l] = a
      /\ r # 0 => r \in 1 .. Len(list) /\ list[r] = b
  <2>1. list \in Seq(StationIds)
    BY DEF Indexed
  <2>2. /\ Places(list, a) # {} => Min(Places(list, a)) \in Places(list, a)
        /\ Places(list, b) # {} => Min(Places(list, b)) \in Places(list, b)
    BY <2>1, FirstPlace
  <2>3. /\ l = IF Places(list, a) = {} THEN 0 ELSE Min(Places(list, a))
        /\ r = IF Places(list, b) = {} THEN 0 ELSE Min(Places(list, b))
    BY <1>1, Found
  <2> QED
    BY <2>1, <2>2, <2>3 DEF Places
<1>3. a # b /\ l # 0 /\ r # 0
  BY <1>1 DEF Pair
<1>4. \A k \in 1 .. Len(list) : SubSeq(list, k, Len(list))[1] = list[k]
  BY <1>2
<1> QED
  BY <1>1, <1>2, <1>3, <1>4 DEF Pair

LEMMA RegistryStep ==
    ASSUME RegistryInv, RegistryNext
    PROVE  RegistryInv'
<1>1. PICK id \in StationIds :
          SetPush(id) \/ SetRemove(id) \/ IndexSetInsert(id) \/ IndexSetRemove(id)
  BY DEF RegistryNext
<1>2. CASE SetPush(id)
  <2>1. Indexed(station_list, station_positions)' /\ UNCHANGED indexSetVars
    BY <1>2, PushedIndexed DEF SetPush, RegistryInv
  <2> QED
    BY <2>1 DEF RegistryInv, indexSetVars
<1>3. CASE SetRemove(id)
  <2>1. Indexed(station_list, station_positions)' /\ UNCHANGED indexSetVars
    BY <1>3, RemovedIndexed DEF SetRemove, RegistryInv
  <2> QED
    BY <2>1 DEF RegistryInv, indexSetVars
<1>4. CASE IndexSetInsert(id)
  <2>1. Indexed(index_list, index_positions)' /\ UNCHANGED stationSetVars
    BY <1>4, PushedIndexed DEF IndexSetInsert, RegistryInv, indexSetVars
  <2> QED
    BY <2>1 DEF RegistryInv, stationSetVars
<1>5. CASE IndexSetRemove(id)
  <2>1. Indexed(index_list, index_positions)' /\ UNCHANGED stationSetVars
    BY <1>5, RemovedIndexed DEF IndexSetRemove, RegistryInv
  <2> QED
    BY <2>1 DEF RegistryInv, stationSetVars
<1> QED
  BY <1>1, <1>2, <1>3, <1>4, <1>5

\* A lookup names what a search from the front would, with or without the map of
\* positions: StationSet and StationIndexSet.
THEOREM LookupsAgreeHolds == RegistrySpec => []LookupsAgree
<1>1. RegistryInit => RegistryInv
  BY DEF RegistryInit, RegistryInv, Indexed
<1>2. RegistryInv /\ [RegistryNext]_registryVars => RegistryInv'
  <2>1. RegistryInv /\ UNCHANGED registryVars => RegistryInv'
    BY DEF RegistryInv, registryVars, stationSetVars, indexSetVars
  <2> QED
    BY <2>1, RegistryStep
<1>3. RegistryInv => LookupsAgree
  BY FirstIsFound, PairAsked DEF RegistryInv, LookupsAgree
<1> QED
  BY <1>1, <1>2, <1>3, PTL DEF RegistrySpec
-----------------------------------------------------------------------------
(* The state of a pass. *)

States ==
    [owner_of : [Cells -> Stations \cup {Nobody}],
     records : [Stations -> [Entities -> Record \cup {Nobody}]],
     index : [Stations -> [Entities -> SUBSET Cells]],
     failed : BOOLEAN]

OwnedAt(R, s, e) == R[s][e] # Nobody /\ R[s][e].owned

\* The index lists an entity where its record says it is.
Follows(R, I) ==
    \A s \in Stations, e \in Entities : I[s][e] = IF R[s][e] = Nobody THEN {} ELSE R[s][e].cells

SingleOwner(R) ==
    \A e \in Entities : \E s \in Stations : \A t \in Stations : OwnedAt(R, t, e) <=> t = s

PassSound(x) == x \in States /\ Follows(x.records, x.index) /\ SingleOwner(x.records)

\* Actions between two stations.
Splittings == {a \in SplitAction : a.source # a.target}

\* The records a move carries to its target, and those it does not touch.
Carries(x, y, a, moving) ==
    \A s \in Stations, e \in Entities :
        e \in moving /\ s \in {a.source, a.target} =>
            /\ y.records[s][e] = [x.records[a.source][e] EXCEPT !.owned = (s = a.target)]
            /\ y.index[s][e] = x.records[a.source][e].cells

Spares(x, y, a, moving) ==
    \A s \in Stations, e \in Entities :
        e \notin moving \/ s \notin {a.source, a.target} =>
            y.records[s][e] = x.records[s][e] /\ y.index[s][e] = x.index[s][e]

\* What an action makes of the pass that does not fail: y comes of x.
Takes(x, y, a, moving) ==
    /\ \A c \in Cells : y.owner_of[c] = IF c \in ToSet(a.cells) THEN a.target ELSE x.owner_of[c]
    /\ Carries(x, y, a, moving) /\ Spares(x, y, a, moving)

\* One action: the pass goes on, or stops with the cells assigned or not.
Outcome(x, y, a) ==
    \/ x.failed /\ y = x
    \/ /\ y.failed /\ y.records = x.records /\ y.index = x.index
       /\ \A c \in Cells : c \notin ToSet(a.cells) => y.owner_of[c] = x.owner_of[c]
    \/ ~x.failed /\ ~y.failed /\ Takes(x, y, a, Moving(x, a, MovedCells(x, a)))

LEMMA Nobodies == Nobody \notin Record /\ Nobody \notin Stations /\ NoSplit \notin Nat
BY NobodyAssumption

LEMMA AssignedState ==
    ASSUME NEW x \in States, NEW a \in SplitAction
    PROVE  /\ Assigned(x, a) \in States
           /\ Assigned(x, a).records = x.records /\ Assigned(x, a).index = x.index
           /\ Assigned(x, a).failed = x.failed
           /\ \A c \in Cells : Assigned(x, a).owner_of[c] =
                 IF c \in ToSet(a.cells) THEN a.target ELSE x.owner_of[c]
<1>1. x.owner_of \in [Cells -> Stations \cup {Nobody}] /\ a.target \in Stations
  BY DEF States, SplitAction
<1>2. PICK f : f = [c \in Cells |-> IF c \in ToSet(a.cells) THEN a.target ELSE x.owner_of[c]]
  OBVIOUS
<1>3. f \in [Cells -> Stations \cup {Nobody}]
  BY <1>1, <1>2
<1>4. Assigned(x, a) = [x EXCEPT !.owner_of = f]
  BY <1>2 DEF Assigned
<1> QED
  BY <1>2, <1>3, <1>4 DEF States

LEMMA MigratedState ==
    ASSUME NEW x \in States, NEW a \in SplitAction, NEW moving,
           \A e \in moving : x.records[a.source][e] # Nobody
    PROVE  /\ Migrated(x, a, moving) \in States
           /\ Migrated(x, a, moving).owner_of = x.owner_of
           /\ Migrated(x, a, moving).failed = x.failed
           /\ Carries(x, Migrated(x, a, moving), a, moving)
           /\ Spares(x, Migrated(x, a, moving), a, moving)
<1>1. /\ x.records \in [Stations -> [Entities -> Record \cup {Nobody}]]
      /\ x.index \in [Stations -> [Entities -> SUBSET Cells]]
      /\ a.source \in Stations /\ a.target \in Stations
  BY DEF States, SplitAction
<1>2. PICK R, I :
         /\ R = Handed(x, a, moving)
         /\ I = [s \in Stations |-> [e \in Entities |->
                    IF e \in moving /\ s \in {a.source, a.target}
                    THEN x.records[a.source][e].cells ELSE x.index[s][e]]]
  OBVIOUS
<1>3. ASSUME NEW s \in Stations, NEW e \in Entities
      PROVE  /\ e \in moving /\ s \in {a.source, a.target} =>
                   R[s][e] = [x.records[a.source][e] EXCEPT !.owned = (s = a.target)]
             /\ e \notin moving \/ s \notin {a.source, a.target} => R[s][e] = x.records[s][e]
             /\ R[s][e] \in Record \cup {Nobody}
  <2>1. R[s][e] = IF e \in moving /\ s \in {a.source, a.target}
                  THEN [x.records[a.source][e] EXCEPT !.owned = (s = a.target)]
                  ELSE x.records[s][e]
    BY <1>2 DEF Handed
  <2>2. e \in moving => x.records[a.source][e] \in Record
    BY <1>1
  <2>3. ASSUME e \in moving
        PROVE  [x.records[a.source][e] EXCEPT !.owned = (s = a.target)] \in Record
    <3>1. PICK r \in Record : r = x.records[a.source][e]
      BY <2>2, <2>3
    <3>2. PICK b \in BOOLEAN : b = (s = a.target)
      OBVIOUS
    <3>3. [r EXCEPT !.owned = b] \in Record
      BY <3>1, <3>2 DEF Record
    <3> QED
      BY <3>1, <3>2, <3>3
  <2> QED
    BY <1>1, <2>1, <2>3
<1>4. R \in [Stations -> [Entities -> Record \cup {Nobody}]]
  BY <1>2, <1>3 DEF Handed
<1>5. ASSUME NEW s \in Stations, NEW e \in Entities
      PROVE  /\ e \in moving /\ s \in {a.source, a.target} => I[s][e] = x.records[a.source][e].cells
             /\ e \notin moving \/ s \notin {a.source, a.target} => I[s][e] = x.index[s][e]
             /\ I[s][e] \in SUBSET Cells
  <2>1. I[s][e] = IF e \in moving /\ s \in {a.source, a.target}
                  THEN x.records[a.source][e].cells ELSE x.index[s][e]
    BY <1>2
  <2>2. e \in moving => x.records[a.source][e].cells \in SUBSET Cells
    BY <1>1 DEF Record, Footprints
  <2> QED
    BY <1>1, <2>1, <2>2
<1>6. I \in [Stations -> [Entities -> SUBSET Cells]]
  BY <1>2, <1>5
<1>7. Migrated(x, a, moving) = [x EXCEPT !.records = R, !.index = I]
  BY <1>2 DEF Migrated
<1>8. /\ Migrated(x, a, moving) \in States
      /\ Migrated(x, a, moving).records = R /\ Migrated(x, a, moving).index = I
      /\ Migrated(x, a, moving).owner_of = x.owner_of /\ Migrated(x, a, moving).failed = x.failed
  BY <1>4, <1>6, <1>7 DEF States
<1>9. PICK y : y = Migrated(x, a, moving) /\ y.records = R /\ y.index = I
  BY <1>8
<1>10. Carries(x, y, a, moving)
  <2> SUFFICES ASSUME NEW s \in Stations, NEW e \in Entities,
                      e \in moving, s \in {a.source, a.target}
               PROVE  /\ y.records[s][e] = [x.records[a.source][e] EXCEPT !.owned = (s = a.target)]
                      /\ y.index[s][e] = x.records[a.source][e].cells
    BY DEF Carries
  <2>1. R[s][e] = [x.records[a.source][e] EXCEPT !.owned = (s = a.target)]
    BY <1>3
  <2>2. I[s][e] = x.records[a.source][e].cells
    BY <1>5
  <2> QED
    BY ONLY <1>9, <2>1, <2>2
<1>11. Spares(x, y, a, moving)
  <2> SUFFICES ASSUME NEW s \in Stations, NEW e \in Entities,
                      e \notin moving \/ s \notin {a.source, a.target}
               PROVE  y.records[s][e] = x.records[s][e] /\ y.index[s][e] = x.index[s][e]
    BY DEF Spares
  <2>1. e \notin moving \/ s \notin {a.source, a.target}
    OBVIOUS
  <2>2. R[s][e] = x.records[s][e]
    BY ONLY <1>3, <2>1, s \in Stations, e \in Entities
  <2>3. I[s][e] = x.index[s][e]
    BY ONLY <1>5, <2>1, s \in Stations, e \in Entities
  <2> QED
    BY ONLY <1>9, <2>2, <2>3
<1> QED
  BY ONLY <1>8, <1>9, <1>10, <1>11

LEMMA ExecuteOutcome ==
    ASSUME NEW x \in States, NEW a \in SplitAction
    PROVE  Execute(x, a) \in States /\ Outcome(x, Execute(x, a), a)
<1>1. PICK moving : moving = Moving(x, a, MovedCells(x, a))
  OBVIOUS
<1>2. PICK y : y = Execute(x, a)
  OBVIOUS
<1>3. PICK z : z = Assigned(x, a)
  OBVIOUS
<1>4. /\ z \in States /\ z.records = x.records /\ z.index = x.index /\ z.failed = x.failed
      /\ \A c \in Cells : z.owner_of[c] = IF c \in ToSet(a.cells) THEN a.target ELSE x.owner_of[c]
  BY <1>3, AssignedState
<1>5. \/ y = x /\ x.failed
      \/ ~x.failed /\ y = Failed(x)
      \/ ~x.failed /\ y = Failed(z)
      \/ ~x.failed /\ y = Migrated(z, a, moving)
  BY <1>1, <1>2, <1>3 DEF Execute
<1>6. \A w \in States : /\ Failed(w) \in States /\ Failed(w).failed
                        /\ Failed(w).records = w.records /\ Failed(w).index = w.index
                        /\ Failed(w).owner_of = w.owner_of
  BY DEF Failed, States
<1>7. CASE y = x /\ x.failed
  BY <1>2, <1>7 DEF Outcome
<1>8. CASE ~x.failed /\ y = Failed(x)
  BY <1>2, <1>6, <1>8 DEF Outcome
<1>9. CASE ~x.failed /\ y = Failed(z)
  BY <1>2, <1>4, <1>6, <1>9 DEF Outcome
<1>10. CASE ~x.failed /\ y = Migrated(z, a, moving)
  <2>1. \A e \in moving : z.records[a.source][e] # Nobody
    BY <1>1, <1>4 DEF Moving
  <2>2. /\ y \in States /\ y.owner_of = z.owner_of /\ y.failed = z.failed
        /\ Carries(z, y, a, moving) /\ Spares(z, y, a, moving)
    <3>1. /\ Migrated(z, a, moving) \in States
          /\ Migrated(z, a, moving).owner_of = z.owner_of
          /\ Migrated(z, a, moving).failed = z.failed
          /\ Carries(z, Migrated(z, a, moving), a, moving)
          /\ Spares(z, Migrated(z, a, moving), a, moving)
      BY ONLY <1>4, <2>1, a \in SplitAction, MigratedState
    <3>2. y = Migrated(z, a, moving)
      BY ONLY <1>10
    <3> QED
      BY ONLY <3>1, <3>2
  <2>3. Takes(x, y, a, moving)
    <3>1. Carries(x, y, a, moving)
      BY ONLY <1>4, <2>2 DEF Carries
    <3>2. Spares(x, y, a, moving)
      BY ONLY <1>4, <2>2 DEF Spares
    <3> QED
      BY ONLY <1>4, <2>2, <3>1, <3>2 DEF Takes
  <2> QED
    BY <1>1, <1>2, <1>4, <1>10, <2>2, <2>3 DEF Outcome
<1> QED
  BY <1>5, <1>7, <1>8, <1>9, <1>10

\* An action hands an entity over with its record and its place in the index.
LEMMA OutcomeSound ==
    ASSUME NEW x, PassSound(x), NEW y \in States, NEW a \in Splittings, Outcome(x, y, a)
    PROVE  PassSound(y)
<1>1. PICK moving : moving = Moving(x, a, MovedCells(x, a))
  OBVIOUS
<1>2. x \in States /\ Follows(x.records, x.index) /\ SingleOwner(x.records)
  BY DEF PassSound
<1>3. CASE y.records = x.records /\ y.index = x.index
  BY <1>2, <1>3 DEF PassSound
<1>4. CASE Takes(x, y, a, moving)
  <2>1. /\ x.records \in [Stations -> [Entities -> Record \cup {Nobody}]]
        /\ a.source \in Stations /\ a.target \in Stations /\ a.source # a.target
    BY <1>2 DEF States, Splittings, SplitAction
  <2>2. \A e \in moving : e \in Entities /\ OwnedAt(x.records, a.source, e)
    BY <1>1 DEF Moving, OwnedAt
  <2>3. ASSUME NEW s \in Stations, NEW e \in Entities
        PROVE  /\ e \in moving /\ s \in {a.source, a.target} =>
                     /\ y.records[s][e] # Nobody /\ y.records[s][e].owned = (s = a.target)
                     /\ y.index[s][e] = y.records[s][e].cells
               /\ e \notin moving \/ s \notin {a.source, a.target} =>
                     y.records[s][e] = x.records[s][e] /\ y.index[s][e] = x.index[s][e]
    <3>1. CASE e \in moving /\ s \in {a.source, a.target}
      <4>1. PICK r : r = x.records[a.source][e]
        OBVIOUS
      <4>2. r \in Record
        BY <2>1, <2>2, <3>1, <4>1 DEF OwnedAt
      <4>3. PICK b \in BOOLEAN : b = (s = a.target)
        OBVIOUS
      <4>4. y.records[s][e] = [r EXCEPT !.owned = b] /\ y.index[s][e] = r.cells
        BY <1>4, <3>1, <4>1, <4>3 DEF Takes, Carries
      <4>5. /\ [r EXCEPT !.owned = b] \in Record
            /\ [r EXCEPT !.owned = b].owned = b /\ [r EXCEPT !.owned = b].cells = r.cells
        BY <4>2, <4>3 DEF Record
      <4> QED
        BY <3>1, <4>3, <4>4, <4>5, Nobodies
    <3>2. CASE e \notin moving \/ s \notin {a.source, a.target}
      BY <1>4, <3>2 DEF Takes, Spares
    <3> QED
      BY <3>1, <3>2
  <2>4. Follows(y.records, y.index)
    <3> SUFFICES ASSUME NEW s \in Stations, NEW e \in Entities
                 PROVE  y.index[s][e] = IF y.records[s][e] = Nobody THEN {} ELSE y.records[s][e].cells
      BY DEF Follows
    <3>1. x.index[s][e] = IF x.records[s][e] = Nobody THEN {} ELSE x.records[s][e].cells
      BY <1>2 DEF Follows
    <3> QED
      BY <2>3, <3>1
  <2>5. SingleOwner(y.records)
    <3> SUFFICES ASSUME NEW e \in Entities
                 PROVE  \E s \in Stations : \A t \in Stations : OwnedAt(y.records, t, e) <=> t = s
      BY DEF SingleOwner
    <3>1. PICK s \in Stations : \A t \in Stations : OwnedAt(x.records, t, e) <=> t = s
      BY <1>2 DEF SingleOwner
    <3>2. CASE e \in moving
      <4>1. s = a.source
        BY <2>1, <2>2, <3>1, <3>2
      <4>2. ASSUME NEW t \in Stations PROVE OwnedAt(y.records, t, e) <=> t = a.target
        <5>1. CASE t \in {a.source, a.target}
          BY <2>1, <2>3, <3>2, <5>1 DEF OwnedAt
        <5>2. CASE t \notin {a.source, a.target}
          BY <2>3, <3>1, <4>1, <5>2 DEF OwnedAt
        <5> QED
          BY <5>1, <5>2
      <4> QED
        BY <2>1, <4>2
    <3>3. CASE e \notin moving
      BY <2>3, <3>1, <3>3 DEF OwnedAt
    <3> QED
      BY <3>2, <3>3
  <2> QED
    BY <2>4, <2>5 DEF PassSound
<1> QED
  BY <1>1, <1>3, <1>4 DEF Outcome
-----------------------------------------------------------------------------
(* A plan. *)

\* Nothing is a source and a target of one plan, and all is of stations and cells.
PlanSound(p) ==
    /\ p \in Seq(SplitAction) /\ Len(p) <= MaxActions
    /\ \A i, j \in 1 .. Len(p) : p[i].target # p[j].source

LEMMA Loads ==
    ASSUME NEW s
    PROVE  Score(s) \in Nat /\ Score(s) <= 8 * Cardinality(Entities) /\ Severity(s) \in 0 .. 2
<1>1. PICK here : here = {e \in Entities : records[s][e] # Nobody}
  OBVIOUS
<1>2. here \subseteq Entities /\ IsFiniteSet(Entities)
  BY <1>1, SplitAssumption
<1>3. /\ IsFiniteSet(here) /\ Cardinality(here) <= Cardinality(Entities)
      /\ Cardinality(here) \in Nat /\ Cardinality(Entities) \in Nat
  BY <1>2, FS_Subset, FS_CardinalityType
<1>4. Score(s) = 8 * Cardinality(here)
  BY <1>1 DEF Score
<1>5. Severity(s) \in 0 .. 2
  <2>1. PICK m, n : /\ m = (IF Score(s) > 8 * MaxEntities THEN 1 ELSE 0)
                    /\ n = (IF \E c \in SampledCells(s) : Pressure(s, c) > MaxPressure THEN 1 ELSE 0)
    OBVIOUS
  <2>2. m \in {0, 1} /\ n \in {0, 1}
    BY <2>1
  <2>3. Severity(s) = m + n
    BY <2>1 DEF Severity
  <2> QED
    BY <2>2, <2>3
<1> QED
  BY <1>3, <1>4, <1>5

LEMMA TargetFound ==
    ASSUME SplitTypeOK, NEW s, TargetStations(s) # {}
    PROVE  Target(s) \in TargetStations(s)
<1>1. TargetStations(s) \subseteq Stations /\ IsFiniteSet(Stations) /\ Stations \subseteq Nat
  BY SplitAssumption, ElementsOf DEF TargetStations, SplitTypeOK
<1>2. PICK T : T = TargetStations(s)
  OBVIOUS
<1>3. T # {} /\ T \subseteq Stations /\ T \subseteq Nat /\ IsFiniteSet(T)
  BY <1>1, <1>2, FS_Subset
<1>4. PICK a \in T : \A t \in T : Severity(a) <= Severity(t)
  <2> DEFINE K == {Severity(t) : t \in T}
  <2>0. \A t \in T : Severity(t) \in 0 .. 2
    BY Loads
  <2>1. K \subseteq 0 .. 2 /\ K # {}
    BY <1>3, <2>0
  <2>2. IsFiniteSet(0 .. 2)
    <3>1. PICK m \in Int, n \in Int : m = 0 /\ n = 2
      OBVIOUS
    <3>2. IsFiniteSet(m .. n)
      BY FS_Interval
    <3> QED
      BY <3>1, <3>2
  <2>3. IsFiniteSet(K) /\ K \subseteq Nat
    BY <2>1, <2>2, FS_Subset
  <2>4. \E m \in K : \A i \in K : m <= i
    <3> HIDE DEF K
    <3> QED
      BY <2>1, <2>3, Lowest
  <2> QED
    BY <2>4
<1>5. PICK least : least = {t \in T : Severity(t) = Severity(a)}
  OBVIOUS
<1>6. a \in least /\ least \subseteq T
  BY <1>5
<1>7. PICK b \in least : \A t \in least : Score(b) <= Score(t)
  <2> DEFINE K == {Score(t) : t \in least}
  <2>0. PICK n \in Nat : n = 8 * Cardinality(Entities)
    BY SplitAssumption, FS_CardinalityType
  <2>1. K \subseteq 0 .. n /\ K # {}
    BY <1>6, <2>0, Loads
  <2>2. IsFiniteSet(0 .. n)
    BY <2>0, FS_Interval
  <2>3. IsFiniteSet(K) /\ K \subseteq Nat
    BY <2>1, <2>2, FS_Subset
  <2>4. \E m \in K : \A i \in K : m <= i
    <3> HIDE DEF K
    <3> QED
      BY <2>1, <2>3, Lowest
  <2> QED
    BY <2>4
<1>8. PICK few : few = {t \in least : Score(t) = Score(b)}
  OBVIOUS
<1>9. b \in few /\ few \subseteq T
  BY <1>6, <1>8
<1>10. PICK c \in few : \A t \in few : c <= t
  <2>1. IsFiniteSet(few) /\ few \subseteq Nat /\ few # {}
    BY <1>3, <1>9, FS_Subset
  <2> QED
    BY <2>1, Lowest
<1>11. \A u \in T : Preferred(c, u)
  <2> SUFFICES ASSUME NEW u \in T PROVE Preferred(c, u)
    OBVIOUS
  <2>1. /\ c \in T /\ Severity(c) = Severity(a) /\ Score(c) = Score(b)
    BY <1>5, <1>6, <1>8, <1>10
  <2>2. /\ Severity(u) \in 0 .. 2 /\ Severity(c) \in 0 .. 2 /\ Score(u) \in Nat /\ Score(c) \in Nat
        /\ Severity(c) <= Severity(u)
    BY <1>4, <2>1, Loads
  <2>3. CASE Severity(u) # Severity(c)
    BY <2>2, <2>3 DEF Preferred
  <2>4. CASE Severity(u) = Severity(c)
    <3>1. u \in least /\ Score(c) <= Score(u)
      BY <1>5, <1>7, <2>1, <2>4
    <3>2. Score(u) = Score(c) => c <= u
      BY <1>8, <1>10, <2>1, <3>1
    <3> QED
      BY <2>2, <2>4, <3>1, <3>2 DEF Preferred
  <2> QED
    BY <2>3, <2>4
<1> QED
  BY <1>2, <1>9, <1>10, <1>11 DEF Target

LEMMA Hottest ==
    ASSUME NEW s
    PROVE  ProposedCells(s) \in Seq(Cells)
<1>1. PICK S, R : S = SampledCells(s) /\ R = Hotter(s)
  OBVIOUS
<1>2. S \subseteq Cells /\ IsFiniteSet(S) /\ Cells \subseteq Nat
  BY <1>1, SplitAssumption, FS_Subset DEF SampledCells
<1>3. ASSUME NEW c \in Cells PROVE Pressure(s, c) \in Nat
  <2>1. PICK here : here = {e \in Entities : c \in index[s][e]}
    OBVIOUS
  <2>2. IsFiniteSet(here)
    BY <2>1, SplitAssumption, FS_Subset
  <2> QED
    BY <2>1, <2>2, FS_CardinalityType DEF Pressure
<1>4. ASSUME NEW c \in Cells, NEW d \in Cells
      PROVE  <<c, d>> \in R <=> \/ Pressure(s, c) > Pressure(s, d)
                                \/ Pressure(s, c) = Pressure(s, d) /\ c < d
  BY <1>1 DEF Hotter
<1>5. Orders(R, S)
  BY <1>2, <1>3, <1>4 DEF Orders
<1>6. PICK ranked : ranked = Sorted(S, R)
  OBVIOUS
<1>7. ranked \in Seq(Cells)
  <2>1. ranked \in Seq(S)
    BY <1>2, <1>5, <1>6, SortedLists
  <2> QED
    BY <1>2, <2>1, SeqMonotonic
<1>8. PICK n : n = IF MaxCells < Len(ranked) THEN MaxCells ELSE Len(ranked)
  OBVIOUS
<1>9. n \in Nat /\ n <= Len(ranked)
  BY <1>7, <1>8, SplitAssumption
<1>10. SubSeq(ranked, 1, n) \in Seq(Cells)
  BY <1>7, <1>9
<1> QED
  BY <1>1, <1>6, <1>8, <1>10 DEF ProposedCells

LEMMA PlanMade ==
    ASSUME SplitTypeOK, Plan
    PROVE  PlanSound(plan')
<1>1. stations \in Seq(Stations) /\ MaxActions \in Nat
  BY SplitAssumption DEF SplitTypeOK
<1>2. PICK K : K = {i \in DOMAIN stations : Splits(stations[i])}
  OBVIOUS
<1>3. PICK sources : sources = Picked(stations, K)
  OBVIOUS
<1>4. /\ sources \in Seq(Stations) /\ ToSet(sources) = {stations[i] : i \in K}
  <2>1. K \in SUBSET (1 .. Len(stations))
    BY <1>1, <1>2
  <2>2. Chained(stations, Stations \X Stations)
    BY <1>1, AllRelated
  <2> QED
    BY <1>1, <1>3, <2>1, <2>2, ChainPicked
<1>5. \A i \in 1 .. Len(sources) : Splits(sources[i])
  <2>1. \A s \in ToSet(sources) : Splits(s)
    BY <1>2, <1>4
  <2> QED
    BY <1>4, <2>1, ElementsOf
<1>6. PICK n : n = IF MaxActions < Len(sources) THEN MaxActions ELSE Len(sources)
  OBVIOUS
<1>7. n \in Nat /\ n <= Len(sources) /\ n <= MaxActions
  BY <1>1, <1>4, <1>6
<1>8. PICK planned : planned = SubSeq(sources, 1, n)
  OBVIOUS
<1>9. /\ planned \in Seq(Stations) /\ DOMAIN planned = 1 .. n
      /\ \A i \in 1 .. n : planned[i] = sources[i] /\ i \in 1 .. Len(sources)
  BY <1>4, <1>7, <1>8
<1>10. plan' = [i \in 1 .. n |-> Split(planned[i])]
  <2>1. plan' = [i \in DOMAIN planned |-> Split(planned[i])]
    BY <1>2, <1>3, <1>6, <1>8 DEF Plan
  <2> QED
    BY <1>9, <2>1
<1>11. ASSUME NEW i \in 1 .. n
       PROVE  /\ plan'[i] \in SplitAction
              /\ Hot(plan'[i].source) /\ ~Hot(plan'[i].target)
  <2>1. PICK s : s = sources[i]
    OBVIOUS
  <2>0. i \in 1 .. Len(sources) /\ planned[i] = s
    BY <1>9, <2>1
  <2>2. s \in Stations /\ Splits(s)
    BY <1>4, <1>5, <2>0, <2>1
  <2>3. Target(s) \in TargetStations(s)
    BY <2>2, TargetFound DEF Splits
  <2>4. Target(s) \in Stations /\ ~Hot(Target(s))
    BY <1>1, <2>3, ElementsOf DEF TargetStations
  <2>5. plan'[i] = [source |-> s, target |-> Target(s), cells |-> ProposedCells(s)]
    BY <1>10, <2>0 DEF Split
  <2> QED
    BY <2>2, <2>4, <2>5, Hottest DEF SplitAction, Splits
<1>12. plan' \in Seq(SplitAction) /\ Len(plan') = n
  BY <1>7, <1>10, <1>11
<1> QED
  BY <1>7, <1>11, <1>12 DEF PlanSound
-----------------------------------------------------------------------------
(* A pass. *)

\* The cell was another station's, and no earlier action took it.
Taking(i, c) ==
    /\ c \in ToSet(plan[i].cells) /\ owner_of[c] # plan[i].target
    /\ \A j \in 1 .. i - 1 : c \notin ToSet(plan[j].cells)

\* The cells no action of the first n names have the owners they had.
UntilNow(x, n) ==
    \A c \in Cells :
        (\A j \in 1 .. n : c \notin ToSet(plan[j].cells)) => x.owner_of[c] = owner_of[c]

\* What the first n actions took has left their sources.
Left(x, n) ==
    x.failed \/ \A i \in 1 .. n : \A c \in ToSet(plan[i].cells) : Taking(i, c) =>
        \A e \in Entities : ~(/\ OwnedAt(x.records, plan[i].source, e)
                              /\ c \in x.index[plan[i].source][e])

PassAt(x, n) == PassSound(x) /\ UntilNow(x, n) /\ Left(x, n)

LEMMA PlannedActions ==
    ASSUME PlanSound(plan)
    PROVE  /\ plan \in Seq(Splittings) /\ Len(plan) \in Nat
           /\ \A i \in 1 .. Len(plan) :
                 /\ plan[i] \in Splittings
                 /\ plan[i].source \in Stations /\ plan[i].target \in Stations
                 /\ plan[i].source # plan[i].target
                 /\ ToSet(plan[i].cells) \subseteq Cells
<1>1. plan \in Seq(SplitAction) /\ Len(plan) \in Nat
  BY DEF PlanSound
<1>2. \A i \in 1 .. Len(plan) : plan[i] \in SplitAction /\ plan[i].source # plan[i].target
  BY <1>1 DEF PlanSound
<1>3. \A i \in 1 .. Len(plan) : plan[i] \in Splittings
  BY <1>2 DEF Splittings
<1>4. plan \in Seq(Splittings)
  BY <1>1, <1>3
<1>5. ASSUME NEW i \in 1 .. Len(plan) PROVE ToSet(plan[i].cells) \subseteq Cells
  <2>1. plan[i].cells \in Seq(Cells)
    BY <1>2 DEF SplitAction
  <2> QED
    BY <2>1, ElementsOf
<1> QED
  BY <1>1, <1>2, <1>3, <1>4, <1>5 DEF SplitAction

LEMMA NextTurn ==
    ASSUME PlanSound(plan), NEW n \in 0 .. Len(plan) - 1, NEW x, PassAt(x, n)
    PROVE  PassAt(Execute(x, plan[n + 1]), n + 1)
<1>0. PICK m : m = n + 1
  OBVIOUS
<1>1. PICK a, y : a = plan[m] /\ y = Execute(x, a)
  OBVIOUS
<1>2. /\ m \in 1 .. Len(plan) /\ n \in Nat /\ m - 1 = n
      /\ \A i : i \in 1 .. m <=> i \in 1 .. n \/ i = m
      /\ \A i \in 1 .. n : i \in 1 .. Len(plan) /\ i # m
  BY <1>0, PlannedActions
<1>3. /\ a \in Splittings /\ a \in SplitAction /\ ToSet(a.cells) \subseteq Cells
      /\ a.source \in Stations /\ a.target \in Stations /\ a.source # a.target
  BY <1>1, <1>2, PlannedActions DEF Splittings
<1>4. PassSound(x) /\ UntilNow(x, n) /\ Left(x, n) /\ x \in States
  BY DEF PassAt, PassSound
<1>5. y \in States /\ Outcome(x, y, a)
  BY <1>1, <1>3, <1>4, ExecuteOutcome
<1>6. PassSound(y)
  BY <1>3, <1>4, <1>5, OutcomeSound
<1>7. UntilNow(y, m)
  <2> SUFFICES ASSUME NEW c \in Cells, \A j \in 1 .. m : c \notin ToSet(plan[j].cells)
               PROVE  y.owner_of[c] = owner_of[c]
    BY DEF UntilNow
  <2>1. x.owner_of[c] = owner_of[c]
    BY <1>2, <1>4 DEF UntilNow
  <2>2. c \notin ToSet(a.cells)
    BY <1>1, <1>2
  <2>3. y.owner_of[c] = x.owner_of[c]
    BY <1>5, <2>2 DEF Outcome, Takes
  <2> QED
    BY <2>1, <2>3
<1>8. Left(y, m)
  <2>1. CASE x.failed \/ y.failed
    BY <1>5, <2>1 DEF Outcome, Left
  <2>2. CASE ~x.failed /\ ~y.failed
    <3>1. PICK moving : moving = Moving(x, a, MovedCells(x, a))
      OBVIOUS
    <3>2. Takes(x, y, a, moving)
      BY <1>5, <2>2, <3>1 DEF Outcome
    <3> SUFFICES ASSUME NEW i \in 1 .. m, NEW c \in ToSet(plan[i].cells), Taking(i, c),
                        NEW e \in Entities, OwnedAt(y.records, plan[i].source, e),
                        c \in y.index[plan[i].source][e]
                 PROVE  FALSE
      BY DEF Left
    <3>3. PICK s \in Stations : s = plan[i].source
      BY <1>2, PlannedActions
    <3>4. s # a.target
      BY <1>1, <1>2, <3>3 DEF PlanSound
    <3>5. e \in moving => s # a.source
      <4> SUFFICES ASSUME e \in moving, s = a.source PROVE FALSE
        OBVIOUS
      <4>1. x.records[a.source][e] \in Record
        <5>1. x.records[a.source][e] \in Record \cup {Nobody}
          BY <1>3, <1>4 DEF States
        <5> QED
          BY <3>1, <5>1 DEF Moving
      <4>2. PICK b \in BOOLEAN : b = (s = a.target) /\ b = FALSE
        BY <3>4
      <4>3. y.records[s][e] = [x.records[a.source][e] EXCEPT !.owned = b]
        BY <3>2, <4>2 DEF Takes, Carries
      <4>4. ~y.records[s][e].owned
        BY <4>1, <4>2, <4>3 DEF Record
      <4> QED
        BY <3>3, <4>4 DEF OwnedAt
    <3>6. y.records[s][e] = x.records[s][e] /\ y.index[s][e] = x.index[s][e]
      <4>1. e \notin moving \/ s \notin {a.source, a.target}
        BY ONLY <3>4, <3>5
      <4>2. \A t \in Stations, d \in Entities :
               d \notin moving \/ t \notin {a.source, a.target} =>
                  y.records[t][d] = x.records[t][d] /\ y.index[t][d] = x.index[t][d]
        BY ONLY <3>2 DEF Takes, Spares
      <4> QED
        BY ONLY <4>1, <4>2, s \in Stations, e \in Entities
    <3>7. OwnedAt(x.records, s, e) /\ c \in x.index[s][e]
      BY <3>3, <3>6 DEF OwnedAt
    <3>8. CASE i \in 1 .. n
      BY <1>4, <2>2, <3>3, <3>7, <3>8 DEF Left
    <3>9. CASE i = m
      <4>1. s = a.source /\ c \in ToSet(a.cells) /\ c \in Cells
        BY <1>1, <1>3, <3>3, <3>9
      <4>2. /\ owner_of[c] # a.target
            /\ \A j \in 1 .. n : c \notin ToSet(plan[j].cells)
        BY <1>1, <1>2, <3>9 DEF Taking
      <4>3. x.owner_of[c] = owner_of[c]
        BY <1>4, <4>1, <4>2 DEF UntilNow
      <4>4. c \in MovedCells(x, a)
        BY <4>1, <4>2, <4>3 DEF MovedCells
      <4>5. e \in moving
        BY <3>1, <3>7, <4>1, <4>4 DEF Moving, OwnedAt
      <4> QED
        BY <3>5, <4>1, <4>5
    <3> QED
      BY <1>2, <3>8, <3>9
  <2> QED
    BY <2>1, <2>2
<1>9. PassAt(y, m)
  BY <1>6, <1>7, <1>8 DEF PassAt
<1> QED
  BY <1>0, <1>1, <1>9
\* All actions of the plan.
LEMMA PassRuns ==
    ASSUME PlanSound(plan), NEW start, PassAt(start, 0)
    PROVE  PassAt(Loop(Execute, start, plan)[Len(plan)], Len(plan))
<1> DEFINE S == {x \in States : PassSound(x)}
           G == [z \in S \X Splittings |-> Execute(z[1], z[2])]
           after == Loop(Execute, start, plan)
           P == {n \in 0 .. Len(plan) : PassAt(after[n], n)}
<1>1. start \in S
  BY DEF PassAt, PassSound
<1>2. ASSUME NEW x \in S, NEW a \in Splittings PROVE Execute(x, a) \in S
  <2>1. x \in States /\ a \in SplitAction /\ PassSound(x)
    BY DEF Splittings
  <2>2. Execute(x, a) \in States /\ Outcome(x, Execute(x, a), a)
    BY <2>1, ExecuteOutcome
  <2>3. PICK y : y = Execute(x, a)
    OBVIOUS
  <2>4. PassSound(y)
    BY <2>1, <2>2, <2>3, OutcomeSound
  <2> QED
    BY <2>2, <2>3, <2>4
<1>3. G \in [S \X Splittings -> S]
  BY <1>2
<1>4. \A x \in S, a \in Splittings : G[<<x, a>>] = Execute(x, a)
  OBVIOUS
<1>5. plan \in Seq(Splittings) /\ Len(plan) \in Nat /\ \A i \in 1 .. Len(plan) : plan[i] \in Splittings
  BY PlannedActions
<1> HIDE DEF S, G
<1>6. PICK f \in [0 .. Len(plan) -> S] : Turns(f, start, plan, G)
  BY <1>1, <1>3, <1>5, LoopRuns
<1>7. f[0] = start /\ \A i \in 1 .. Len(plan) : f[i] = G[<<f[i - 1], plan[i]>>]
  BY <1>6 DEF Turns
<1>8. ASSUME NEW i \in 0 .. Len(plan)
      PROVE  f[i] = IF i = 0 THEN start ELSE Execute(f[i - 1], plan[i])
  <2>1. CASE i = 0
    BY <1>7, <2>1
  <2>2. CASE i # 0
    <3>1. i \in 1 .. Len(plan) /\ i - 1 \in 0 .. Len(plan)
      BY <1>5, <2>2
    <3>2. f[i - 1] \in S /\ plan[i] \in Splittings
      BY <1>5, <1>6, <3>1
    <3> QED
      BY <1>4, <1>7, <2>2, <3>1, <3>2
  <2> QED
    BY <2>1, <2>2
<1>9. after = [i \in 0 .. Len(plan) |-> IF i = 0 THEN start ELSE Execute(after[i - 1], plan[i])]
  <2>1. f = [i \in 0 .. Len(plan) |-> IF i = 0 THEN start ELSE Execute(f[i - 1], plan[i])]
    BY <1>6, <1>8
  <2>2. after = CHOOSE g : g = [i \in 0 .. Len(plan) |->
                                   IF i = 0 THEN start ELSE Execute(g[i - 1], plan[i])]
    BY DEF Loop
  <2> QED
    BY <2>1, <2>2
<1> HIDE DEF after
<1>10. after[0] = start /\ \A i \in 0 .. Len(plan) - 1 : after[i + 1] = Execute(after[i], plan[i + 1])
  <2>1. 0 \in 0 .. Len(plan)
    BY <1>5
  <2>2. ASSUME NEW i \in 0 .. Len(plan) - 1 PROVE after[i + 1] = Execute(after[i], plan[i + 1])
    <3>1. i + 1 \in 0 .. Len(plan) /\ i + 1 # 0 /\ i + 1 - 1 = i
      BY <1>5
    <3> QED
      BY <1>9, <3>1
  <2> QED
    BY <1>9, <2>1, <2>2
<1>11. 0 \in P
  BY <1>5, <1>10
<1>12. ASSUME NEW n \in 0 .. Len(plan) - 1, n \in P PROVE n + 1 \in P
  <2>1. PICK x : x = after[n]
    OBVIOUS
  <2>2. PassAt(x, n)
    BY <1>12, <2>1
  <2>3. PassAt(Execute(x, plan[n + 1]), n + 1)
    BY <2>2, NextTurn
  <2>4. after[n + 1] = Execute(x, plan[n + 1]) /\ n + 1 \in 0 .. Len(plan)
    BY <1>5, <1>10, <2>1
  <2> QED
    BY <2>3, <2>4
<1>13. Len(plan) \in P
  <2>1. 0 .. Len(plan) \subseteq P
    <3> HIDE DEF P
    <3> QED
      BY <1>5, <1>11, <1>12, EveryTurn
  <2>2. Len(plan) \in 0 .. Len(plan)
    BY <1>5
  <2> QED
    BY <2>1, <2>2
<1> QED
  BY <1>13

-----------------------------------------------------------------------------
(* The actions. *)

SplitInv ==
    SplitTypeOK /\ PlanSound(plan) /\ Follows(records, index) /\ SingleOwner(records)

LEMMA PassEnds == SplitInv => PassAt(Executed, Len(plan))
<1> SUFFICES ASSUME SplitInv PROVE PassAt(Executed, Len(plan))
  OBVIOUS
<1>1. PICK x : x = Pass
  OBVIOUS
<1>2. /\ x.owner_of = owner_of /\ x.records = records /\ x.index = index /\ ~x.failed
      /\ x \in States
  BY <1>1 DEF Pass, States, SplitInv, SplitTypeOK
<1>3. PassSound(x)
  BY <1>2 DEF PassSound, SplitInv
<1>4. UntilNow(x, 0) /\ Left(x, 0)
  BY <1>2 DEF UntilNow, Left
<1>5. PassAt(x, 0) /\ PlanSound(plan)
  BY <1>3, <1>4 DEF PassAt, SplitInv
<1>6. PassAt(Loop(Execute, x, plan)[Len(plan)], Len(plan))
  BY <1>5, PassRuns
<1> QED
  BY <1>1, <1>6 DEF Executed

LEMMA SplitBegin == SplitInit => SplitInv
<1> SUFFICES ASSUME SplitInit PROVE SplitInv
  OBVIOUS
<1>1. Stations \subseteq Nat /\ IsFiniteSet(Stations) /\ {MaxActions, LastTick, MaxChanges} \subseteq Nat
  BY SplitAssumption
<1>2. stations \in Seq(Stations) /\ IsInjective(stations)
  <2>1. PICK n : n = Cardinality(Stations)
    OBVIOUS
  <2>2. /\ n \in Nat /\ \A k \in 1 .. n : InOrder(Stations)[k] \in Stations
        /\ \A j, k \in 1 .. n : InOrder(Stations)[j] = InOrder(Stations)[k] => j = k
    BY <1>1, <2>1, InOrderLists
  <2>3. stations \in [1 .. n -> Stations]
    BY <2>1, <2>2 DEF SplitInit, InOrder
  <2>4. IsInjective(stations)
    BY <2>2, <2>3 DEF IsInjective, SplitInit
  <2> QED
    BY <2>2, <2>3, <2>4
<1>3. PICK home \in [Entities -> Stations], place \in [Entities -> Cells] :
          /\ records = [s \in Stations |-> [e \in Entities |->
                           IF home[e] = s THEN [owned |-> TRUE, cells |-> {place[e]}]
                           ELSE Nobody]]
          /\ index = [s \in Stations |-> [e \in Entities |->
                           IF home[e] = s THEN {place[e]} ELSE {}]]
  BY DEF SplitInit
<1>4. ASSUME NEW s \in Stations, NEW e \in Entities
      PROVE  /\ home[e] = s => /\ records[s][e] \in Record /\ records[s][e].owned
                               /\ index[s][e] = records[s][e].cells
             /\ home[e] # s => records[s][e] = Nobody /\ index[s][e] = {}
             /\ index[s][e] \in SUBSET Cells
  <2>1. PICK here : here = {place[e]}
    OBVIOUS
  <2>2. here \in Footprints
    BY <2>1 DEF Footprints
  <2>3. PICK r : r = [owned |-> TRUE, cells |-> here]
    OBVIOUS
  <2>4. r \in Record /\ r.owned /\ r.cells = here
    BY <2>2, <2>3 DEF Record
  <2>5. records[s][e] = IF home[e] = s THEN r ELSE Nobody
    BY <1>3, <2>1, <2>3
  <2>6. index[s][e] = IF home[e] = s THEN here ELSE {}
    BY <1>3, <2>1
  <2> QED
    BY <2>1, <2>2, <2>4, <2>5, <2>6 DEF Footprints
<1>5. /\ records \in [Stations -> [Entities -> Record \cup {Nobody}]]
      /\ index \in [Stations -> [Entities -> SUBSET Cells]]
  <2>1. /\ \A s \in Stations, e \in Entities : records[s][e] \in Record \cup {Nobody}
        /\ \A s \in Stations, e \in Entities : index[s][e] \in SUBSET Cells
    BY <1>4
  <2> QED
    BY <1>3, <2>1
<1>6. Follows(records, index)
  <2> SUFFICES ASSUME NEW s \in Stations, NEW e \in Entities
               PROVE  index[s][e] = IF records[s][e] = Nobody THEN {} ELSE records[s][e].cells
    BY DEF Follows
  <2>1. CASE home[e] = s
    <3>1. records[s][e] \in Record /\ index[s][e] = records[s][e].cells
      BY <1>4, <2>1
    <3>2. records[s][e] # Nobody
      BY <3>1, Nobodies
    <3> QED
      BY <3>1, <3>2
  <2>2. CASE home[e] # s
    BY <1>4, <2>2
  <2> QED
    BY <2>1, <2>2
<1>7. SingleOwner(records)
  <2> SUFFICES ASSUME NEW e \in Entities
               PROVE  \A t \in Stations : OwnedAt(records, t, e) <=> t = home[e]
    BY DEF SingleOwner
  <2> QED
    BY <1>4, Nobodies DEF OwnedAt
<1>8. PlanSound(plan)
  BY <1>1 DEF SplitInit, PlanSound
<1>9. SplitTypeOK
  BY <1>1, <1>2, <1>5, <1>8 DEF SplitTypeOK, SplitInit, PlanSound
<1> QED
  BY <1>6, <1>7, <1>8, <1>9 DEF SplitInv
\* What leaves records, indexes and plan alone keeps what is said of them.
LEMMA PlacesKept ==
    ASSUME SplitInv, UNCHANGED <<records, index, plan>>, SplitTypeOK'
    PROVE  SplitInv'
BY DEF SplitInv, PlanSound, Follows, SingleOwner, OwnedAt

LEMMA PlanKeeps == ASSUME SplitInv, Plan PROVE SplitInv'
<1>1. PlanSound(plan')
  BY PlanMade DEF SplitInv
<1>2. /\ UNCHANGED <<stations, indexes, records, index, owner_of, last_split_at, clock, changes>>
      /\ planned_at' = clock
  BY DEF Plan, registry, world
<1>3. clock \in 0 .. clock
  BY SplitAssumption DEF SplitInv, SplitTypeOK
<1>4. SplitTypeOK'
  BY <1>1, <1>2, <1>3 DEF SplitInv, SplitTypeOK, PlanSound
<1>5. Follows(records, index)' /\ SingleOwner(records)'
  BY <1>2 DEF SplitInv, Follows, SingleOwner, OwnedAt
<1>6. PlanSound(plan)'
  BY <1>1 DEF PlanSound
<1> QED
  BY <1>4, <1>5, <1>6 DEF SplitInv

LEMMA ExecuteKeeps == ASSUME SplitInv, ExecutePlanned PROVE SplitInv'
<1>1. PICK x : x = Executed
  OBVIOUS
<1>2. PassSound(x)
  BY <1>1, PassEnds DEF PassAt
<1>3. /\ records' = x.records /\ index' = x.index /\ owner_of' = x.owner_of
      /\ UNCHANGED <<stations, indexes, plan, planned_at, clock, changes>>
      /\ last_split_at' = IF x.failed THEN last_split_at ELSE SplitsRecorded(last_split_at, Sources)
  BY <1>1 DEF ExecutePlanned, registry
<1>4. /\ x.records \in [Stations -> [Entities -> Record \cup {Nobody}]]
      /\ x.index \in [Stations -> [Entities -> SUBSET Cells]]
      /\ x.owner_of \in [Cells -> Stations \cup {Nobody}]
      /\ Follows(x.records, x.index) /\ SingleOwner(x.records)
  BY <1>2 DEF PassSound, States
<1>5. last_split_at' \in [Stations -> (0 .. clock) \cup {NoSplit}]
  BY <1>3 DEF SplitsRecorded, SplitInv, SplitTypeOK
<1>6. SplitTypeOK'
  BY <1>3, <1>4, <1>5 DEF SplitInv, SplitTypeOK
<1>7. Follows(records, index)' /\ SingleOwner(records)'
  BY <1>3, <1>4 DEF Follows, SingleOwner, OwnedAt
<1>8. PlanSound(plan)'
  BY <1>3 DEF SplitInv, PlanSound
<1> QED
  BY <1>6, <1>7, <1>8 DEF SplitInv

LEMMA MoveKeeps ==
    ASSUME SplitInv, NEW s \in Stations, NEW e \in Entities, NEW cells \in Footprints,
           MoveEntity(s, e, cells)
    PROVE  SplitInv'
<1>1. /\ records' = [records EXCEPT ![s][e].cells = cells]
      /\ index' = [index EXCEPT ![s][e] = cells]
      /\ UNCHANGED <<stations, indexes, owner_of, plan, planned_at, last_split_at, clock>>
      /\ changes' = changes + 1 /\ changes < MaxChanges /\ Owns(s, e)
  BY DEF MoveEntity, registry, executor
<1>2. /\ records \in [Stations -> [Entities -> Record \cup {Nobody}]]
      /\ index \in [Stations -> [Entities -> SUBSET Cells]]
      /\ Follows(records, index) /\ SingleOwner(records)
  BY DEF SplitInv, SplitTypeOK
<1>3. PICK r \in Record : r = records[s][e]
  BY <1>1, <1>2 DEF Owns
<1>4. PICK q : q = [r EXCEPT !.cells = cells]
  OBVIOUS
<1>5. q \in Record /\ q.owned = r.owned /\ q.cells = cells /\ q # Nobody /\ r # Nobody
  BY <1>3, <1>4, Nobodies DEF Record
<1>6. records' = [records EXCEPT ![s] = [records[s] EXCEPT ![e] = q]]
  BY <1>1, <1>2, <1>3, <1>4
<1>7. ASSUME NEW t \in Stations, NEW d \in Entities
      PROVE  /\ t = s /\ d = e => records'[t][d] = q /\ index'[t][d] = cells
             /\ t # s \/ d # e => records'[t][d] = records[t][d] /\ index'[t][d] = index[t][d]
  BY <1>1, <1>2, <1>6
<1>8. /\ records' \in [Stations -> [Entities -> Record \cup {Nobody}]]
      /\ index' \in [Stations -> [Entities -> SUBSET Cells]]
  <2>1. records[s] \in [Entities -> Record \cup {Nobody}] /\ index[s] \in [Entities -> SUBSET Cells]
    BY <1>2
  <2>2. [records[s] EXCEPT ![e] = q] \in [Entities -> Record \cup {Nobody}]
    BY <1>5, <2>1
  <2>3. records' \in [Stations -> [Entities -> Record \cup {Nobody}]]
    BY <1>2, <1>6, <2>2
  <2>4. cells \in SUBSET Cells
    BY DEF Footprints
  <2>5. [index[s] EXCEPT ![e] = cells] \in [Entities -> SUBSET Cells]
    BY <2>1, <2>4
  <2>6. index' = [index EXCEPT ![s] = [index[s] EXCEPT ![e] = cells]]
    BY <1>1, <1>2
  <2> QED
    BY <1>2, <2>3, <2>5, <2>6
<1>9. Follows(records, index)'
  <2> SUFFICES ASSUME NEW t \in Stations, NEW d \in Entities
               PROVE  index'[t][d] = IF records'[t][d] = Nobody THEN {} ELSE records'[t][d].cells
    BY DEF Follows
  <2>1. index[t][d] = IF records[t][d] = Nobody THEN {} ELSE records[t][d].cells
    BY <1>2 DEF Follows
  <2> QED
    BY <1>5, <1>7, <2>1
<1>10. SingleOwner(records)'
  <2> SUFFICES ASSUME NEW d \in Entities
               PROVE  \E t \in Stations : \A u \in Stations : OwnedAt(records', u, d) <=> u = t
    BY DEF SingleOwner, OwnedAt
  <2>1. \A u \in Stations : OwnedAt(records', u, d) <=> OwnedAt(records, u, d)
    BY <1>3, <1>5, <1>7 DEF OwnedAt
  <2> QED
    BY <1>2, <2>1 DEF SingleOwner
<1>11. changes' \in 0 .. MaxChanges
  <2>1. changes \in 0 .. MaxChanges
    BY DEF SplitInv, SplitTypeOK
  <2>2. MaxChanges \in Nat
    BY SplitAssumption
  <2>3. changes' = changes + 1 /\ changes < MaxChanges
    BY <1>1
  <2> QED
    BY ONLY <2>1, <2>2, <2>3
<1>12. SplitTypeOK'
  BY <1>1, <1>8, <1>11 DEF SplitInv, SplitTypeOK
<1>13. PlanSound(plan)'
  BY <1>1 DEF SplitInv, PlanSound
<1> QED
  BY <1>9, <1>10, <1>12, <1>13 DEF SplitInv

LEMMA ExpireKeeps ==
    ASSUME SplitInv, NEW s \in Stations, NEW e \in Entities, ExpireGhost(s, e)
    PROVE  SplitInv'
<1>1. /\ records' = [records EXCEPT ![s][e] = Nobody]
      /\ index' = [index EXCEPT ![s][e] = {}]
      /\ UNCHANGED <<stations, indexes, owner_of, plan, planned_at, last_split_at, clock, changes>>
      /\ ~OwnedAt(records, s, e)
  BY DEF ExpireGhost, registry, executor, Owns, OwnedAt
<1>2. /\ records \in [Stations -> [Entities -> Record \cup {Nobody}]]
      /\ index \in [Stations -> [Entities -> SUBSET Cells]]
      /\ Follows(records, index) /\ SingleOwner(records)
  BY DEF SplitInv, SplitTypeOK
<1>3. ASSUME NEW t \in Stations, NEW d \in Entities
      PROVE  /\ t = s /\ d = e => records'[t][d] = Nobody /\ index'[t][d] = {}
             /\ t # s \/ d # e => records'[t][d] = records[t][d] /\ index'[t][d] = index[t][d]
  BY <1>1, <1>2
<1>4. /\ records' \in [Stations -> [Entities -> Record \cup {Nobody}]]
      /\ index' \in [Stations -> [Entities -> SUBSET Cells]]
  BY <1>1, <1>2
<1>5. Follows(records, index)'
  <2> SUFFICES ASSUME NEW t \in Stations, NEW d \in Entities
               PROVE  index'[t][d] = IF records'[t][d] = Nobody THEN {} ELSE records'[t][d].cells
    BY DEF Follows
  <2>1. index[t][d] = IF records[t][d] = Nobody THEN {} ELSE records[t][d].cells
    BY <1>2 DEF Follows
  <2> QED
    BY <1>3, <2>1
<1>6. SingleOwner(records)'
  <2> SUFFICES ASSUME NEW d \in Entities
               PROVE  \E t \in Stations : \A u \in Stations : OwnedAt(records', u, d) <=> u = t
    BY DEF SingleOwner, OwnedAt
  <2>1. \A u \in Stations : OwnedAt(records', u, d) <=> OwnedAt(records, u, d)
    BY <1>1, <1>3 DEF OwnedAt
  <2> QED
    BY <1>2, <2>1 DEF SingleOwner
<1>7. SplitTypeOK'
  BY <1>1, <1>4 DEF SplitInv, SplitTypeOK
<1>8. PlanSound(plan)'
  BY <1>1 DEF SplitInv, PlanSound
<1> QED
  BY <1>5, <1>6, <1>7, <1>8 DEF SplitInv

LEMMA RegistrationKeeps ==
    ASSUME SplitInv, NEW s \in Removable,
           RemoveStation(s) \/ PushStation(s) \/ RemoveIndex(s) \/ InsertIndex(s)
    PROVE  SplitInv'
<1>0. /\ s \in Stations /\ changes \in 0 .. MaxChanges /\ MaxChanges \in Nat
      /\ stations \in Seq(Stations) /\ IsInjective(stations) /\ indexes \subseteq Stations
  BY SplitAssumption DEF SplitInv, SplitTypeOK
<1>1. UNCHANGED <<records, index, owner_of, plan, planned_at, last_split_at, clock>>
  BY DEF RemoveStation, PushStation, RemoveIndex, InsertIndex, world, executor
<1>2. changes' \in 0 .. MaxChanges
  BY <1>0 DEF RemoveStation, PushStation, RemoveIndex, InsertIndex
<1>3. indexes' \subseteq Stations
  BY <1>0 DEF RemoveStation, PushStation, RemoveIndex, InsertIndex
<1>4. PICK R : R = {x \in Stations \X Stations : x[1] # x[2]}
  OBVIOUS
<1>5. Chained(stations, R) /\ DOMAIN stations = 1 .. Len(stations)
  BY <1>0, <1>4 DEF Chained, IsInjective
<1>6. stations' \in Seq(Stations) /\ (stations' = stations \/ Chained(stations', R))
  <2>1. CASE RemoveStation(s)
    <3>1. PICK K : K = {i \in DOMAIN stations : stations[i] # s}
      OBVIOUS
    <3>2. K \in SUBSET (1 .. Len(stations))
      BY <1>5, <3>1
    <3>3. Picked(stations, K) \in Seq(Stations) /\ Chained(Picked(stations, K), R)
      BY <1>0, <1>5, <3>2, ChainPicked
    <3> QED
      BY <2>1, <3>1, <3>3 DEF RemoveStation
  <2>2. CASE PushStation(s)
    <3>1. \A a \in ToSet(stations) : <<a, s>> \in R
      BY <1>0, <1>4, <2>2, ElementsOf DEF PushStation
    <3>2. Append(stations, s) \in Seq(Stations) /\ Chained(Append(stations, s), R)
      BY <1>0, <1>5, <3>1, ChainAppend
    <3> QED
      BY <2>2, <3>2 DEF PushStation
  <2>3. CASE RemoveIndex(s) \/ InsertIndex(s)
    BY <1>0, <2>3 DEF RemoveIndex, InsertIndex
  <2> QED
    BY <2>1, <2>2, <2>3
<1>7. IsInjective(stations')
  <2>1. CASE stations' = stations
    BY <1>0, <2>1
  <2>2. CASE Chained(stations', R)
    <3>1. DOMAIN stations' = 1 .. Len(stations') /\ Len(stations') \in Nat
      BY <1>6
    <3>2. ASSUME NEW i \in 1 .. Len(stations'), NEW j \in 1 .. Len(stations'), i < j
          PROVE  stations'[i] # stations'[j]
      BY <1>4, <2>2, <3>2 DEF Chained
    <3>3. \A i, j \in 1 .. Len(stations') : i < j \/ j < i \/ i = j
      BY <3>1
    <3> QED
      BY <3>1, <3>2, <3>3 DEF IsInjective
  <2> QED
    BY <1>6, <2>1, <2>2
<1>8. SplitTypeOK'
  BY <1>1, <1>2, <1>3, <1>6, <1>7 DEF SplitInv, SplitTypeOK
<1> QED
  BY <1>1, <1>8, PlacesKept

LEMMA TickKeeps == ASSUME SplitInv, SplitTick PROVE SplitInv'
<1>1. /\ UNCHANGED <<stations, indexes, records, index, owner_of, plan, planned_at, last_split_at, changes>>
      /\ clock' = clock + 1 /\ clock < LastTick
  BY DEF SplitTick, registry, world, executor
<1>2. clock \in 0 .. LastTick /\ LastTick \in Nat
  BY SplitAssumption DEF SplitInv, SplitTypeOK
<1>3. clock' \in 0 .. LastTick /\ 0 .. clock \subseteq 0 .. clock'
  BY <1>1, <1>2
<1>4. planned_at' \in 0 .. clock' /\ last_split_at' \in [Stations -> (0 .. clock') \cup {NoSplit}]
  <2>1. planned_at \in 0 .. clock /\ last_split_at \in [Stations -> (0 .. clock) \cup {NoSplit}]
    BY DEF SplitInv, SplitTypeOK
  <2> QED
    BY <1>1, <1>3, <2>1
<1>5. SplitTypeOK'
  BY <1>1, <1>3, <1>4 DEF SplitInv, SplitTypeOK
<1> QED
  BY <1>1, <1>5, PlacesKept

LEMMA SplitStep == SplitInv /\ [SplitNext]_splitVars => SplitInv'
<1> SUFFICES ASSUME SplitInv, [SplitNext]_splitVars PROVE SplitInv'
  OBVIOUS
<1>1. CASE UNCHANGED splitVars
  <2>1. UNCHANGED <<stations, indexes, records, index, owner_of, plan, planned_at, last_split_at,
                    clock, changes>>
    BY <1>1 DEF splitVars, registry, world, executor
  <2>2. SplitTypeOK'
    BY <2>1 DEF SplitInv, SplitTypeOK
  <2> QED
    BY <2>1, <2>2, PlacesKept
<1>2. CASE SplitNext
  BY <1>2, PlanKeeps, ExecuteKeeps, MoveKeeps, ExpireKeeps, RegistrationKeeps, TickKeeps DEF SplitNext
<1> QED
  BY <1>1, <1>2

-----------------------------------------------------------------------------
(* Theorems. *)

LEMMA InvariantPlaces == SplitInv => EntitiesPlaced
<1> SUFFICES ASSUME SplitInv PROVE EntitiesPlaced
  OBVIOUS
<1>1. OneOwner
  <2> SUFFICES ASSUME NEW e \in Entities PROVE Cardinality({s \in Stations : Owns(s, e)}) = 1
    BY DEF OneOwner
  <2>1. PICK s \in Stations : \A t \in Stations : OwnedAt(records, t, e) <=> t = s
    BY DEF SplitInv, SingleOwner
  <2>2. {t \in Stations : Owns(t, e)} = {s}
    BY <2>1 DEF Owns, OwnedAt
  <2> QED
    BY <2>2, FS_Singleton
<1>2. IndexesFollow
  BY DEF SplitInv, Follows, IndexesFollow
<1> QED
  BY <1>1, <1>2 DEF EntitiesPlaced

\* Every entity has exactly one owner, and records and indexes agree where it
\* is, through passes that fail in the middle, plans executed late or twice and
\* registrations that come and go: SplitExecutor and CellMigrationExecutor.
THEOREM EntitiesPlacedHolds == SplitSpec => []EntitiesPlaced
<1>1. SplitInv => EntitiesPlaced
  BY InvariantPlaces
<1> QED
  BY <1>1, SplitBegin, SplitStep, PTL DEF SplitSpec

\* A pass that succeeds leaves the source of an action without what touches a
\* cell that it took: execute_planned.
THEOREM VacatedCellsHolds == SplitSpec => VacatedCells
<1> DEFINE Vacates ==
        ExecutePlanned /\ ~Executed.failed =>
            \A i \in DOMAIN plan : \A c \in ToSet(plan[i].cells) :
                /\ owner_of[c] # plan[i].target
                /\ \A j \in 1 .. i - 1 : c \notin ToSet(plan[j].cells)
                => \A e \in Entities :
                       ~(Owns(plan[i].source, e)' /\ c \in index'[plan[i].source][e])
<1>1. SplitInv => Vacates
  <2> SUFFICES ASSUME SplitInv, ExecutePlanned, ~Executed.failed,
                      NEW i \in DOMAIN plan, NEW c \in ToSet(plan[i].cells),
                      owner_of[c] # plan[i].target,
                      \A j \in 1 .. i - 1 : c \notin ToSet(plan[j].cells),
                      NEW e \in Entities, Owns(plan[i].source, e)', c \in index'[plan[i].source][e]
               PROVE  FALSE
    OBVIOUS
  <2>1. PICK x : x = Executed
    OBVIOUS
  <2>2. Left(x, Len(plan)) /\ ~x.failed
    BY <2>1, PassEnds DEF PassAt
  <2>3. plan' = plan /\ records' = x.records /\ index' = x.index
    BY <2>1 DEF ExecutePlanned
  <2>4. i \in 1 .. Len(plan)
    BY PlannedActions DEF SplitInv
  <2>5. Taking(i, c)
    BY DEF Taking
  <2>6. OwnedAt(x.records, plan[i].source, e) /\ c \in x.index[plan[i].source][e]
    BY <2>3 DEF Owns, OwnedAt
  <2> QED
    BY <2>2, <2>4, <2>5, <2>6 DEF Left
<1> HIDE DEF Vacates
<1>2. SplitSpec => [][SplitInv => Vacates]_splitVars
  BY <1>1, PTL DEF SplitSpec
<1>3. SplitSpec => [][Vacates]_splitVars
  BY <1>2, SplitBegin, SplitStep, PTL DEF SplitSpec
<1>4. [][Vacates]_splitVars => VacatedCells
  BY DEF Vacates, VacatedCells
<1> QED
  BY <1>3, <1>4
=============================================================================
