----------------------- MODULE StationRuntime_proofs -----------------------
(***************************************************************************)
(* Station storage is correct for every number of entities, slots and      *)
(* generations, and the component store, the change log and the cell index *)
(* follow it.  Then, of any index and any columns: a query answers exactly, *)
(* and the component store reads as one map of blobs.                      *)
(***************************************************************************)
EXTENDS StationRuntime, CellQuery, ComponentStore, Ordered_proofs

StationInv == StationTypeOK /\ IdIndexCoherent /\ FreeStackExact

\* A record update that keeps the identity of the record in the slot.
InPlace(h, r) ==
    /\ Resolves(h)
    /\ r \in EntityRecord
    /\ r.id = RecordOf(h).id
    /\ r.handle = RecordOf(h).handle

\* A new record for an id the station does not hold.
Fresh(r) ==
    /\ r \in EntityRecord
    /\ r.handle = AllocatedHandle
    /\ by_id[r.id] = NoHandle

\* allocate_handle returns a handle inside the slot bound.
LEMMA AllocatedHandleType ==
    ASSUME StationTypeOK, FreeStackExact, CanAllocate
    PROVE  /\ AllocatedHandle \in Handle
           /\ AllocatedHandle.generation =
                IF free # <<>> THEN generations[AllocatedHandle.index] ELSE 0
           /\ free # <<>> => /\ AllocatedHandle.index = free[Len(free)]
                             /\ AllocatedHandle.index < size
                             /\ Len(free) \in 1 .. Len(free)
           /\ free = <<>> => AllocatedHandle.index = size /\ size < MaxSlots
           /\ records[AllocatedHandle.index] = NoRecord
<1>1. CASE free # <<>>
  <2>1. Len(free) \in 1 .. Len(free) /\ free[Len(free)] \in Index
    BY <1>1 DEF StationTypeOK
  <2>2. free[Len(free)] < size /\ generations[free[Len(free)]] \in Generation
    BY <2>1 DEF StationTypeOK, FreeStackExact
  <2>3. records[free[Len(free)]] = NoRecord
    BY <2>1, <2>2, StationAssumption DEF StationTypeOK, FreeStackExact, Index
  <2> QED BY <1>1, <2>1, <2>2, <2>3 DEF AllocatedHandle, Handle
<1>2. CASE free = <<>>
  <2>1. size \in Index /\ size < MaxSlots /\ 0 \in Generation
    BY <1>2, StationAssumption DEF CanAllocate, StationTypeOK, Index, Generation
  <2>2. records[size] = NoRecord
    BY <2>1, StationAssumption DEF FreeStackExact, StationTypeOK, Index
  <2> QED BY <1>2, <2>1, <2>2 DEF AllocatedHandle, Handle
<1> QED BY <1>1, <1>2

\* An update in place preserves the storage invariant.
LEMMA UpdateKeepsInv ==
    ASSUME StationInv, NEW h \in Handle, NEW r, InPlace(h, r), UpdateRecord(h, r)
    PROVE  StationInv'
<1> USE DEF StationInv, InPlace, UpdateRecord, RecordOf, Resolves
<1>0. h.index \in Index /\ r # NoRecord
  BY NoneAssumption DEF Handle
<1>1. StationTypeOK'
  BY <1>0 DEF StationTypeOK
<1>2. IdIndexCoherent'
  BY <1>0, StationAssumption DEF IdIndexCoherent, StationTypeOK, Live, Index, Handle
<1>3. FreeStackExact'
  BY <1>0, StationAssumption DEF FreeStackExact, StationTypeOK, Index
<1> QED BY <1>1, <1>2, <1>3

\* A fresh record in a vacant slot leaves the id index coherent.
LEMMA FreshIsCoherent ==
    ASSUME StationTypeOK, IdIndexCoherent, NEW a \in Handle, NEW r \in EntityRecord,
           r.handle = a, by_id[r.id] = NoHandle, records[a.index] = NoRecord,
           a.index < size', size <= size', size' \in Nat,
           size' > size => a.index = size /\ size' = size + 1,
           by_id' = [by_id EXCEPT ![r.id] = a],
           records' = [records EXCEPT ![a.index] = r],
           generations' = [generations EXCEPT ![a.index] = a.generation]
    PROVE  IdIndexCoherent'
<1>0. /\ a.index \in Index /\ r # NoRecord /\ r.id \in Entities /\ a # NoHandle
      /\ a = [index |-> a.index, generation |-> a.generation]
      /\ size \in Nat /\ Index \subseteq Nat
  BY NoneAssumption, StationAssumption DEF Handle, EntityRecord, StationTypeOK, Index
<1>1. ASSUME NEW e \in Entities, by_id'[e] # NoHandle
      PROVE  Resolves(by_id[e])' /\ RecordOf(by_id[e])'.id = e
  <2>1. CASE e = r.id
    <3>1. by_id'[e] = a BY <2>1, <1>0 DEF StationTypeOK
    <3> QED BY <2>1, <3>1, <1>0 DEF StationTypeOK, Resolves, RecordOf
  <2>2. CASE e # r.id
    <3>1. by_id'[e] = by_id[e] BY <2>2, <1>0 DEF StationTypeOK
    <3>2. by_id[e] \in Handle /\ by_id[e].index \in Index
      BY <1>1, <3>1 DEF StationTypeOK, Handle
    <3>3. Resolves(by_id[e]) /\ RecordOf(by_id[e]).id = e
      BY <1>1, <3>1 DEF IdIndexCoherent
    <3> QED BY <1>0, <3>1, <3>2, <3>3 DEF StationTypeOK, Resolves, RecordOf
  <2> QED BY <2>1, <2>2
<1>2. ASSUME NEW i \in Live'
      PROVE  /\ by_id'[records'[i].id] = records'[i].handle
             /\ records'[i].handle = [index |-> i, generation |-> generations'[i]]
  <2>0. i \in Nat /\ i < size' /\ records'[i] # NoRecord
    BY <1>2 DEF Live
  <2>1. CASE i = a.index
    BY <2>1, <1>0 DEF StationTypeOK
  <2>2. CASE i # a.index
    <3>0. i < size /\ i \in Index
      BY <2>0, <2>2, <1>0, StationAssumption DEF StationTypeOK, Index
    <3>1. records'[i] = records[i] /\ generations'[i] = generations[i]
      BY <2>2, <3>0, <1>0 DEF StationTypeOK
    <3>2. i \in Live /\ records[i] \in EntityRecord
      BY <2>0, <3>0, <3>1 DEF Live, StationTypeOK
    <3>3. /\ by_id[records[i].id] = records[i].handle
          /\ records[i].handle = [index |-> i, generation |-> generations[i]]
      BY <3>2 DEF IdIndexCoherent
    <3>4. records[i].id # r.id /\ records[i].id \in Entities
      BY <3>2, <3>3, NoneAssumption DEF EntityRecord
    <3> QED BY <1>0, <3>1, <3>3, <3>4 DEF StationTypeOK
  <2> QED BY <2>1, <2>2
<1> QED BY <1>1, <1>2 DEF IdIndexCoherent

\* Storing a fresh record under the allocated handle preserves it.
LEMMA InsertKeepsInv ==
    ASSUME StationInv, NEW r, Fresh(r), InsertAllocated(AllocatedHandle, r)
    PROVE  StationInv'
<1> DEFINE a == AllocatedHandle
<1>0. /\ a \in Handle /\ a.index \in Index /\ r # NoRecord
      /\ StationTypeOK /\ FreeStackExact /\ IdIndexCoherent /\ CanAllocate
  BY AllocatedHandleType, NoneAssumption DEF StationInv, Fresh, InsertAllocated, Handle
<1>1. CASE free # <<>>
  <2>1. /\ free' = SubSeq(free, 1, Len(free) - 1)
        /\ size' = size /\ generations' = generations
        /\ by_id' = [by_id EXCEPT ![r.id] = a]
        /\ records' = [records EXCEPT ![a.index] = r]
    BY <1>1 DEF InsertAllocated
  <2>2. /\ a.index = free[Len(free)] /\ a.index < size
        /\ a.generation = generations[a.index]
        /\ records[a.index] = NoRecord
    BY <1>0, <1>1, AllocatedHandleType
  <2>3. /\ free' \in Seq(Index) /\ Len(free') = Len(free) - 1
        /\ \A k \in 1 .. Len(free') : free'[k] = free[k]
    <3>1. free \in Seq(Index) /\ Len(free) \in Nat /\ Len(free) >= 1
      BY <1>0, <1>1 DEF StationTypeOK
    <3>2. \A i \in 1 .. Len(free) - 1 : free[i] \in Index
      BY <3>1
    <3> DEFINE n == Len(free) - 1
    <3>3. n \in Int /\ n >= 0 /\ \A i \in 1 .. n : free[i] \in Index
      BY <3>1, <3>2
    <3> HIDE DEF n
    <3>4. /\ SubSeq(free, 1, n) \in Seq(Index)
          /\ Len(SubSeq(free, 1, n)) = IF 1 <= n THEN n - 1 + 1 ELSE 0
          /\ \A i \in 1 .. n - 1 + 1 : SubSeq(free, 1, n)[i] = free[1 + i - 1]
      BY <3>3, SubSeqProperties
    <3>5. Len(SubSeq(free, 1, n)) = n /\ \A i \in 1 .. n : SubSeq(free, 1, n)[i] = free[i]
      BY <3>3, <3>4
    <3> QED BY <2>1, <3>4, <3>5 DEF n
  <2>4. StationTypeOK'
    BY <1>0, <2>1, <2>3 DEF StationTypeOK, Fresh, EntityRecord
  <2>5. IdIndexCoherent'
    <3>1. /\ a.index < size' /\ size <= size' /\ size' \in Nat
          /\ generations' = [generations EXCEPT ![a.index] = a.generation]
          /\ size' > size => a.index = size /\ size' = size + 1
      BY <1>0, <2>1, <2>2, StationAssumption DEF StationTypeOK
    <3>2. r \in EntityRecord /\ r.handle = a /\ by_id[r.id] = NoHandle
      BY DEF Fresh
    <3> HIDE DEF a
    <3> QED BY <1>0, <2>1, <2>2, <3>1, <3>2, FreshIsCoherent
  <2>6. FreeStackExact'
    <3>0. /\ Len(free) \in Nat /\ Len(free) >= 1 /\ size \in Nat
          /\ Index \subseteq Nat /\ \A i \in 0 .. size - 1 : i \in Index
      BY <1>0, <1>1, StationAssumption DEF StationTypeOK, Index
    <3>1. \A i \in Index : records'[i] # NoRecord => i < size'
      BY <1>0, <2>1, <2>2 DEF FreeStackExact, StationTypeOK
    <3>2. \A j, k \in 1 .. Len(free') : free'[j] = free'[k] => j = k
      BY <1>0, <3>0, <2>3 DEF FreeStackExact
    <3>3. \A k \in 1 .. Len(free') : free'[k] < size'
      BY <1>0, <3>0, <2>1, <2>3 DEF FreeStackExact
    <3>4. ASSUME NEW i \in 0 .. size' - 1
          PROVE  (records'[i] = NoRecord) <=> (\E k \in 1 .. Len(free') : free'[k] = i)
      <4>0. i \in Index /\ i \in 0 .. size - 1 /\ Len(free) \in 1 .. Len(free)
        BY <2>1, <3>0
      <4>1. CASE i = a.index
        <5>1. records'[i] # NoRecord BY <4>0, <4>1, <1>0, <2>1 DEF StationTypeOK
        <5>2. ASSUME NEW k \in 1 .. Len(free'), free'[k] = i PROVE FALSE
          <6>1. PICK n \in Nat : n = Len(free) /\ n >= 1 /\ Len(free') = n - 1
            BY <2>3, <3>0
          <6>2. k \in 1 .. n /\ n \in 1 .. n /\ k # n
            BY <6>1
          <6>3. free[k] = i
            BY <2>3, <5>2
          <6>4. free[n] = i
            BY <2>2, <4>1, <6>1
          <6>5. \A p, q \in 1 .. n : free[p] = free[q] => p = q
            BY <1>0, <6>1 DEF FreeStackExact
          <6> QED
            BY ONLY <6>2, <6>3, <6>4, <6>5
        <5> QED BY <5>1, <5>2
      <4>2. CASE i # a.index
        <5>1. records'[i] = records[i] BY <4>0, <4>2, <2>1, <1>0 DEF StationTypeOK
        <5>2. (records[i] = NoRecord) <=> (\E k \in 1 .. Len(free) : free[k] = i)
          BY <4>0, <1>0 DEF FreeStackExact
        <5>3. \A k \in 1 .. Len(free) : free[k] = i => k \in 1 .. Len(free')
          BY <4>0, <4>2, <3>0, <2>2, <2>3
        <5>4. PICK n \in Nat : n = Len(free) /\ Len(free') = n - 1
          BY <2>3, <3>0
        <5>5. \A k \in 1 .. n - 1 : free'[k] = free[k]
          BY ONLY <2>3, <5>4
        <5>6. (\E k \in 1 .. n : free[k] = i) <=> (\E k \in 1 .. n - 1 : free'[k] = i)
          BY ONLY <5>3, <5>4, <5>5
        <5> QED BY ONLY <5>1, <5>2, <5>4, <5>6
      <4> QED BY <4>1, <4>2
    <3> QED BY <3>1, <3>2, <3>3, <3>4 DEF FreeStackExact
  <2> QED BY <2>4, <2>5, <2>6 DEF StationInv
<1>2. CASE free = <<>>
  <2>1. /\ free' = free /\ size' = size + 1
        /\ generations' = [generations EXCEPT ![size] = 0]
        /\ by_id' = [by_id EXCEPT ![r.id] = a]
        /\ records' = [records EXCEPT ![a.index] = r]
    BY <1>2 DEF InsertAllocated
  <2>2. a.index = size /\ a.generation = 0 /\ size < MaxSlots /\ records[size] = NoRecord
    BY <1>0, <1>2, AllocatedHandleType
  <2>4. StationTypeOK'
    BY <1>0, <2>1, <2>2, StationAssumption
    DEF StationTypeOK, Fresh, EntityRecord, Generation
  <2>5. IdIndexCoherent'
    <3>1. /\ a.index < size' /\ size <= size' /\ size' \in Nat
          /\ generations' = [generations EXCEPT ![a.index] = a.generation]
          /\ size' > size => a.index = size /\ size' = size + 1
      BY <1>0, <2>1, <2>2, StationAssumption DEF StationTypeOK
    <3>2. r \in EntityRecord /\ r.handle = a /\ by_id[r.id] = NoHandle
      BY DEF Fresh
    <3> HIDE DEF a
    <3> QED BY <1>0, <2>1, <2>2, <3>1, <3>2, FreshIsCoherent
  <2>6. FreeStackExact'
    BY <1>0, <1>2, <2>1, <2>2, StationAssumption DEF FreeStackExact, StationTypeOK, Index
  <2> QED BY <2>4, <2>5, <2>6 DEF StationInv
<1> QED BY <1>1, <1>2

\* remove preserves it: the vacated slot goes to the free stack.
LEMMA RemoveKeepsInv ==
    ASSUME StationInv, NEW h \in Handle, StationRemove(h)
    PROVE  StationInv'
<1> USE DEF StationInv, StationRemove, RecordOf, Resolves
<1>0. /\ h.index \in Index /\ h.index < size
      /\ generations[h.index] \in Generation
      /\ NextGeneration(generations[h.index]) \in Generation
      /\ records[h.index] \in EntityRecord
  BY StationAssumption, NoneAssumption
  DEF Handle, StationTypeOK, NextGeneration, Generation
<1>1. /\ free' \in Seq(Index) /\ Len(free') = Len(free) + 1
      /\ \A k \in 1 .. Len(free) : free'[k] = free[k]
      /\ free'[Len(free) + 1] = h.index
  BY <1>0 DEF StationTypeOK
<1>2. StationTypeOK'
  BY <1>0, <1>1, StationAssumption DEF StationTypeOK
<1>3. IdIndexCoherent'
  BY <1>0, StationAssumption, NoneAssumption
  DEF IdIndexCoherent, StationTypeOK, Live, Index, Handle, EntityRecord
<1>4. FreeStackExact'
  BY <1>0, <1>1, StationAssumption, NoneAssumption DEF FreeStackExact, StationTypeOK, Index
<1> QED BY <1>2, <1>3, <1>4

-----------------------------------------------------------------------------
(* Handles in the hands of callers. *)

\* A handle issued for e is never ahead of its slot; while the slot still has
\* its generation (below saturation) the slot holds e.
IssuedFor(h, e) ==
    /\ h.index < size
    /\ h.generation <= generations[h.index]
    /\ h.generation = generations[h.index] /\ h.generation < MaxGeneration
          => records[h.index] # NoRecord /\ records[h.index].id = e

IssuedInv ==
    /\ issued \in SUBSET (Handle \X Entities)
    /\ \A h \in Handle, e \in Entities : <<h, e>> \in issued => IssuedFor(h, e)

ComponentsInv ==
    /\ components \in SUBSET (Handle \X ComponentIds)
    /\ ComponentsFollowStation

IInv == StationInv /\ IssuedInv /\ ComponentsInv

\* The three effects a call has on the storage keep what was issued valid.
LEMMA UpdateKeepsIssued ==
    ASSUME StationInv, NEW h \in Handle, NEW r, InPlace(h, r), UpdateRecord(h, r),
           NEW g \in Handle
    PROVE  /\ \A e \in Entities : IssuedFor(g, e) => IssuedFor(g, e)'
           /\ Resolves(g) => Resolves(g)'
BY NoneAssumption
DEF StationInv, StationTypeOK, InPlace, UpdateRecord, RecordOf, Resolves, IssuedFor, Handle

\* A new record takes a vacant slot: no handle of that slot reached anybody.
LEMMA InsertKeepsIssued ==
    ASSUME StationInv, NEW r, Fresh(r), InsertAllocated(AllocatedHandle, r),
           NEW a, a = AllocatedHandle, NEW g \in Handle
    PROVE  /\ \A e \in Entities : IssuedFor(g, e) => IssuedFor(g, e)'
           /\ Resolves(g) => Resolves(g)'
           /\ a \in Handle
           /\ IssuedFor(a, r.id)'
<1>0. /\ a \in Handle /\ a.index \in Index /\ a.generation \in Generation
      /\ r # NoRecord /\ g.index \in Index /\ records[a.index] = NoRecord
      /\ StationTypeOK /\ FreeStackExact /\ CanAllocate
  BY AllocatedHandleType, NoneAssumption DEF StationInv, Fresh, InsertAllocated, Handle
<1>1. /\ records' = [records EXCEPT ![a.index] = r]
      /\ records'[a.index] = r
  BY <1>0 DEF InsertAllocated, StationTypeOK
<1>2. /\ size \in Nat /\ size' \in Nat /\ size <= size' /\ a.index < size'
      /\ a.index < size => generations' = generations
      /\ a.generation = generations'[a.index]
      /\ \A i \in Index : i # a.index => generations'[i] = generations[i]
      /\ a.index < size \/ a.index = size
  <2>0. size \in Nat /\ generations \in [Index -> Generation]
    BY <1>0 DEF StationTypeOK
  <2>1. CASE free # <<>>
    <3>1. size' = size /\ generations' = generations
      BY <2>1 DEF InsertAllocated
    <3>2. a.index < size /\ a.generation = generations[a.index]
      BY <1>0, <2>1, AllocatedHandleType
    <3> QED
      BY ONLY <2>0, <3>1, <3>2
  <2>2. CASE free = <<>>
    <3>1. size' = size + 1 /\ generations' = [generations EXCEPT ![size] = 0]
      BY <2>2 DEF InsertAllocated
    <3>2. a.index = size /\ a.generation = 0
      BY <1>0, <2>2, AllocatedHandleType
    <3>3. generations'[a.index] = a.generation
      BY <1>0, <2>0, <3>1, <3>2
    <3>4. \A i \in Index : i # a.index => generations'[i] = generations[i]
      BY <2>0, <3>1, <3>2
    <3>5. size' \in Nat /\ size <= size' /\ a.index < size' /\ ~(a.index < size)
      BY ONLY <2>0, <3>1, <3>2
    <3> QED
      BY ONLY <2>0, <3>2, <3>3, <3>4, <3>5
  <2> QED
    BY <2>1, <2>2
<1>3. ASSUME NEW e \in Entities, IssuedFor(g, e) PROVE IssuedFor(g, e)'
  <2>1. CASE g.index = a.index
    BY <1>0, <1>1, <1>2, <1>3, <2>1 DEF IssuedFor, StationTypeOK, Generation
  <2>2. CASE g.index # a.index
    <3>1. PICK i : i = g.index /\ i \in Index /\ i # a.index /\ i \in Nat
      BY <1>0, <2>2, StationAssumption DEF Index
    <3>2. records'[i] = records[i]
      BY <1>0, <1>1, <3>1 DEF StationTypeOK
    <3>3. generations'[i] = generations[i]
      BY <1>2, <3>1
    <3>4. i < size => i < size'
      BY <1>2, <3>1
    <3> QED
      BY <1>3, <3>1, <3>2, <3>3, <3>4 DEF IssuedFor
  <2> QED BY <2>1, <2>2
<1>4. ASSUME Resolves(g) PROVE Resolves(g)'
  BY <1>0, <1>1, <1>2, <1>4, StationAssumption DEF Resolves, StationTypeOK, Index
<1>5. IssuedFor(a, r.id)'
  BY <1>0, <1>1, <1>2, StationAssumption DEF IssuedFor, Generation
<1> QED BY <1>0, <1>3, <1>4, <1>5

\* A removal moves the slot on to a generation that no handle has, or saturates.
LEMMA RemoveKeepsIssued ==
    ASSUME StationInv, NEW h \in Handle, StationRemove(h), NEW g \in Handle
    PROVE  /\ \A e \in Entities : IssuedFor(g, e) => IssuedFor(g, e)'
           /\ Resolves(g) /\ g # h => Resolves(g)'
<1>0. /\ h.index \in Index /\ g.index \in Index
      /\ h.generation \in Generation /\ g.generation \in Generation
      /\ h = [index |-> h.index, generation |-> h.generation]
      /\ g = [index |-> g.index, generation |-> g.generation]
      /\ generations[h.index] \in Nat /\ generations[h.index] <= MaxGeneration
      /\ size' = size /\ generations[h.index] = h.generation
      /\ records' = [records EXCEPT ![h.index] = NoRecord]
      /\ generations' = [generations EXCEPT ![h.index] = NextGeneration(@)]
  BY StationAssumption
  DEF StationInv, StationTypeOK, Handle, Generation, StationRemove, Resolves
<1>1. CASE g.index = h.index
  BY <1>0, <1>1, StationAssumption
  DEF IssuedFor, Resolves, NextGeneration, StationInv, StationTypeOK, Generation
<1>2. CASE g.index # h.index
  BY <1>0, <1>2 DEF IssuedFor, Resolves, StationInv, StationTypeOK
<1> QED BY <1>1, <1>2

\* Calls by their effect on what callers hold.  An update returns at most the
\* handle the id already has, an insertion the allocated one.
LEMMA UpdateStep ==
    ASSUME IInv, NEW h \in Handle, NEW r, InPlace(h, r), UpdateRecord(h, r),
           \/ issued' = issued
           \/ issued' = issued \cup {<<h, RecordOf(h).id>>},
           \/ components' = components
           \/ \E c \in ComponentIds : components' = components \cup {<<h, c>>}
    PROVE  IInv'
<1>1. StationInv'
  BY UpdateKeepsInv DEF IInv
<1>2. RecordOf(h).id \in Entities /\ IssuedFor(h, RecordOf(h).id)
  BY DEF IInv, StationInv, StationTypeOK, IssuedFor, InPlace, Resolves, RecordOf,
         Handle, EntityRecord, Generation
<1>3. \A g \in Handle : /\ \A e \in Entities : IssuedFor(g, e) => IssuedFor(g, e)'
                        /\ Resolves(g) => Resolves(g)'
  BY UpdateKeepsIssued DEF IInv
<1>4. IssuedInv'
  BY <1>2, <1>3 DEF IInv, IssuedInv
<1>5. Resolves(h) BY DEF InPlace
<1>6. ComponentsInv'
  BY <1>3, <1>5 DEF IInv, ComponentsInv, ComponentsFollowStation
<1> QED BY <1>1, <1>4, <1>6 DEF IInv

\* A call that inserts a fresh record keeps the invariant.
LEMMA InsertStep ==
    ASSUME IInv, NEW r, Fresh(r), InsertAllocated(AllocatedHandle, r),
           issued' = issued \cup {<<AllocatedHandle, r.id>>}, components' = components
    PROVE  IInv'
<1>1. StationInv'
  BY InsertKeepsInv DEF IInv
<1>2. PICK a : a = AllocatedHandle OBVIOUS
<1>3. r.id \in Entities
  BY DEF Fresh, EntityRecord
<1>4. \A g \in Handle : /\ \A e \in Entities : IssuedFor(g, e) => IssuedFor(g, e)'
                        /\ Resolves(g) => Resolves(g)'
  BY InsertKeepsIssued, <1>2 DEF IInv
<1>5. a \in Handle
  BY <1>2, AllocatedHandleType DEF IInv, StationInv, InsertAllocated
<1>6. IssuedFor(a, r.id)'
  BY InsertKeepsIssued, <1>2, <1>5 DEF IInv
<1>7. IssuedInv'
  BY <1>2, <1>3, <1>4, <1>5, <1>6 DEF IInv, IssuedInv
<1>8. ComponentsInv'
  BY <1>4 DEF IInv, ComponentsInv, ComponentsFollowStation
<1> QED BY <1>1, <1>7, <1>8 DEF IInv

\* A call that removes a record and its components keeps the invariant.
LEMMA RemoveStep ==
    ASSUME IInv, NEW h \in Handle, StationRemove(h), issued' = issued,
           components' = {b \in components : b[1] # h}
    PROVE  IInv'
<1>1. StationInv'
  BY RemoveKeepsInv DEF IInv
<1>2. \A g \in Handle : /\ \A e \in Entities : IssuedFor(g, e) => IssuedFor(g, e)'
                        /\ Resolves(g) /\ g # h => Resolves(g)'
  BY RemoveKeepsIssued DEF IInv
<1>3. IssuedInv'
  BY <1>2 DEF IInv, IssuedInv
<1>4. ComponentsInv'
  BY <1>2 DEF IInv, ComponentsInv, ComponentsFollowStation
<1> QED BY <1>1, <1>3, <1>4 DEF IInv

\* A station restored from its own migrated snapshot is one that has only ever
\* inserted: no free slot, first generations, every record under its new handle.
LEMMA RestoreKeepsInv ==
    ASSUME StationInv, NEW n \in 0 .. size, NEW from \in Migrations(n),
           StationRestore(n, from)
    PROVE  StationInv'
<1> DEFINE slots == 0 .. n - 1
           id(i) == records[from[i]].id
           slot(e) == CHOOSE i \in slots : id(i) = e
<1>0. /\ n \in Nat /\ n <= MaxSlots /\ slots \subseteq Index
      /\ from \in [slots -> Live]
      /\ \A i, j \in slots : from[i] = from[j] => i = j
  BY StationAssumption DEF StationInv, StationTypeOK, Index, Migrations
<1>1. \A i \in slots : /\ from[i] \in Live
                        /\ records[from[i]] \in EntityRecord
                        /\ id(i) \in Entities
  <2> SUFFICES ASSUME NEW i \in slots
               PROVE  from[i] \in Live /\ records[from[i]] \in EntityRecord /\ id(i) \in Entities
    OBVIOUS
  <2>1. from[i] \in Live BY <1>0
  <2>2. from[i] \in Index /\ records[from[i]] # NoRecord
    BY <2>1, StationAssumption DEF Live, StationInv, StationTypeOK, Index
  <2>3. records[from[i]] \in EntityRecord
    BY <2>2 DEF StationInv, StationTypeOK
  <2> QED BY <2>1, <2>3 DEF EntityRecord
<1>2. \A i, j \in slots : id(i) = id(j) => i = j
  <2> SUFFICES ASSUME NEW i \in slots, NEW j \in slots, id(i) = id(j) PROVE i = j
    OBVIOUS
  <2>1. \A k \in Live : /\ by_id[records[k].id] = records[k].handle
                       /\ records[k].handle.index = k
    <3>1. IdIndexCoherent BY DEF StationInv
    <3> SUFFICES ASSUME NEW k \in Live
                 PROVE  by_id[records[k].id] = records[k].handle /\ records[k].handle.index = k
      OBVIOUS
    <3>2. /\ by_id[records[k].id] = records[k].handle
          /\ records[k].handle = [index |-> k, generation |-> generations[k]]
      BY <3>1 DEF IdIndexCoherent
    <3> QED BY <3>2
  <2>2. from[i] \in Live /\ from[j] \in Live
    BY <1>1
  <2>3. records[from[i]].handle = records[from[j]].handle
    BY <2>1, <2>2
  <2>4. from[i] = from[j]
    BY <2>1, <2>2, <2>3
  <2> QED BY <1>0, <2>4
<1>3. \A i \in Index : FirstHandle(i) \in Handle
  BY StationAssumption DEF FirstHandle, Handle, Generation
<1>4. /\ size' = n /\ free' = <<>>
      /\ \A i \in Index : generations'[i] = 0
      /\ \A i \in slots : records'[i] = [records[from[i]] EXCEPT !.handle = FirstHandle(i)]
      /\ \A i \in Index \ slots : records'[i] = NoRecord
  <2>1. /\ size' = n /\ free' = <<>> /\ generations' = [i \in Index |-> 0]
        /\ records' = [i \in Index |->
                         IF i < n THEN [records[from[i]] EXCEPT !.handle = FirstHandle(i)]
                         ELSE NoRecord]
    BY DEF StationRestore
  <2>2. \A i \in Index : i < n <=> i \in slots
    BY <1>0, StationAssumption DEF Index
  <2> QED BY <1>0, <2>1, <2>2
<1>5. \A i \in slots : /\ records'[i] \in EntityRecord
                        /\ records'[i].id = id(i)
                        /\ records'[i].handle = FirstHandle(i)
                        /\ records'[i] # NoRecord
  <2> SUFFICES ASSUME NEW i \in slots
               PROVE  /\ records'[i] \in EntityRecord
                      /\ records'[i].id = id(i)
                      /\ records'[i].handle = FirstHandle(i)
                      /\ records'[i] # NoRecord
    OBVIOUS
  <2>1. records[from[i]] \in EntityRecord /\ FirstHandle(i) \in Handle
    BY <1>0, <1>1, <1>3
  <2>2. records'[i] = [records[from[i]] EXCEPT !.handle = FirstHandle(i)]
    BY <1>4
  <2>3. /\ records'[i] \in EntityRecord
        /\ records'[i].id = records[from[i]].id
        /\ records'[i].handle = FirstHandle(i)
    BY <2>1, <2>2 DEF EntityRecord
  <2> QED BY <2>3, NoneAssumption
<1>6. \A i \in slots : slot(id(i)) = i
  BY <1>2
<1>7. \A e \in Entities :
         by_id'[e] = IF \E i \in slots : id(i) = e THEN FirstHandle(slot(e)) ELSE NoHandle
  BY DEF StationRestore
<1>8. \A i \in slots : by_id'[id(i)] = FirstHandle(i)
  BY <1>1, <1>6, <1>7
<1>9. \A e \in Entities :
         \/ by_id'[e] = NoHandle
         \/ \E i \in slots : id(i) = e /\ by_id'[e] = FirstHandle(i)
  BY <1>1, <1>7, <1>8
<1>10. StationTypeOK'
  <2>1. records' \in [Index -> EntityRecord \cup {NoRecord}]
    <3>1. records' = [i \in Index |-> records'[i]]
      BY DEF StationRestore
    <3> QED BY <1>4, <1>5, <3>1
  <2>2. by_id' \in [Entities -> Handle \cup {NoHandle}]
    <3>1. by_id' = [e \in Entities |-> by_id'[e]]
      BY DEF StationRestore
    <3> QED BY <1>0, <1>3, <1>9, <3>1
  <2>3. generations' \in [Index -> Generation] /\ free' \in Seq(Index)
    BY StationAssumption DEF StationRestore, Generation
  <2> QED BY <1>0, <1>4, <2>1, <2>2, <2>3 DEF StationTypeOK
<1>11. IdIndexCoherent'
  <2>1. \A e \in Entities : by_id'[e] # NoHandle =>
           /\ Resolves(by_id[e])'
           /\ RecordOf(by_id[e])'.id = e
    <3> SUFFICES ASSUME NEW e \in Entities, by_id'[e] # NoHandle
                 PROVE  Resolves(by_id[e])' /\ RecordOf(by_id[e])'.id = e
      OBVIOUS
    <3>1. PICK i \in slots : id(i) = e /\ by_id'[e] = FirstHandle(i)
      BY <1>9
    <3>2. by_id'[e].index = i /\ by_id'[e].generation = 0
      BY <3>1 DEF FirstHandle
    <3>3. /\ i \in Index /\ i < size' /\ generations'[i] = 0
          /\ records'[i] # NoRecord /\ records'[i].id = e
      BY <1>0, <1>4, <1>5, <3>1
    <3> QED BY <3>2, <3>3 DEF Resolves, RecordOf
  <2>2. \A i \in slots :
           /\ by_id'[records'[i].id] = records'[i].handle
           /\ records'[i].handle = [index |-> i, generation |-> generations'[i]]
    BY <1>0, <1>4, <1>5, <1>8 DEF FirstHandle
  <2> QED BY <1>4, <2>1, <2>2 DEF IdIndexCoherent, Live
<1>12. FreeStackExact'
  BY <1>0, <1>4, <1>5 DEF FreeStackExact
<1> QED BY <1>10, <1>11, <1>12 DEF StationInv

\* An upgrade gives up every handle of the old station and its components.
LEMMA UpgradeStep ==
    ASSUME IInv, NEW n \in 0 .. size, NEW from \in Migrations(n), Upgrade(n, from)
    PROVE  IInv'
<1> DEFINE slots == 0 .. n - 1
<1>0. StationRestore(n, from) /\ components' = {}
      /\ issued' = {<<FirstHandle(i), records[from[i]].id>> : i \in slots}
  BY DEF Upgrade
<1>1. StationInv'
  BY <1>0, RestoreKeepsInv DEF IInv
<1>2. \A i \in slots : i \in Index /\ from[i] \in Live
  BY StationAssumption DEF IInv, StationInv, StationTypeOK, Index, Migrations
<1>3. \A i \in slots : records[from[i]].id \in Entities
  BY <1>2, StationAssumption DEF IInv, StationInv, StationTypeOK, Live, Index, EntityRecord
<1>4. ASSUME NEW i \in slots, NEW e \in Entities, NEW h,
             e = records[from[i]].id, h = FirstHandle(i)
      PROVE  h \in Handle /\ IssuedFor(h, e)'
  <2>1. FirstHandle(i) \in Handle
    BY <1>2, StationAssumption DEF FirstHandle, Handle, Generation
  <2>2. /\ size' = n /\ generations'[i] = 0
        /\ records'[i] = [records[from[i]] EXCEPT !.handle = FirstHandle(i)]
    BY <1>0, <1>2 DEF StationRestore
  <2>3. records[from[i]] \in EntityRecord
    BY <1>2, StationAssumption DEF IInv, StationInv, StationTypeOK, Live, Index
  <2>4. records'[i] \in EntityRecord /\ records'[i].id = records[from[i]].id
    BY <2>1, <2>2, <2>3 DEF EntityRecord
  <2>5. h.index = i /\ h.generation = 0 /\ i < n
    BY <1>4, StationAssumption DEF FirstHandle, IInv, StationInv, StationTypeOK
  <2>6. records'[h.index] # NoRecord /\ records'[h.index].id = e
    BY <1>4, <2>4, <2>5, NoneAssumption
  <2>7. h.index < size' /\ h.generation <= generations'[h.index]
    BY <2>2, <2>5
  <2> QED BY <1>4, <2>1, <2>6, <2>7 DEF IssuedFor
<1>5. IssuedInv'
  <2>1. issued' \in SUBSET (Handle \X Entities)
    BY <1>0, <1>3, <1>4
  <2>2. ASSUME NEW h \in Handle, NEW e \in Entities, <<h, e>> \in issued'
        PROVE  IssuedFor(h, e)'
    <3>1. PICK i \in slots : h = FirstHandle(i) /\ e = records[from[i]].id
      BY <1>0, <2>2
    <3> QED BY <1>4, <3>1
  <2> QED BY <2>1, <2>2 DEF IssuedInv
<1>6. ComponentsInv'
  BY <1>0 DEF ComponentsInv, ComponentsFollowStation
<1> QED BY <1>1, <1>5, <1>6 DEF IInv

\* upsert_ghost (and prewarm_handoff_ghost, which is one) on the storage.
LEMMA UpsertGhostStep ==
    ASSUME IInv, NEW e \in Entities, NEW p \in Positions, StationUpsertGhost(e, p),
           Return(e), components' = components
    PROVE  IInv'
<1>1. CASE by_id[e] # NoHandle
  <2> DEFINE h == by_id[e]
             r == [RecordOf(h) EXCEPT !.position = p, !.owned = FALSE,
                                      !.dirty = @ \cup {TRANSFORM}]
  <2>1. h \in Handle /\ Resolves(h) /\ RecordOf(h).id = e
    BY <1>1 DEF IInv, StationInv, IdIndexCoherent, StationTypeOK
  <2>2. RecordOf(h) \in EntityRecord
    BY <2>1 DEF IInv, StationInv, StationTypeOK, RecordOf, Resolves, Handle
  <2>3. r \in EntityRecord /\ r.id = RecordOf(h).id /\ r.handle = RecordOf(h).handle
    BY <2>2 DEF EntityRecord, DirtyMask
  <2>4. UpdateRecord(h, r)
    BY <1>1, <2>1 DEF StationUpsertGhost
  <2>5. issued' = issued \cup {<<h, RecordOf(h).id>>}
    BY <1>1, <2>1 DEF Return, ReturnedHandle
  <2> HIDE DEF h, r
  <2>6. InPlace(h, r) BY <2>1, <2>3 DEF InPlace
  <2>7. PICK g \in Handle : g = h BY <2>1
  <2>8. PICK rr : rr = r OBVIOUS
  <2> QED BY <2>4, <2>5, <2>6, <2>7, <2>8, UpdateStep
<1>2. CASE by_id[e] = NoHandle
  <2>1. PICK r : r = NewRecord(e, AllocatedHandle, p, FALSE) OBVIOUS
  <2>2. InsertAllocated(AllocatedHandle, r)
    BY <1>2, <2>1 DEF StationUpsertGhost
  <2>3. AllocatedHandle \in Handle
    BY <2>2, AllocatedHandleType DEF IInv, StationInv, InsertAllocated
  <2>4. Fresh(r) /\ r.id = e
    BY <1>2, <2>1, <2>3, StationAssumption DEF Fresh, NewRecord, EntityRecord, DirtyMask
  <2>5. issued' = issued \cup {<<AllocatedHandle, r.id>>}
    BY <1>2, <2>4 DEF Return, ReturnedHandle
  <2> QED BY <2>2, <2>4, <2>5, InsertStep
<1> QED BY <1>1, <1>2

\* spawn_owned is such an insertion.
LEMMA SpawnStep ==
    ASSUME IInv, NEW e \in Entities, NEW p \in Positions, SpawnOwned(e, p)
    PROVE  IInv'
<1>0. by_id[e] = NoHandle /\ Return(e) /\ components' = components
  BY DEF SpawnOwned, StationSpawnOwned
<1>1. PICK r : r = NewRecord(e, AllocatedHandle, p, TRUE) OBVIOUS
<1>2. InsertAllocated(AllocatedHandle, r)
  BY <1>1 DEF SpawnOwned, StationSpawnOwned
<1>3. AllocatedHandle \in Handle
  BY <1>2, AllocatedHandleType DEF IInv, StationInv, InsertAllocated
<1>4. Fresh(r) /\ r.id = e
  BY <1>0, <1>1, <1>3, StationAssumption DEF Fresh, NewRecord, EntityRecord, DirtyMask
<1>5. issued' = issued \cup {<<AllocatedHandle, r.id>>}
  BY <1>0, <1>4 DEF Return, ReturnedHandle
<1> QED BY <1>0, <1>2, <1>4, <1>5, InsertStep

\* commit_incoming_handoff adopts the captured record under a local handle.
LEMMA CommitIncomingStep ==
    ASSUME IInv, NEW captured \in Captured, CommitIncomingHandoff(captured)
    PROVE  IInv'
<1> DEFINE e == captured.id
<1>0. /\ e \in Entities /\ Return(e) /\ components' = components
      /\ StationCommitIncomingHandoff(captured)
      /\ \A h \in Handle : /\ Adopted(captured, h) \in EntityRecord
                           /\ Adopted(captured, h).id = e
                           /\ Adopted(captured, h).handle = h
  BY DEF CommitIncomingHandoff, Captured, Adopted, EntityRecord, DirtyMask
<1>1. CASE by_id[e] # NoHandle
  <2>1. PICK h \in Handle : h = by_id[e]
    BY <1>0, <1>1 DEF IInv, StationInv, StationTypeOK
  <2>2. Resolves(h) /\ RecordOf(h).id = e /\ RecordOf(h).handle = h
    BY <1>0, <1>1, <2>1, StationAssumption
    DEF IInv, StationInv, IdIndexCoherent, StationTypeOK, Live, Resolves, RecordOf,
        Handle, Index
  <2>3. PICK r : r = Adopted(captured, h) OBVIOUS
  <2>4. UpdateRecord(h, r) /\ issued' = issued \cup {<<h, RecordOf(h).id>>}
    BY <1>0, <1>1, <2>1, <2>2, <2>3
    DEF StationCommitIncomingHandoff, Return, ReturnedHandle
  <2>5. InPlace(h, r)
    BY <1>0, <2>2, <2>3 DEF InPlace
  <2> QED BY <1>0, <2>4, <2>5, UpdateStep
<1>2. CASE by_id[e] = NoHandle
  <2>1. PICK r : r = Adopted(captured, AllocatedHandle) OBVIOUS
  <2>2. InsertAllocated(AllocatedHandle, r)
    BY <1>0, <1>2, <2>1 DEF StationCommitIncomingHandoff
  <2>3. AllocatedHandle \in Handle
    BY <2>2, AllocatedHandleType DEF IInv, StationInv, InsertAllocated
  <2>4. Fresh(r) /\ r.id = e
    BY <1>0, <1>2, <2>1, <2>3 DEF Fresh
  <2>5. issued' = issued \cup {<<AllocatedHandle, r.id>>}
    BY <1>0, <1>2, <2>4 DEF Return, ReturnedHandle
  <2> QED BY <1>0, <2>2, <2>4, <2>5, InsertStep
<1> QED BY <1>1, <1>2

\* The calls that only update the record of a resolving handle.
LEMMA HandleStep ==
    ASSUME IInv, NEW h \in Handle,
           \/ \E p \in Positions : MoveOwned(h, p)
           \/ \E t \in Tags : SetTags(h, t)
           \/ \E mask \in DirtyMask : ClearDirty(h, mask)
    PROVE  IInv'
<1>1. Resolves(h)
  BY DEF MoveOwned, StationMoveOwned, SetTags, StationSetTags, ClearDirty, StationClearDirty
<1>2. RecordOf(h) \in EntityRecord
  BY <1>1 DEF IInv, StationInv, StationTypeOK, RecordOf, Resolves, Handle
<1>3. issued' = issued /\ components' = components
  BY DEF MoveOwned, SetTags, ClearDirty, runtimeVars
<1>4. PICK r : /\ UpdateRecord(h, r) /\ r \in EntityRecord
               /\ r.id = RecordOf(h).id /\ r.handle = RecordOf(h).handle
  <2>1. ASSUME NEW p \in Positions, MoveOwned(h, p)
        PROVE  \E r \in EntityRecord : /\ UpdateRecord(h, r) /\ r.id = RecordOf(h).id
                                       /\ r.handle = RecordOf(h).handle
    <3> DEFINE r == [RecordOf(h) EXCEPT !.position = p, !.dirty = @ \cup {TRANSFORM}]
    <3>1. r \in EntityRecord /\ r.id = RecordOf(h).id /\ r.handle = RecordOf(h).handle
      BY <1>2 DEF EntityRecord, DirtyMask
    <3>2. UpdateRecord(h, r) BY <2>1 DEF MoveOwned, StationMoveOwned
    <3> HIDE DEF r
    <3> QED BY <3>1, <3>2
  <2>2. ASSUME NEW t \in Tags, SetTags(h, t)
        PROVE  \E r \in EntityRecord : /\ UpdateRecord(h, r) /\ r.id = RecordOf(h).id
                                       /\ r.handle = RecordOf(h).handle
    <3> DEFINE r == [RecordOf(h) EXCEPT !.tags = t, !.dirty = @ \cup {TAGS}]
    <3>1. r \in EntityRecord /\ r.id = RecordOf(h).id /\ r.handle = RecordOf(h).handle
      BY <1>2 DEF EntityRecord, DirtyMask
    <3>2. UpdateRecord(h, r) BY <2>2 DEF SetTags, StationSetTags
    <3> HIDE DEF r
    <3> QED BY <3>1, <3>2
  <2>3. ASSUME NEW mask \in DirtyMask, ClearDirty(h, mask)
        PROVE  \E r \in EntityRecord : /\ UpdateRecord(h, r) /\ r.id = RecordOf(h).id
                                       /\ r.handle = RecordOf(h).handle
    <3> DEFINE r == [RecordOf(h) EXCEPT !.dirty = @ \ mask]
    <3>1. r \in EntityRecord /\ r.id = RecordOf(h).id /\ r.handle = RecordOf(h).handle
      BY <1>2 DEF EntityRecord, DirtyMask
    <3>2. UpdateRecord(h, r) BY <2>3 DEF ClearDirty, StationClearDirty
    <3> HIDE DEF r
    <3> QED BY <3>1, <3>2
  <2> QED BY <2>1, <2>2, <2>3
<1>5. InPlace(h, r) BY <1>1, <1>4 DEF InPlace
<1> QED BY <1>3, <1>4, <1>5, UpdateStep

\* commit_outgoing_handoff downgrades the owner's record in place.
LEMMA CommitOutgoingStep ==
    ASSUME IInv, NEW e \in Entities, CommitOutgoingHandoff(e)
    PROVE  IInv'
<1>1. PICK h \in Handle : h = by_id[e]
  BY DEF CommitOutgoingHandoff, StationCommitOutgoingHandoff, IInv, StationInv, StationTypeOK
<1>2. Resolves(h) /\ RecordOf(h).id = e /\ by_id[e] # NoHandle
  BY <1>1 DEF CommitOutgoingHandoff, StationCommitOutgoingHandoff,
              IInv, StationInv, IdIndexCoherent
<1>3. RecordOf(h) \in EntityRecord
  BY <1>2 DEF IInv, StationInv, StationTypeOK, RecordOf, Resolves, Handle
<1>4. PICK r : r = [RecordOf(h) EXCEPT !.owned = FALSE, !.dirty = @ \cup {TRANSFORM}]
  OBVIOUS
<1>5. r \in EntityRecord /\ r.id = RecordOf(h).id /\ r.handle = RecordOf(h).handle
  BY <1>3, <1>4 DEF EntityRecord, DirtyMask
<1>6. UpdateRecord(h, r)
  BY <1>1, <1>4 DEF CommitOutgoingHandoff, StationCommitOutgoingHandoff
<1>7. issued' = issued \cup {<<h, RecordOf(h).id>>} /\ components' = components
  BY <1>1, <1>2 DEF CommitOutgoingHandoff, Return, ReturnedHandle
<1>8. InPlace(h, r) BY <1>2, <1>5 DEF InPlace
<1> QED BY <1>6, <1>7, <1>8, UpdateStep

\* set_component_blob writes under a handle that resolves.
LEMMA SetComponentStep ==
    ASSUME IInv, NEW h \in Handle, NEW c \in ComponentIds, SetComponentBlob(h, c)
    PROVE  IInv'
BY DEF SetComponentBlob, stationVars, IInv, StationInv, StationTypeOK, IdIndexCoherent,
       FreeStackExact, Live, Resolves, RecordOf, IssuedInv, IssuedFor, ComponentsInv,
       ComponentsFollowStation

\* An empty station satisfies the invariant.
LEMMA InitHolds == Init => IInv
<1> SUFFICES ASSUME Init PROVE IInv OBVIOUS
<1>1. StationTypeOK
  BY StationAssumption DEF Init, StationInit, StationTypeOK, Generation
<1>2. IdIndexCoherent
  BY DEF Init, StationInit, IdIndexCoherent, Live
<1>3. FreeStackExact
  BY DEF Init, StationInit, FreeStackExact
<1>4. IssuedInv /\ ComponentsInv
  BY DEF Init, IssuedInv, ComponentsInv, ComponentsFollowStation
<1> QED BY <1>1, <1>2, <1>3, <1>4 DEF IInv, StationInv

\* Every call keeps the invariant, by its effect on the storage.
LEMMA NextHolds == IInv /\ [Next]_vars => IInv'
<1> SUFFICES ASSUME IInv, [Next]_vars PROVE IInv'
  OBVIOUS
<1>0. Known \subseteq Handle
  BY DEF IInv, IssuedInv, Known
<1>1. ASSUME NEW e \in Entities, NEW p \in Positions, SpawnOwned(e, p) PROVE IInv'
  BY <1>1, SpawnStep
<1>2. ASSUME NEW e \in Entities, NEW p \in Positions, UpsertGhost(e, p) PROVE IInv'
  BY <1>2, UpsertGhostStep DEF UpsertGhost
<1>3. ASSUME NEW h \in Known, NEW p \in Positions, MoveOwned(h, p) PROVE IInv'
  BY <1>0, <1>3, HandleStep
<1>4. ASSUME NEW h \in Known, Despawn(h) PROVE IInv'
  BY <1>0, <1>4, RemoveStep DEF Despawn
<1>5. ASSUME NEW h \in Known, NEW t \in Tags, SetTags(h, t) PROVE IInv'
  BY <1>0, <1>5, HandleStep
<1>6. ASSUME NEW h \in Known, NEW c \in ComponentIds, SetComponentBlob(h, c) PROVE IInv'
  BY <1>0, <1>6, SetComponentStep
<1>7. ASSUME NEW h \in Known, NEW mask \in DirtyMask, ClearDirty(h, mask) PROVE IInv'
  BY <1>0, <1>7, HandleStep
<1>8. ASSUME NEW captured \in Captured, PrewarmHandoffGhost(captured) PROVE IInv'
  <2>1. captured.id \in Entities /\ captured.position \in Positions
    BY DEF Captured
  <2>2. /\ StationUpsertGhost(captured.id, captured.position)
        /\ Return(captured.id) /\ components' = components
    BY <1>8 DEF PrewarmHandoffGhost, StationPrewarmHandoffGhost
  <2> QED BY <2>1, <2>2, UpsertGhostStep
<1>9. ASSUME NEW captured \in Captured, CommitIncomingHandoff(captured) PROVE IInv'
  BY <1>9, CommitIncomingStep
<1>10. ASSUME NEW e \in Entities, CommitOutgoingHandoff(e) PROVE IInv'
  BY <1>10, CommitOutgoingStep
<1>11. ASSUME NEW n \in 0 .. size, NEW from \in Migrations(n), Upgrade(n, from)
       PROVE  IInv'
  BY <1>11, UpgradeStep
<1>12. ASSUME UNCHANGED vars PROVE IInv'
  BY <1>12 DEF vars, IInv, StationInv, StationTypeOK, IdIndexCoherent, FreeStackExact,
               Live, Resolves, RecordOf, IssuedInv, IssuedFor, ComponentsInv,
               ComponentsFollowStation
<1> QED
  BY <1>1, <1>2, <1>3, <1>4, <1>5, <1>6, <1>7, <1>8, <1>9, <1>10, <1>11, <1>12 DEF Next

\* The invariant holds throughout.
LEMMA Inductive == Spec => []IInv
BY InitHolds, NextHolds, PTL DEF Spec

-----------------------------------------------------------------------------
(* Transforms an observer has not read. *)

SeenInv ==
    /\ seen \in [Handle -> Positions \cup {NoRecord}]
    /\ TransformChangeMarked

\* A handle is its slot and its generation.
LEMMA SlotHandle ==
    ASSUME NEW g \in Handle, NEW h \in Handle, g.index = h.index, g.generation = h.generation
    PROVE  g = h
BY DEF Handle

\* An update in place that marks the transform, or changes neither it nor its
\* mark, leaves nothing unmarked.
LEMMA UpdateKeepsSeen ==
    ASSUME StationInv, SeenInv, NEW h \in Handle, NEW r, InPlace(h, r), UpdateRecord(h, r),
           \/ TRANSFORM \in r.dirty
           \/ /\ r.position = RecordOf(h).position
              /\ TRANSFORM \in RecordOf(h).dirty => TRANSFORM \in r.dirty,
           UNCHANGED seen
    PROVE  SeenInv'
<1> SUFFICES ASSUME NEW g \in Handle, Resolves(g)', RecordOf(g)'.position # seen[g]
             PROVE  TRANSFORM \in RecordOf(g)'.dirty
  BY DEF SeenInv, TransformChangeMarked
<1>0. /\ h.index \in Index /\ g.index \in Index /\ Resolves(h)
      /\ records \in [Index -> EntityRecord \cup {NoRecord}]
      /\ records' = [records EXCEPT ![h.index] = r]
      /\ UNCHANGED <<size, generations>>
  BY DEF StationInv, StationTypeOK, InPlace, UpdateRecord, Handle
<1>1. CASE g.index = h.index
  <2>1. g = h
    BY <1>0, <1>1, SlotHandle DEF Resolves
  <2>2. RecordOf(g)' = r
    BY <1>0, <1>1 DEF RecordOf
  <2> QED
    BY <1>0, <2>1, <2>2 DEF SeenInv, TransformChangeMarked
<1>2. CASE g.index # h.index
  <2>1. RecordOf(g)' = RecordOf(g) /\ Resolves(g)
    BY <1>0, <1>2 DEF RecordOf, Resolves
  <2> QED
    BY <2>1 DEF SeenInv, TransformChangeMarked
<1> QED
  BY <1>1, <1>2

\* A new record is marked, whatever was seen under a handle that names its slot.
LEMMA InsertKeepsSeen ==
    ASSUME StationInv, SeenInv, NEW r, Fresh(r), InsertAllocated(AllocatedHandle, r),
           TRANSFORM \in r.dirty, UNCHANGED seen
    PROVE  SeenInv'
<1> DEFINE a == AllocatedHandle
<1> SUFFICES ASSUME NEW g \in Handle, Resolves(g)', RecordOf(g)'.position # seen[g]
             PROVE  TRANSFORM \in RecordOf(g)'.dirty
  BY DEF SeenInv, TransformChangeMarked
<1>0. /\ a \in Handle /\ a.index \in Index /\ g.index \in Index
      /\ StationTypeOK /\ FreeStackExact /\ CanAllocate
  BY AllocatedHandleType DEF StationInv, InsertAllocated, Handle
<1>1. /\ records \in [Index -> EntityRecord \cup {NoRecord}]
      /\ records' = [records EXCEPT ![a.index] = r]
  BY <1>0 DEF InsertAllocated, StationTypeOK
<1>2. CASE g.index = a.index
  BY <1>0, <1>1, <1>2 DEF RecordOf
<1>3. CASE g.index # a.index
  <2>1. RecordOf(g)' = RecordOf(g) /\ records[g.index] # NoRecord
    BY <1>0, <1>1, <1>3 DEF RecordOf, Resolves
  <2>2. g.index < size
    BY <1>0, <2>1 DEF FreeStackExact
  <2>3. generations'[g.index] = generations[g.index]
    <3>1. CASE free # <<>>
      BY <3>1 DEF InsertAllocated
    <3>2. CASE free = <<>>
      <4>1. generations' = [generations EXCEPT ![size] = 0] /\ size \in Nat
        BY <1>0, <3>2, StationAssumption DEF InsertAllocated, StationTypeOK
      <4> QED
        BY <1>0, <2>2, <4>1 DEF StationTypeOK
    <3> QED
      BY <3>1, <3>2
  <2>4. Resolves(g)
    BY <2>1, <2>2, <2>3 DEF Resolves
  <2> QED
    BY <2>1, <2>4 DEF SeenInv, TransformChangeMarked
<1> QED
  BY <1>2, <1>3

\* despawn: the slot of the entity holds none afterwards.
LEMMA DespawnKeepsSeen ==
    ASSUME StationInv, SeenInv, NEW h \in Handle, Despawn(h)
    PROVE  SeenInv'
<1>0. /\ h.index \in Index
      /\ records \in [Index -> EntityRecord \cup {NoRecord}]
      /\ generations \in [Index -> Generation]
      /\ records' = [records EXCEPT ![h.index] = NoRecord]
      /\ generations' = [generations EXCEPT ![h.index] = NextGeneration(@)]
      /\ seen' = [seen EXCEPT ![h] = NoRecord] /\ size' = size
  BY DEF Despawn, StationRemove, StationInv, StationTypeOK, Handle
<1>1. seen' \in [Handle -> Positions \cup {NoRecord}]
  BY <1>0 DEF SeenInv
<1>2. ASSUME NEW g \in Handle, Resolves(g)', RecordOf(g)'.position # seen'[g]
      PROVE  TRANSFORM \in RecordOf(g)'.dirty
  <2>1. g.index \in Index /\ g.index # h.index
    BY <1>0, <1>2 DEF Resolves, Handle
  <2>2. RecordOf(g)' = RecordOf(g) /\ Resolves(g) /\ seen'[g] = seen[g]
    BY <1>0, <1>2, <2>1 DEF Resolves, RecordOf, SeenInv
  <2> QED
    BY <1>2, <2>2 DEF SeenInv, TransformChangeMarked
<1> QED
  BY <1>1, <1>2 DEF SeenInv, TransformChangeMarked

\* clear_dirty takes the mark away only when the observer has read the position.
LEMMA ClearKeepsSeen ==
    ASSUME StationInv, SeenInv, NEW h \in Handle, NEW mask \in DirtyMask, ClearDirty(h, mask)
    PROVE  SeenInv'
<1> DEFINE r == [RecordOf(h) EXCEPT !.dirty = @ \ mask]
<1>0. /\ h.index \in Index /\ Resolves(h) /\ RecordOf(h) \in EntityRecord
      /\ records \in [Index -> EntityRecord \cup {NoRecord}]
      /\ records' = [records EXCEPT ![h.index] = r]
      /\ UNCHANGED <<size, generations>>
      /\ seen' = IF TRANSFORM \in mask THEN [seen EXCEPT ![h] = RecordOf(h).position] ELSE seen
  BY DEF ClearDirty, StationClearDirty, UpdateRecord, StationInv, StationTypeOK, Handle,
         Resolves, RecordOf
<1>1. r.position = RecordOf(h).position /\ r.dirty = RecordOf(h).dirty \ mask
  BY <1>0 DEF EntityRecord
<1> HIDE DEF r
<1>2. seen' \in [Handle -> Positions \cup {NoRecord}]
  BY <1>0 DEF SeenInv, EntityRecord
<1>3. ASSUME NEW g \in Handle, Resolves(g)', RecordOf(g)'.position # seen'[g]
      PROVE  TRANSFORM \in RecordOf(g)'.dirty
  <2>0. g.index \in Index /\ seen \in [Handle -> Positions \cup {NoRecord}]
    BY DEF Handle, SeenInv
  <2>1. CASE g.index = h.index
    <3>1. g = h
      BY <1>0, <1>3, <2>1, SlotHandle DEF Resolves
    <3>2. RecordOf(g)' = r
      BY <1>0, <2>1 DEF RecordOf
    <3>3. TRANSFORM \notin mask
      BY <1>0, <1>1, <1>3, <2>0, <3>1, <3>2
    <3>4. TRANSFORM \in RecordOf(h).dirty
      BY <1>0, <1>1, <1>3, <3>1, <3>2, <3>3 DEF SeenInv, TransformChangeMarked
    <3> QED
      BY <1>1, <3>2, <3>3, <3>4
  <2>2. CASE g.index # h.index
    <3>1. RecordOf(g)' = RecordOf(g) /\ Resolves(g) /\ seen'[g] = seen[g]
      BY <1>0, <1>3, <2>0, <2>2 DEF RecordOf, Resolves
    <3> QED
      BY <1>3, <3>1 DEF SeenInv, TransformChangeMarked
  <2> QED
    BY <2>1, <2>2
<1> QED
  BY <1>2, <1>3 DEF SeenInv, TransformChangeMarked

\* An upgrade carries over, with each record, its mark and what was seen of it.
LEMMA UpgradeKeepsSeen ==
    ASSUME StationInv, SeenInv, NEW n \in 0 .. size, NEW from \in Migrations(n),
           Upgrade(n, from)
    PROVE  SeenInv'
<1> DEFINE slots == 0 .. n - 1
<1>0. /\ n \in Nat /\ slots \subseteq Index /\ from \in [slots -> Live]
      /\ \A i \in Index : i < n <=> i \in slots
  BY StationAssumption DEF StationInv, StationTypeOK, Index, Migrations
<1>1. /\ StationRestore(n, from)
      /\ seen' = [h \in Handle |->
                     IF h.index \in slots /\ h.generation = 0
                     THEN seen[records[from[h.index]].handle] ELSE NoRecord]
  BY DEF Upgrade
<1>2. ASSUME NEW i \in slots
      PROVE  /\ records[from[i]] \in EntityRecord
             /\ records[from[i]].handle \in Handle
             /\ Resolves(records[from[i]].handle)
             /\ RecordOf(records[from[i]].handle) = records[from[i]]
  <2>1. from[i] \in Live
    BY <1>0
  <2>2. from[i] \in Index /\ records[from[i]] # NoRecord /\ from[i] < size
    BY <2>1, StationAssumption DEF Live, StationInv, StationTypeOK, Index
  <2>3. records[from[i]] \in EntityRecord /\ records[from[i]].handle \in Handle
    BY <2>2 DEF StationInv, StationTypeOK, EntityRecord
  <2>4. records[from[i]].handle = [index |-> from[i], generation |-> generations[from[i]]]
    BY <2>1 DEF StationInv, IdIndexCoherent
  <2> QED
    BY <2>2, <2>3, <2>4 DEF Resolves, RecordOf
<1>3. seen' \in [Handle -> Positions \cup {NoRecord}]
  BY <1>1, <1>2 DEF SeenInv
<1>4. ASSUME NEW g \in Handle, Resolves(g)', RecordOf(g)'.position # seen'[g]
      PROVE  TRANSFORM \in RecordOf(g)'.dirty
  <2> DEFINE i == g.index
             old == records[from[i]]
  <2>1. /\ i \in Index /\ i < size' /\ generations'[i] = g.generation /\ size' = n
        /\ generations' = [k \in Index |-> 0]
        /\ records' = [k \in Index |->
                         IF k < n THEN [records[from[k]] EXCEPT !.handle = FirstHandle(k)]
                         ELSE NoRecord]
    BY <1>1, <1>4 DEF Resolves, StationRestore, Handle
  <2>2. i \in slots /\ g.generation = 0
    BY <1>0, <2>1
  <2>3. RecordOf(g)' = [old EXCEPT !.handle = FirstHandle(i)]
    BY <2>1 DEF RecordOf
  <2>4. RecordOf(g)'.position = old.position /\ RecordOf(g)'.dirty = old.dirty
    BY <1>2, <2>2, <2>3 DEF EntityRecord
  <2>5. seen'[g] = seen[old.handle]
    BY <1>1, <2>2
  <2> QED
    BY <1>2, <1>4, <2>2, <2>4, <2>5 DEF SeenInv, TransformChangeMarked
<1> QED
  BY <1>3, <1>4 DEF SeenInv, TransformChangeMarked

\* upsert_ghost and prewarm_handoff_ghost.
LEMMA UpsertKeepsSeen ==
    ASSUME StationInv, SeenInv, NEW e \in Entities, NEW p \in Positions,
           StationUpsertGhost(e, p), UNCHANGED seen
    PROVE  SeenInv'
<1>1. CASE by_id[e] # NoHandle
  <2>1. PICK h \in Handle : h = by_id[e]
    BY <1>1 DEF StationInv, StationTypeOK
  <2>2. Resolves(h) /\ RecordOf(h) \in EntityRecord
    BY <1>1, <2>1 DEF StationInv, IdIndexCoherent, StationTypeOK, RecordOf, Resolves, Handle
  <2>3. PICK r : r = [RecordOf(h) EXCEPT !.position = p, !.owned = FALSE,
                                         !.dirty = @ \cup {TRANSFORM}]
    OBVIOUS
  <2>4. UpdateRecord(h, r)
    BY <1>1, <2>1, <2>2, <2>3 DEF StationUpsertGhost
  <2>5. InPlace(h, r) /\ TRANSFORM \in r.dirty
    BY <2>2, <2>3 DEF InPlace, EntityRecord, DirtyMask
  <2> QED
    BY <2>4, <2>5, UpdateKeepsSeen
<1>2. CASE by_id[e] = NoHandle
  <2>1. PICK r : r = NewRecord(e, AllocatedHandle, p, FALSE)
    OBVIOUS
  <2>2. InsertAllocated(AllocatedHandle, r)
    BY <1>2, <2>1 DEF StationUpsertGhost
  <2>3. Fresh(r) /\ TRANSFORM \in r.dirty
    BY <1>2, <2>1, <2>2, AllocatedHandleType, StationAssumption
    DEF StationInv, InsertAllocated, Fresh, NewRecord, EntityRecord, DirtyMask
  <2> QED
    BY <2>2, <2>3, InsertKeepsSeen
<1> QED
  BY <1>1, <1>2

\* commit_incoming_handoff and commit_outgoing_handoff, which change the role of
\* a record and mark its transform.
LEMMA CommitKeepsSeen ==
    ASSUME StationInv, SeenInv, UNCHANGED seen,
           \/ \E captured \in Captured : StationCommitIncomingHandoff(captured)
           \/ \E e \in Entities : StationCommitOutgoingHandoff(e)
    PROVE  SeenInv'
<1>1. ASSUME NEW captured \in Captured, StationCommitIncomingHandoff(captured)
      PROVE  SeenInv'
  <2> DEFINE e == captured.id
  <2>0. /\ e \in Entities
        /\ \A h \in Handle : /\ Adopted(captured, h) \in EntityRecord
                             /\ Adopted(captured, h).id = e
                             /\ Adopted(captured, h).handle = h
                             /\ TRANSFORM \in Adopted(captured, h).dirty
    BY DEF Captured, Adopted, EntityRecord, DirtyMask
  <2>1. CASE by_id[e] # NoHandle
    <3>1. PICK h \in Handle : h = by_id[e]
      BY <2>0, <2>1 DEF StationInv, StationTypeOK
    <3>2. Resolves(h) /\ RecordOf(h).id = e /\ RecordOf(h).handle = h
      BY <2>0, <2>1, <3>1, StationAssumption
      DEF StationInv, IdIndexCoherent, StationTypeOK, Live, Resolves, RecordOf, Handle, Index
    <3>3. PICK r : r = Adopted(captured, h)
      OBVIOUS
    <3>4. UpdateRecord(h, r)
      BY <1>1, <2>1, <3>1, <3>3 DEF StationCommitIncomingHandoff
    <3>5. InPlace(h, r) /\ TRANSFORM \in r.dirty
      BY <2>0, <3>2, <3>3 DEF InPlace
    <3> QED
      BY <3>4, <3>5, UpdateKeepsSeen
  <2>2. CASE by_id[e] = NoHandle
    <3>1. PICK r : r = Adopted(captured, AllocatedHandle)
      OBVIOUS
    <3>2. InsertAllocated(AllocatedHandle, r)
      BY <1>1, <2>2, <3>1 DEF StationCommitIncomingHandoff
    <3>3. Fresh(r) /\ TRANSFORM \in r.dirty
      BY <2>0, <2>2, <3>1, <3>2, AllocatedHandleType DEF StationInv, InsertAllocated, Fresh
    <3> QED
      BY <3>2, <3>3, InsertKeepsSeen
  <2> QED
    BY <2>1, <2>2
<1>2. ASSUME NEW e \in Entities, StationCommitOutgoingHandoff(e) PROVE SeenInv'
  <2>1. PICK h \in Handle : h = by_id[e]
    BY <1>2 DEF StationCommitOutgoingHandoff, StationInv, StationTypeOK
  <2>2. Resolves(h) /\ RecordOf(h) \in EntityRecord
    BY <1>2, <2>1 DEF StationCommitOutgoingHandoff, StationInv, StationTypeOK, RecordOf,
                     Resolves, Handle
  <2>3. PICK r : r = [RecordOf(h) EXCEPT !.owned = FALSE, !.dirty = @ \cup {TRANSFORM}]
    OBVIOUS
  <2>4. UpdateRecord(h, r)
    BY <1>2, <2>1, <2>3 DEF StationCommitOutgoingHandoff
  <2>5. InPlace(h, r) /\ TRANSFORM \in r.dirty
    BY <2>2, <2>3 DEF InPlace, EntityRecord, DirtyMask
  <2> QED
    BY <2>4, <2>5, UpdateKeepsSeen
<1> QED
  BY <1>1, <1>2

\* move_owned and set_tags.
LEMMA OwnerKeepsSeen ==
    ASSUME StationInv, SeenInv, NEW h \in Handle, UNCHANGED seen,
           \/ \E p \in Positions : StationMoveOwned(h, p)
           \/ \E t \in Tags : StationSetTags(h, t)
    PROVE  SeenInv'
<1>1. Resolves(h) /\ RecordOf(h) \in EntityRecord
  BY DEF StationMoveOwned, StationSetTags, StationInv, StationTypeOK, RecordOf, Resolves, Handle
<1>2. ASSUME NEW p \in Positions, StationMoveOwned(h, p) PROVE SeenInv'
  <2>1. PICK r : r = [RecordOf(h) EXCEPT !.position = p, !.dirty = @ \cup {TRANSFORM}]
    OBVIOUS
  <2>2. UpdateRecord(h, r)
    BY <1>2, <2>1 DEF StationMoveOwned
  <2>3. InPlace(h, r) /\ TRANSFORM \in r.dirty
    BY <1>1, <2>1 DEF InPlace, EntityRecord, DirtyMask
  <2> QED
    BY <2>2, <2>3, UpdateKeepsSeen
<1>3. ASSUME NEW t \in Tags, StationSetTags(h, t) PROVE SeenInv'
  <2>1. PICK r : r = [RecordOf(h) EXCEPT !.tags = t, !.dirty = @ \cup {TAGS}]
    OBVIOUS
  <2>2. UpdateRecord(h, r)
    BY <1>3, <2>1 DEF StationSetTags
  <2>3. /\ InPlace(h, r) /\ r.position = RecordOf(h).position
        /\ TRANSFORM \in RecordOf(h).dirty => TRANSFORM \in r.dirty
    BY <1>1, <2>1 DEF InPlace, EntityRecord, DirtyMask
  <2> QED
    BY <2>2, <2>3, UpdateKeepsSeen
<1> QED
  BY <1>2, <1>3

\* Nothing is stored at the start, so nothing is unread.
LEMMA SeenInit == Init => SeenInv
<1> SUFFICES ASSUME Init PROVE SeenInv
  OBVIOUS
<1>1. \A h \in Handle : h.index \in Index /\ records[h.index] = NoRecord
  BY DEF Init, StationInit, Handle
<1> QED
  BY <1>1 DEF Init, SeenInv, TransformChangeMarked, Resolves

\* Every step keeps the marks.
LEMMA SeenStep ==
    ASSUME IInv, SeenInv, [Next]_vars
    PROVE  SeenInv'
<1>0. StationInv /\ Known \subseteq Handle
  BY DEF IInv, IssuedInv, Known
<1>1. ASSUME NEW e \in Entities, NEW p \in Positions, SpawnOwned(e, p) PROVE SeenInv'
  <2>1. PICK r : r = NewRecord(e, AllocatedHandle, p, TRUE)
    OBVIOUS
  <2>2. InsertAllocated(AllocatedHandle, r) /\ by_id[e] = NoHandle /\ UNCHANGED seen
    BY <1>1, <2>1 DEF SpawnOwned, StationSpawnOwned
  <2>3. Fresh(r) /\ TRANSFORM \in r.dirty
    BY <1>0, <2>1, <2>2, AllocatedHandleType, StationAssumption
    DEF StationInv, InsertAllocated, Fresh, NewRecord, EntityRecord, DirtyMask
  <2> QED
    BY <1>0, <2>2, <2>3, InsertKeepsSeen
<1>2. ASSUME NEW e \in Entities, NEW p \in Positions, UpsertGhost(e, p) PROVE SeenInv'
  BY <1>0, <1>2, UpsertKeepsSeen DEF UpsertGhost
<1>3. ASSUME NEW h \in Known, NEW p \in Positions, MoveOwned(h, p) PROVE SeenInv'
  BY <1>0, <1>3, OwnerKeepsSeen DEF MoveOwned
<1>4. ASSUME NEW h \in Known, Despawn(h) PROVE SeenInv'
  BY <1>0, <1>4, DespawnKeepsSeen
<1>5. ASSUME NEW h \in Known, NEW t \in Tags, SetTags(h, t) PROVE SeenInv'
  BY <1>0, <1>5, OwnerKeepsSeen DEF SetTags, runtimeVars
<1>6. ASSUME NEW h \in Known, NEW c \in ComponentIds, SetComponentBlob(h, c) PROVE SeenInv'
  BY <1>6 DEF SetComponentBlob, stationVars, SeenInv, TransformChangeMarked, Resolves, RecordOf
<1>7. ASSUME NEW h \in Known, NEW mask \in DirtyMask, ClearDirty(h, mask) PROVE SeenInv'
  BY <1>0, <1>7, ClearKeepsSeen
<1>8. ASSUME NEW captured \in Captured, PrewarmHandoffGhost(captured) PROVE SeenInv'
  <2>1. captured.id \in Entities /\ captured.position \in Positions
    BY DEF Captured
  <2>2. StationUpsertGhost(captured.id, captured.position) /\ UNCHANGED seen
    BY <1>8 DEF PrewarmHandoffGhost, StationPrewarmHandoffGhost
  <2> QED
    BY <1>0, <2>1, <2>2, UpsertKeepsSeen
<1>9. ASSUME NEW captured \in Captured, CommitIncomingHandoff(captured) PROVE SeenInv'
  BY <1>0, <1>9, CommitKeepsSeen DEF CommitIncomingHandoff
<1>10. ASSUME NEW e \in Entities, CommitOutgoingHandoff(e) PROVE SeenInv'
  BY <1>0, <1>10, CommitKeepsSeen DEF CommitOutgoingHandoff
<1>11. ASSUME NEW n \in 0 .. size, NEW from \in Migrations(n), Upgrade(n, from)
       PROVE  SeenInv'
  BY <1>0, <1>11, UpgradeKeepsSeen
<1>12. ASSUME UNCHANGED vars PROVE SeenInv'
  BY <1>12 DEF vars, SeenInv, TransformChangeMarked, Resolves, RecordOf
<1> QED
  BY <1>1, <1>2, <1>3, <1>4, <1>5, <1>6, <1>7, <1>8, <1>9, <1>10, <1>11, <1>12 DEF Next

-----------------------------------------------------------------------------
(* The two maps of the index. *)

\* The maps are each other's inverse and no cell lists a handle twice.
IndexInv ==
    /\ IndexTypeOK
    /\ \A c \in Cells : Distinct(cells[c])
    /\ \A c \in Cells, h \in Handle : c \in entity_cells[h] <=> h \in ToSet(cells[c])

\* Lists without repetitions that name the same pairs as the cells of the
\* entities are the exact inverse the run checks.
LEMMA IndexInvMeans == IndexInv => CellMapsInverse
BY DistinctLen DEF IndexInv, IndexTypeOK, CellMapsInverse

\* What upsert and remove make of the index keeps it sound.
LEMMA IndexMoves ==
    ASSUME IndexInv, NEW h \in Handle, NEW next \in SUBSET Cells,
           cells' = MembershipDiff(h, entity_cells[h], next),
           entity_cells' = [entity_cells EXCEPT ![h] = next]
    PROVE  IndexInv'
<1>0. PICK at, lists, moved, diff :
         at = entity_cells /\ lists = cells /\ moved = entity_cells' /\ diff = cells'
  OBVIOUS
<1>1. IndexMaps(at, lists, Handle, Cells)
  BY <1>0 DEF IndexInv, IndexTypeOK, IndexMaps
<1>2. DiffMoves(at, lists, h, next, moved, diff, Cells)
  BY <1>0 DEF DiffMoves, MembershipDiff
<1>3. IndexMaps(moved, diff, Handle, Cells)
  BY <1>1, <1>2, DiffKeepsMaps
<1>4. IndexMaps(entity_cells', cells', Handle, Cells)
  BY <1>0, <1>3
<1> QED
  BY <1>4 DEF IndexInv, IndexTypeOK, IndexMaps

-----------------------------------------------------------------------------
(* The index and the storage. *)

\* The index has the live handles, each in the cells of its current position.
Placed ==
    \A h \in Handle :
        entity_cells[h] = IF Resolves(h) THEN Footprint(RecordOf(h).position) ELSE {}

PlaceInv == IndexInv /\ Placed

\* An update in place, with the index brought to the position of the record.
LEMMA UpdateKeepsPlaced ==
    ASSUME StationInv, PlaceInv, NEW h \in Handle, NEW r, InPlace(h, r), UpdateRecord(h, r),
           entity_cells' = [entity_cells EXCEPT ![h] = Footprint(r.position)]
    PROVE  Placed'
<1> SUFFICES ASSUME NEW g \in Handle
             PROVE  entity_cells'[g] =
                       IF Resolves(g)' THEN Footprint(RecordOf(g)'.position) ELSE {}
  BY DEF Placed
<1>0. /\ h.index \in Index /\ g.index \in Index /\ Resolves(h) /\ r # NoRecord
      /\ records \in [Index -> EntityRecord \cup {NoRecord}]
      /\ records' = [records EXCEPT ![h.index] = r]
      /\ UNCHANGED <<size, generations>>
      /\ entity_cells \in [Handle -> SUBSET Cells]
  BY NoneAssumption
  DEF StationInv, StationTypeOK, InPlace, UpdateRecord, Handle, PlaceInv, IndexInv, IndexTypeOK
<1>1. CASE g = h
  <2>1. Resolves(g)' /\ RecordOf(g)' = r
    BY <1>0, <1>1 DEF Resolves, RecordOf
  <2> QED
    BY <1>0, <1>1, <2>1
<1>2. CASE g # h /\ g.index = h.index
  <2>1. ~Resolves(g) /\ ~Resolves(g)'
    BY <1>0, <1>2, SlotHandle DEF Resolves
  <2> QED
    BY <1>0, <1>2, <2>1 DEF PlaceInv, Placed
<1>3. CASE g.index # h.index
  <2>1. (Resolves(g)' <=> Resolves(g)) /\ RecordOf(g)' = RecordOf(g)
    BY <1>0, <1>3 DEF Resolves, RecordOf
  <2> QED
    BY <1>0, <1>3, <2>1 DEF PlaceInv, Placed
<1> QED
  BY <1>1, <1>2, <1>3

\* A new record under the allocated handle, indexed at its position.
LEMMA InsertKeepsPlaced ==
    ASSUME StationInv, PlaceInv, NEW r, Fresh(r), InsertAllocated(AllocatedHandle, r),
           entity_cells' = [entity_cells EXCEPT ![AllocatedHandle] = Footprint(r.position)]
    PROVE  Placed'
<1> DEFINE a == AllocatedHandle
<1> SUFFICES ASSUME NEW g \in Handle
             PROVE  entity_cells'[g] =
                       IF Resolves(g)' THEN Footprint(RecordOf(g)'.position) ELSE {}
  BY DEF Placed
<1>0. /\ a \in Handle /\ a.index \in Index /\ g.index \in Index /\ r # NoRecord
      /\ StationTypeOK /\ FreeStackExact /\ CanAllocate
      /\ records[a.index] = NoRecord
  BY AllocatedHandleType, NoneAssumption DEF StationInv, InsertAllocated, Fresh, Handle
<1>1. /\ records \in [Index -> EntityRecord \cup {NoRecord}]
      /\ records' = [records EXCEPT ![a.index] = r]
      /\ entity_cells \in [Handle -> SUBSET Cells]
      /\ entity_cells' = [entity_cells EXCEPT ![a] = Footprint(r.position)]
  BY <1>0 DEF InsertAllocated, StationTypeOK, PlaceInv, IndexInv, IndexTypeOK
<1>2. /\ size \in Nat /\ size' \in Nat /\ size <= size' /\ a.index < size'
      /\ a.generation = generations'[a.index]
      /\ \A i \in Index : i # a.index => generations'[i] = generations[i]
      /\ \A i \in Index : i # a.index => (i < size' <=> i < size)
  <2>1. /\ size \in Nat /\ generations \in [Index -> Generation] /\ Index \subseteq Nat
        /\ a.generation = IF free # <<>> THEN generations[a.index] ELSE 0
        /\ free # <<>> => a.index < size
        /\ free = <<>> => a.index = size
    BY <1>0, AllocatedHandleType, StationAssumption DEF StationTypeOK, Index
  <2>2. CASE free # <<>>
    <3>1. size' = size /\ generations' = generations
      BY <2>2 DEF InsertAllocated
    <3> HIDE DEF a
    <3> QED
      BY <2>1, <2>2, <3>1
  <2>3. CASE free = <<>>
    <3>1. size' = size + 1 /\ generations' = [generations EXCEPT ![size] = 0]
      BY <2>3 DEF InsertAllocated
    <3> HIDE DEF a
    <3>2. \A i \in Index : i # a.index => (i < size' <=> i < size)
      BY <2>1, <2>3, <3>1
    <3> QED
      BY <1>0, <2>1, <2>3, <3>1, <3>2
  <2> QED
    BY <2>2, <2>3
<1> HIDE DEF a
<1>3. CASE g = a
  <2>1. Resolves(g)' /\ RecordOf(g)' = r
    BY <1>0, <1>1, <1>2, <1>3 DEF Resolves, RecordOf
  <2> QED
    BY <1>0, <1>1, <1>3, <2>1
<1>4. CASE g # a /\ g.index = a.index
  <2>1. ~Resolves(g)
    BY <1>0, <1>4 DEF Resolves
  <2>2. ~Resolves(g)'
    BY <1>0, <1>2, <1>4, SlotHandle DEF Resolves
  <2> QED
    BY <1>1, <1>4, <2>1, <2>2 DEF PlaceInv, Placed
<1>5. CASE g.index # a.index
  <2>1. (Resolves(g)' <=> Resolves(g)) /\ RecordOf(g)' = RecordOf(g)
    BY <1>0, <1>1, <1>2, <1>5 DEF Resolves, RecordOf
  <2> QED
    BY <1>0, <1>1, <1>5, <2>1 DEF PlaceInv, Placed
<1> QED
  BY <1>3, <1>4, <1>5

\* A removal, which takes the handle out of the index.
LEMMA RemoveKeepsPlaced ==
    ASSUME StationInv, PlaceInv, NEW h \in Handle, StationRemove(h),
           entity_cells' = [entity_cells EXCEPT ![h] = {}]
    PROVE  Placed'
<1> SUFFICES ASSUME NEW g \in Handle
             PROVE  entity_cells'[g] =
                       IF Resolves(g)' THEN Footprint(RecordOf(g)'.position) ELSE {}
  BY DEF Placed
<1>0. /\ h.index \in Index /\ g.index \in Index /\ Resolves(h)
      /\ records \in [Index -> EntityRecord \cup {NoRecord}]
      /\ generations \in [Index -> Generation]
      /\ records' = [records EXCEPT ![h.index] = NoRecord]
      /\ generations' = [generations EXCEPT ![h.index] = NextGeneration(@)]
      /\ size' = size
      /\ entity_cells \in [Handle -> SUBSET Cells]
  BY DEF StationRemove, StationInv, StationTypeOK, Handle, PlaceInv, IndexInv, IndexTypeOK
<1>1. CASE g.index = h.index
  <2>1. ~Resolves(g)'
    BY <1>0, <1>1 DEF Resolves
  <2>2. g # h => ~Resolves(g)
    BY <1>0, <1>1, SlotHandle DEF Resolves
  <2>3. g # h => entity_cells[g] = {}
    BY <2>2 DEF PlaceInv, Placed
  <2> QED
    BY <1>0, <2>1, <2>3
<1>2. CASE g.index # h.index
  <2>1. (Resolves(g)' <=> Resolves(g)) /\ RecordOf(g)' = RecordOf(g)
    BY <1>0, <1>2 DEF Resolves, RecordOf
  <2> QED
    BY <1>0, <1>2, <2>1 DEF PlaceInv, Placed
<1> QED
  BY <1>1, <1>2

\* Each change of the storage with the upsert or remove that goes with it.
LEMMA UpdatePlaces ==
    ASSUME StationInv, PlaceInv, NEW h \in Handle, NEW r, InPlace(h, r), UpdateRecord(h, r),
           IndexUpsert(h, r.position)
    PROVE  PlaceInv'
<1>1. r.position \in Positions /\ Footprint(r.position) \in SUBSET Cells
  BY FootprintAssumption DEF InPlace, EntityRecord
<1>2. IndexInv'
  BY <1>1, IndexMoves DEF PlaceInv, IndexUpsert
<1>3. Placed'
  BY UpdateKeepsPlaced DEF IndexUpsert
<1> QED
  BY <1>2, <1>3 DEF PlaceInv

\* A record in a slot just allocated, and its handle put where the record is.
LEMMA InsertPlaces ==
    ASSUME StationInv, PlaceInv, NEW r, Fresh(r), InsertAllocated(AllocatedHandle, r),
           IndexUpsert(AllocatedHandle, r.position)
    PROVE  PlaceInv'
<1>1. AllocatedHandle \in Handle
  BY AllocatedHandleType DEF StationInv, InsertAllocated
<1>2. Footprint(r.position) \in SUBSET Cells
  BY FootprintAssumption DEF Fresh, EntityRecord
<1>3. IndexInv'
  BY <1>1, <1>2, IndexMoves DEF PlaceInv, IndexUpsert
<1>4. Placed'
  BY InsertKeepsPlaced DEF IndexUpsert
<1> QED
  BY <1>3, <1>4 DEF PlaceInv

\* A change that leaves position and index alone.
LEMMA StayPlaces ==
    ASSUME StationInv, PlaceInv, NEW h \in Handle, NEW r, InPlace(h, r), UpdateRecord(h, r),
           r.position = RecordOf(h).position, UNCHANGED <<entity_cells, cells>>
    PROVE  PlaceInv'
<1>1. entity_cells \in [Handle -> SUBSET Cells]
  BY DEF PlaceInv, IndexInv, IndexTypeOK
<1>2. entity_cells[h] = Footprint(r.position)
  BY DEF PlaceInv, Placed, InPlace
<1>3. entity_cells' = [entity_cells EXCEPT ![h] = Footprint(r.position)]
  BY <1>1, <1>2
<1>4. Placed'
  BY <1>3, UpdateKeepsPlaced
<1>5. IndexInv'
  BY DEF PlaceInv, IndexInv, IndexTypeOK
<1> QED
  BY <1>4, <1>5 DEF PlaceInv

-----------------------------------------------------------------------------
(* An upgrade: a new index for a new station. *)

\* The handles of a listing.
LEMMA ListedHandles ==
    ASSUME NEW K \in SUBSET Index, IsFiniteSet(K), NEW s,
           s = [k \in DOMAIN InOrder(K) |-> FirstHandle(InOrder(K)[k])]
    PROVE  /\ s \in Seq(Handle)
           /\ Distinct(s)
           /\ \A g \in Handle : g \in ToSet(s) <=> g.index \in K /\ g.generation = 0
<1> DEFINE n == Cardinality(K)
<1>1. /\ n \in Nat
      /\ \A k \in 1 .. n : InOrder(K)[k] \in K
      /\ \A j, k \in 1 .. n : InOrder(K)[j] = InOrder(K)[k] => j = k
      /\ \A i \in K : \E k \in 1 .. n : InOrder(K)[k] = i
  <2>1. K \subseteq Nat
    BY StationAssumption DEF Index
  <2> QED
    BY <2>1, InOrderLists
<1>2. DOMAIN InOrder(K) = 1 .. n
  BY DEF InOrder
<1> HIDE DEF n
<1>3. \A i \in K : FirstHandle(i) \in Handle /\ FirstHandle(i).index = i
                   /\ FirstHandle(i).generation = 0
  BY StationAssumption DEF FirstHandle, Handle, Generation
<1>4. s = [k \in 1 .. n |-> FirstHandle(InOrder(K)[k])]
  BY <1>2
<1>5. \A k \in 1 .. n : s[k] = FirstHandle(InOrder(K)[k]) /\ s[k] \in Handle
  BY <1>1, <1>3, <1>4
<1>6. s \in [1 .. n -> Handle]
  BY <1>4, <1>5
<1>7. s \in Seq(Handle) /\ Len(s) = n
  BY <1>1, <1>6, IsASeq
<1>8. Distinct(s)
  BY <1>1, <1>3, <1>5, <1>7 DEF Distinct
<1>9. ToSet(s) = {s[k] : k \in 1 .. n}
  BY <1>6 DEF ToSet
<1>10. ASSUME NEW g \in Handle, g \in ToSet(s) PROVE g.index \in K /\ g.generation = 0
  BY <1>1, <1>3, <1>5, <1>9, <1>10
<1>11. ASSUME NEW g \in Handle, g.index \in K, g.generation = 0 PROVE g \in ToSet(s)
  <2>1. g = FirstHandle(g.index)
    BY <1>11 DEF FirstHandle, Handle
  <2>2. PICK k \in 1 .. n : InOrder(K)[k] = g.index
    BY <1>1, <1>11
  <2> QED
    BY <1>5, <1>9, <2>1, <2>2
<1> QED
  BY <1>7, <1>8, <1>10, <1>11

\* The index a caller rebuilds fits the restored station.
LEMMA UpgradePlaces ==
    ASSUME StationInv, NEW n \in 0 .. size, NEW from \in Migrations(n), Upgrade(n, from)
    PROVE  PlaceInv'
<1> DEFINE slots == 0 .. n - 1
           at(i) == Footprint(records[from[i]].position)
<1>0. /\ n \in Nat /\ slots \subseteq Index /\ from \in [slots -> Live] /\ IsFiniteSet(slots)
      /\ \A i \in Index : i < n <=> i \in slots
  <2>1. size \in Nat /\ size <= MaxSlots /\ MaxSlots \in Nat /\ n \in Nat /\ n <= size
    BY StationAssumption DEF StationInv, StationTypeOK
  <2>2. slots \subseteq Index /\ \A i \in Index : i < n <=> i \in slots
    BY <2>1 DEF Index
  <2>3. IsFiniteSet(slots)
    BY <2>1, FS_Interval
  <2>4. from \in [slots -> Live]
    BY DEF Migrations
  <2> QED
    BY <2>1, <2>2, <2>3, <2>4
<1>1. /\ StationRestore(n, from)
      /\ entity_cells' = [h \in Handle |->
                             IF h.index \in slots /\ h.generation = 0
                             THEN at(h.index) ELSE {}]
  BY DEF Upgrade
<1>2. \A i \in slots : records[from[i]] \in EntityRecord /\ at(i) \in SUBSET Cells
  <2>1. ASSUME NEW i \in slots PROVE records[from[i]] \in EntityRecord
    <3>1. from[i] \in Live
      BY <1>0
    <3>2. from[i] \in Index /\ records[from[i]] # NoRecord
      BY <3>1, StationAssumption DEF Live, StationInv, StationTypeOK, Index
    <3> QED
      BY <3>2 DEF StationInv, StationTypeOK
  <2> QED
    BY <2>1, FootprintAssumption DEF EntityRecord
<1>3. ASSUME NEW c \in Cells
      PROVE  /\ cells'[c] \in Seq(Handle)
             /\ Distinct(cells'[c])
             /\ \A g \in Handle : g \in ToSet(cells'[c]) <=> c \in entity_cells'[g]
  <2> DEFINE K == {i \in slots : c \in at(i)}
  <2>1. cells'[c] = [k \in DOMAIN InOrder(K) |-> FirstHandle(InOrder(K)[k])]
    BY DEF Upgrade
  <2>2. K \in SUBSET Index /\ IsFiniteSet(K)
    BY <1>0, FS_Subset
  <2>3. \A g \in Handle : c \in entity_cells'[g] <=> g.index \in K /\ g.generation = 0
    BY <1>1
  <2> HIDE DEF K
  <2>4. /\ cells'[c] \in Seq(Handle)
        /\ Distinct(cells'[c])
        /\ \A g \in Handle : g \in ToSet(cells'[c]) <=> g.index \in K /\ g.generation = 0
    BY <2>1, <2>2, ListedHandles
  <2> QED
    BY <2>3, <2>4
<1>4. DOMAIN cells' = Cells /\ cells' = [c \in Cells |-> cells'[c]]
  BY DEF Upgrade
<1>5. IndexInv'
  <2>1. cells' \in [Cells -> Seq(Handle)]
    BY <1>3, <1>4
  <2>2. entity_cells' \in [Handle -> SUBSET Cells]
    BY <1>1, <1>2
  <2> QED
    BY <1>3, <2>1, <2>2 DEF IndexInv, IndexTypeOK
<1>6. ASSUME NEW g \in Handle
      PROVE  entity_cells'[g] =
                IF Resolves(g)' THEN Footprint(RecordOf(g)'.position) ELSE {}
  <2> DEFINE i == g.index
  <2>0. i \in Index /\ size' = n /\ generations' = [k \in Index |-> 0]
        /\ records' = [k \in Index |->
                         IF k < n THEN [records[from[k]] EXCEPT !.handle = FirstHandle(k)]
                         ELSE NoRecord]
    BY <1>1 DEF StationRestore, Handle
  <2>1. CASE i \in slots /\ g.generation = 0
    <3>1. RecordOf(g)' = [records[from[i]] EXCEPT !.handle = FirstHandle(i)]
      BY <1>0, <2>0, <2>1 DEF RecordOf
    <3>2. RecordOf(g)' \in EntityRecord /\ RecordOf(g)'.position = records[from[i]].position
      <4>1. FirstHandle(i) \in Handle
        BY <2>0, StationAssumption DEF FirstHandle, Handle, Generation
      <4> QED
        BY <1>2, <2>1, <3>1, <4>1 DEF EntityRecord
    <3>3. Resolves(g)'
      BY <1>0, <2>0, <2>1, <3>2, NoneAssumption DEF Resolves, RecordOf
    <3> QED
      BY <1>1, <2>1, <3>2, <3>3
  <2>2. CASE ~(i \in slots /\ g.generation = 0)
    <3>1. ~Resolves(g)'
      BY <1>0, <2>0, <2>2 DEF Resolves
    <3> QED
      BY <1>1, <2>2, <3>1
  <2> QED
    BY <2>1, <2>2
<1> QED
  BY <1>5, <1>6 DEF PlaceInv, Placed

-----------------------------------------------------------------------------
(* Every step. *)

\* upsert_ghost, prewarm_handoff_ghost.
LEMMA GhostPlaces ==
    ASSUME StationInv, PlaceInv, NEW e \in Entities, NEW p \in Positions,
           StationUpsertGhost(e, p), IndexUpsert(ReturnedHandle(e), p)
    PROVE  PlaceInv'
<1>1. CASE by_id[e] # NoHandle
  <2>1. PICK h \in Handle : h = by_id[e] /\ ReturnedHandle(e) = h
    BY <1>1 DEF StationInv, StationTypeOK, ReturnedHandle
  <2>2. Resolves(h) /\ RecordOf(h) \in EntityRecord
    BY <1>1, <2>1 DEF StationInv, IdIndexCoherent, StationTypeOK, RecordOf, Resolves, Handle
  <2>3. PICK r : r = [RecordOf(h) EXCEPT !.position = p, !.owned = FALSE,
                                         !.dirty = @ \cup {TRANSFORM}]
    OBVIOUS
  <2>4. UpdateRecord(h, r)
    BY <1>1, <2>1, <2>2, <2>3 DEF StationUpsertGhost
  <2>5. InPlace(h, r) /\ r.position = p
    BY <2>2, <2>3 DEF InPlace, EntityRecord, DirtyMask
  <2> QED
    BY <2>1, <2>4, <2>5, UpdatePlaces
<1>2. CASE by_id[e] = NoHandle
  <2>1. PICK r : r = NewRecord(e, AllocatedHandle, p, FALSE)
    OBVIOUS
  <2>2. InsertAllocated(AllocatedHandle, r) /\ ReturnedHandle(e) = AllocatedHandle
    BY <1>2, <2>1 DEF StationUpsertGhost, ReturnedHandle
  <2>3. Fresh(r) /\ r.position = p
    BY <1>2, <2>1, <2>2, AllocatedHandleType, StationAssumption
    DEF StationInv, InsertAllocated, Fresh, NewRecord, EntityRecord, DirtyMask
  <2> QED
    BY <2>2, <2>3, InsertPlaces
<1> QED
  BY <1>1, <1>2

\* commit_incoming_handoff.
LEMMA IncomingPlaces ==
    ASSUME StationInv, PlaceInv, NEW captured \in Captured, CommitIncomingHandoff(captured)
    PROVE  PlaceInv'
<1> DEFINE e == captured.id
<1>0. /\ e \in Entities
      /\ \A h \in Handle : /\ Adopted(captured, h) \in EntityRecord
                           /\ Adopted(captured, h).id = e
                           /\ Adopted(captured, h).handle = h
                           /\ Adopted(captured, h).position = captured.position
      /\ StationCommitIncomingHandoff(captured)
      /\ IndexUpsert(ReturnedHandle(e), captured.position)
  BY DEF Captured, Adopted, EntityRecord, DirtyMask, CommitIncomingHandoff
<1>1. CASE by_id[e] # NoHandle
  <2>1. PICK h \in Handle : h = by_id[e] /\ ReturnedHandle(e) = h
    BY <1>0, <1>1 DEF StationInv, StationTypeOK, ReturnedHandle
  <2>2. Resolves(h) /\ RecordOf(h).id = e /\ RecordOf(h).handle = h
    BY <1>0, <1>1, <2>1, StationAssumption
    DEF StationInv, IdIndexCoherent, StationTypeOK, Live, Resolves, RecordOf, Handle, Index
  <2>3. PICK r : r = Adopted(captured, h)
    OBVIOUS
  <2>4. UpdateRecord(h, r)
    BY <1>0, <1>1, <2>1, <2>3 DEF StationCommitIncomingHandoff
  <2>5. InPlace(h, r) /\ r.position = captured.position
    BY <1>0, <2>2, <2>3 DEF InPlace
  <2> QED
    BY <1>0, <2>1, <2>4, <2>5, UpdatePlaces
<1>2. CASE by_id[e] = NoHandle
  <2>1. PICK r : r = Adopted(captured, AllocatedHandle)
    OBVIOUS
  <2>2. InsertAllocated(AllocatedHandle, r) /\ ReturnedHandle(e) = AllocatedHandle
    BY <1>0, <1>2, <2>1 DEF StationCommitIncomingHandoff, ReturnedHandle
  <2>3. Fresh(r) /\ r.position = captured.position
    BY <1>0, <1>2, <2>1, <2>2, AllocatedHandleType DEF StationInv, InsertAllocated, Fresh
  <2> QED
    BY <1>0, <2>2, <2>3, InsertPlaces
<1> QED
  BY <1>1, <1>2

\* The calls that leave the entity where it is.
LEMMA OwnerPlaces ==
    ASSUME StationInv, PlaceInv, UNCHANGED <<entity_cells, cells>>,
           \/ \E h \in Handle : \/ \E t \in Tags : StationSetTags(h, t)
                                \/ \E mask \in DirtyMask : StationClearDirty(h, mask)
           \/ \E e \in Entities : StationCommitOutgoingHandoff(e)
    PROVE  PlaceInv'
<1>0. ASSUME NEW h \in Handle, Resolves(h) PROVE RecordOf(h) \in EntityRecord
  BY <1>0 DEF StationInv, StationTypeOK, RecordOf, Resolves, Handle
<1>1. ASSUME NEW h \in Handle, NEW t \in Tags, StationSetTags(h, t) PROVE PlaceInv'
  <2>1. PICK r : r = [RecordOf(h) EXCEPT !.tags = t, !.dirty = @ \cup {TAGS}]
    OBVIOUS
  <2>2. UpdateRecord(h, r) /\ Resolves(h)
    BY <1>1, <2>1 DEF StationSetTags
  <2>3. InPlace(h, r) /\ r.position = RecordOf(h).position
    BY <1>0, <2>1, <2>2 DEF InPlace, EntityRecord, DirtyMask
  <2> QED
    BY <2>2, <2>3, StayPlaces
<1>2. ASSUME NEW h \in Handle, NEW mask \in DirtyMask, StationClearDirty(h, mask)
      PROVE  PlaceInv'
  <2>1. PICK r : r = [RecordOf(h) EXCEPT !.dirty = @ \ mask]
    OBVIOUS
  <2>2. UpdateRecord(h, r) /\ Resolves(h)
    BY <1>2, <2>1 DEF StationClearDirty
  <2>3. InPlace(h, r) /\ r.position = RecordOf(h).position
    BY <1>0, <2>1, <2>2 DEF InPlace, EntityRecord, DirtyMask
  <2> QED
    BY <2>2, <2>3, StayPlaces
<1>3. ASSUME NEW e \in Entities, StationCommitOutgoingHandoff(e) PROVE PlaceInv'
  <2>1. PICK h \in Handle : h = by_id[e]
    BY <1>3 DEF StationCommitOutgoingHandoff, StationInv, StationTypeOK
  <2>2. PICK r : r = [RecordOf(h) EXCEPT !.owned = FALSE, !.dirty = @ \cup {TRANSFORM}]
    OBVIOUS
  <2>3. UpdateRecord(h, r) /\ Resolves(h)
    BY <1>3, <2>1, <2>2 DEF StationCommitOutgoingHandoff
  <2>4. InPlace(h, r) /\ r.position = RecordOf(h).position
    BY <1>0, <2>2, <2>3 DEF InPlace, EntityRecord, DirtyMask
  <2> QED
    BY <2>3, <2>4, StayPlaces
<1> QED
  BY <1>1, <1>2, <1>3

\* Every step brings the index along.
LEMMA PlaceStep ==
    ASSUME IInv, PlaceInv, [Next]_vars
    PROVE  PlaceInv'
<1>0. StationInv /\ Known \subseteq Handle
  BY DEF IInv, IssuedInv, Known
<1>1. ASSUME NEW e \in Entities, NEW p \in Positions, SpawnOwned(e, p) PROVE PlaceInv'
  <2>1. PICK r : r = NewRecord(e, AllocatedHandle, p, TRUE)
    OBVIOUS
  <2>2. /\ InsertAllocated(AllocatedHandle, r) /\ by_id[e] = NoHandle
        /\ IndexUpsert(AllocatedHandle, p)
    BY <1>1, <2>1 DEF SpawnOwned, StationSpawnOwned
  <2>3. Fresh(r) /\ r.position = p
    BY <1>0, <2>1, <2>2, AllocatedHandleType, StationAssumption
    DEF StationInv, InsertAllocated, Fresh, NewRecord, EntityRecord, DirtyMask
  <2> QED
    BY <1>0, <2>2, <2>3, InsertPlaces
<1>2. ASSUME NEW e \in Entities, NEW p \in Positions, UpsertGhost(e, p) PROVE PlaceInv'
  BY <1>0, <1>2, GhostPlaces DEF UpsertGhost
<1>3. ASSUME NEW h \in Known, NEW p \in Positions, MoveOwned(h, p) PROVE PlaceInv'
  <2>1. PICK r : r = [RecordOf(h) EXCEPT !.position = p, !.dirty = @ \cup {TRANSFORM}]
    OBVIOUS
  <2>2. UpdateRecord(h, r) /\ Resolves(h) /\ IndexUpsert(h, p) /\ h \in Handle
    BY <1>0, <1>3, <2>1 DEF MoveOwned, StationMoveOwned
  <2>3. RecordOf(h) \in EntityRecord
    BY <1>0, <2>2 DEF StationInv, StationTypeOK, RecordOf, Resolves, Handle
  <2>4. InPlace(h, r) /\ r.position = p
    BY <2>1, <2>2, <2>3 DEF InPlace, EntityRecord, DirtyMask
  <2> QED
    BY <1>0, <2>2, <2>4, UpdatePlaces
<1>4. ASSUME NEW h \in Known, Despawn(h) PROVE PlaceInv'
  <2>1. StationRemove(h) /\ IndexRemove(h) /\ h \in Handle
    BY <1>0, <1>4 DEF Despawn
  <2>2. IndexInv'
    BY <2>1, IndexMoves DEF PlaceInv, IndexRemove
  <2>3. Placed'
    BY <1>0, <2>1, RemoveKeepsPlaced DEF IndexRemove
  <2> QED
    BY <2>2, <2>3 DEF PlaceInv
<1>5. ASSUME NEW h \in Known, NEW t \in Tags, SetTags(h, t) PROVE PlaceInv'
  BY <1>0, <1>5, OwnerPlaces DEF SetTags, runtimeVars
<1>6. ASSUME NEW h \in Known, NEW c \in ComponentIds, SetComponentBlob(h, c) PROVE PlaceInv'
  BY <1>6 DEF SetComponentBlob, stationVars, PlaceInv, Placed, IndexInv, IndexTypeOK,
              Resolves, RecordOf
<1>7. ASSUME NEW h \in Known, NEW mask \in DirtyMask, ClearDirty(h, mask) PROVE PlaceInv'
  BY <1>0, <1>7, OwnerPlaces DEF ClearDirty
<1>8. ASSUME NEW captured \in Captured, PrewarmHandoffGhost(captured) PROVE PlaceInv'
  <2>1. captured.id \in Entities /\ captured.position \in Positions
    BY DEF Captured
  <2>2. /\ StationUpsertGhost(captured.id, captured.position)
        /\ IndexUpsert(ReturnedHandle(captured.id), captured.position)
    BY <1>8 DEF PrewarmHandoffGhost, StationPrewarmHandoffGhost
  <2> QED
    BY <1>0, <2>1, <2>2, GhostPlaces
<1>9. ASSUME NEW captured \in Captured, CommitIncomingHandoff(captured) PROVE PlaceInv'
  BY <1>0, <1>9, IncomingPlaces
<1>10. ASSUME NEW e \in Entities, CommitOutgoingHandoff(e) PROVE PlaceInv'
  BY <1>0, <1>10, OwnerPlaces DEF CommitOutgoingHandoff
<1>11. ASSUME NEW n \in 0 .. size, NEW from \in Migrations(n), Upgrade(n, from)
       PROVE  PlaceInv'
  BY <1>0, <1>11, UpgradePlaces
<1>12. ASSUME UNCHANGED vars PROVE PlaceInv'
  BY <1>12 DEF vars, PlaceInv, Placed, IndexInv, IndexTypeOK, Resolves, RecordOf
<1> QED
  BY <1>1, <1>2, <1>3, <1>4, <1>5, <1>6, <1>7, <1>8, <1>9, <1>10, <1>11, <1>12 DEF Next

-----------------------------------------------------------------------------
(* The results. *)

\* The fields of a Station keep their types: sizes within the slot bound,
\* generations within u32, every record well formed.
THEOREM StorageTypeCorrect == Spec => []StationTypeOK
<1>1. IInv => StationTypeOK BY DEF IInv, StationInv
<1> QED BY <1>1, Inductive, PTL

\* by_id and the slot array never disagree, whatever calls are made in whatever
\* order, handoffs adopting foreign records included.
THEOREM IdIndexAlwaysCoherent == Spec => []IdIndexCoherent
<1>1. IInv => IdIndexCoherent BY DEF IInv, StationInv
<1> QED BY <1>1, Inductive, PTL

\* allocate_handle never hands out an occupied slot and remove never leaks one.
THEOREM FreeStackAlwaysExact == Spec => []FreeStackExact
<1>1. IInv => FreeStackExact BY DEF IInv, StationInv
<1> QED BY <1>1, Inductive, PTL

\* A handle issued for one entity never reads or writes another one, until the
\* slot's generation saturates.
THEOREM HandleIdentityHolds == Spec => []HandleIdentity
<1>1. IInv => HandleIdentity
  <2> SUFFICES ASSUME IInv, NEW pair \in issued,
                      pair[1].generation < MaxGeneration, Resolves(pair[1])
               PROVE  RecordOf(pair[1]).id = pair[2]
    BY DEF HandleIdentity
  <2>1. PICK h \in Handle, e \in Entities : pair = <<h, e>>
    BY DEF IInv, IssuedInv
  <2>2. IssuedFor(h, e)
    BY <2>1 DEF IInv, IssuedInv
  <2> QED BY <2>1, <2>2 DEF IssuedFor, Resolves, RecordOf
<1> QED BY <1>1, Inductive, PTL

\* Component blobs die with their entity: despawn clears them before the slot
\* can be reused.
THEOREM ComponentsAlwaysFollow == Spec => []ComponentsFollowStation
<1>1. IInv => ComponentsFollowStation BY DEF IInv, ComponentsInv
<1> QED BY <1>1, Inductive, PTL

\* A transform an observer has not read is always marked: no call that writes a
\* position, and no upgrade, loses the mark that replication planning reads.
THEOREM TransformChangeMarkedHolds == Spec => []TransformChangeMarked
<1>1. Init => SeenInv
  BY SeenInit
<1>2. SeenInv => TransformChangeMarked
  BY DEF SeenInv
<1>3. IInv /\ SeenInv /\ [Next]_vars => SeenInv'
  BY SeenStep
<1> QED
  BY <1>1, <1>2, <1>3, InitHolds, NextHolds, PTL DEF Spec

\* The spatial index, the components and the station agree after every call of
\* StationRuntime, in whatever order they are made: the index lists exactly the
\* live handles, each once, in the cells of its current position.
THEOREM IndexFollowsStationHolds == Spec => []IndexFollowsStation
<1>1. Init => PlaceInv
  <2> SUFFICES ASSUME Init PROVE PlaceInv
    OBVIOUS
  <2>1. /\ entity_cells = [h \in Handle |-> {}]
        /\ cells = [c \in Cells |-> <<>>]
    BY DEF Init, IndexInit
  <2>2. IndexTypeOK
    BY <2>1 DEF IndexTypeOK
  <2>3. \A c \in Cells : Distinct(cells[c]) /\ ToSet(cells[c]) = {}
    BY <2>1 DEF Distinct, ToSet
  <2>4. IndexInv
    BY <2>1, <2>2, <2>3 DEF IndexInv
  <2>5. \A h \in Handle : ~Resolves(h)
    BY DEF Init, StationInit, Handle, Resolves
  <2> QED
    BY <2>1, <2>4, <2>5 DEF PlaceInv, Placed
<1>2. IInv /\ SeenInv /\ PlaceInv => IndexFollowsStation
  <2> SUFFICES ASSUME IInv, SeenInv, PlaceInv PROVE IndexFollowsStation
    OBVIOUS
  <2>1. TypeOK
    BY DEF TypeOK, IInv, StationInv, SeenInv, PlaceInv, IndexInv, ComponentsInv, IssuedInv
  <2>2. CellMapsInverse /\ ComponentsFollowStation
    BY IndexInvMeans DEF PlaceInv, IInv, ComponentsInv
  <2> QED
    BY <2>1, <2>2 DEF IndexFollowsStation, PlaceInv, Placed
<1>3. IInv /\ PlaceInv /\ [Next]_vars => PlaceInv'
  BY PlaceStep
<1>4. IInv /\ SeenInv /\ [Next]_vars => SeenInv'
  BY SeenStep
<1> QED
  BY <1>1, <1>2, <1>3, <1>4, SeenInit, InitHolds, NextHolds, PTL DEF Spec

-----------------------------------------------------------------------------
(* The scan of a query. *)

\* What a slot's marker holds, and the scratch and answer of a scan under way.
Mark == [epoch : Nat, generation : Nat]

ScanState ==
    [epoch : Nat, dense : [Slots -> Mark], collisions : [Slots -> Nat],
     sparse : SUBSET [index : Nat, generation : Nat], handles : Seq(Handles)]

\* The handle a marker of slot i stands for.
Marked(i, mark) == [index |-> i, generation |-> mark.generation]

\* The set holds a handle that was met, unless its slot's marker stands for it.
Sparsely(E, collisions, h) == h.index >= MaxDense \/ collisions[h.index] = E

\* What markers and set say of the handles M that a query of epoch E has met.
Tells(E, dense, collisions, sparse, M) ==
    /\ sparse \subseteq M
    /\ \A i \in Slots : dense[i].epoch <= E /\ collisions[i] <= E
    /\ \A i \in Slots : collisions[i] = E => dense[i].epoch = E
    /\ \A i \in Slots : dense[i].epoch = E => i < MaxDense /\ Marked(i, dense[i]) \in M
    /\ \A h \in M : h.index < MaxDense => dense[h.index].epoch = E
    /\ \A h \in M : Sparsely(E, collisions, h) => h \in sparse
    /\ \A h \in M : ~Sparsely(E, collisions, h) => h = Marked(h.index, dense[h.index])

\* The slot of a handle that has a marker has one of this query.
Claimed(E, dense, h) == h.index < MaxDense => dense[h.index].epoch = E

\* The handles M are listed, each of them once.
Lists(s, E, M) ==
    /\ s \in ScanState /\ s.epoch = E /\ M \in SUBSET Handles
    /\ Distinct(s.handles) /\ ToSet(s.handles) = M

\* What a scan has made of the scratch when it has met the handles M.
Scanned(s, E, M) ==
    /\ Lists(s, E, M)
    /\ Tells(E, s.dense, s.collisions, s.sparse, M)

\* Handles have an index, which is a slot, and a generation.
LEMMA HandleFields ==
    ASSUME NEW h \in Handles
    PROVE  /\ h \in [index : Nat, generation : Nat]
           /\ h.index \in Nat /\ h.generation \in Nat /\ h.index \in Slots
           /\ h = [index |-> h.index, generation |-> h.generation]
BY QueryAssumption DEF Slots

\* Slots are numbers.
LEMMA SlotNumbers == \A i \in Slots : i \in Nat
BY HandleFields DEF Slots

\* A handle that the scan has not met joins its list.
LEMMA KeptScans ==
    ASSUME NEW s, NEW E, NEW M, Lists(s, E, M), NEW h \in Handles, h \notin M,
           Tells(E, s.dense, s.collisions, s.sparse, M \cup {h})
    PROVE  Scanned(Kept(s, h), E, M \cup {h})
<1>0. /\ s \in ScanState /\ s.epoch = E /\ M \in SUBSET Handles
      /\ Distinct(s.handles) /\ ToSet(s.handles) = M
  BY DEF Lists
<1>1. /\ s.handles \in Seq(Handles)
  BY <1>0 DEF ScanState
<1>2. PICK t : t = Append(s.handles, h)
  OBVIOUS
<1>3. t \in Seq(Handles) /\ Distinct(t) /\ ToSet(t) = M \cup {h}
  BY <1>0, <1>1, <1>2, AddedEntry
<1>4. Kept(s, h) = [s EXCEPT !.handles = t]
  BY <1>2 DEF Kept
<1>5. /\ Kept(s, h) \in ScanState /\ Kept(s, h).epoch = E /\ Kept(s, h).dense = s.dense
      /\ Kept(s, h).collisions = s.collisions /\ Kept(s, h).sparse = s.sparse
      /\ Kept(s, h).handles = t
  BY <1>0, <1>3, <1>4 DEF ScanState
<1> QED
  BY <1>0, <1>3, <1>5 DEF Scanned, Lists

\* What the set is asked, and takes.
LEMMA MetSparselyScans ==
    ASSUME NEW s, NEW E, NEW M, Scanned(s, E, M), NEW h \in Handles,
           Sparsely(E, s.collisions, h), Claimed(E, s.dense, h)
    PROVE  Scanned(MetSparsely(s, h), E, M \cup {h})
<1>0. /\ s \in ScanState /\ s.epoch = E /\ M \in SUBSET Handles
      /\ Distinct(s.handles) /\ ToSet(s.handles) = M
      /\ Tells(E, s.dense, s.collisions, s.sparse, M)
  BY DEF Scanned, Lists
<1>1. CASE h \in s.sparse
  <2>1. MetSparsely(s, h) = s /\ M \cup {h} = M
    BY <1>0, <1>1 DEF MetSparsely, Tells
  <2> QED
    BY <2>1
<1>2. CASE h \notin s.sparse
  <2>1. h \notin M
    BY <1>0, <1>2 DEF Tells
  <2> DEFINE t == [s EXCEPT !.sparse = s.sparse \cup {h}]
  <2>2. /\ t \in ScanState /\ t.epoch = E /\ t.dense = s.dense /\ t.collisions = s.collisions
        /\ t.sparse = s.sparse \cup {h} /\ t.handles = s.handles
    BY <1>0, HandleFields DEF ScanState
  <2>3. MetSparsely(s, h) = Kept(t, h)
    BY <1>2 DEF MetSparsely
  <2> HIDE DEF t
  <2>4. Tells(E, t.dense, t.collisions, t.sparse, M \cup {h})
    BY <1>0, <2>2 DEF Tells, Claimed
  <2>5. Lists(t, E, M)
    BY <1>0, <2>2 DEF Lists
  <2> QED
    BY <2>1, <2>3, <2>4, <2>5, KeptScans
<1> QED
  BY <1>1, <1>2

\* insert_seen: the scan meets a handle, for the first time or again.
LEMMA MetScans ==
    ASSUME NEW s, NEW E, NEW M, Scanned(s, E, M), NEW h \in Handles
    PROVE  Scanned(Met(s, h), E, M \cup {h})
<1> DEFINE i == h.index
           previous == s.dense[i]
<1>0. /\ s \in ScanState /\ s.epoch = E /\ M \in SUBSET Handles
      /\ Distinct(s.handles) /\ ToSet(s.handles) = M
      /\ Tells(E, s.dense, s.collisions, s.sparse, M)
  BY DEF Scanned, Lists
<1>1. /\ i \in Nat /\ h.generation \in Nat /\ i \in Slots
      /\ h = [index |-> i, generation |-> h.generation]
  BY HandleFields
<1>2. /\ s.dense \in [Slots -> Mark] /\ s.collisions \in [Slots -> Nat] /\ E \in Nat
      /\ s.sparse \in SUBSET [index : Nat, generation : Nat] /\ s.handles \in Seq(Handles)
  BY <1>0 DEF ScanState
<1>9. MaxDense \in Nat
  BY QueryAssumption
<1>3. CASE i >= MaxDense
  <2>1. Met(s, h) = MetSparsely(s, h)
    BY <1>3 DEF Met
  <2>2. Sparsely(E, s.collisions, h) /\ Claimed(E, s.dense, h)
    BY <1>1, <1>3, <1>9 DEF Sparsely, Claimed
  <2> QED
    BY <2>1, <2>2, MetSparselyScans
<1>4. CASE i < MaxDense /\ previous.epoch # E
  <2> DEFINE mark == [epoch |-> E, generation |-> h.generation]
             t == [s EXCEPT !.dense[i] = mark]
  <2>1. Met(s, h) = Kept(t, h)
    BY <1>0, <1>1, <1>4, <1>9 DEF Met
  <2>2. mark \in Mark /\ Marked(i, mark) = h /\ mark.epoch = E
    BY <1>1, <1>2 DEF Mark, Marked
  <2>3. PICK d : d = [s.dense EXCEPT ![i] = mark]
    OBVIOUS
  <2>4. d \in [Slots -> Mark] /\ d[i] = mark /\ \A j \in Slots : j # i => d[j] = s.dense[j]
    BY <1>1, <1>2, <2>2, <2>3
  <2>5. t = [s EXCEPT !.dense = d]
    BY <2>3
  <2>6. /\ t \in ScanState /\ t.epoch = E /\ t.dense = d /\ t.collisions = s.collisions
        /\ t.sparse = s.sparse /\ t.handles = s.handles
    BY <1>0, <2>4, <2>5 DEF ScanState
  <2> HIDE DEF t, mark
  <2>7. \A g \in M : g.index # i
    BY <1>0, <1>4 DEF Tells
  <2>8. \A g \in M : g.index \in Slots
    BY <1>0, HandleFields
  <2>9. \A g \in M \cup {h} : g.index \in Slots /\ (g # h => d[g.index] = s.dense[g.index])
    BY <1>1, <2>4, <2>7, <2>8
  <2>10. s.collisions[i] # E /\ ~Sparsely(E, s.collisions, h)
    BY <1>0, <1>1, <1>4, <1>9 DEF Tells, Sparsely
  <2>11. Tells(E, d, s.collisions, s.sparse, M \cup {h})
    <3>1. \A j \in Slots : d[j].epoch <= E /\ s.collisions[j] <= E
      BY <1>0, <1>2, <2>2, <2>4 DEF Tells
    <3>2. \A j \in Slots : s.collisions[j] = E => d[j].epoch = E
      BY <1>0, <2>2, <2>4 DEF Tells
    <3>3. \A j \in Slots : d[j].epoch = E => j < MaxDense /\ Marked(j, d[j]) \in M \cup {h}
      BY <1>0, <1>4, <2>2, <2>4 DEF Tells
    <3>4. \A g \in M \cup {h} : g.index < MaxDense => d[g.index].epoch = E
      BY <1>0, <2>2, <2>4, <2>9 DEF Tells
    <3>5. \A g \in M \cup {h} : Sparsely(E, s.collisions, g) => g \in s.sparse
      BY <1>0, <2>10 DEF Tells
    <3>6. \A g \in M \cup {h} : ~Sparsely(E, s.collisions, g) => g = Marked(g.index, d[g.index])
      BY <1>0, <2>2, <2>4, <2>9 DEF Tells
    <3> QED
      BY <1>0, <3>1, <3>2, <3>3, <3>4, <3>5, <3>6 DEF Tells
  <2>12. h \notin M
    BY <2>7
  <2>13. Lists(t, E, M) /\ Tells(E, t.dense, t.collisions, t.sparse, M \cup {h})
    BY <1>0, <2>6, <2>11 DEF Lists
  <2> QED
    BY <2>1, <2>12, <2>13, KeptScans
<1>5. CASE i < MaxDense /\ previous.epoch = E /\ s.collisions[i] = E
  <2>1. Met(s, h) = MetSparsely(s, h)
    BY <1>0, <1>1, <1>5, <1>9 DEF Met
  <2>2. Sparsely(E, s.collisions, h) /\ Claimed(E, s.dense, h)
    BY <1>5 DEF Sparsely, Claimed
  <2> QED
    BY <2>1, <2>2, MetSparselyScans
<1>6. CASE /\ i < MaxDense /\ previous.epoch = E /\ s.collisions[i] # E
           /\ previous.generation = h.generation
  <2>1. Met(s, h) = s
    BY <1>0, <1>1, <1>6, <1>9 DEF Met
  <2>2. Marked(i, previous) = h
    BY <1>1, <1>6 DEF Marked
  <2>3. h \in M
    BY <1>0, <1>1, <1>6, <2>2 DEF Tells
  <2>4. M \cup {h} = M
    BY <2>3
  <2> QED
    BY <2>1, <2>4
<1>7. CASE /\ i < MaxDense /\ previous.epoch = E /\ s.collisions[i] # E
           /\ previous.generation # h.generation
  <2> DEFINE other == [index |-> i, generation |-> previous.generation]
             t == [s EXCEPT !.collisions[i] = s.epoch, !.sparse = s.sparse \cup {other}]
  <2>1. Met(s, h) = MetSparsely(t, h)
    BY <1>0, <1>1, <1>7, <1>9 DEF Met
  <2>2. other = Marked(i, previous) /\ other \in M
    BY <1>0, <1>1, <1>7 DEF Tells, Marked
  <2>3. PICK k : k = [s.collisions EXCEPT ![i] = E]
    OBVIOUS
  <2>4. k \in [Slots -> Nat] /\ k[i] = E /\ \A j \in Slots : j # i => k[j] = s.collisions[j]
    BY <1>1, <1>2, <2>3
  <2>5. t = [s EXCEPT !.collisions = k, !.sparse = s.sparse \cup {other}]
    BY <1>0, <2>3
  <2>6. /\ t \in ScanState /\ t.epoch = E /\ t.dense = s.dense /\ t.collisions = k
        /\ t.sparse = s.sparse \cup {other} /\ t.handles = s.handles
    <3>1. other \in [index : Nat, generation : Nat]
      BY <1>0, <2>2, HandleFields
    <3> HIDE DEF other
    <3> QED
      BY <1>0, <1>2, <2>4, <2>5, <3>1 DEF ScanState
  <2> HIDE DEF t, other
  <2>7. \A g \in M : g.index \in Slots /\ (g.index # i => k[g.index] = s.collisions[g.index])
    BY <1>0, <2>4, HandleFields
  <2>8. ASSUME NEW g \in M, g.index = i PROVE g = other
    <3>1. ~Sparsely(E, s.collisions, g)
      BY <1>1, <1>7, <1>9, <2>8 DEF Sparsely
    <3>2. g = Marked(g.index, s.dense[g.index])
      BY <1>0, <3>1 DEF Tells
    <3> QED
      BY <2>2, <2>8, <3>2
  <2>9. Tells(E, s.dense, k, s.sparse \cup {other}, M)
    <3>1. \A j \in Slots : s.dense[j].epoch <= E /\ k[j] <= E
      BY <1>0, <1>2, <2>4 DEF Tells
    <3>2. \A j \in Slots : k[j] = E => s.dense[j].epoch = E
      BY <1>0, <1>7, <2>4 DEF Tells
    <3>3. \A g \in M : Sparsely(E, k, g) => g \in s.sparse \cup {other}
      BY <1>0, <2>7, <2>8 DEF Tells, Sparsely
    <3>4. \A g \in M : ~Sparsely(E, k, g) => ~Sparsely(E, s.collisions, g)
      BY <2>4, <2>7 DEF Sparsely
    <3> QED
      BY <1>0, <2>2, <3>1, <3>2, <3>3, <3>4 DEF Tells
  <2>10. Sparsely(E, t.collisions, h) /\ Claimed(E, t.dense, h)
    BY <1>7, <2>4, <2>6 DEF Sparsely, Claimed
  <2>11. Scanned(t, E, M)
    BY <1>0, <2>6, <2>9 DEF Scanned, Lists
  <2> QED
    BY <2>1, <2>10, <2>11, MetSparselyScans
<1> QED
  BY <1>1, <1>3, <1>4, <1>5, <1>6, <1>7, <1>9

-----------------------------------------------------------------------------
(* The loops of a query. *)

\* The scratches that a scan passes through.
Scans == {x \in ScanState : \E M \in SUBSET Handles : Scanned(x, x.epoch, M)}

\* A scratch that has met some handles is one of them.
LEMMA InScans == ASSUME NEW s, NEW E, NEW M, Scanned(s, E, M) PROVE s \in Scans
BY DEF Scans, Scanned, Lists

\* The handles of a cell are met one after the other.
LEMMA HandlesScan ==
    ASSUME NEW s, NEW E, NEW M, Scanned(s, E, M), NEW hs \in Seq(Handles)
    PROVE  Scanned(Loop(Met, s, hs)[Len(hs)], E, M \cup ToSet(hs))
<1> DEFINE G == [x \in Scans \X Handles |-> Met(x[1], x[2])]
           after == Loop(Met, s, hs)
           P == {n \in 0 .. Len(hs) : Scanned(after[n], E, M \cup FirstEntries(hs, n))}
<1>1. s \in Scans
  BY InScans
<1>2. ASSUME NEW x \in Scans, NEW h \in Handles PROVE Met(x, h) \in Scans
  <2>1. PICK N \in SUBSET Handles : Scanned(x, x.epoch, N)
    BY DEF Scans
  <2>2. Scanned(Met(x, h), x.epoch, N \cup {h})
    BY <2>1, MetScans
  <2> QED
    BY <2>2, InScans
<1>3. G \in [Scans \X Handles -> Scans]
  BY <1>2
<1>4. \A x \in Scans, h \in Handles : G[<<x, h>>] = Met(x, h)
  OBVIOUS
<1>5. Len(hs) \in Nat /\ \A n \in 1 .. Len(hs) : hs[n] \in Handles
  OBVIOUS
<1>6. after = [n \in 0 .. Len(hs) |-> IF n = 0 THEN s ELSE Met(after[n - 1], hs[n])]
  <2> HIDE DEF G
  <2>0. PICK f \in [0 .. Len(hs) -> Scans] : Turns(f, s, hs, G)
    BY <1>1, <1>3, LoopRuns
  <2>1. f[0] = s /\ \A n \in 1 .. Len(hs) : f[n] = G[<<f[n - 1], hs[n]>>]
    BY <2>0 DEF Turns
  <2>2. ASSUME NEW n \in 0 .. Len(hs)
        PROVE  f[n] = IF n = 0 THEN s ELSE Met(f[n - 1], hs[n])
    <3>1. CASE n = 0
      BY <2>1, <3>1
    <3>2. CASE n # 0
      <4>1. n \in 1 .. Len(hs) /\ n - 1 \in 0 .. Len(hs)
        BY <1>5, <3>2
      <4>2. f[n - 1] \in Scans /\ hs[n] \in Handles
        BY <1>5, <2>1, <4>1
      <4> QED
        BY <1>4, <2>1, <3>2, <4>1, <4>2
    <3> QED
      BY <3>1, <3>2
  <2>3. f = [n \in 0 .. Len(hs) |-> IF n = 0 THEN s ELSE Met(f[n - 1], hs[n])]
    BY <2>1, <2>2
  <2>4. after = CHOOSE g : g = [n \in 0 .. Len(hs) |-> IF n = 0 THEN s ELSE Met(g[n - 1], hs[n])]
    BY DEF Loop
  <2> QED
    BY <2>3, <2>4
<1> HIDE DEF after
<1>7. after[0] = s /\ \A n \in 0 .. Len(hs) - 1 : after[n + 1] = Met(after[n], hs[n + 1])
  <2>1. 0 \in 0 .. Len(hs)
    BY <1>5
  <2>2. ASSUME NEW n \in 0 .. Len(hs) - 1 PROVE after[n + 1] = Met(after[n], hs[n + 1])
    <3>1. n + 1 \in 0 .. Len(hs) /\ n + 1 # 0 /\ n + 1 - 1 = n
      BY <1>5
    <3> QED
      BY <1>6, <3>1
  <2> QED
    BY <1>6, <2>1, <2>2
<1>8. EntriesByTurn(hs, Handles)
  BY EntriesTaken
<1>9. 0 \in P
  <2>1. M \cup FirstEntries(hs, 0) = M
    BY <1>8 DEF EntriesByTurn
  <2>2. Scanned(after[0], E, M \cup FirstEntries(hs, 0))
    BY <1>7, <2>1
  <2> QED
    BY <1>5, <2>2
<1>10. ASSUME NEW n \in 0 .. Len(hs) - 1, n \in P PROVE n + 1 \in P
  <2>1. Scanned(after[n], E, M \cup FirstEntries(hs, n))
    BY <1>10
  <2>2. hs[n + 1] \in Handles /\ n + 1 \in 0 .. Len(hs)
    BY <1>5
  <2>3. Scanned(Met(after[n], hs[n + 1]), E, (M \cup FirstEntries(hs, n)) \cup {hs[n + 1]})
    BY <2>1, <2>2, MetScans
  <2>4. (M \cup FirstEntries(hs, n)) \cup {hs[n + 1]} = M \cup FirstEntries(hs, n + 1)
    BY <1>8 DEF EntriesByTurn
  <2>5. Scanned(after[n + 1], E, M \cup FirstEntries(hs, n + 1))
    BY <1>7, <2>3, <2>4
  <2> QED
    BY <2>2, <2>5
<1>11. Len(hs) \in P
  <2> HIDE DEF P
  <2>1. 0 .. Len(hs) \subseteq P
    BY <1>5, <1>9, <1>10, EveryTurn
  <2> QED
    BY <1>5, <2>1
<1>12. Scanned(after[Len(hs)], E, M \cup ToSet(hs))
  BY <1>11, <1>8 DEF EntriesByTurn
<1> QED
  BY <1>12 DEF after

\* The handles that are listed in some of the cells.
HandlesOf(C) == UNION {ToSet(listed[c]) : c \in C}

\* The cells of a range are collected one after the other.
LEMMA CellsScan ==
    ASSUME NEW s, NEW E, NEW M, Scanned(s, E, M), NEW cs \in Seq(GridCells),
           listed \in [GridCells -> Seq(Handles)]
    PROVE  Scanned(Loop(CollectCell, s, cs)[Len(cs)], E, M \cup HandlesOf(ToSet(cs)))
<1> DEFINE G == [x \in Scans \X GridCells |-> CollectCell(x[1], x[2])]
           after == Loop(CollectCell, s, cs)
           P == {n \in 0 .. Len(cs) : Scanned(after[n], E, M \cup HandlesOf(FirstEntries(cs, n)))}
<1>1. s \in Scans
  BY InScans
<1>2. ASSUME NEW x \in Scans, NEW c \in GridCells PROVE CollectCell(x, c) \in Scans
  <2>1. PICK N \in SUBSET Handles : Scanned(x, x.epoch, N)
    BY DEF Scans
  <2>2. Scanned(CollectCell(x, c), x.epoch, N \cup ToSet(listed[c]))
    BY <2>1, HandlesScan DEF CollectCell
  <2> QED
    BY <2>2, InScans
<1>3. G \in [Scans \X GridCells -> Scans]
  BY <1>2
<1>4. \A x \in Scans, c \in GridCells : G[<<x, c>>] = CollectCell(x, c)
  OBVIOUS
<1>5. Len(cs) \in Nat /\ \A n \in 1 .. Len(cs) : cs[n] \in GridCells
  OBVIOUS
<1>6. after = [n \in 0 .. Len(cs) |-> IF n = 0 THEN s ELSE CollectCell(after[n - 1], cs[n])]
  <2> HIDE DEF G
  <2>0. PICK f \in [0 .. Len(cs) -> Scans] : Turns(f, s, cs, G)
    BY <1>1, <1>3, LoopRuns
  <2>1. f[0] = s /\ \A n \in 1 .. Len(cs) : f[n] = G[<<f[n - 1], cs[n]>>]
    BY <2>0 DEF Turns
  <2>2. ASSUME NEW n \in 0 .. Len(cs)
        PROVE  f[n] = IF n = 0 THEN s ELSE CollectCell(f[n - 1], cs[n])
    <3>1. CASE n = 0
      BY <2>1, <3>1
    <3>2. CASE n # 0
      <4>1. n \in 1 .. Len(cs) /\ n - 1 \in 0 .. Len(cs)
        BY <1>5, <3>2
      <4>2. f[n - 1] \in Scans /\ cs[n] \in GridCells
        BY <1>5, <2>1, <4>1
      <4> QED
        BY <1>4, <2>1, <3>2, <4>1, <4>2
    <3> QED
      BY <3>1, <3>2
  <2>3. f = [n \in 0 .. Len(cs) |-> IF n = 0 THEN s ELSE CollectCell(f[n - 1], cs[n])]
    BY <2>1, <2>2
  <2>4. after = CHOOSE g : g = [n \in 0 .. Len(cs) |-> IF n = 0 THEN s ELSE CollectCell(g[n - 1], cs[n])]
    BY DEF Loop
  <2> QED
    BY <2>3, <2>4
<1> HIDE DEF after
<1>7. after[0] = s /\ \A n \in 0 .. Len(cs) - 1 : after[n + 1] = CollectCell(after[n], cs[n + 1])
  <2>1. 0 \in 0 .. Len(cs)
    BY <1>5
  <2>2. ASSUME NEW n \in 0 .. Len(cs) - 1 PROVE after[n + 1] = CollectCell(after[n], cs[n + 1])
    <3>1. n + 1 \in 0 .. Len(cs) /\ n + 1 # 0 /\ n + 1 - 1 = n
      BY <1>5
    <3> QED
      BY <1>6, <3>1
  <2> QED
    BY <1>6, <2>1, <2>2
<1>8. EntriesByTurn(cs, GridCells)
  BY EntriesTaken
<1>9. 0 \in P
  <2>1. M \cup HandlesOf(FirstEntries(cs, 0)) = M
    BY <1>8 DEF EntriesByTurn, HandlesOf
  <2>2. Scanned(after[0], E, M \cup HandlesOf(FirstEntries(cs, 0)))
    BY <1>7, <2>1
  <2> QED
    BY <1>5, <2>2
<1>10. ASSUME NEW n \in 0 .. Len(cs) - 1, n \in P PROVE n + 1 \in P
  <2>1. Scanned(after[n], E, M \cup HandlesOf(FirstEntries(cs, n)))
    BY <1>10
  <2>2. cs[n + 1] \in GridCells /\ n + 1 \in 0 .. Len(cs)
    BY <1>5
  <2>3. Scanned(CollectCell(after[n], cs[n + 1]), E, (M \cup HandlesOf(FirstEntries(cs, n))) \cup ToSet(listed[cs[n + 1]]))
    BY <2>1, <2>2, HandlesScan DEF CollectCell
  <2>4. (M \cup HandlesOf(FirstEntries(cs, n))) \cup ToSet(listed[cs[n + 1]]) = M \cup HandlesOf(FirstEntries(cs, n + 1))
    BY <1>8 DEF EntriesByTurn, HandlesOf
  <2>5. Scanned(after[n + 1], E, M \cup HandlesOf(FirstEntries(cs, n + 1)))
    BY <1>7, <2>3, <2>4
  <2> QED
    BY <2>2, <2>5
<1>11. Len(cs) \in P
  <2> HIDE DEF P
  <2>1. 0 .. Len(cs) \subseteq P
    BY <1>5, <1>9, <1>10, EveryTurn
  <2> QED
    BY <1>5, <2>1
<1>12. Scanned(after[Len(cs)], E, M \cup HandlesOf(ToSet(cs)))
  BY <1>11, <1>8 DEF EntriesByTurn
<1> QED
  BY <1>12 DEF after

-----------------------------------------------------------------------------
(* The answers. *)

\* Between queries no marker is of an epoch that is yet to come.
ScratchInv ==
    /\ query_epoch \in 0 .. EpochLimit - 1
    /\ seen_dense \in [Slots -> Mark] /\ seen_collisions \in [Slots -> Nat]
    /\ \A i \in Slots : seen_dense[i].epoch <= query_epoch /\ seen_collisions[i] <= query_epoch

\* The index is sound, and an entity lies in the cells of its bounds.
QueryInv ==
    /\ IndexMaps(listed_cells, listed, Handles, GridCells)
    /\ box \in [Handles -> SUBSET Boxes]
    /\ \A h \in Handles : listed_cells[h] = UNION {CellsForAabb(aabb) : aabb \in box[h]}
    /\ ScratchInv

\* begin_query leaves no marker of its epoch.
LEMMA BegunScans ==
    ASSUME ScratchInv
    PROVE  Scanned(Begun, Begun.epoch, {}) /\ Begun.epoch \in 0 .. EpochLimit - 1
<1> DEFINE next == (query_epoch + 1) % EpochLimit
           E == IF next = 0 THEN 1 ELSE next
           dense == IF next = 0 THEN [i \in Slots |-> Unmarked] ELSE seen_dense
           collisions == IF next = 0 THEN [i \in Slots |-> 0] ELSE seen_collisions
<1>1. /\ EpochLimit \in Nat \ {0, 1} /\ query_epoch \in 0 .. EpochLimit - 1
  BY QueryAssumption DEF ScratchInv
<1>2. next = IF query_epoch + 1 = EpochLimit THEN 0 ELSE query_epoch + 1
  BY <1>1
<1>3. /\ seen_dense \in [Slots -> Mark] /\ seen_collisions \in [Slots -> Nat]
      /\ \A i \in Slots : seen_dense[i].epoch <= query_epoch /\ seen_collisions[i] <= query_epoch
  BY DEF ScratchInv
<1> HIDE DEF next
<1>4. E \in Nat /\ E \in 0 .. EpochLimit - 1
  BY <1>1, <1>2
<1>5. /\ dense \in [Slots -> Mark] /\ collisions \in [Slots -> Nat]
      /\ \A i \in Slots : dense[i].epoch < E /\ collisions[i] < E
  <2>1. CASE next = 0
    BY <2>1 DEF Unmarked, Mark
  <2>2. CASE next # 0
    <3>1. E = query_epoch + 1 /\ dense = seen_dense /\ collisions = seen_collisions
      BY <1>2, <2>2
    <3>2. \A i \in Slots : seen_dense[i].epoch \in Nat /\ seen_collisions[i] \in Nat
      BY <1>3 DEF Mark
    <3>3. \A i \in Slots : dense[i].epoch < E /\ collisions[i] < E
      <4> HIDE DEF E, dense, collisions
      <4> SUFFICES ASSUME NEW i \in Slots PROVE dense[i].epoch < E /\ collisions[i] < E
        OBVIOUS
      <4>1. /\ seen_dense[i].epoch <= query_epoch /\ seen_collisions[i] <= query_epoch
            /\ seen_dense[i].epoch \in Nat /\ seen_collisions[i] \in Nat /\ query_epoch \in Nat
        BY <1>1, <1>3, <3>2
      <4>2. /\ dense[i].epoch = seen_dense[i].epoch /\ collisions[i] = seen_collisions[i]
        BY <3>1
      <4> QED
        BY <3>1, <4>1, <4>2
    <3> QED
      BY <1>3, <3>1, <3>3
  <2> QED
    BY <2>1, <2>2
<1>6. Begun = [epoch |-> E, dense |-> dense, collisions |-> collisions, sparse |-> {},
               handles |-> <<>>]
  BY DEF Begun, next
<1> HIDE DEF E, dense, collisions
<1>7. /\ Begun \in ScanState /\ Begun.epoch = E /\ Begun.dense = dense
      /\ Begun.collisions = collisions /\ Begun.sparse = {} /\ Begun.handles = <<>>
  BY <1>4, <1>5, <1>6 DEF ScanState
<1>8. Lists(Begun, E, {})
  BY <1>7 DEF Lists, Distinct, ToSet
<1>9. Tells(E, dense, collisions, {}, {})
  <2>1. \A i \in Slots : dense[i].epoch \in Nat /\ collisions[i] \in Nat
    BY <1>5 DEF Mark
  <2> QED
    BY <1>4, <1>5, <2>1 DEF Tells
<1> QED
  BY <1>4, <1>7, <1>8, <1>9 DEF Scanned

\* The cells of the grid are ordered as their triples are.
LEMMA GridOrdered ==
    /\ IsFiniteSet(GridCells)
    /\ Orders({x \in GridCells \X GridCells : Before(x[1], x[2])}, GridCells)
<1>1. IsFiniteSet(Axis) /\ Axis \subseteq Int
  BY QueryAssumption
<1>2. IsFiniteSet(GridCells)
  BY <1>1, FS_Product DEF GridCells
<1>0. \A c \in GridCells : c[1] \in Int /\ c[2] \in Int /\ c = <<c[1], c[2]>>
  <2> SUFFICES ASSUME NEW c \in Axis \X Axis
               PROVE  c[1] \in Int /\ c[2] \in Int /\ c = <<c[1], c[2]>>
    BY DEF GridCells
  <2>1. PICK a \in Axis, b \in Axis : c = <<a, b>>
    OBVIOUS
  <2>2. a \in Int /\ b \in Int
    BY <1>1
  <2> QED
    BY <2>1, <2>2
<1> DEFINE R == {x \in GridCells \X GridCells : Before(x[1], x[2])}
<1>3. \A c, d \in GridCells : <<c, d>> \in R <=> Before(c, d)
  OBVIOUS
<1> HIDE DEF R
<1>4. \A c \in GridCells : ~Before(c, c)
  BY <1>0 DEF Before
<1>5. \A c, d \in GridCells : c = d \/ Before(c, d) \/ Before(d, c)
  BY <1>0 DEF Before
<1>6. \A b, c, d \in GridCells : Before(b, c) /\ Before(c, d) => Before(b, d)
  BY <1>0 DEF Before
<1>7. Orders(R, GridCells)
  BY <1>3, <1>4, <1>5, <1>6 DEF Orders
<1> QED
  BY <1>2, <1>7 DEF R

\* What a query collects: every occupied cell of its range, and none outside it.
LEMMA CollectedCells ==
    ASSUME NEW region
    PROVE  /\ Collected(region) \in Seq(GridCells)
           /\ ToSet(Collected(region)) \subseteq CellsForAabb(region)
           /\ \A c \in CellsForAabb(region) : listed[c] # <<>> => c \in ToSet(Collected(region))
<1> DEFINE min == CellAt(region.min)
           max == CellAt(region.max)
           occupied == {c \in GridCells : listed[c] # <<>>}
           inRange == {c \in GridCells : Within(c, min, max)}
           S == IF Volume(min, max) <= Cardinality(occupied) THEN inRange
                                                             ELSE occupied \cap inRange
           R == {x \in GridCells \X GridCells : Before(x[1], x[2])}
<1>1. inRange = CellsForAabb(region)
  BY DEF CellsForAabb
<1>2. S \subseteq inRange /\ occupied \cap inRange \subseteq S /\ S \subseteq GridCells
  OBVIOUS
<1>3. Collected(region) = Sorted(S, R)
  BY DEF Collected
<1>4. IsFiniteSet(GridCells) /\ Orders(R, GridCells)
  BY GridOrdered
<1> HIDE DEF S, R
<1>5. IsFiniteSet(S) /\ Orders(R, S)
  BY <1>2, <1>4, FS_Subset DEF Orders
<1>6. Sorted(S, R) \in Seq(S) /\ ToSet(Sorted(S, R)) = S
  BY <1>5, SortedLists
<1>7. Sorted(S, R) \in Seq(GridCells)
  BY <1>2, <1>6
<1> QED
  BY <1>1, <1>2, <1>3, <1>6, <1>7

\* A query lists once each what the cells of its range list.
LEMMA AnswerScans ==
    ASSUME QueryInv, NEW region
    PROVE  /\ Scanned(Answer(region), Begun.epoch, HandlesOf(ToSet(Collected(region))))
           /\ Begun.epoch \in 0 .. EpochLimit - 1
<1>1. Scanned(Begun, Begun.epoch, {}) /\ Begun.epoch \in 0 .. EpochLimit - 1
  BY BegunScans DEF QueryInv
<1>2. listed \in [GridCells -> Seq(Handles)]
  BY DEF QueryInv, IndexMaps
<1>3. Collected(region) \in Seq(GridCells)
  BY CollectedCells
<1>4. PICK cs \in Seq(GridCells) : cs = Collected(region)
  BY <1>3
<1>5. Scanned(Loop(CollectCell, Begun, cs)[Len(cs)], Begun.epoch, {} \cup HandlesOf(ToSet(cs)))
  BY <1>1, <1>2, CellsScan
<1>6. Answer(region) = Loop(CollectCell, Begun, cs)[Len(cs)]
  BY <1>4 DEF Answer
<1>7. {} \cup HandlesOf(ToSet(cs)) = HandlesOf(ToSet(Collected(region)))
  BY <1>4
<1> QED
  BY <1>1, <1>5, <1>6, <1>7

\* Division by the cell size keeps order.
LEMMA CellsMonotone ==
    ASSUME NEW x \in Int, NEW y \in Int, x <= y
    PROVE  x \div CellSize <= y \div CellSize
<1>1. PICK c \in Nat \ {0} : c = CellSize
  BY QueryAssumption
<1>2. x \div c <= y \div c
  OBVIOUS
<1> QED
  BY <1>1, <1>2

\* Bounds that overlap share a cell.
LEMMA OverlapShares ==
    ASSUME NEW a \in Boxes \cup Regions, NEW b \in Boxes \cup Regions, Overlaps(a, b)
    PROVE  CellsForAabb(a) \cap CellsForAabb(b) # {}
<1> DEFINE p(axis) == IF a.min[axis] <= b.min[axis] THEN b.min[axis] ELSE a.min[axis]
           at(axis) == p(axis) \div CellSize
           cell == <<at(1), at(2)>>
<1>1. ASSUME NEW axis \in 1 .. 2
      PROVE  /\ at(axis) \in Axis
             /\ CellAt(a.min)[axis] <= at(axis) /\ at(axis) <= CellAt(a.max)[axis]
             /\ CellAt(b.min)[axis] <= at(axis) /\ at(axis) <= CellAt(b.max)[axis]
  <2>1. /\ a.min[axis] \in Int /\ a.max[axis] \in Int /\ b.min[axis] \in Int /\ b.max[axis] \in Int
        /\ a.min[axis] <= a.max[axis] /\ b.min[axis] <= b.max[axis]
    BY QueryAssumption DEF Within
  <2>2. a.min[axis] <= b.max[axis] /\ a.max[axis] >= b.min[axis]
    BY DEF Overlaps
  <2>3. /\ p(axis) \in Int
        /\ a.min[axis] <= p(axis) /\ p(axis) <= a.max[axis]
        /\ b.min[axis] <= p(axis) /\ p(axis) <= b.max[axis]
    BY <2>1, <2>2
  <2>4. /\ CellAt(a.min)[axis] = a.min[axis] \div CellSize
        /\ CellAt(a.max)[axis] = a.max[axis] \div CellSize
        /\ CellAt(b.min)[axis] = b.min[axis] \div CellSize
        /\ CellAt(b.max)[axis] = b.max[axis] \div CellSize
    BY DEF CellAt
  <2>5. CellAt(a.min)[axis] \in Axis /\ CellAt(b.min)[axis] \in Axis
    BY QueryAssumption DEF GridCells
  <2>6. at(axis) \in Axis
    BY <2>4, <2>5
  <2> HIDE DEF p
  <2> QED
    BY <2>1, <2>3, <2>4, <2>6, CellsMonotone
<1>2. cell \in GridCells /\ \A axis \in 1 .. 2 : cell[axis] = at(axis)
  BY <1>1 DEF GridCells
<1> HIDE DEF at, cell
<1>3. Within(cell, CellAt(a.min), CellAt(a.max)) /\ Within(cell, CellAt(b.min), CellAt(b.max))
  BY <1>1, <1>2 DEF Within
<1> QED
  BY <1>2, <1>3 DEF CellsForAabb

\* From such a state every query finds what it should.
LEMMA AnswersRight == QueryInv => QueriesExact
<1> SUFFICES ASSUME QueryInv, NEW region \in Regions
             PROVE  /\ \A h \in Handles :
                          /\ (\E aabb \in box[h] : Overlaps(aabb, region))
                                => h \in ToSet(Answer(region).handles)
                          /\ h \in ToSet(Answer(region).handles)
                                => listed_cells[h] \cap CellsForAabb(region) # {}
                    /\ Len(Answer(region).handles) = Cardinality(ToSet(Answer(region).handles))
  BY DEF QueriesExact
<1> DEFINE C == ToSet(Collected(region))
<1>1. /\ Answer(region).handles \in Seq(Handles) /\ Distinct(Answer(region).handles)
      /\ ToSet(Answer(region).handles) = HandlesOf(C)
  BY AnswerScans DEF Scanned, Lists, ScanState
<1>2. /\ C \subseteq CellsForAabb(region)
      /\ \A c \in CellsForAabb(region) : listed[c] # <<>> => c \in C
  BY CollectedCells
<1> HIDE DEF C
<1>3. CellsForAabb(region) \subseteq GridCells
  BY DEF CellsForAabb
<1>4. \A c \in GridCells, h \in Handles : c \in listed_cells[h] <=> h \in ToSet(listed[c])
  BY DEF QueryInv, IndexMaps
<1>5. ASSUME NEW h \in Handles, NEW aabb \in box[h], Overlaps(aabb, region)
      PROVE  h \in HandlesOf(C)
  <2>1. aabb \in Boxes
    BY DEF QueryInv
  <2>2. PICK c \in CellsForAabb(aabb) : c \in CellsForAabb(region)
    BY <1>5, <2>1, OverlapShares
  <2>3. c \in listed_cells[h] /\ c \in GridCells
    BY <1>3, <2>2 DEF QueryInv
  <2>4. h \in ToSet(listed[c])
    BY <1>4, <2>3
  <2>5. listed[c] # <<>>
    BY <2>4 DEF ToSet
  <2> QED
    BY <1>2, <2>2, <2>4, <2>5 DEF HandlesOf
<1>6. ASSUME NEW h \in Handles, h \in HandlesOf(C)
      PROVE  listed_cells[h] \cap CellsForAabb(region) # {}
  <2>1. PICK c \in C : h \in ToSet(listed[c])
    BY <1>6 DEF HandlesOf
  <2> QED
    BY <1>2, <1>3, <1>4, <2>1
<1>7. Len(Answer(region).handles) = Cardinality(ToSet(Answer(region).handles))
  BY <1>1, DistinctLen
<1> QED
  BY <1>1, <1>5, <1>6, <1>7

\* The empty index and a fresh scratch.
LEMMA QueryStarts == QueryInit => QueryInv
<1> SUFFICES ASSUME QueryInit PROVE QueryInv
  OBVIOUS
<1>1. /\ listed_cells = [h \in Handles |-> {}] /\ listed = [c \in GridCells |-> <<>>]
      /\ box = [h \in Handles |-> {}] /\ query_epoch = 0
      /\ seen_dense = [i \in Slots |-> Unmarked] /\ seen_collisions = [i \in Slots |-> 0]
  BY DEF QueryInit, Listing!IndexInit
<1>2. IndexMaps(listed_cells, listed, Handles, GridCells)
  BY <1>1 DEF IndexMaps, Distinct, ToSet
<1>3. ScratchInv
  BY <1>1, QueryAssumption DEF ScratchInv, Unmarked, Mark
<1> QED
  BY <1>1, <1>2, <1>3 DEF QueryInv

\* upsert, remove and query_aabb_into.
LEMMA QuerySteps == QueryInv /\ [QueryNext]_queryVars => QueryInv'
<1> SUFFICES ASSUME QueryInv, [QueryNext]_queryVars PROVE QueryInv'
  OBVIOUS
<1>0. /\ IndexMaps(listed_cells, listed, Handles, GridCells) /\ ScratchInv
      /\ box \in [Handles -> SUBSET Boxes]
      /\ \A h \in Handles : listed_cells[h] = UNION {CellsForAabb(aabb) : aabb \in box[h]}
  BY DEF QueryInv
<1>1. ASSUME NEW h \in Handles, NEW boxes \in SUBSET Boxes, NEW next \in SUBSET GridCells,
             next = UNION {CellsForAabb(aabb) : aabb \in boxes},
             listed' = Listing!MembershipDiff(h, listed_cells[h], next),
             listed_cells' = [listed_cells EXCEPT ![h] = next],
             box' = [box EXCEPT ![h] = boxes], UNCHANGED scratchVars
      PROVE  QueryInv'
  <2>0. PICK at, lists, moved, diff :
           /\ at = listed_cells /\ lists = listed /\ moved = listed_cells' /\ diff = listed'
    OBVIOUS
  <2>1. IndexMaps(listed_cells', listed', Handles, GridCells)
    <3>1. \A c \in GridCells : Listing!RemoveFirst(lists[c], h) = RemoveFirst(lists[c], h)
      BY DEF Listing!RemoveFirst, RemoveFirst, Listing!RemoveAt, RemoveAt, Listing!SelectInSeq, SelectInSeq, Listing!Min, Min
    <3>2. diff = [c \in GridCells |-> CASE c \in at[h] \ next -> RemoveFirst(lists[c], h)
                                        [] c \in next \ at[h] -> Append(lists[c], h)
                                        [] OTHER -> lists[c]]
      BY <1>1, <2>0, <3>1 DEF Listing!MembershipDiff
    <3>3. IndexMaps(at, lists, Handles, GridCells) /\ moved = [at EXCEPT ![h] = next]
      BY <1>0, <1>1, <2>0
    <3>4. DiffMoves(at, lists, h, next, moved, diff, GridCells)
      BY <3>2, <3>3 DEF DiffMoves
    <3>5. IndexMaps(moved, diff, Handles, GridCells)
      BY <3>3, <3>4, DiffKeepsMaps
    <3> QED
      BY <2>0, <3>5
  <2>2. ScratchInv'
    BY <1>0, <1>1 DEF ScratchInv, scratchVars
  <2>3. box' \in [Handles -> SUBSET Boxes]
    BY <1>0, <1>1
  <2>4. listed_cells \in [Handles -> SUBSET GridCells]
    BY <1>0 DEF IndexMaps
  <2>5. \A g \in Handles : listed_cells'[g] = UNION {CellsForAabb(aabb) : aabb \in box'[g]}
    BY <1>0, <1>1, <2>4
  <2> QED
    BY <2>1, <2>2, <2>3, <2>5 DEF QueryInv
<1>2. ASSUME NEW h \in Handles, RemoveBox(h) PROVE QueryInv'
  <2>1. {} = UNION {CellsForAabb(aabb) : aabb \in {}}
    OBVIOUS
  <2> QED
    BY <1>1, <1>2, <2>1 DEF RemoveBox, Listing!IndexRemove
<1>3. ASSUME NEW h \in Handles, NEW aabb \in Boxes, UpsertBox(h, aabb) PROVE QueryInv'
  <2>1. CellsForAabb(aabb) \in SUBSET GridCells
    BY DEF CellsForAabb
  <2>2. CellsForAabb(aabb) = UNION {CellsForAabb(b) : b \in {aabb}}
    OBVIOUS
  <2> QED
    BY <1>1, <1>3, <2>1, <2>2 DEF UpsertBox, Listing!IndexUpsert
<1>4. ASSUME NEW region \in Regions, Query(region) PROVE QueryInv'
  <2>1. PICK s : s = Answer(region)
    OBVIOUS
  <2>2. /\ s \in ScanState /\ s.epoch = Begun.epoch /\ Begun.epoch \in 0 .. EpochLimit - 1
        /\ \A i \in Slots : s.dense[i].epoch <= s.epoch /\ s.collisions[i] <= s.epoch
    <3>1. PICK E, M : /\ Scanned(s, E, M) /\ E = Begun.epoch
                      /\ Begun.epoch \in 0 .. EpochLimit - 1
      BY <1>0, <2>1, AnswerScans
    <3>2. s \in ScanState /\ s.epoch = E
      BY <3>1 DEF Scanned, Lists
    <3>3. \A i \in Slots : s.dense[i].epoch <= E /\ s.collisions[i] <= E
      BY <3>1 DEF Scanned, Tells
    <3> QED
      BY <3>1, <3>2, <3>3
  <2>3. /\ query_epoch' = s.epoch /\ seen_dense' = s.dense /\ seen_collisions' = s.collisions
        /\ UNCHANGED <<listed_cells, listed, box>>
    BY <1>4, <2>1 DEF Query
  <2>4. ScratchInv'
    BY <2>2, <2>3 DEF ScratchInv, ScanState
  <2> QED
    BY <1>0, <2>3, <2>4 DEF QueryInv
<1>5. CASE UNCHANGED queryVars
  BY <1>0, <1>5 DEF queryVars, scratchVars, QueryInv, ScratchInv
<1> QED
  BY <1>2, <1>3, <1>4, <1>5 DEF QueryNext

\* Whatever was indexed, moved, removed and asked before, with the same scratch
\* and across the wrap of its epoch, a query answers exactly.
THEOREM QueriesExactHolds == QuerySpec => []QueriesExact
<1>1. QuerySpec => []QueryInv
  BY QueryStarts, QuerySteps, PTL DEF QuerySpec
<1> QED
  BY <1>1, AnswersRight, PTL

-----------------------------------------------------------------------------
(* The component store. *)

\* What a column has of an owner.
Entry(column, owner) ==
    IF column # NoColumn /\ owner \in DOMAIN column THEN column[owner] ELSE NoBlob

\* Columns lie in the vector below its limit and in the map from there.
ColumnsTyped ==
    /\ \A k \in DOMAIN dense_columns :
          /\ k \in 1 .. DenseComponentColumnLimit
          /\ dense_columns[k] \in BlobColumn \cup {NoColumn}
          /\ dense_columns[k] # NoColumn => k - 1 \in ComponentIdsOf
    /\ \A id \in DOMAIN sparse_columns :
          id \in ComponentIdsOf /\ ~IsDense(id) /\ sparse_columns[id] \in BlobColumn

\* Every entry of every column is the blob that was last written there.
EntriesCurrent ==
    /\ blobs \in [ComponentIdsOf \X Owners -> BlobRecord \cup {NoBlob}]
    /\ \A id \in ComponentIdsOf, owner \in Owners :
          Entry(Column(id), owner) = blobs[<<id, owner>>]

\* What is registered lies at its id, was validated, and shares no name.
RegistryTyped ==
    /\ \A k \in DOMAIN descriptors :
          /\ k \in Nat \ {0}
          /\ descriptors[k] # NoDescriptor =>
                /\ descriptors[k] \in Schemas /\ Valid(descriptors[k])
                /\ descriptors[k].id = k - 1
    /\ \A d, e \in Registered : d.name = e.name => d = e

\* The columns, what they hold, and the registry.
ComponentInv == ColumnsTyped /\ EntriesCurrent /\ RegistryTyped

\* Component ids are numbers.
LEMMA IdsAreNumbers == \A id \in ComponentIdsOf : id \in Nat
BY ComponentAssumption DEF ComponentIdsOf

\* A column has blobs of owners.
LEMMA InColumn ==
    ASSUME NEW c \in BlobColumn
    PROVE  /\ DOMAIN c \subseteq Owners /\ c = [o \in DOMAIN c |-> c[o]] /\ c # NoColumn
           /\ \A o \in DOMAIN c : c[o] \in BlobRecord /\ c[o] # NoBlob
<1>1. PICK owners \in SUBSET Owners : c \in [owners -> BlobRecord]
  BY DEF BlobColumn
<1>2. NoColumn \notin BlobColumn /\ NoBlob \notin BlobRecord
  BY ComponentAssumption
<1> HIDE DEF BlobColumn, BlobRecord
<1> QED
  BY <1>1, <1>2

\* What makes a column.
LEMMA MakesColumn ==
    ASSUME NEW owners \in SUBSET Owners, NEW c \in [owners -> BlobRecord]
    PROVE  c \in BlobColumn
BY DEF BlobColumn

\* The column of a component is one, or there is none.
LEMMA ColumnType ==
    ASSUME ColumnsTyped, NEW id \in ComponentIdsOf
    PROVE  Column(id) \in BlobColumn \cup {NoColumn}
BY IdsAreNumbers DEF ColumnsTyped, Column, IsDense

\* An empty column for none.
LEMMA ColumnMade ==
    ASSUME ColumnsTyped, NEW id \in ComponentIdsOf
    PROVE  /\ ColumnOrEmpty(id) \in BlobColumn
           /\ \A o \in Owners : Entry(ColumnOrEmpty(id), o) = Entry(Column(id), o)
<1>1. CASE Column(id) = NoColumn
  <2>1. ColumnOrEmpty(id) = <<>>
    BY <1>1 DEF ColumnOrEmpty
  <2>2. << >> \in [{} -> BlobRecord] /\ DOMAIN << >> = {}
    OBVIOUS
  <2>3. ColumnOrEmpty(id) \in BlobColumn
    BY <2>1, <2>2, MakesColumn
  <2> QED
    BY <1>1, <2>1, <2>2, <2>3 DEF Entry
<1>2. CASE Column(id) # NoColumn
  BY <1>2, ColumnType DEF ColumnOrEmpty
<1> QED
  BY <1>1, <1>2

\* A column with a blob for one owner.
LEMMA WithEntry ==
    ASSUME NEW c \in BlobColumn, NEW owner \in Owners, NEW blob \in BlobRecord
    PROVE  /\ With(c, owner, blob) \in BlobColumn
           /\ \A o \in Owners : Entry(With(c, owner, blob), o) = IF o = owner THEN blob ELSE Entry(c, o)
<1>0. /\ DOMAIN c \subseteq Owners /\ c # NoColumn
      /\ \A o \in DOMAIN c : c[o] \in BlobRecord
  BY InColumn
<1> DEFINE w == [o \in DOMAIN c \cup {owner} |-> IF o = owner THEN blob ELSE c[o]]
<1>1. With(c, owner, blob) = w
  BY DEF With
<1>2. w \in [DOMAIN c \cup {owner} -> BlobRecord] /\ DOMAIN c \cup {owner} \in SUBSET Owners
  BY <1>0
<1>3. w \in BlobColumn
  BY <1>2, MakesColumn
<1>4. w # NoColumn
  BY <1>3, InColumn
<1> QED
  BY <1>0, <1>1, <1>3, <1>4 DEF Entry

\* A column without the blob of an owner.
LEMMA OwnerWithoutEntry ==
    ASSUME NEW c \in BlobColumn, NEW owner \in Owners
    PROVE  /\ Without(c, owner) \in BlobColumn
           /\ \A o \in Owners : Entry(Without(c, owner), o) = IF o = owner THEN NoBlob ELSE Entry(c, o)
<1>0. /\ DOMAIN c \subseteq Owners /\ c # NoColumn
      /\ \A o \in DOMAIN c : c[o] \in BlobRecord
  BY InColumn
<1> DEFINE w == [o \in DOMAIN c \ {owner} |-> c[o]]
<1>1. Without(c, owner) = w
  BY DEF Without
<1>2. w \in [DOMAIN c \ {owner} -> BlobRecord] /\ DOMAIN c \ {owner} \in SUBSET Owners
  BY <1>0
<1>3. w \in BlobColumn
  BY <1>2, MakesColumn
<1>4. w # NoColumn
  BY <1>3, InColumn
<1> QED
  BY <1>0, <1>1, <1>3, <1>4 DEF Entry

\* A blob whose change has been sent.
Clean(blob) == [blob EXCEPT !.dirty = FALSE]

\* It is a blob.
LEMMA CleanBlobType == \A blob \in BlobRecord : Clean(blob) \in BlobRecord /\ Clean(blob) # NoBlob
BY ComponentAssumption DEF Clean, BlobRecord

\* A column with the blob of an owner marked as clean.
LEMMA CleanedEntry ==
    ASSUME NEW c \in BlobColumn, NEW owner \in Owners
    PROVE  /\ Cleaned(c, owner) \in BlobColumn
           /\ \A o \in Owners : Entry(Cleaned(c, owner), o) =
                 IF o = owner /\ Entry(c, o) # NoBlob THEN Clean(Entry(c, o)) ELSE Entry(c, o)
<1>0. /\ DOMAIN c \subseteq Owners /\ c # NoColumn /\ c = [o \in DOMAIN c |-> c[o]]
      /\ \A o \in DOMAIN c : c[o] \in BlobRecord /\ c[o] # NoBlob
  BY InColumn
<1>1. CASE owner \in DOMAIN c
  <2> DEFINE w == [o \in DOMAIN c |-> IF o = owner THEN Clean(c[owner]) ELSE c[o]]
  <2>1. Cleaned(c, owner) = w
    <3>1. Cleaned(c, owner) = [c EXCEPT ![owner] = Clean(c[owner])]
      BY <1>1 DEF Cleaned, Clean
    <3> QED
      BY <1>0, <3>1
  <2>2. w \in [DOMAIN c -> BlobRecord]
    BY <1>0, CleanBlobType
  <2>3. w \in BlobColumn
    BY <1>0, <2>2, MakesColumn
  <2>4. w # NoColumn
    BY <2>3, InColumn
  <2> QED
    BY <1>0, <1>1, <2>1, <2>3, <2>4 DEF Entry
<1>2. CASE owner \notin DOMAIN c
  BY <1>2 DEF Cleaned, Entry
<1> QED
  BY <1>1, <1>2

\* Writing columns: the vector and the map take them, and no other changes.
LEMMA ColumnsWritten ==
    ASSUME ColumnsTyped, NEW new, DOMAIN new \subseteq ComponentIdsOf,
           \A id \in DOMAIN new : new[id] \in BlobColumn, SetColumns(new)
    PROVE  /\ ColumnsTyped'
           /\ \A id \in ComponentIdsOf : Column(id)' = IF id \in DOMAIN new THEN new[id] ELSE Column(id)
<1> DEFINE dense == {id \in DOMAIN new : IsDense(id)}
           sparse == DOMAIN new \ dense
           reached == DOMAIN dense_columns \cup UNION {1 .. id + 1 : id \in dense}
<1>1. dense_columns' = [k \in reached |-> IF k - 1 \in dense THEN new[k - 1]
                                          ELSE IF k \in DOMAIN dense_columns THEN dense_columns[k]
                                          ELSE NoColumn]
  BY DEF SetColumns
<1>2. sparse_columns' = [id \in DOMAIN sparse_columns \cup sparse |->
                           IF id \in sparse THEN new[id] ELSE sparse_columns[id]]
  BY DEF SetColumns
<1>3. \A id \in dense : id \in Nat /\ id < DenseComponentColumnLimit /\ new[id] \in BlobColumn
                        /\ id \in ComponentIdsOf
  BY IdsAreNumbers DEF IsDense
<1>4. \A k \in reached : k \in 1 .. DenseComponentColumnLimit
  <2>1. \A id \in dense : \A k \in 1 .. id + 1 : k \in 1 .. DenseComponentColumnLimit
    BY <1>3, ComponentAssumption
  <2>2. \A k \in DOMAIN dense_columns : k \in 1 .. DenseComponentColumnLimit
    BY DEF ColumnsTyped
  <2> HIDE DEF dense
  <2> QED
    BY <2>1, <2>2
<1>5. \A id \in dense : id + 1 \in reached /\ id + 1 - 1 = id
  BY <1>3
<1>6. \A id \in sparse : id \in ComponentIdsOf /\ ~IsDense(id) /\ new[id] \in BlobColumn
  OBVIOUS
<1>7. ColumnsTyped'
  <2>1. ASSUME NEW k \in DOMAIN dense_columns'
        PROVE  /\ k \in 1 .. DenseComponentColumnLimit
               /\ dense_columns'[k] \in BlobColumn \cup {NoColumn}
               /\ dense_columns'[k] # NoColumn => k - 1 \in ComponentIdsOf
    <3>1. k \in reached
      BY <1>1
    <3> HIDE DEF dense, reached
    <3> QED
      BY <1>1, <1>3, <1>4, <3>1 DEF ColumnsTyped
  <2>2. ASSUME NEW id \in DOMAIN sparse_columns'
        PROVE  id \in ComponentIdsOf /\ ~IsDense(id) /\ sparse_columns'[id] \in BlobColumn
    <3> HIDE DEF sparse
    <3> QED
      BY <1>2, <1>6 DEF ColumnsTyped
  <2> HIDE DEF dense, sparse, reached
  <2> QED
    BY <2>1, <2>2 DEF ColumnsTyped, IsDense
<1>8. ASSUME NEW id \in ComponentIdsOf
      PROVE  Column(id)' = IF id \in DOMAIN new THEN new[id] ELSE Column(id)
  <2>0. id \in Nat /\ id + 1 - 1 = id
    BY IdsAreNumbers
  <2>1. CASE IsDense(id)
    <3>1. Column(id)' = IF id + 1 \in reached THEN dense_columns'[id + 1] ELSE NoColumn
      BY <1>1, <2>1 DEF Column, IsDense
    <3>2. id \in DOMAIN new <=> id \in dense
      BY <2>1
    <3>3. CASE id \in dense
      <4> HIDE DEF dense, reached
      <4> QED
        BY <1>1, <1>5, <2>0, <3>1, <3>2, <3>3
    <3>4. CASE id \notin dense
      <4>1. Column(id) = IF id + 1 \in DOMAIN dense_columns THEN dense_columns[id + 1] ELSE NoColumn
        BY <2>1 DEF Column
      <4>2. id + 1 \in DOMAIN dense_columns => id + 1 \in reached
        OBVIOUS
      <4> HIDE DEF dense, reached
      <4>3. CASE id + 1 \in reached
        <5>1. dense_columns'[id + 1] = IF id + 1 \in DOMAIN dense_columns THEN dense_columns[id + 1]
                                       ELSE NoColumn
          BY <1>1, <2>0, <3>4, <4>3
        <5> QED
          BY <3>1, <3>2, <3>4, <4>1, <4>3, <5>1
      <4>4. CASE id + 1 \notin reached
        BY <3>1, <3>2, <3>4, <4>1, <4>2, <4>4
      <4> QED
        BY <4>3, <4>4
    <3> QED
      BY <3>3, <3>4
  <2>2. CASE ~IsDense(id)
    <3>1. /\ Column(id) = IF id \in DOMAIN sparse_columns THEN sparse_columns[id] ELSE NoColumn
          /\ Column(id)' = IF id \in DOMAIN sparse_columns' THEN sparse_columns'[id] ELSE NoColumn
      BY <2>2 DEF Column, IsDense
    <3>2. id \in DOMAIN new <=> id \in sparse
      BY <2>2
    <3> HIDE DEF sparse
    <3> QED
      BY <1>2, <3>1, <3>2
  <2> QED
    BY <2>1, <2>2
<1> QED
  BY <1>7, <1>8

\* The columns there are, by their ids.
LEMMA ColumnsHeld ==
    ASSUME ColumnsTyped
    PROVE  /\ \A id \in DOMAIN Columns :
                 id \in ComponentIdsOf /\ Columns[id] = Column(id) /\ Column(id) \in BlobColumn
           /\ \A id \in ComponentIdsOf : id \notin DOMAIN Columns => Column(id) = NoColumn
<1> DEFINE held == {j \in DOMAIN dense_columns : dense_columns[j] # NoColumn}
           dense == {k - 1 : k \in held}
<1>1. /\ DOMAIN Columns = dense \cup DOMAIN sparse_columns
      /\ \A id \in dense \cup DOMAIN sparse_columns : Columns[id] = Column(id)
  BY DEF Columns
<1>2. ASSUME NEW id \in dense
      PROVE  /\ id \in ComponentIdsOf /\ IsDense(id) /\ id + 1 \in DOMAIN dense_columns
             /\ dense_columns[id + 1] \in BlobColumn
  <2>1. PICK k \in DOMAIN dense_columns : dense_columns[k] # NoColumn /\ id = k - 1
    OBVIOUS
  <2>2. k \in 1 .. DenseComponentColumnLimit /\ k - 1 \in ComponentIdsOf /\ dense_columns[k] \in BlobColumn
    BY <2>1 DEF ColumnsTyped
  <2>3. id + 1 = k /\ id < DenseComponentColumnLimit
    BY <2>1, <2>2, ComponentAssumption
  <2> QED
    BY <2>1, <2>2, <2>3 DEF IsDense
<1>3. ASSUME NEW id \in ComponentIdsOf, id \notin dense \cup DOMAIN sparse_columns
      PROVE  Column(id) = NoColumn
  <2>1. id \in Nat /\ id + 1 - 1 = id
    BY IdsAreNumbers
  <2>2. id + 1 \notin held
    BY <1>3, <2>1
  <2> HIDE DEF dense
  <2> QED
    BY <1>3, <2>2 DEF Column
<1> HIDE DEF dense
<1>4. \A id \in dense : Column(id) \in BlobColumn
  BY <1>2 DEF Column
<1>5. \A id \in DOMAIN sparse_columns : id \in ComponentIdsOf /\ Column(id) \in BlobColumn
  BY DEF Column, ColumnsTyped
<1> QED
  BY <1>1, <1>2, <1>3, <1>4, <1>5

\* What writing columns makes of the entries.
LEMMA EntriesWritten ==
    ASSUME ComponentInv, NEW new, DOMAIN new \subseteq ComponentIdsOf,
           \A id \in DOMAIN new : new[id] \in BlobColumn, SetColumns(new),
           blobs' \in [ComponentIdsOf \X Owners -> BlobRecord \cup {NoBlob}],
           \A id \in ComponentIdsOf, owner \in Owners :
              blobs'[<<id, owner>>] = IF id \in DOMAIN new THEN Entry(new[id], owner)
                                                           ELSE blobs[<<id, owner>>],
           UNCHANGED descriptors
    PROVE  ComponentInv'
<1>1. /\ ColumnsTyped'
      /\ \A id \in ComponentIdsOf : Column(id)' = IF id \in DOMAIN new THEN new[id] ELSE Column(id)
  BY ColumnsWritten DEF ComponentInv
<1>2. ASSUME NEW id \in ComponentIdsOf, NEW owner \in Owners
      PROVE  Entry(Column(id)', owner) = blobs'[<<id, owner>>]
  <2>1. Entry(Column(id), owner) = blobs[<<id, owner>>]
    BY DEF ComponentInv, EntriesCurrent
  <2> QED
    BY <1>1, <2>1
<1>3. EntriesCurrent'
  BY <1>2 DEF EntriesCurrent, Entry
<1>4. RegistryTyped'
  BY DEF ComponentInv, RegistryTyped, Registered
<1> QED
  BY <1>1, <1>3, <1>4 DEF ComponentInv

\* The blob of a component and an owner is the entry of the column.
LEMMA BlobEntry ==
    ASSUME ComponentInv, NEW id \in ComponentIdsOf, NEW owner \in Owners
    PROVE  /\ Blob(id, owner) = Entry(Column(id), owner)
           /\ Blob(id, owner) = blobs[<<id, owner>>]
           /\ Blob(id, owner) \in BlobRecord \cup {NoBlob}
           /\ Blob(id, owner) # NoBlob => Column(id) \in BlobColumn
<1>1. Blob(id, owner) = Entry(Column(id), owner)
  BY DEF Blob, Entry
<1>2. Entry(Column(id), owner) = blobs[<<id, owner>>]
  BY DEF ComponentInv, EntriesCurrent
<1>3. blobs[<<id, owner>>] \in BlobRecord \cup {NoBlob}
  BY DEF ComponentInv, EntriesCurrent
<1>4. Blob(id, owner) # NoBlob => Column(id) # NoColumn
  BY DEF Blob
<1>5. Column(id) \in BlobColumn \cup {NoColumn}
  BY ColumnType DEF ComponentInv
<1> QED
  BY <1>1, <1>2, <1>3, <1>4, <1>5

\* What is registered is a schema, at the id it has.
LEMMA RegisteredAt ==
    ASSUME RegistryTyped, NEW d \in Registered
    PROVE  /\ d \in Schemas /\ d.id \in Nat /\ d.id \in ComponentIdsOf /\ Valid(d)
           /\ d.id + 1 \in DOMAIN descriptors /\ descriptors[d.id + 1] = d
           /\ Descriptor(d.id) = d
<1>1. PICK k \in DOMAIN descriptors : d = descriptors[k] /\ d # NoDescriptor
  BY DEF Registered, ToSet
<1>2. k \in Nat \ {0} /\ d \in Schemas /\ Valid(d) /\ d.id = k - 1
  BY <1>1 DEF RegistryTyped
<1>3. d.id + 1 = k /\ d.id \in Nat
  BY <1>2
<1> QED
  BY <1>1, <1>2, <1>3 DEF Descriptor, ComponentIdsOf

\* reserve_component makes an empty column.
LEMMA ReserveKeeps ==
    ASSUME ComponentInv, NEW id \in ComponentIdsOf, ReserveComponent(id)
    PROVE  ComponentInv'
<1> DEFINE new == OneColumn(id, ColumnOrEmpty(id))
<1>1. /\ DOMAIN new = {id} /\ new[id] = ColumnOrEmpty(id) /\ ColumnOrEmpty(id) \in BlobColumn
      /\ \A o \in Owners : Entry(ColumnOrEmpty(id), o) = blobs[<<id, o>>]
  BY ColumnMade DEF ComponentInv, EntriesCurrent, OneColumn
<1>2. SetColumns(new) /\ blobs' = blobs /\ UNCHANGED descriptors
  BY DEF ReserveComponent
<1>3. blobs \in [ComponentIdsOf \X Owners -> BlobRecord \cup {NoBlob}]
  BY DEF ComponentInv, EntriesCurrent
<1> HIDE DEF new
<1> QED
  BY <1>1, <1>2, <1>3, EntriesWritten

\* set_blob.
LEMMA SetBlobKeeps ==
    ASSUME ComponentInv, NEW schema \in Schemas, NEW owner \in Owners, NEW v \in Versions,
           NEW bytes \in Sizes, SetBlob(schema, owner, v, bytes)
    PROVE  ComponentInv'
<1> DEFINE id == schema.id
           blob == [version |-> v, dirty |-> TRUE]
           column == With(ColumnOrEmpty(id), owner, blob)
           new == OneColumn(id, column)
<1>1. id \in ComponentIdsOf /\ blob \in BlobRecord
  BY DEF ComponentIdsOf, BlobRecord
<1>2. SetColumns(new) /\ blobs' = [blobs EXCEPT ![<<id, owner>>] = blob] /\ UNCHANGED descriptors
  BY DEF SetBlob
<1> HIDE DEF id, blob
<1>3. /\ DOMAIN new = {id} /\ new[id] = column /\ column \in BlobColumn
      /\ \A o \in Owners : Entry(column, o) = IF o = owner THEN blob ELSE blobs[<<id, o>>]
  <2>1. DOMAIN new = {id} /\ new[id] = column
    BY DEF OneColumn
  <2> HIDE DEF new
  <2> QED
    BY <1>1, <2>1, ColumnMade, WithEntry DEF ComponentInv, EntriesCurrent
<1>4. blobs \in [ComponentIdsOf \X Owners -> BlobRecord \cup {NoBlob}]
  BY DEF ComponentInv, EntriesCurrent
<1> HIDE DEF new, column
<1>5. /\ blobs' \in [ComponentIdsOf \X Owners -> BlobRecord \cup {NoBlob}]
      /\ \A i \in ComponentIdsOf, o \in Owners :
            blobs'[<<i, o>>] = IF i = id /\ o = owner THEN blob ELSE blobs[<<i, o>>]
  BY <1>1, <1>2, <1>4
<1> QED
  BY <1>1, <1>2, <1>3, <1>5, EntriesWritten

\* get_blob_mut, of a caller that clears one dirty flag.
LEMMA CleanBlobKeeps ==
    ASSUME ComponentInv, NEW id \in ComponentIdsOf, NEW owner \in Owners, CleanBlob(id, owner)
    PROVE  ComponentInv'
<1> DEFINE column == Cleaned(Column(id), owner)
           new == OneColumn(id, column)
<1>1. /\ Blob(id, owner) # NoBlob /\ SetColumns(new)
      /\ blobs' = [blobs EXCEPT ![<<id, owner>>] = Clean(blobs[<<id, owner>>])]
      /\ UNCHANGED descriptors
  BY DEF CleanBlob, Clean
<1>2. Column(id) \in BlobColumn /\ \A o \in Owners : Entry(Column(id), o) = blobs[<<id, o>>]
  BY <1>1, BlobEntry
<1>3. blobs[<<id, owner>>] # NoBlob /\ blobs[<<id, owner>>] \in BlobRecord
  BY <1>1, BlobEntry
<1>4. /\ DOMAIN new = {id} /\ new[id] = column /\ column \in BlobColumn
      /\ \A o \in Owners : Entry(column, o) = IF o = owner THEN Clean(blobs[<<id, o>>])
                                                           ELSE blobs[<<id, o>>]
  <2>1. DOMAIN new = {id} /\ new[id] = column
    BY DEF OneColumn
  <2> HIDE DEF new
  <2> QED
    BY <1>2, <1>3, <2>1, CleanedEntry
<1>5. blobs \in [ComponentIdsOf \X Owners -> BlobRecord \cup {NoBlob}]
  BY DEF ComponentInv, EntriesCurrent
<1> HIDE DEF new, column
<1>6. Clean(blobs[<<id, owner>>]) \in BlobRecord
  BY <1>3, CleanBlobType
<1>7. /\ blobs' \in [ComponentIdsOf \X Owners -> BlobRecord \cup {NoBlob}]
      /\ \A i \in ComponentIdsOf, o \in Owners :
            blobs'[<<i, o>>] = IF i = id /\ o = owner THEN Clean(blobs[<<id, owner>>])
                                                      ELSE blobs[<<i, o>>]
  BY <1>1, <1>5, <1>6
<1> QED
  BY <1>1, <1>4, <1>7, EntriesWritten

\* clear_dirty_for_entity.
LEMMA ClearDirtyKeeps ==
    ASSUME ComponentInv, NEW owner \in Owners, ClearDirtyForEntity(owner)
    PROVE  ComponentInv'
<1> DEFINE new == [id \in DOMAIN Columns |-> Cleaned(Columns[id], owner)]
<1>1. /\ SetColumns(new)
      /\ blobs' = [x \in DOMAIN blobs |-> IF x[2] = owner /\ blobs[x] # NoBlob THEN Clean(blobs[x])
                                          ELSE blobs[x]]
      /\ UNCHANGED descriptors
  BY DEF ClearDirtyForEntity, Clean
<1>2. blobs \in [ComponentIdsOf \X Owners -> BlobRecord \cup {NoBlob}]
  BY DEF ComponentInv, EntriesCurrent
<1>3. /\ \A id \in DOMAIN Columns :
            id \in ComponentIdsOf /\ Columns[id] = Column(id) /\ Column(id) \in BlobColumn
      /\ \A id \in ComponentIdsOf : id \notin DOMAIN Columns => Column(id) = NoColumn
  BY ColumnsHeld DEF ComponentInv
<1>4. \A id \in ComponentIdsOf, o \in Owners : Entry(Column(id), o) = blobs[<<id, o>>]
  BY DEF ComponentInv, EntriesCurrent
<1>5. ASSUME NEW id \in DOMAIN Columns
      PROVE  /\ id \in ComponentIdsOf /\ new[id] \in BlobColumn
             /\ \A o \in Owners : Entry(new[id], o) =
                   IF o = owner /\ blobs[<<id, o>>] # NoBlob THEN Clean(blobs[<<id, o>>])
                                                             ELSE blobs[<<id, o>>]
  <2>1. new[id] = Cleaned(Column(id), owner)
    BY <1>3
  <2> HIDE DEF new
  <2> QED
    BY <1>3, <1>4, <2>1, CleanedEntry
<1>6. ASSUME NEW id \in ComponentIdsOf, id \notin DOMAIN Columns, NEW o \in Owners
      PROVE  blobs[<<id, o>>] = NoBlob
  BY <1>3, <1>4, <1>6 DEF Entry
<1>7. DOMAIN new = DOMAIN Columns
  OBVIOUS
<1> HIDE DEF new
<1>8. blobs' \in [ComponentIdsOf \X Owners -> BlobRecord \cup {NoBlob}]
  BY <1>1, <1>2, CleanBlobType
<1>9. \A id \in ComponentIdsOf, o \in Owners :
         blobs'[<<id, o>>] = IF o = owner /\ blobs[<<id, o>>] # NoBlob THEN Clean(blobs[<<id, o>>])
                                                                     ELSE blobs[<<id, o>>]
  BY <1>1, <1>2
<1>10. \A id \in ComponentIdsOf, o \in Owners :
          blobs'[<<id, o>>] = IF id \in DOMAIN new THEN Entry(new[id], o) ELSE blobs[<<id, o>>]
  BY <1>5, <1>6, <1>7, <1>9
<1> QED
  BY <1>1, <1>5, <1>7, <1>8, <1>10, EntriesWritten

\* clear_entity.
LEMMA ClearEntityKeeps ==
    ASSUME ComponentInv, NEW owner \in Owners, ClearEntity(owner)
    PROVE  ComponentInv'
<1> DEFINE new == Cleared(owner)
<1>1. /\ SetColumns(new)
      /\ blobs' = [x \in DOMAIN blobs |-> IF x[2] = owner THEN NoBlob ELSE blobs[x]]
      /\ UNCHANGED descriptors
  BY DEF ClearEntity
<1>2. blobs \in [ComponentIdsOf \X Owners -> BlobRecord \cup {NoBlob}]
  BY DEF ComponentInv, EntriesCurrent
<1>3. /\ \A id \in DOMAIN Columns :
            id \in ComponentIdsOf /\ Columns[id] = Column(id) /\ Column(id) \in BlobColumn
      /\ \A id \in ComponentIdsOf : id \notin DOMAIN Columns => Column(id) = NoColumn
  BY ColumnsHeld DEF ComponentInv
<1>4. \A id \in ComponentIdsOf, o \in Owners : Entry(Column(id), o) = blobs[<<id, o>>]
  BY DEF ComponentInv, EntriesCurrent
<1>7. DOMAIN new = DOMAIN Columns /\ \A id \in DOMAIN Columns : new[id] = Without(Columns[id], owner)
  BY DEF Cleared
<1> HIDE DEF new
<1>5. ASSUME NEW id \in DOMAIN Columns
      PROVE  /\ id \in ComponentIdsOf /\ new[id] \in BlobColumn
             /\ \A o \in Owners : Entry(new[id], o) = IF o = owner THEN NoBlob ELSE blobs[<<id, o>>]
  BY <1>3, <1>4, <1>7, OwnerWithoutEntry
<1>6. ASSUME NEW id \in ComponentIdsOf, id \notin DOMAIN Columns, NEW o \in Owners
      PROVE  blobs[<<id, o>>] = NoBlob
  BY <1>3, <1>4, <1>6 DEF Entry
<1>8. blobs' \in [ComponentIdsOf \X Owners -> BlobRecord \cup {NoBlob}]
  BY <1>1, <1>2
<1>9. \A id \in ComponentIdsOf, o \in Owners :
         blobs'[<<id, o>>] = IF o = owner THEN NoBlob ELSE blobs[<<id, o>>]
  BY <1>1, <1>2
<1>10. \A id \in ComponentIdsOf, o \in Owners :
          blobs'[<<id, o>>] = IF id \in DOMAIN new THEN Entry(new[id], o) ELSE blobs[<<id, o>>]
  BY <1>5, <1>6, <1>7, <1>9
<1> QED
  BY <1>1, <1>5, <1>7, <1>8, <1>10, EntriesWritten

\* The copy of an entity's components to another owner.
LEMMA CopyKeeps ==
    ASSUME ComponentInv, NEW source \in Owners, NEW target \in Owners,
           CopyForMigration(source, target)
    PROVE  ComponentInv'
<1> DEFINE copied == {d.id : d \in {r \in Registered : /\ r.migration = "Copy"
                                                       /\ Blob(r.id, source) # NoBlob}}
           new == [id \in copied |-> With(Column(id), target, Blob(id, source))]
<1>1. /\ SetColumns(new)
      /\ blobs' = [x \in DOMAIN blobs |-> IF x[1] \in copied /\ x[2] = target
                                          THEN blobs[<<x[1], source>>] ELSE blobs[x]]
      /\ UNCHANGED descriptors
  BY DEF CopyForMigration
<1>2. blobs \in [ComponentIdsOf \X Owners -> BlobRecord \cup {NoBlob}]
  BY DEF ComponentInv, EntriesCurrent
<1>3. \A id \in copied : id \in ComponentIdsOf /\ Blob(id, source) # NoBlob
  BY RegisteredAt DEF ComponentInv
<1> HIDE DEF copied
<1>4. \A id \in ComponentIdsOf, o \in Owners : Entry(Column(id), o) = blobs[<<id, o>>]
  BY DEF ComponentInv, EntriesCurrent
<1>5. ASSUME NEW id \in copied
      PROVE  /\ Column(id) \in BlobColumn /\ Blob(id, source) \in BlobRecord
             /\ Blob(id, source) = blobs[<<id, source>>]
  BY <1>3, BlobEntry
<1>6. ASSUME NEW id \in copied
      PROVE  /\ new[id] \in BlobColumn
             /\ \A o \in Owners : Entry(new[id], o) = IF o = target THEN blobs[<<id, source>>]
                                                                  ELSE blobs[<<id, o>>]
  <2>1. new[id] = With(Column(id), target, Blob(id, source))
    OBVIOUS
  <2> HIDE DEF new
  <2> QED
    BY <1>3, <1>4, <1>5, <2>1, WithEntry
<1>7. DOMAIN new = copied
  OBVIOUS
<1> HIDE DEF new
<1>8. \A x \in ComponentIdsOf \X Owners :
         x[1] \in ComponentIdsOf /\ blobs[<<x[1], source>>] \in BlobRecord \cup {NoBlob}
  BY <1>2
<1>9. blobs' \in [ComponentIdsOf \X Owners -> BlobRecord \cup {NoBlob}]
  BY <1>1, <1>2, <1>8
<1>10. \A id \in ComponentIdsOf, o \in Owners :
          blobs'[<<id, o>>] = IF id \in copied /\ o = target THEN blobs[<<id, source>>]
                                                             ELSE blobs[<<id, o>>]
  BY <1>1, <1>2
<1>11. \A id \in ComponentIdsOf, o \in Owners :
          blobs'[<<id, o>>] = IF id \in DOMAIN new THEN Entry(new[id], o) ELSE blobs[<<id, o>>]
  BY <1>6, <1>7, <1>10
<1> QED
  BY <1>1, <1>3, <1>6, <1>7, <1>9, <1>11, EntriesWritten

\* A schema that is registered.
LEMMA RegisterKeeps ==
    ASSUME ComponentInv, NEW schema \in Schemas, RegisterGeneratedSchema(schema)
    PROVE  ComponentInv'
<1> DEFINE reached == DOMAIN descriptors \cup 1 .. schema.id + 1
<1>1. /\ Valid(schema) /\ Descriptor(schema.id) = NoDescriptor
      /\ \A d \in Registered : d.name # schema.name
      /\ descriptors' = [k \in reached |-> IF k = schema.id + 1 THEN schema
                                           ELSE IF k \in DOMAIN descriptors THEN descriptors[k]
                                           ELSE NoDescriptor]
      /\ UNCHANGED <<dense_columns, sparse_columns, blobs>>
  BY DEF RegisterGeneratedSchema, WithAt
<1>2. schema.id \in Nat /\ schema.id + 1 - 1 = schema.id /\ schema.id + 1 \in reached
  BY ComponentAssumption
<1>3. ASSUME NEW k \in reached
      PROVE  /\ k \in Nat \ {0}
             /\ descriptors'[k] # NoDescriptor =>
                   \/ k = schema.id + 1 /\ descriptors'[k] = schema
                   \/ /\ descriptors'[k] \in Registered /\ descriptors'[k] = descriptors[k]
                      /\ k \in DOMAIN descriptors
  <2>1. k \in Nat \ {0}
    BY <1>2 DEF ComponentInv, RegistryTyped
  <2>2. CASE k \in DOMAIN descriptors
    BY <1>1, <2>1, <2>2 DEF Registered, ToSet
  <2>3. CASE k \notin DOMAIN descriptors
    BY <1>1, <2>1, <2>3
  <2> QED
    BY <2>1, <2>2, <2>3
<1>4. DOMAIN descriptors' = reached
  BY <1>1
<1> HIDE DEF reached
<1>5. ASSUME NEW k \in DOMAIN descriptors'
      PROVE  /\ k \in Nat \ {0}
             /\ descriptors'[k] # NoDescriptor =>
                   /\ descriptors'[k] \in Schemas /\ Valid(descriptors'[k])
                   /\ descriptors'[k].id = k - 1
  BY <1>1, <1>2, <1>3, <1>4 DEF ComponentInv, RegistryTyped
<1>6. ASSUME NEW d \in Registered' PROVE d = schema \/ d \in Registered
  <2>1. PICK k \in DOMAIN descriptors' : d = descriptors'[k] /\ d # NoDescriptor
    BY DEF Registered, ToSet
  <2> QED
    BY <1>3, <1>4, <2>1
<1>7. \A d, e \in Registered' : d.name = e.name => d = e
  BY <1>1, <1>6 DEF ComponentInv, RegistryTyped
<1>8. RegistryTyped'
  BY <1>5, <1>7 DEF RegistryTyped
<1>9. ColumnsTyped'
  BY <1>1 DEF ComponentInv, ColumnsTyped, IsDense
<1>10. EntriesCurrent'
  BY <1>1 DEF ComponentInv, EntriesCurrent, Entry, Column, IsDense
<1> QED
  BY <1>8, <1>9, <1>10 DEF ComponentInv

\* Values by the members of a set of numbers, lowest first.
Tabled(K, f) == [k \in 1 .. Cardinality(K) |-> <<InOrder(K)[k], f[InOrder(K)[k]]>>]

\* A table of T with the n members of K.
IsTable(table, T, K, f, n) ==
    /\ table \in Seq(T) /\ Len(table) = n
    /\ \A k \in 1 .. n : table[k] = <<InOrder(K)[k], f[InOrder(K)[k]]>>

\* The table of a function of those numbers.
LEMMA TabledEntries ==
    ASSUME NEW K, IsFiniteSet(K), K \subseteq Nat, NEW D, K \subseteq D, NEW V, NEW f \in [D -> V]
    PROVE  IsTable(Tabled(K, f), D \X V, K, f, Cardinality(K))
<1>1. Cardinality(K) \in Nat /\ \A k \in 1 .. Cardinality(K) : InOrder(K)[k] \in K
  BY InOrderLists
<1> DEFINE e(k) == <<InOrder(K)[k], f[InOrder(K)[k]]>>
<1>2. \A k \in 1 .. Cardinality(K) : e(k) \in D \X V
  BY <1>1
<1>3. Tabled(K, f) = [k \in 1 .. Cardinality(K) |-> e(k)]
  BY DEF Tabled
<1> HIDE DEF e
<1>4. Tabled(K, f) \in Seq(D \X V) /\ Len(Tabled(K, f)) = Cardinality(K)
  BY <1>1, <1>2, <1>3
<1>5. \A k \in 1 .. Cardinality(K) : Tabled(K, f)[k] = e(k)
  BY <1>3
<1> QED
  BY <1>1, <1>4, <1>5 DEF e, IsTable

\* The table of both is the table of the one and then that of the other.
TableJoins(A, B, f) == Tabled(A, f) \o Tabled(B, f) = Tabled(A \cup B, f)

\* So it is when one lies below the other.
LEMMA TabledJoined ==
    ASSUME NEW A, NEW B, IsFiniteSet(A), IsFiniteSet(B), A \subseteq Nat, B \subseteq Nat,
           AllBelow(A, B), NEW V, NEW f \in [A \cup B -> V]
    PROVE  TableJoins(A, B, f)
<1> DEFINE K == A \cup B
           T == K \X V
           u == Tabled(A, f)
           v == Tabled(B, f)
           w == Tabled(K, f)
<1>0. PICK a \in Nat, b \in Nat : a = Cardinality(A) /\ b = Cardinality(B)
  BY FS_CardinalityType
<1>1. /\ Cardinality(K) = a + b
      /\ \A k \in 1 .. a : InOrder(K)[k] = InOrder(A)[k]
      /\ \A k \in 1 .. b : InOrder(K)[a + k] = InOrder(B)[k]
  <2>1. InOrderJoins(A, B, a, b)
    BY <1>0, InOrderJoined
  <2> QED
    BY <2>1 DEF InOrderJoins
<1>2. IsFiniteSet(K) /\ K \subseteq Nat
  BY FS_Union
<1>3. A \subseteq K /\ B \subseteq K /\ K \subseteq K /\ f \in [K -> V]
  OBVIOUS
<1> HIDE DEF K
<1>4. /\ u \in Seq(T) /\ Len(u) = a
      /\ \A k \in 1 .. a : u[k] = <<InOrder(A)[k], f[InOrder(A)[k]]>>
  <2>1. IsTable(u, T, A, f, a)
    BY <1>0, <1>3, TabledEntries
  <2> QED
    BY <2>1 DEF IsTable
<1>5. /\ v \in Seq(T) /\ Len(v) = b
      /\ \A k \in 1 .. b : v[k] = <<InOrder(B)[k], f[InOrder(B)[k]]>>
  <2>1. IsTable(v, T, B, f, b)
    BY <1>0, <1>3, TabledEntries
  <2> QED
    BY <2>1 DEF IsTable
<1>6. /\ w \in Seq(T) /\ Len(w) = a + b
      /\ \A k \in 1 .. a + b : w[k] = <<InOrder(K)[k], f[InOrder(K)[k]]>>
  <2>1. IsTable(w, T, K, f, Cardinality(K))
    BY <1>2, <1>3, TabledEntries
  <2>2. IsTable(w, T, K, f, a + b)
    BY <1>1, <2>1
  <2> QED
    BY <2>2 DEF IsTable
<1> HIDE DEF T, u, v, w
<1>7. /\ u \o v \in Seq(T) /\ Len(u \o v) = a + b
      /\ \A i \in 1 .. a + b : (u \o v)[i] = IF i <= a THEN u[i] ELSE v[i - a]
  BY <1>4, <1>5, ConcatProperties
<1>8. ASSUME NEW i \in 1 .. a + b PROVE (u \o v)[i] = w[i]
  <2>1. CASE i <= a
    <3>1. i \in 1 .. a
      BY <2>1
    <3>2. InOrder(K)[i] = InOrder(A)[i]
      BY <1>1, <3>1
    <3>3. (u \o v)[i] = u[i]
      BY <1>7, <2>1
    <3>4. u[i] = <<InOrder(A)[i], f[InOrder(A)[i]]>>
      BY <1>4, <3>1
    <3>5. w[i] = <<InOrder(K)[i], f[InOrder(K)[i]]>>
      BY <1>6
    <3> QED
      BY <3>2, <3>3, <3>4, <3>5
  <2>2. CASE ~(i <= a)
    <3>1. PICK j \in 1 .. b : j = i - a /\ i = a + j
      BY <2>2
    <3>2. InOrder(K)[i] = InOrder(B)[j]
      BY <1>1, <3>1
    <3>3. (u \o v)[i] = v[j]
      BY <1>7, <2>2, <3>1
    <3>4. v[j] = <<InOrder(B)[j], f[InOrder(B)[j]]>>
      BY <1>5, <3>1
    <3>5. w[i] = <<InOrder(K)[i], f[InOrder(K)[i]]>>
      BY <1>6
    <3> QED
      BY <3>2, <3>3, <3>4, <3>5
  <2> QED
    BY <2>1, <2>2
<1>9. u \o v = w
  BY <1>6, <1>7, <1>8, SeqEqual
<1> QED
  BY <1>9 DEF u, v, w, K, TableJoins

\* A removal lists an owner's blobs by ascending component.
LEMMA RemovalListed ==
    ASSUME ComponentInv, NEW owner \in Owners
    PROVE  RemovedFrom(owner) = BlobsOf(owner)
<1> DEFINE held == {id \in DOMAIN Columns : owner \in DOMAIN Columns[id]}
           ids == {id \in ComponentIdsOf : blobs[<<id, owner>>] # NoBlob}
           D == {id \in held : IsDense(id)}
           S == {id \in held : ~IsDense(id)}
           f == [id \in ids |-> blobs[<<id, owner>>]]
           V == BlobRecord \cup {NoBlob}
<1>1. /\ \A id \in DOMAIN Columns :
            id \in ComponentIdsOf /\ Columns[id] = Column(id) /\ Column(id) \in BlobColumn
      /\ \A id \in ComponentIdsOf : id \notin DOMAIN Columns => Column(id) = NoColumn
  BY ColumnsHeld DEF ComponentInv
<1>2. \A id \in ComponentIdsOf : Entry(Column(id), owner) = blobs[<<id, owner>>]
  BY DEF ComponentInv, EntriesCurrent
<1>3. ASSUME NEW id \in ComponentIdsOf
      PROVE  /\ id \in held <=> id \in ids
             /\ id \in held => Columns[id][owner] = blobs[<<id, owner>>]
  <2>1. CASE id \in DOMAIN Columns
    <3>1. /\ Columns[id] = Column(id) /\ Column(id) # NoColumn
          /\ owner \in DOMAIN Column(id) => Column(id)[owner] # NoBlob
      BY <1>1, <2>1, InColumn
    <3> QED
      BY <1>2, <2>1, <3>1 DEF Entry
  <2>2. CASE id \notin DOMAIN Columns
    BY <1>1, <1>2, <2>2 DEF Entry
  <2> QED
    BY <2>1, <2>2
<1>4. held = ids /\ \A id \in held : Columns[id][owner] = f[id]
  BY <1>1, <1>3
<1>5. IsFiniteSet(ids) /\ ids \subseteq Nat
  <2>1. IsFiniteSet(ComponentIdsOf)
    BY ComponentAssumption DEF ComponentIdsOf
  <2> QED
    BY <2>1, FS_Subset, IdsAreNumbers
<1>6. f \in [ids -> V]
  BY DEF ComponentInv, EntriesCurrent
<1> HIDE DEF f, V, held, ids
<1>7. D \cup S = ids /\ IsFiniteSet(D) /\ IsFiniteSet(S) /\ D \subseteq Nat /\ S \subseteq Nat
  BY <1>4, <1>5, FS_Subset
<1>8. AllBelow(D, S)
  <2>1. \A a \in D, b \in S : a \in Nat /\ b \in Nat
    BY <1>7
  <2>2. \A a \in D, b \in S : a < DenseComponentColumnLimit /\ ~(b < DenseComponentColumnLimit)
    BY DEF IsDense
  <2> QED
    BY <2>1, <2>2, ComponentAssumption DEF AllBelow
<1>9. ASSUME NEW K \in SUBSET held, IsFiniteSet(K), K \subseteq Nat
      PROVE  [k \in 1 .. Cardinality(K) |-> <<InOrder(K)[k], Columns[InOrder(K)[k]][owner]>>]
                = Tabled(K, f)
  BY <1>4, <1>9, InOrderLists DEF Tabled
<1>10. RemovedFrom(owner) = Tabled(D, f) \o Tabled(S, f)
  <2>1. RemovedFrom(owner) =
           [k \in 1 .. Cardinality(D) |-> <<InOrder(D)[k], Columns[InOrder(D)[k]][owner]>>]
           \o [k \in 1 .. Cardinality(S) |-> <<InOrder(S)[k], Columns[InOrder(S)[k]][owner]>>]
    BY DEF RemovedFrom, held
  <2>2. D \in SUBSET held /\ S \in SUBSET held
    OBVIOUS
  <2> HIDE DEF D, S
  <2> QED
    BY <1>7, <1>9, <2>1, <2>2
<1>11. BlobsOf(owner) = Tabled(ids, f)
  <2>1. BlobsOf(owner) =
           [k \in 1 .. Cardinality(ids) |-> <<InOrder(ids)[k], blobs[<<InOrder(ids)[k], owner>>]>>]
    BY DEF BlobsOf, ids
  <2>2. \A k \in 1 .. Cardinality(ids) : InOrder(ids)[k] \in ids
    BY <1>5, InOrderLists
  <2>3. \A id \in ids : f[id] = blobs[<<id, owner>>]
    BY DEF f
  <2> QED
    BY <2>1, <2>2, <2>3 DEF Tabled
<1> HIDE DEF D, S
<1>12. f \in [D \cup S -> V]
  BY <1>6, <1>7
<1>13. Tabled(D, f) \o Tabled(S, f) = Tabled(D \cup S, f)
  <2>1. TableJoins(D, S, f)
    BY <1>7, <1>8, <1>12, TabledJoined
  <2> QED
    BY <2>1 DEF TableJoins
<1> QED
  BY <1>7, <1>10, <1>11, <1>13

\* A valid layout gives a byte to one field at most.
LEMMA BytesApart ==
    ASSUME NEW d \in Schemas, Valid(d), NEW byte \in Nat
    PROVE  Cardinality({f \in ToSet(d.fields) : f.offset <= byte /\ byte < EndOffset(f)}) <= 1
<1> DEFINE owners == {f \in ToSet(d.fields) : f.offset <= byte /\ byte < EndOffset(f)}
           Fields == [name : STRING, offset : Nat, size : Nat]
<1>1. /\ d.fields \in Seq(Fields) /\ DOMAIN d.fields = 1 .. Len(d.fields)
      /\ \A i \in DOMAIN d.fields : d.fields[i] \in Fields
  <2>1. d.fields \in Seq(Fields)
    BY ComponentAssumption
  <2> HIDE DEF Fields
  <2>2. DOMAIN d.fields = 1 .. Len(d.fields)
    BY <2>1, LenProperties
  <2> QED
    BY <2>1, <2>2, ElementOfSeq
<1>2. ASSUME NEW i \in DOMAIN d.fields, NEW j \in DOMAIN d.fields, i < j,
             d.fields[i] \in owners, d.fields[j] \in owners
      PROVE  FALSE
  <2>1. ~FieldsOverlap(d.fields[i], d.fields[j])
    BY <1>2 DEF Valid
  <2>2. PICK f \in Fields, g \in Fields : f = d.fields[i] /\ g = d.fields[j]
    BY <1>1
  <2>3. f.offset < EndOffset(g) /\ g.offset < EndOffset(f)
    BY <1>2, <2>2 DEF EndOffset
  <2> QED
    BY <2>1, <2>2, <2>3 DEF FieldsOverlap
<1>3. \A f, g \in owners : f = g
  <2> SUFFICES ASSUME NEW f \in owners, NEW g \in owners, f # g PROVE FALSE
    OBVIOUS
  <2>1. PICK i \in DOMAIN d.fields, j \in DOMAIN d.fields : f = d.fields[i] /\ g = d.fields[j]
    BY DEF ToSet
  <2>2. i \in Nat /\ j \in Nat /\ i # j
    BY <1>1, <2>1
  <2> HIDE DEF owners
  <2>3. i < j \/ j < i
    BY ONLY <2>2
  <2> QED
    BY <1>2, <2>1, <2>3
<1>4. CASE owners = {}
  BY <1>4, FS_EmptySet
<1>5. CASE owners # {}
  <2>1. PICK f \in owners : TRUE
    BY <1>5
  <2>2. owners = {f}
    BY <1>3, <2>1
  <2> HIDE DEF owners
  <2>3. Cardinality(owners) = 1
    BY <2>2, FS_Singleton
  <2> QED
    BY <2>3 DEF owners
<1> QED
  BY <1>4, <1>5

\* From it follows what the run checks.
LEMMA ComponentsRight == ComponentInv => ComponentsSound
<1> SUFFICES ASSUME ComponentInv PROVE ComponentsSound
  OBVIOUS
<1>1. \A x \in DOMAIN blobs : Blob(x[1], x[2]) = blobs[x]
  <2> SUFFICES ASSUME NEW x \in ComponentIdsOf \X Owners PROVE Blob(x[1], x[2]) = blobs[x]
    BY DEF ComponentInv, EntriesCurrent
  <2>1. PICK id \in ComponentIdsOf, o \in Owners : x = <<id, o>>
    OBVIOUS
  <2> QED
    BY <2>1, BlobEntry
<1>2. ReadsAsMap
  BY <1>1, RemovalListed DEF ReadsAsMap
<1>3. ASSUME NEW d \in Registered, NEW e \in Registered, d.name = e.name \/ d.id = e.id
      PROVE  d = e
  <2>1. CASE d.name = e.name
    BY <2>1 DEF ComponentInv, RegistryTyped
  <2>2. CASE d.id = e.id
    BY <2>2, RegisteredAt DEF ComponentInv
  <2> QED
    BY <1>3, <2>1, <2>2
<1>4. ASSUME NEW d \in Registered
      PROVE  /\ Descriptor(d.id) = d
             /\ \A byte \in 0 .. d.max_bytes - 1 :
                   Cardinality({f \in ToSet(d.fields) :
                                   f.offset <= byte /\ byte < EndOffset(f)}) <= 1
  <2>1. d \in Schemas /\ Valid(d) /\ Descriptor(d.id) = d
    BY RegisteredAt DEF ComponentInv
  <2>2. \A byte \in 0 .. d.max_bytes - 1 : byte \in Nat
    BY <2>1, ComponentAssumption
  <2> QED
    BY <2>1, <2>2, BytesApart
<1>5. RegistryUnambiguous
  BY <1>3, <1>4 DEF RegistryUnambiguous
<1> QED
  BY <1>2, <1>5 DEF ComponentsSound

\* An empty store.
LEMMA ComponentStarts == ComponentInit => ComponentInv
<1> SUFFICES ASSUME ComponentInit PROVE ComponentInv
  OBVIOUS
<1>1. /\ DOMAIN descriptors = {} /\ DOMAIN dense_columns = {} /\ DOMAIN sparse_columns = {}
      /\ blobs = [x \in ComponentIdsOf \X Owners |-> NoBlob]
  BY DEF ComponentInit
<1>2. \A id \in ComponentIdsOf : Column(id) = NoColumn
  BY <1>1 DEF Column
<1>3. ColumnsTyped
  BY <1>1 DEF ColumnsTyped
<1>4. EntriesCurrent
  BY <1>1, <1>2 DEF EntriesCurrent, Entry
<1>5. RegistryTyped
  BY <1>1 DEF RegistryTyped, Registered, ToSet
<1> QED
  BY <1>3, <1>4, <1>5 DEF ComponentInv

\* Every operation of the store.
LEMMA ComponentSteps == ComponentInv /\ [ComponentNext]_componentVars => ComponentInv'
<1> SUFFICES ASSUME ComponentInv, [ComponentNext]_componentVars PROVE ComponentInv'
  OBVIOUS
<1>1. \A schema \in Schemas : RegisterGeneratedSchema(schema) => ComponentInv'
  BY RegisterKeeps
<1>2. \A schema \in Schemas, owner \in Owners, v \in Versions, bytes \in Sizes :
         SetBlob(schema, owner, v, bytes) => ComponentInv'
  BY SetBlobKeeps
<1>3. \A id \in ComponentIdsOf : ReserveComponent(id) => ComponentInv'
  BY ReserveKeeps
<1>4. \A id \in ComponentIdsOf, owner \in Owners : CleanBlob(id, owner) => ComponentInv'
  BY CleanBlobKeeps
<1>5. \A owner \in Owners : ClearDirtyForEntity(owner) => ComponentInv'
  BY ClearDirtyKeeps
<1>6. \A owner \in Owners : ClearEntity(owner) => ComponentInv'
  BY ClearEntityKeeps
<1>7. \A owner \in Owners, target \in Owners : CopyForMigration(owner, target) => ComponentInv'
  BY CopyKeeps
<1>8. CASE UNCHANGED componentVars
  BY <1>8 DEF componentVars, ComponentInv, ColumnsTyped, EntriesCurrent, RegistryTyped, Registered,
              Column, Entry, IsDense
<1> QED
  BY <1>1, <1>2, <1>3, <1>4, <1>5, <1>6, <1>7, <1>8 DEF ComponentNext

\* Whatever is registered, written, copied and removed, in columns of either
\* kind, the store reads as one map of blobs and its registry is unambiguous.
THEOREM ComponentsSoundHolds == ComponentSpec => []ComponentsSound
<1>1. ComponentSpec => []ComponentInv
  BY ComponentStarts, ComponentSteps, PTL DEF ComponentSpec
<1> QED
  BY <1>1, ComponentsRight, PTL
=============================================================================
