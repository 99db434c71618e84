--------------------------- MODULE Ordered_proofs ---------------------------
(***************************************************************************)
(* Facts about sequences and listings that the proofs about stations,      *)
(* command queues and retry heaps share.                                   *)
(***************************************************************************)
EXTENDS Ordered, SequencesExt, FiniteSetTheorems, SequenceTheorems, TLAPS

-----------------------------------------------------------------------------
(* Sequences without repetitions, and taking one entry out of them. *)

\* No entry is listed twice.
Distinct(s) == \A j, k \in 1 .. Len(s) : s[j] = s[k] => j = k

\* A sequence without repetitions is as long as it has elements.
LEMMA DistinctLen ==
    ASSUME NEW S, NEW s \in Seq(S)
    PROVE  Len(s) = Cardinality(ToSet(s)) <=> Distinct(s)
<1>1. Len(s) \in Nat /\ DOMAIN s = 1 .. Len(s) /\ s \in [1 .. Len(s) -> S]
  OBVIOUS
<1>2. ToSet(s) = {s[i] : i \in 1 .. Len(s)}
  BY <1>1 DEF ToSet
<1>3. s \in Surjection(1 .. Len(s), ToSet(s))
  BY <1>1, <1>2 DEF Surjection
<1>4. IsFiniteSet(1 .. Len(s)) /\ Cardinality(1 .. Len(s)) = Len(s)
  BY <1>1, FS_Interval
<1>5. Cardinality(ToSet(s)) = Len(s) <=> s \in Injection(1 .. Len(s), ToSet(s))
  BY <1>3, <1>4, FS_Surjection
<1>6. s \in Injection(1 .. Len(s), ToSet(s)) <=> Distinct(s)
  BY <1>3 DEF Surjection, Injection, IsInjective, Distinct
<1> QED
  BY <1>5, <1>6

\* Taking the first occurrence of an entry out takes out the place it has.
LEMMA FirstEntry ==
    ASSUME NEW S, NEW s \in Seq(S), NEW h \in S, Distinct(s),
           NEW k \in 1 .. Len(s), s[k] = h
    PROVE  RemoveFirst(s, h) = SubSeq(s, 1, k - 1) \o SubSeq(s, k + 1, Len(s))
<1>1. {i \in 1 .. Len(s) : s[i] = h} = {k}
  BY DEF Distinct
<1>2. RemoveFirst(s, h) = RemoveAt(s, SelectInSeq(s, LAMBDA v : v = h))
  BY DEF RemoveFirst
<1>3. SelectInSeq(s, LAMBDA v : v = h) = k
  BY <1>1 DEF SelectInSeq, Min
<1> QED
  BY <1>2, <1>3 DEF RemoveAt

\* A sequence with its k-th entry taken out.
LEMMA WithoutEntry ==
    ASSUME NEW S, NEW s \in Seq(S), NEW h \in S, Distinct(s),
           NEW k \in 1 .. Len(s), s[k] = h
    PROVE  \E t \in Seq(S) :
              /\ t = RemoveFirst(s, h)
              /\ Len(t) = Len(s) - 1
              /\ \A i \in 1 .. Len(t) : t[i] = IF i < k THEN s[i] ELSE s[i + 1]
<1> DEFINE left == SubSeq(s, 1, k - 1)
           right == SubSeq(s, k + 1, Len(s))
<1>1. Len(s) \in Nat /\ k \in Int /\ 1 <= k /\ k <= Len(s) /\ \A i \in 1 .. Len(s) : s[i] \in S
  OBVIOUS
<1>2. /\ left \in Seq(S) /\ Len(left) = k - 1
      /\ \A i \in 1 .. k - 1 : left[i] = s[i]
  <2>1. \A i \in 1 .. k - 1 : s[i] \in S
    BY <1>1
  <2>2. /\ left \in Seq(S)
        /\ Len(left) = IF 1 <= k - 1 THEN k - 1 - 1 + 1 ELSE 0
        /\ \A i \in 1 .. k - 1 - 1 + 1 : left[i] = s[1 + i - 1]
    BY <1>1, <2>1, SubSeqProperties
  <2> HIDE DEF left
  <2> QED
    BY <1>1, <2>2
<1>3. /\ right \in Seq(S) /\ Len(right) = Len(s) - k
      /\ \A i \in 1 .. Len(s) - k : right[i] = s[k + i]
  <2>1. \A i \in k + 1 .. Len(s) : s[i] \in S
    BY <1>1
  <2>2. /\ right \in Seq(S)
        /\ Len(right) = IF k + 1 <= Len(s) THEN Len(s) - (k + 1) + 1 ELSE 0
        /\ \A i \in 1 .. Len(s) - (k + 1) + 1 : right[i] = s[(k + 1) + i - 1]
    BY <1>1, <2>1, SubSeqProperties
  <2> HIDE DEF right
  <2> QED
    BY <1>1, <2>2
<1>4. PICK t : t = left \o right
  OBVIOUS
<1>0. t = RemoveFirst(s, h)
  BY <1>4, FirstEntry
<1> HIDE DEF left, right
<1>5. /\ t \in Seq(S) /\ Len(t) = Len(left) + Len(right)
      /\ \A i \in 1 .. Len(left) + Len(right) :
            t[i] = IF i <= Len(left) THEN left[i] ELSE right[i - Len(left)]
  <2>1. left \in Seq(S) /\ right \in Seq(S)
    BY <1>2, <1>3
  <2>2. /\ left \o right \in Seq(S)
        /\ Len(left \o right) = Len(left) + Len(right)
        /\ \A i \in 1 .. Len(left) + Len(right) :
              (left \o right)[i] = IF i <= Len(left) THEN left[i] ELSE right[i - Len(left)]
    BY ONLY <2>1, ConcatProperties
  <2> QED
    BY ONLY <1>4, <2>2
<1>6. Len(t) = Len(s) - 1
  <2>1. Len(left) = k - 1 /\ Len(right) = Len(s) - k /\ Len(t) = Len(left) + Len(right)
    BY <1>2, <1>3, <1>5
  <2>2. Len(s) \in Int /\ k \in Int
    BY <1>1
  <2> QED
    BY ONLY <2>1, <2>2
<1>7. ASSUME NEW i \in 1 .. Len(t) PROVE t[i] = IF i < k THEN s[i] ELSE s[i + 1]
  <2>1. CASE i < k
    BY <1>1, <1>2, <1>3, <1>5, <2>1
  <2>2. CASE ~(i < k)
    <3> DEFINE j == i - (k - 1)
    <3>1. j \in 1 .. Len(s) - k /\ k + j = i + 1 /\ ~(i <= k - 1)
      <4>1. Len(s) \in Int /\ k \in Int /\ i \in 1 .. Len(t)
        BY <1>1
      <4> QED
        BY ONLY <1>6, <2>2, <4>1
    <3>2. t[i] = right[j]
      BY <1>1, <1>2, <1>3, <1>5, <3>1
    <3>3. right[j] = s[k + j]
      BY <1>3, <3>1
    <3> QED
      BY <2>2, <3>1, <3>2, <3>3
  <2> QED
    BY <2>1, <2>2
<1> QED
  BY <1>0, <1>5, <1>6, <1>7

\* Leaving a cell takes out exactly the entry of the handle.
LEMMA RemovedEntry ==
    ASSUME NEW S, NEW s \in Seq(S), NEW h \in ToSet(s), Distinct(s)
    PROVE  /\ RemoveFirst(s, h) \in Seq(S)
           /\ Distinct(RemoveFirst(s, h))
           /\ ToSet(RemoveFirst(s, h)) = ToSet(s) \ {h}
<1>1. PICK k \in 1 .. Len(s) : s[k] = h
  BY DEF ToSet
<1>2. PICK t \in Seq(S) :
         /\ t = RemoveFirst(s, h)
         /\ Len(t) = Len(s) - 1
         /\ \A i \in 1 .. Len(t) : t[i] = IF i < k THEN s[i] ELSE s[i + 1]
  <2>1. h \in S
    BY <1>1
  <2> QED
    BY <1>1, <2>1, WithoutEntry
<1>0. t = RemoveFirst(s, h)
  BY <1>2
<1>3. /\ Len(t) = Len(s) - 1 /\ Len(s) \in Nat
      /\ \A i \in 1 .. Len(t) : t[i] = IF i < k THEN s[i] ELSE s[i + 1]
  BY <1>2
<1>4. Distinct(t)
  <2>1. PICK n \in Nat : n = Len(s) /\ Len(t) = n - 1 /\ k \in 1 .. n
    BY ONLY <1>3, k \in 1 .. Len(s)
  <2>2. \A i \in 1 .. n - 1 : \E p \in 1 .. n :
           /\ t[i] = s[p]
           /\ (p = i /\ i < k) \/ (p = i + 1 /\ ~(i < k))
    BY ONLY <1>3, <2>1
  <2>3. \A p, q \in 1 .. n : s[p] = s[q] => p = q
    BY ONLY <2>1, Distinct(s) DEF Distinct
  <2>4. ASSUME NEW i \in 1 .. n - 1, NEW j \in 1 .. n - 1, t[i] = t[j] PROVE i = j
    <3>1. PICK p \in 1 .. n, q \in 1 .. n :
             /\ t[i] = s[p] /\ t[j] = s[q]
             /\ (p = i /\ i < k) \/ (p = i + 1 /\ ~(i < k))
             /\ (q = j /\ j < k) \/ (q = j + 1 /\ ~(j < k))
      BY ONLY <2>2, i \in 1 .. n - 1, j \in 1 .. n - 1
    <3>2. p = q
      BY ONLY <2>3, <2>4, <3>1, p \in 1 .. n, q \in 1 .. n
    <3> QED
      BY ONLY <2>1, <3>1, <3>2, n \in Nat, i \in 1 .. n - 1, j \in 1 .. n - 1
  <2> QED
    BY ONLY <2>1, <2>4 DEF Distinct
<1>5. \A x : x \in ToSet(s) <=> \E j \in 1 .. Len(s) : s[j] = x
  BY DEF ToSet
<1>6. \A x : x \in ToSet(t) <=> \E i \in 1 .. Len(t) : t[i] = x
  BY <1>3 DEF ToSet
<1>7. ASSUME NEW x \in ToSet(t) PROVE x \in ToSet(s) \ {h}
  <2>1. PICK i \in 1 .. Len(t) : t[i] = x
    BY <1>6, <1>7
  <2>2. PICK j \in 1 .. Len(s) : s[j] = x /\ j # k
    BY <1>3, <2>1
  <2> QED
    BY <1>1, <1>5, <2>2 DEF Distinct
<1>8. ASSUME NEW x \in ToSet(s) \ {h} PROVE x \in ToSet(t)
  <2>1. PICK j \in 1 .. Len(s) : s[j] = x /\ j # k
    BY <1>1, <1>5, <1>8
  <2>2. CASE j < k
    BY <1>3, <1>6, <2>1, <2>2
  <2>3. CASE j > k
    <3>1. j - 1 \in 1 .. Len(t) /\ t[j - 1] = s[(j - 1) + 1] /\ (j - 1) + 1 = j
      BY <1>3, <2>1, <2>3
    <3> QED
      BY <1>6, <2>1, <3>1
  <2> QED
    BY <2>1, <2>2, <2>3
<1> QED
  BY <1>0, <1>4, <1>7, <1>8

\* Entering a cell adds the handle behind the others.
LEMMA AddedEntry ==
    ASSUME NEW S, NEW s \in Seq(S), NEW h \in S, h \notin ToSet(s), Distinct(s)
    PROVE  /\ Append(s, h) \in Seq(S)
           /\ Distinct(Append(s, h))
           /\ ToSet(Append(s, h)) = ToSet(s) \cup {h}
<1>1. PICK t : t = Append(s, h)
  OBVIOUS
<1>2. /\ t \in Seq(S) /\ Len(t) = Len(s) + 1 /\ Len(s) \in Nat
      /\ \A i \in 1 .. Len(s) : t[i] = s[i]
      /\ t[Len(s) + 1] = h
  BY <1>1, AppendProperties
<1>3. \A x : x \in ToSet(s) <=> \E j \in 1 .. Len(s) : s[j] = x
  BY DEF ToSet
<1>4. \A x : x \in ToSet(t) <=> \E i \in 1 .. Len(t) : t[i] = x
  BY <1>2 DEF ToSet
<1>5. \A i \in 1 .. Len(t) : i \in 1 .. Len(s) \/ i = Len(s) + 1
  BY <1>2
<1>6. Distinct(t)
  BY <1>2, <1>3, <1>5 DEF Distinct
<1>7. \A x \in ToSet(t) : x \in ToSet(s) \cup {h}
  BY <1>2, <1>3, <1>4, <1>5
<1>8. \A x \in ToSet(s) \cup {h} : x \in ToSet(t)
  BY <1>2, <1>3, <1>4
<1> QED
  BY <1>1, <1>2, <1>6, <1>7, <1>8

\* The two maps of an index of the handles H over the cells C are each other's
\* inverse, and no cell lists a handle twice.
IndexMaps(at, lists, H, C) ==
    /\ at \in [H -> SUBSET C] /\ lists \in [C -> Seq(H)]
    /\ \A c \in C : Distinct(lists[c])
    /\ \A c \in C, h \in H : c \in at[h] <=> h \in ToSet(lists[c])

\* apply_membership_diff: h moves to the cells next.
DiffMoves(at, lists, h, next, moved, diff, C) ==
    /\ moved = [at EXCEPT ![h] = next]
    /\ diff = [c \in C |-> CASE c \in at[h] \ next -> RemoveFirst(lists[c], h)
                             [] c \in next \ at[h] -> Append(lists[c], h)
                             [] OTHER -> lists[c]]

\* It keeps the maps inverse.
LEMMA DiffKeepsMaps ==
    ASSUME NEW H, NEW C, NEW at, NEW lists, IndexMaps(at, lists, H, C), NEW h \in H,
           NEW next \in SUBSET C, NEW moved, NEW diff,
           DiffMoves(at, lists, h, next, moved, diff, C)
    PROVE  IndexMaps(moved, diff, H, C)
<1> /\ moved = [at EXCEPT ![h] = next]
       /\ diff = [c \in C |-> CASE c \in at[h] \ next -> RemoveFirst(lists[c], h)
                                [] c \in next \ at[h] -> Append(lists[c], h)
                                [] OTHER -> lists[c]]
  BY DEF DiffMoves
<1>0. /\ at \in [H -> SUBSET C]
      /\ \A c \in C : /\ lists[c] \in Seq(H) /\ Distinct(lists[c])
                      /\ \A g \in H : c \in at[g] <=> g \in ToSet(lists[c])
  BY DEF IndexMaps
<1>1. ASSUME NEW c \in C
      PROVE  /\ diff[c] \in Seq(H) /\ Distinct(diff[c])
             /\ \A g \in H : g \in ToSet(diff[c]) <=> IF g = h THEN c \in next ELSE c \in at[g]
  <2>1. CASE c \in at[h] \ next
    <3>1. diff[c] = RemoveFirst(lists[c], h)
      BY <2>1
    <3>2. h \in ToSet(lists[c])
      BY <1>0, <2>1
    <3>3. /\ diff[c] \in Seq(H) /\ Distinct(diff[c])
          /\ ToSet(diff[c]) = ToSet(lists[c]) \ {h}
      BY <1>0, <3>1, <3>2, RemovedEntry
    <3> QED
      BY <1>0, <2>1, <3>3
  <2>2. CASE c \in next \ at[h]
    <3>1. diff[c] = Append(lists[c], h)
      BY <2>2
    <3>2. h \notin ToSet(lists[c])
      BY <1>0, <2>2
    <3>3. /\ diff[c] \in Seq(H) /\ Distinct(diff[c])
          /\ ToSet(diff[c]) = ToSet(lists[c]) \cup {h}
      BY <1>0, <3>1, <3>2, AddedEntry
    <3> QED
      BY <1>0, <2>2, <3>3
  <2>3. CASE c \in at[h] <=> c \in next
    <3>1. diff[c] = lists[c]
      BY <2>3
    <3> QED
      BY <1>0, <2>3, <3>1
  <2> QED
    BY <2>1, <2>2, <2>3
<1>2. diff \in [C -> Seq(H)]
  <2>1. DOMAIN diff = C /\ diff = [c \in C |-> diff[c]]
    OBVIOUS
  <2> QED
    BY <1>1, <2>1
<1>3. moved \in [H -> SUBSET C] /\ \A g \in H : moved[g] = IF g = h THEN next ELSE at[g]
  BY <1>0
<1> QED
  BY <1>1, <1>2, <1>3 DEF IndexMaps

-----------------------------------------------------------------------------
(* Listings. *)

\* The listing of a set of slots has each of them once.
LEMMA InOrderLists ==
    ASSUME NEW K, IsFiniteSet(K), K \subseteq Nat
    PROVE  /\ Cardinality(K) \in Nat
           /\ \A k \in 1 .. Cardinality(K) : InOrder(K)[k] \in K
           /\ \A j, k \in 1 .. Cardinality(K) : InOrder(K)[j] = InOrder(K)[k] => j = k
           /\ \A j, k \in 1 .. Cardinality(K) : j < k => InOrder(K)[j] < InOrder(K)[k]
           /\ \A i \in K : \E k \in 1 .. Cardinality(K) : InOrder(K)[k] = i
           /\ \A i \in K, k \in 1 .. Cardinality(K) :
                 Cardinality({j \in K : j <= i}) = k => InOrder(K)[k] = i
           /\ \A k \in 1 .. Cardinality(K) : Cardinality({j \in K : j <= InOrder(K)[k]}) = k
<1> DEFINE below(i) == {j \in K : j <= i}
           rank == [i \in K |-> Cardinality(below(i))]
           n == Cardinality(K)
<1>1. n \in Nat /\ IsFiniteSet(1 .. n) /\ Cardinality(1 .. n) = n
  BY FS_CardinalityType, FS_Interval
<1>2. ASSUME NEW i \in K
      PROVE  /\ IsFiniteSet(below(i)) /\ i \in below(i)
             /\ Cardinality(below(i)) \in 1 .. n
  <2>1. below(i) \in SUBSET K /\ i \in below(i)
    OBVIOUS
  <2>2. IsFiniteSet(below(i)) /\ Cardinality(below(i)) <= n
    BY <2>1, FS_Subset
  <2>3. Cardinality(below(i)) \in Nat /\ Cardinality(below(i)) # 0
    BY <2>1, <2>2, FS_CardinalityType, FS_EmptySet
  <2> QED
    BY <1>1, <2>1, <2>2, <2>3
<1>3. ASSUME NEW i \in K, NEW j \in K, rank[i] = rank[j] PROVE i = j
  <2>1. ASSUME NEW x \in K, NEW y \in K, x < y, rank[x] = rank[y] PROVE FALSE
    <3>0. ~(y <= x) /\ \A z \in K : z <= x => z <= y
      <4>1. x \in Nat /\ y \in Nat /\ \A z \in K : z \in Nat
        OBVIOUS
      <4> QED
        BY <2>1, <4>1
    <3>1. below(x) \in SUBSET below(y) /\ y \notin below(x)
      BY <3>0
    <3>2. Cardinality(below(x)) = Cardinality(below(y))
      BY <2>1
    <3>3. below(x) = below(y)
      BY <1>2, <3>1, <3>2, FS_Subset
    <3> QED
      BY <1>2, <3>1, <3>3
  <2>2. i \in Nat /\ j \in Nat
    OBVIOUS
  <2> QED
    BY <1>3, <2>1, <2>2
<1>4. rank \in Injection(K, 1 .. n)
  BY <1>2, <1>3 DEF Injection, IsInjective
<1>5. rank \in Surjection(K, 1 .. n)
  BY <1>1, <1>4, FS_Injection
<1>6. ASSUME NEW k \in 1 .. n
      PROVE  InOrder(K)[k] \in K /\ rank[InOrder(K)[k]] = k
  <2>1. \E i \in K : Cardinality(below(i)) = k
    BY <1>5 DEF Surjection
  <2>2. InOrder(K)[k] = CHOOSE i \in K : Cardinality(below(i)) = k
    BY DEF InOrder
  <2> HIDE DEF below
  <2>3. InOrder(K)[k] \in K /\ Cardinality(below(InOrder(K)[k])) = k
    BY <2>1, <2>2
  <2> QED
    BY <2>3
<1>7. ASSUME NEW i \in K PROVE rank[i] \in 1 .. n /\ InOrder(K)[rank[i]] = i
  <2>1. rank[i] \in 1 .. n
    BY <1>2
  <2>2. InOrder(K)[rank[i]] \in K /\ rank[InOrder(K)[rank[i]]] = rank[i]
    BY <1>6, <2>1
  <2> QED
    BY <1>3, <2>1, <2>2
<1>8. ASSUME NEW j \in 1 .. n, NEW k \in 1 .. n, j < k
      PROVE  InOrder(K)[j] < InOrder(K)[k]
  <2>1. PICK a \in K, b \in K :
           a = InOrder(K)[j] /\ b = InOrder(K)[k] /\ rank[a] = j /\ rank[b] = k
    BY <1>6
  <2>2. CASE b <= a
    <3>1. \A z \in K : z <= b => z <= a
      <4>1. a \in Nat /\ b \in Nat /\ \A z \in K : z \in Nat
        OBVIOUS
      <4> QED
        BY <2>2, <4>1
    <3>2. below(b) \in SUBSET below(a)
      BY <3>1
    <3>3. Cardinality(below(b)) <= Cardinality(below(a))
      BY <1>2, <3>2, FS_Subset
    <3>4. Cardinality(below(a)) = j /\ Cardinality(below(b)) = k
      BY <2>1
    <3> HIDE DEF below
    <3>5. j \in Int /\ k \in Int /\ k <= j
      BY <1>1, <3>3, <3>4
    <3> QED
      BY <1>8, <3>5
  <2>3. CASE ~(b <= a)
    <3>1. a \in Nat /\ b \in Nat
      OBVIOUS
    <3> QED
      BY <2>1, <2>3, <3>1
  <2> QED
    BY <2>2, <2>3
<1>9. \A i \in K, k \in 1 .. n : Cardinality(below(i)) = k => InOrder(K)[k] = i
  BY <1>7
<1>10. \A k \in 1 .. n : Cardinality(below(InOrder(K)[k])) = k
  <2> SUFFICES ASSUME NEW k \in 1 .. n PROVE Cardinality(below(InOrder(K)[k])) = k
    OBVIOUS
  <2>1. InOrder(K)[k] \in K /\ rank[InOrder(K)[k]] = k
    BY <1>6
  <2> QED
    BY <2>1
<1> HIDE DEF rank
<1>11. /\ \A i \in K, k \in 1 .. n : Cardinality({j \in K : j <= i}) = k => InOrder(K)[k] = i
       /\ \A k \in 1 .. n : Cardinality({j \in K : j <= InOrder(K)[k]}) = k
  BY <1>9, <1>10
<1> QED
  BY <1>1, <1>6, <1>7, <1>8, <1>11

\* Every member of the one is below every member of the other.
AllBelow(A, B) == \A a \in A, b \in B : a < b

\* The members of both sets in order are the a of the one and then the b of the
\* other.
InOrderJoins(A, B, a, b) ==
    /\ Cardinality(A \cup B) = a + b
    /\ \A k \in 1 .. a : InOrder(A \cup B)[k] = InOrder(A)[k]
    /\ \A k \in 1 .. b : InOrder(A \cup B)[a + k] = InOrder(B)[k]

\* So it is when one lies below the other.
LEMMA InOrderJoined ==
    ASSUME NEW A, NEW B, IsFiniteSet(A), IsFiniteSet(B), A \subseteq Nat, B \subseteq Nat,
           AllBelow(A, B)
    PROVE  InOrderJoins(A, B, Cardinality(A), Cardinality(B))
<1>0. PICK a \in Nat, b \in Nat : a = Cardinality(A) /\ b = Cardinality(B)
  BY FS_CardinalityType
<1>1. /\ Cardinality(A) \in Nat /\ Cardinality(B) \in Nat
      /\ IsFiniteSet(A \cup B) /\ A \cup B \subseteq Nat
  BY FS_CardinalityType, FS_Union
<1>2. ASSUME NEW C \in SUBSET A, NEW D \in SUBSET B, IsFiniteSet(C), IsFiniteSet(D)
      PROVE  Cardinality(C \cup D) = Cardinality(C) + Cardinality(D)
  <2>1. C \cap D = {}
    <3> SUFFICES ASSUME NEW i \in C, i \in D PROVE FALSE
      OBVIOUS
    <3>1. i < i /\ i \in Nat
      BY DEF AllBelow
    <3> QED
      BY <3>1
  <2>2. Cardinality(C \cap D) = 0
    BY <2>1, FS_EmptySet
  <2>3. Cardinality(C \cup D) = Cardinality(C) + Cardinality(D) - Cardinality(C \cap D)
    BY <1>2, FS_Union
  <2>4. Cardinality(C) \in Nat /\ Cardinality(D) \in Nat
    BY <1>2, FS_CardinalityType
  <2> QED
    BY <2>2, <2>3, <2>4
<1>6. /\ \A k \in 1 .. a :
            InOrder(A)[k] \in A /\ Cardinality({j \in A : j <= InOrder(A)[k]}) = k
      /\ \A k \in 1 .. b :
            InOrder(B)[k] \in B /\ Cardinality({j \in B : j <= InOrder(B)[k]}) = k
  <2> DEFINE Ranked(C, n) ==
                \A k \in 1 .. n :
                   InOrder(C)[k] \in C /\ Cardinality({j \in C : j <= InOrder(C)[k]}) = k
  <2>1. Ranked(A, Cardinality(A)) /\ Ranked(B, Cardinality(B))
    BY InOrderLists
  <2> HIDE DEF Ranked
  <2>2. Ranked(A, a) /\ Ranked(B, b)
    BY <1>0, <2>1
  <2> QED
    BY <2>2 DEF Ranked
<1>3. Cardinality(A \cup B) = a + b
  BY <1>0, <1>2
<1> DEFINE K == A \cup B
<1>7. \A i \in K, k \in 1 .. Cardinality(K) :
         Cardinality({j \in K : j <= i}) = k => InOrder(K)[k] = i
  <2> HIDE DEF K
  <2> QED
    BY <1>1, InOrderLists DEF K
<1>4. ASSUME NEW k \in 1 .. a PROVE InOrder(A \cup B)[k] = InOrder(A)[k]
  <2>1. PICK x \in A : x = InOrder(A)[k] /\ Cardinality({j \in A : j <= x}) = k
    BY <1>6
  <2>2. {j \in A \cup B : j <= x} = {j \in A : j <= x}
    <3>1. \A j \in B : j \in Nat /\ x < j
      BY <2>1 DEF AllBelow
    <3>2. x \in Nat
      BY <2>1
    <3>3. \A j \in B : ~(j <= x)
      BY <3>1, <3>2
    <3> QED
      BY <3>3
  <2>3. k \in 1 .. Cardinality(A \cup B)
    BY <1>1, <1>3
  <2>4. Cardinality({j \in K : j <= x}) = k /\ x \in K
    BY <2>1, <2>2
  <2> HIDE DEF K
  <2>5. InOrder(K)[k] = x
    BY <1>7, <2>3, <2>4 DEF K
  <2> QED
    BY <2>1, <2>5 DEF K
<1>5. ASSUME NEW k \in 1 .. b
      PROVE  InOrder(A \cup B)[a + k] = InOrder(B)[k]
  <2>1. PICK y \in B : y = InOrder(B)[k] /\ Cardinality({j \in B : j <= y}) = k
    BY <1>6
  <2>2. {j \in A \cup B : j <= y} = A \cup {j \in B : j <= y}
    <3>1. y \in Nat /\ \A j \in A : j \in Nat /\ j < y
      BY <2>1 DEF AllBelow
    <3>2. \A j \in A : j <= y
      BY <3>1
    <3> QED
      BY <3>2
  <2>3. IsFiniteSet({j \in B : j <= y})
    BY FS_Subset
  <2>4. Cardinality({j \in A \cup B : j <= y}) = a + k
    BY <1>0, <1>2, <2>1, <2>2, <2>3
  <2>5. a + k \in 1 .. Cardinality(A \cup B)
    BY <1>1, <1>3
  <2>6. Cardinality({j \in K : j <= y}) = a + k /\ y \in K
    BY <2>4
  <2> HIDE DEF K
  <2>7. InOrder(K)[a + k] = y
    BY <1>7, <2>5, <2>6 DEF K
  <2> QED
    BY <2>1, <2>7 DEF K
<1>8. InOrderJoins(A, B, a, b)
  BY <1>3, <1>4, <1>5 DEF InOrderJoins
<1> QED
  BY <1>0, <1>8

\* A set of numbers has a highest one.
LEMMA Highest ==
    ASSUME NEW K, IsFiniteSet(K), K \subseteq Nat, K # {}
    PROVE  \E m \in K : \A i \in K : i <= m
<1> DEFINE n == Cardinality(K)
<1>1. /\ n \in Nat
      /\ \A k \in 1 .. n : InOrder(K)[k] \in K
      /\ \A j, k \in 1 .. n : j < k => InOrder(K)[j] < InOrder(K)[k]
      /\ \A i \in K : \E k \in 1 .. n : InOrder(K)[k] = i
  BY InOrderLists
<1> HIDE DEF n
<1>2. n \in 1 .. n
  <2>1. PICK i \in K, k \in 1 .. n : InOrder(K)[k] = i
    BY <1>1
  <2> QED
    BY <1>1, <2>1
<1>3. ASSUME NEW i \in K PROVE i <= InOrder(K)[n]
  <2>1. PICK k \in 1 .. n : InOrder(K)[k] = i
    BY <1>1
  <2>2. i \in Nat /\ InOrder(K)[n] \in Nat
    BY <1>1, <1>2
  <2>3. k = n \/ k < n
    BY <1>1
  <2> QED
    BY <1>1, <1>2, <2>1, <2>2, <2>3
<1> QED
  BY <1>1, <1>2, <1>3

\* A set of numbers has a lowest one.
LEMMA Lowest ==
    ASSUME NEW K, IsFiniteSet(K), K \subseteq Nat, K # {}
    PROVE  \E m \in K : \A i \in K : m <= i
<1> DEFINE n == Cardinality(K)
<1>1. /\ n \in Nat
      /\ \A k \in 1 .. n : InOrder(K)[k] \in K
      /\ \A j, k \in 1 .. n : j < k => InOrder(K)[j] < InOrder(K)[k]
      /\ \A i \in K : \E k \in 1 .. n : InOrder(K)[k] = i
  BY InOrderLists
<1> HIDE DEF n
<1>2. 1 \in 1 .. n
  <2>1. PICK i \in K, k \in 1 .. n : InOrder(K)[k] = i
    BY <1>1
  <2> QED
    BY <1>1, <2>1
<1>3. ASSUME NEW i \in K PROVE InOrder(K)[1] <= i
  <2>1. PICK k \in 1 .. n : InOrder(K)[k] = i
    BY <1>1
  <2>2. i \in Nat /\ InOrder(K)[1] \in Nat
    BY <1>1, <1>2
  <2>3. k = 1 \/ 1 < k
    BY <1>1
  <2> QED
    BY <1>1, <1>2, <2>1, <2>2, <2>3
<1> QED
  BY <1>1, <1>2, <1>3

-----------------------------------------------------------------------------
(* Chains: sequences whose order means something. *)

\* A sequence in which every entry and each later one are related.
Chained(s, R) == \A i, j \in 1 .. Len(s) : i < j => <<s[i], s[j]>> \in R

\* Every member of U is related to every member of V.
Linked(U, V, R) == \A a \in U, b \in V : <<a, b>> \in R

\* The elements of a sequence are the entries it has at its places.
LEMMA ElementsOf ==
    ASSUME NEW S, NEW s \in Seq(S)
    PROVE  /\ ToSet(s) \subseteq S
           /\ \A x : x \in ToSet(s) <=> \E i \in 1 .. Len(s) : s[i] = x
BY DEF ToSet

\* Two chains make one if every entry of the first is related to every entry
\* of the second.
LEMMA ChainConcat ==
    ASSUME NEW S, NEW u \in Seq(S), NEW v \in Seq(S), NEW R,
           Chained(u, R), Chained(v, R), Linked(ToSet(u), ToSet(v), R)
    PROVE  /\ u \o v \in Seq(S)
           /\ Len(u \o v) = Len(u) + Len(v)
           /\ Chained(u \o v, R)
           /\ ToSet(u \o v) = ToSet(u) \cup ToSet(v)
<1>0. Len(u) \in Nat /\ Len(v) \in Nat
  OBVIOUS
<1>1. PICK w : w = u \o v
  OBVIOUS
<1>2. /\ w \in Seq(S) /\ Len(w) = Len(u) + Len(v)
      /\ \A i \in 1 .. Len(u) + Len(v) : w[i] = IF i <= Len(u) THEN u[i] ELSE v[i - Len(u)]
  BY <1>1, ConcatProperties
<1>3. /\ \A i \in 1 .. Len(u) : i \in 1 .. Len(w) /\ w[i] = u[i]
      /\ \A i \in 1 .. Len(v) : Len(u) + i \in 1 .. Len(w) /\ w[Len(u) + i] = v[i]
      /\ \A i \in 1 .. Len(w) : i <= Len(u) \/ i - Len(u) \in 1 .. Len(v)
  <2>1. ASSUME NEW i \in 1 .. Len(v)
        PROVE  Len(u) + i \in 1 .. Len(w) /\ w[Len(u) + i] = v[i]
    <3>1. /\ Len(u) + i \in 1 .. Len(u) + Len(v) /\ ~(Len(u) + i <= Len(u))
          /\ Len(u) + i - Len(u) = i
      BY <1>0
    <3> QED
      BY <1>2, <3>1
  <2>2. ASSUME NEW i \in 1 .. Len(w) PROVE i <= Len(u) \/ i - Len(u) \in 1 .. Len(v)
    BY <1>0, <1>2
  <2>3. ASSUME NEW i \in 1 .. Len(u) PROVE i \in 1 .. Len(w) /\ w[i] = u[i]
    BY <1>0, <1>2
  <2> QED
    BY <2>1, <2>2, <2>3
<1>4. ToSet(w) = ToSet(u) \cup ToSet(v)
  <2>1. ASSUME NEW x \in ToSet(w) PROVE x \in ToSet(u) \cup ToSet(v)
    <3>1. PICK i \in 1 .. Len(w) : w[i] = x
      BY <1>2, ElementsOf
    <3>2. CASE i <= Len(u)
      <4>1. i \in 1 .. Len(u) /\ u[i] = x
        BY <1>0, <1>2, <3>1, <3>2
      <4> QED
        BY <4>1, ElementsOf
    <3>3. CASE ~(i <= Len(u))
      <4>1. i - Len(u) \in 1 .. Len(v) /\ v[i - Len(u)] = x
        BY <1>2, <1>3, <3>1, <3>3
      <4> QED
        BY <4>1, ElementsOf
    <3> QED
      BY <3>2, <3>3
  <2>2. ASSUME NEW x \in ToSet(u) PROVE x \in ToSet(w)
    <3>1. PICK i \in 1 .. Len(u) : u[i] = x
      BY <2>2, ElementsOf
    <3> QED
      BY <1>2, <1>3, <3>1, ElementsOf
  <2>3. ASSUME NEW x \in ToSet(v) PROVE x \in ToSet(w)
    <3>1. PICK i \in 1 .. Len(v) : v[i] = x
      BY <2>3, ElementsOf
    <3>2. Len(u) + i \in 1 .. Len(w) /\ w[Len(u) + i] = x
      BY <1>3, <3>1
    <3> QED
      BY <1>2, <3>2, ElementsOf
  <2> QED
    BY <2>1, <2>2, <2>3
<1>5. ASSUME NEW i \in 1 .. Len(w), NEW j \in 1 .. Len(w), i < j
      PROVE  <<w[i], w[j]>> \in R
  <2>1. CASE j <= Len(u)
    <3>1. i \in 1 .. Len(u) /\ j \in 1 .. Len(u)
      BY <1>0, <1>5, <2>1
    <3> QED
      BY <1>3, <1>5, <3>1 DEF Chained
  <2>2. CASE i <= Len(u) /\ ~(j <= Len(u))
    <3>1. i \in 1 .. Len(u) /\ j - Len(u) \in 1 .. Len(v)
      BY <1>0, <1>3, <2>2
    <3>2. w[i] = u[i] /\ w[j] = v[j - Len(u)]
      BY <1>2, <2>2
    <3>3. u[i] \in ToSet(u) /\ v[j - Len(u)] \in ToSet(v)
      BY <3>1, ElementsOf
    <3> QED
      BY <3>2, <3>3 DEF Linked
  <2>3. CASE ~(i <= Len(u))
    <3>1. i - Len(u) \in 1 .. Len(v) /\ j - Len(u) \in 1 .. Len(v) /\ i - Len(u) < j - Len(u)
          /\ ~(j <= Len(u))
      BY <1>0, <1>2, <1>5, <2>3
    <3>2. w[i] = v[i - Len(u)] /\ w[j] = v[j - Len(u)]
      BY <1>2, <2>3, <3>1
    <3> QED
      BY <3>1, <3>2 DEF Chained
  <2> QED
    BY <2>1, <2>2, <2>3
<1> QED
  BY <1>1, <1>2, <1>4, <1>5 DEF Chained

\* A chain takes an entry that all of its entries are related to.
LEMMA ChainAppend ==
    ASSUME NEW S, NEW s \in Seq(S), NEW x \in S, NEW R,
           Chained(s, R), \A a \in ToSet(s) : <<a, x>> \in R
    PROVE  /\ Append(s, x) \in Seq(S)
           /\ Len(Append(s, x)) = Len(s) + 1
           /\ Chained(Append(s, x), R)
           /\ ToSet(Append(s, x)) = ToSet(s) \cup {x}
<1>1. PICK t : t = Append(s, x)
  OBVIOUS
<1>2. /\ t \in Seq(S) /\ Len(t) = Len(s) + 1 /\ Len(s) \in Nat
      /\ \A i \in 1 .. Len(s) : t[i] = s[i]
      /\ t[Len(s) + 1] = x
  BY <1>1, AppendProperties
<1>3. \A y : y \in ToSet(s) <=> \E j \in 1 .. Len(s) : s[j] = y
  BY ElementsOf
<1>4. \A y : y \in ToSet(t) <=> \E i \in 1 .. Len(t) : t[i] = y
  BY <1>2, ElementsOf
<1>5. \A i \in 1 .. Len(t) : i \in 1 .. Len(s) \/ i = Len(s) + 1
  BY <1>2
<1>6. Chained(t, R)
  <2> SUFFICES ASSUME NEW i \in 1 .. Len(t), NEW j \in 1 .. Len(t), i < j
               PROVE  <<t[i], t[j]>> \in R
    BY DEF Chained
  <2>1. i \in 1 .. Len(s) /\ t[i] = s[i] /\ s[i] \in ToSet(s)
    BY <1>2, <1>3
  <2>2. CASE j \in 1 .. Len(s)
    BY <1>2, <2>1, <2>2 DEF Chained
  <2>3. CASE j = Len(s) + 1
    BY <1>2, <2>1, <2>3
  <2> QED
    BY <1>5, <2>2, <2>3
<1>7. \A y \in ToSet(t) : y \in ToSet(s) \cup {x}
  BY <1>2, <1>3, <1>4, <1>5
<1>8. \A y \in ToSet(s) \cup {x} : y \in ToSet(t)
  BY <1>2, <1>3, <1>4
<1> QED
  BY <1>1, <1>2, <1>6, <1>7, <1>8

\* A chain without its head is a chain of entries the head is related to.
LEMMA ChainTail ==
    ASSUME NEW S, NEW s \in Seq(S), s # <<>>, NEW R, Chained(s, R)
    PROVE  /\ Tail(s) \in Seq(S) /\ Head(s) \in S
           /\ Len(Tail(s)) <= Len(s)
           /\ Chained(Tail(s), R)
           /\ ToSet(s) = {Head(s)} \cup ToSet(Tail(s))
           /\ \A b \in ToSet(Tail(s)) : <<Head(s), b>> \in R
<1>1. PICK t : t = Tail(s)
  OBVIOUS
<1>2. /\ t \in Seq(S) /\ Len(s) \in Nat /\ Len(s) >= 1 /\ Len(t) = Len(s) - 1
      /\ \A i \in 1 .. Len(t) : t[i] = s[i + 1]
      /\ Head(s) = s[1] /\ Head(s) \in S
  BY <1>1, HeadTailProperties
<1>3. \A y : y \in ToSet(s) <=> \E j \in 1 .. Len(s) : s[j] = y
  BY ElementsOf
<1>4. \A y : y \in ToSet(t) <=> \E i \in 1 .. Len(t) : t[i] = y
  BY <1>2, ElementsOf
<1>5. \A i \in 1 .. Len(t) : i + 1 \in 1 .. Len(s) /\ 1 < i + 1
  BY <1>2
<1>6. Chained(t, R)
  BY <1>2, <1>5 DEF Chained
<1>7. ASSUME NEW y \in ToSet(s) PROVE y = Head(s) \/ y \in ToSet(t)
  <2>1. PICK j \in 1 .. Len(s) : s[j] = y
    BY <1>3
  <2>2. CASE j = 1
    BY <1>2, <2>1, <2>2
  <2>3. CASE j # 1
    <3>1. j - 1 \in 1 .. Len(t) /\ (j - 1) + 1 = j
      BY <1>2, <2>3
    <3>2. t[j - 1] = y
      BY <1>2, <2>1, <3>1
    <3> QED
      BY <1>4, <3>1, <3>2
  <2> QED
    BY <2>2, <2>3
<1>8. 1 \in 1 .. Len(s)
  BY <1>2
<1>9. Head(s) \in ToSet(s) /\ \A y \in ToSet(t) : y \in ToSet(s)
  BY <1>2, <1>3, <1>4, <1>5, <1>8
<1>10. \A b \in ToSet(t) : <<Head(s), b>> \in R
  BY <1>2, <1>4, <1>5, <1>8 DEF Chained
<1> QED
  BY <1>1, <1>2, <1>6, <1>7, <1>9, <1>10

\* The entries picked out of a chain are a chain.
LEMMA ChainPicked ==
    ASSUME NEW S, NEW s \in Seq(S), NEW R, Chained(s, R), NEW K \in SUBSET (1 .. Len(s))
    PROVE  /\ Picked(s, K) \in Seq(S)
           /\ Len(Picked(s, K)) = Cardinality(K)
           /\ Chained(Picked(s, K), R)
           /\ ToSet(Picked(s, K)) = {s[i] : i \in K}
<1> DEFINE n == Cardinality(K)
<1>0. IsFiniteSet(K) /\ K \subseteq Nat /\ \A i \in 1 .. Len(s) : s[i] \in S
  <2>1. Len(s) \in Nat /\ IsFiniteSet(1 .. Len(s))
    BY FS_Interval
  <2>2. IsFiniteSet(K)
    BY <2>1, FS_Subset
  <2> QED
    BY <2>2
<1>1. /\ n \in Nat
      /\ \A k \in 1 .. n : InOrder(K)[k] \in K
      /\ \A j, k \in 1 .. n : j < k => InOrder(K)[j] < InOrder(K)[k]
      /\ \A i \in K : \E k \in 1 .. n : InOrder(K)[k] = i
  BY <1>0, InOrderLists
<1>2. PICK t : t = Picked(s, K)
  OBVIOUS
<1>3. t = [k \in 1 .. n |-> s[InOrder(K)[k]]]
  BY <1>2 DEF Picked
<1> HIDE DEF n
<1>4. t \in [1 .. n -> S] /\ \A k \in 1 .. n : t[k] = s[InOrder(K)[k]]
  BY <1>0, <1>1, <1>3
<1>5. t \in Seq(S) /\ Len(t) = n
  BY <1>1, <1>4, IsASeq
<1>6. ASSUME NEW j \in 1 .. n, NEW k \in 1 .. n, j < k PROVE <<t[j], t[k]>> \in R
  <2>1. PICK a \in 1 .. Len(s), b \in 1 .. Len(s) :
           a = InOrder(K)[j] /\ b = InOrder(K)[k] /\ a < b
    BY <1>1, <1>6
  <2>2. <<s[a], s[b]>> \in R
    BY <2>1 DEF Chained
  <2>3. t[j] = s[a] /\ t[k] = s[b]
    BY <1>4, <2>1
  <2> QED
    BY <2>2, <2>3
<1>7. \A y : y \in ToSet(t) <=> \E k \in 1 .. n : t[k] = y
  BY <1>5, ElementsOf
<1>8. ASSUME NEW y PROVE y \in ToSet(t) <=> \E i \in K : y = s[i]
  <2>1. ASSUME NEW k \in 1 .. n PROVE \E i \in K : t[k] = s[i]
    BY <1>1, <1>4
  <2>2. ASSUME NEW i \in K PROVE \E k \in 1 .. n : t[k] = s[i]
    BY <1>1, <1>4
  <2>3. y \in ToSet(t) <=> \E k \in 1 .. n : t[k] = y
    BY ONLY <1>7
  <2>4. ASSUME NEW k \in 1 .. n, t[k] = y PROVE \E i \in K : y = s[i]
    BY ONLY <2>1, <2>4
  <2>5. ASSUME NEW i \in K, y = s[i] PROVE \E k \in 1 .. n : t[k] = y
    BY ONLY <2>2, <2>5
  <2> QED
    BY ONLY <2>3, <2>4, <2>5
<1>9. ToSet(t) = {s[i] : i \in K}
  BY <1>8
<1> QED
  BY <1>2, <1>5, <1>6, <1>9 DEF n, Chained

\* A chain without its first n entries is a chain.
LEMMA ChainDrop ==
    ASSUME NEW S, NEW s \in Seq(S), NEW R, Chained(s, R), NEW n \in 0 .. Len(s)
    PROVE  /\ SubSeq(s, n + 1, Len(s)) \in Seq(S)
           /\ Len(SubSeq(s, n + 1, Len(s))) <= Len(s)
           /\ Chained(SubSeq(s, n + 1, Len(s)), R)
           /\ ToSet(SubSeq(s, n + 1, Len(s))) = {s[i] : i \in n + 1 .. Len(s)}
<1>0. Len(s) \in Nat /\ n \in Nat /\ n <= Len(s) /\ \A i \in 1 .. Len(s) : s[i] \in S
  OBVIOUS
<1>1. PICK t : t = SubSeq(s, n + 1, Len(s))
  OBVIOUS
<1>2. /\ t \in Seq(S)
      /\ Len(t) = Len(s) - n
      /\ \A i \in 1 .. Len(s) - n : t[i] = s[n + i]
  <2>1. \A i \in n + 1 .. Len(s) : s[i] \in S
    BY <1>0
  <2>2. PICK m : m = n + 1
    OBVIOUS
  <2>3. /\ SubSeq(s, m, Len(s)) \in Seq(S)
        /\ Len(SubSeq(s, m, Len(s))) = IF m <= Len(s) THEN Len(s) - m + 1 ELSE 0
        /\ \A i \in 1 .. Len(s) - m + 1 : SubSeq(s, m, Len(s))[i] = s[m + i - 1]
    BY <1>0, <2>1, <2>2, SubSeqProperties
  <2>4. t = SubSeq(s, m, Len(s))
    BY <1>1, <2>2
  <2>5. /\ Len(t) = IF m <= Len(s) THEN Len(s) - m + 1 ELSE 0
        /\ \A i \in 1 .. Len(s) - m + 1 : t[i] = s[m + i - 1]
    BY ONLY <2>3, <2>4
  <2>6. Len(s) - m + 1 = Len(s) - n /\ \A i \in 1 .. Len(s) - n : m + i - 1 = n + i
    BY <1>0, <2>2
  <2>7. Len(t) = Len(s) - n
    BY <1>0, <2>2, <2>5
  <2> QED
    BY <2>3, <2>4, <2>5, <2>6, <2>7
<1>3. \A i \in 1 .. Len(t) : n + i \in n + 1 .. Len(s) /\ n + i \in 1 .. Len(s)
  BY <1>0, <1>2
<1>4. ASSUME NEW i \in 1 .. Len(t), NEW j \in 1 .. Len(t), i < j PROVE <<t[i], t[j]>> \in R
  <2>1. n + i < n + j /\ n + i \in 1 .. Len(s) /\ n + j \in 1 .. Len(s)
    BY <1>0, <1>3, <1>4
  <2>2. t[i] = s[n + i] /\ t[j] = s[n + j]
    BY <1>2
  <2> QED
    BY <2>1, <2>2 DEF Chained
<1>5. \A y : y \in ToSet(t) <=> \E k \in 1 .. Len(t) : t[k] = y
  BY <1>2, ElementsOf
<1>6. ASSUME NEW i \in n + 1 .. Len(s) PROVE s[i] \in ToSet(t)
  <2>1. i - n \in 1 .. Len(t) /\ n + (i - n) = i
    BY <1>0, <1>2
  <2>2. t[i - n] = s[i]
    BY <1>2, <2>1
  <2> QED
    BY <1>5, <2>1, <2>2
<1>7. \A y \in ToSet(t) : \E i \in n + 1 .. Len(s) : y = s[i]
  BY <1>2, <1>3, <1>5
<1>8. Len(t) <= Len(s)
  BY <1>0, <1>2
<1> QED
  BY <1>1, <1>2, <1>4, <1>6, <1>7, <1>8 DEF Chained

\* The first n entries of a chain are a chain.
LEMMA ChainTake ==
    ASSUME NEW S, NEW s \in Seq(S), NEW R, Chained(s, R), NEW n \in 0 .. Len(s)
    PROVE  /\ SubSeq(s, 1, n) \in Seq(S)
           /\ Len(SubSeq(s, 1, n)) = n
           /\ Chained(SubSeq(s, 1, n), R)
           /\ ToSet(SubSeq(s, 1, n)) = {s[i] : i \in 1 .. n}
<1>0. Len(s) \in Nat /\ n \in Nat /\ n <= Len(s) /\ \A i \in 1 .. Len(s) : s[i] \in S
  OBVIOUS
<1>1. PICK t : t = SubSeq(s, 1, n)
  OBVIOUS
<1>2. t \in Seq(S) /\ Len(t) = n /\ \A i \in 1 .. n : t[i] = s[i]
  <2>1. \A i \in 1 .. n : s[i] \in S
    BY <1>0
  <2>2. /\ SubSeq(s, 1, n) \in Seq(S)
        /\ Len(SubSeq(s, 1, n)) = IF 1 <= n THEN n - 1 + 1 ELSE 0
        /\ \A i \in 1 .. n - 1 + 1 : SubSeq(s, 1, n)[i] = s[1 + i - 1]
    BY <1>0, <2>1, SubSeqProperties
  <2>3. /\ Len(t) = IF 1 <= n THEN n - 1 + 1 ELSE 0
        /\ \A i \in 1 .. n - 1 + 1 : t[i] = s[1 + i - 1]
    BY ONLY <1>1, <2>2
  <2>4. n - 1 + 1 = n /\ \A i \in 1 .. n : 1 + i - 1 = i
    BY <1>0
  <2>5. Len(t) = n
    BY <1>0, <2>3
  <2> QED
    BY <1>1, <2>2, <2>3, <2>4, <2>5
<1>3. ASSUME NEW i \in 1 .. n, NEW j \in 1 .. n, i < j PROVE <<t[i], t[j]>> \in R
  <2>1. i \in 1 .. Len(s) /\ j \in 1 .. Len(s)
    BY <1>0
  <2> QED
    BY <1>2, <1>3, <2>1 DEF Chained
<1>4. \A y : y \in ToSet(t) <=> \E k \in 1 .. n : t[k] = y
  BY <1>2, ElementsOf
<1>5. ToSet(t) = {s[i] : i \in 1 .. n}
  BY <1>2, <1>4
<1> QED
  BY <1>1, <1>2, <1>3, <1>5 DEF Chained

\* What is picked from a sequence goes behind another, if what it is picked from
\* may.
LEMMA ChainExtended ==
    ASSUME NEW S, NEW u \in Seq(S), NEW v \in Seq(S), NEW R,
           Chained(u, R), Chained(v, R), NEW K \in SUBSET (1 .. Len(v)),
           Linked(ToSet(u), ToSet(v), R)
    PROVE  /\ u \o Picked(v, K) \in Seq(S)
           /\ Len(u \o Picked(v, K)) = Len(u) + Cardinality(K)
           /\ Chained(u \o Picked(v, K), R)
           /\ ToSet(u \o Picked(v, K)) = ToSet(u) \cup {v[i] : i \in K}
           /\ {v[i] : i \in K} \subseteq ToSet(v)
<1>1. PICK t : t = Picked(v, K)
  OBVIOUS
<1>2. /\ t \in Seq(S) /\ Len(t) = Cardinality(K) /\ Chained(t, R)
      /\ ToSet(t) = {v[i] : i \in K}
  BY ONLY <1>1, K \in SUBSET (1 .. Len(v)), v \in Seq(S), Chained(v, R), ChainPicked
<1>3. {v[i] : i \in K} \subseteq ToSet(v)
  BY ElementsOf
<1>4. Linked(ToSet(u), ToSet(t), R)
  BY <1>2, <1>3 DEF Linked
<1>5. /\ u \o t \in Seq(S)
      /\ Len(u \o t) = Len(u) + Len(t)
      /\ Chained(u \o t, R)
      /\ ToSet(u \o t) = ToSet(u) \cup ToSet(t)
  <2>1. t \in Seq(S) /\ Chained(t, R)
    BY ONLY <1>2
  <2> QED
    BY ONLY <2>1, <1>4, u \in Seq(S), Chained(u, R), ChainConcat, ZenonT(30)
<1> QED
  BY ONLY <1>1, <1>2, <1>3, <1>5

-----------------------------------------------------------------------------
(* Sorting. *)

\* A set of places that has, with each of them, all those before it is the places
\* up to its size.
LEMMA Prefix ==
    ASSUME NEW L \in Nat, NEW K \in SUBSET (1 .. L),
           \A i \in K : \A j \in 1 .. i : j \in K
    PROVE  Cardinality(K) \in 0 .. L /\ K = 1 .. Cardinality(K)
<1>1. IsFiniteSet(K) /\ K \subseteq Nat
  <2>1. IsFiniteSet(1 .. L)
    BY FS_Interval
  <2>2. IsFiniteSet(K)
    BY <2>1, FS_Subset, Zenon
  <2> QED
    BY <2>2
<1>2. CASE K = {}
  <2>1. Cardinality(K) = 0
    BY <1>2, FS_EmptySet
  <2> QED
    BY <1>2, <2>1
<1>3. CASE K # {}
  <2>1. PICK m \in K : \A i \in K : i <= m
    BY <1>1, <1>3, Highest
  <2>2. m \in 1 .. L
    OBVIOUS
  <2>3. \A i \in K : i \in 1 .. m
    BY <2>1, <2>2
  <2>4. K = 1 .. m
    BY <2>3
  <2>5. Cardinality(1 .. m) = m
    BY <2>2, FS_Interval
  <2> QED
    BY <2>2, <2>4, <2>5
<1> QED
  BY <1>2, <1>3

\* A loop that takes one more only while there is room does not exceed the limit.
LEMMA Room ==
    ASSUME NEW n \in Nat, NEW K \in SUBSET (1 .. n), NEW before \in Nat, NEW limit \in Nat,
           before <= limit,
           \A m \in K : before + Cardinality({j \in K : j <= m - 1}) < limit
    PROVE  before + Cardinality(K) <= limit
<1>1. IsFiniteSet(K) /\ K \subseteq Nat
  <2>1. IsFiniteSet(1 .. n)
    BY FS_Interval
  <2>2. IsFiniteSet(K)
    BY ONLY <2>1, K \in SUBSET (1 .. n), FS_Subset
  <2> QED
    BY ONLY <2>2, K \in SUBSET (1 .. n), n \in Nat
<1>2. CASE K = {}
  <2>1. Cardinality(K) = 0
    BY <1>2, FS_EmptySet
  <2> QED
    BY <2>1
<1>3. CASE K # {}
  <2>1. PICK m \in K : \A i \in K : i <= m
    BY <1>1, <1>3, Highest
  <2> DEFINE ahead == {j \in K : j <= m - 1}
  <2>2. K = ahead \cup {m} /\ m \notin ahead
    <3>1. \A i \in K : i = m \/ i \in ahead
      BY <1>1, <2>1
    <3>2. \A i \in ahead : i \in K /\ i # m
      BY <1>1
    <3>3. m \notin ahead
      BY <3>2
    <3> HIDE DEF ahead
    <3>4. \A i : i \in K <=> i = m \/ i \in ahead
      BY <3>1, <3>2
    <3> QED
      BY ONLY <3>3, <3>4
  <2>3. before + Cardinality(ahead) < limit
    OBVIOUS
  <2>4. IsFiniteSet(ahead)
    BY <1>1, FS_Subset
  <2> HIDE DEF ahead
  <2>5. Cardinality(K) = Cardinality(ahead) + 1 /\ Cardinality(ahead) \in Nat
    BY <2>2, <2>4, FS_AddElement, FS_CardinalityType
  <2> QED
    BY <2>3, <2>5
<1> QED
  BY <1>2, <1>3

\* R has of two members of S exactly the pair of the earlier and the later one.
Orders(R, S) ==
    /\ \A x \in S : <<x, x>> \notin R
    /\ \A x, y \in S : x = y \/ <<x, y>> \in R \/ <<y, x>> \in R
    /\ \A x, y, z \in S : <<x, y>> \in R /\ <<y, z>> \in R => <<x, z>> \in R

\* A set that is ordered is listed with each of its members once.
LEMMA SortedLists ==
    ASSUME NEW S, IsFiniteSet(S), NEW R, Orders(R, S)
    PROVE  /\ Sorted(S, R) \in Seq(S)
           /\ Len(Sorted(S, R)) = Cardinality(S)
           /\ \A j, k \in 1 .. Cardinality(S) : Sorted(S, R)[j] = Sorted(S, R)[k] => j = k
           /\ ToSet(Sorted(S, R)) = S
<1> DEFINE before(x) == {y \in S : <<y, x>> \in R}
           rank == [x \in S |-> Cardinality(before(x)) + 1]
           n == Cardinality(S)
<1>1. n \in Nat /\ IsFiniteSet(1 .. n) /\ Cardinality(1 .. n) = n
  BY FS_CardinalityType, FS_Interval
<1>2. ASSUME NEW x \in S
      PROVE  /\ IsFiniteSet(before(x)) /\ x \notin before(x)
             /\ Cardinality(before(x)) \in Nat
             /\ Cardinality(before(x)) + 1 \in 1 .. n
  <2>1. before(x) \in SUBSET S /\ x \notin before(x)
    BY DEF Orders
  <2>2. IsFiniteSet(before(x)) /\ Cardinality(before(x)) \in Nat
    BY <2>1, FS_Subset, FS_CardinalityType
  <2>3. before(x) \cup {x} \in SUBSET S /\ Cardinality(before(x) \cup {x}) = Cardinality(before(x)) + 1
    BY <2>1, <2>2, FS_AddElement
  <2>4. Cardinality(before(x) \cup {x}) <= n
    BY <2>3, FS_Subset
  <2> HIDE DEF before
  <2> QED
    BY <1>1, <2>1, <2>2, <2>3, <2>4
<1>3. ASSUME NEW x \in S, NEW y \in S, <<x, y>> \in R, rank[x] = rank[y] PROVE FALSE
  <2>1. before(x) \in SUBSET before(y) /\ x \in before(y) /\ x \notin before(x)
    BY <1>3 DEF Orders
  <2>2. Cardinality(before(x)) = Cardinality(before(y))
    <3>1. Cardinality(before(x)) + 1 = Cardinality(before(y)) + 1
      BY <1>3
    <3>2. Cardinality(before(x)) \in Nat /\ Cardinality(before(y)) \in Nat
      BY <1>2
    <3> HIDE DEF before
    <3> QED
      BY <3>1, <3>2
  <2>3. before(x) = before(y)
    BY <1>2, <2>1, <2>2, FS_Subset
  <2> QED
    BY <2>1, <2>3
<1>4. ASSUME NEW x \in S, NEW y \in S, rank[x] = rank[y] PROVE x = y
  BY <1>3, <1>4 DEF Orders
<1>5. rank \in Injection(S, 1 .. n)
  BY <1>2, <1>4 DEF Injection, IsInjective
<1>6. rank \in Surjection(S, 1 .. n)
  BY <1>1, <1>5, FS_Injection
<1>7. PICK t : t = Sorted(S, R)
  OBVIOUS
<1>8. t = [k \in 1 .. n |-> CHOOSE x \in S : Cardinality(before(x)) = k - 1]
  BY <1>7 DEF Sorted
<1>9. ASSUME NEW k \in 1 .. n PROVE t[k] \in S /\ rank[t[k]] = k
  <2>1. PICK x \in S : rank[x] = k
    BY <1>6 DEF Surjection
  <2>2. Cardinality(before(x)) = k - 1
    <3>1. Cardinality(before(x)) + 1 = k /\ Cardinality(before(x)) \in Nat
      BY <1>2, <2>1
    <3> HIDE DEF before
    <3> QED
      BY <3>1
  <2>3. t[k] = CHOOSE y \in S : Cardinality(before(y)) = k - 1
    BY <1>8
  <2> HIDE DEF before
  <2>4. t[k] \in S /\ Cardinality(before(t[k])) = k - 1
    BY <2>2, <2>3
  <2>5. Cardinality(before(t[k])) + 1 = k
    BY <1>1, <2>4
  <2> QED
    BY <2>4, <2>5
<1>10. \A j, k \in 1 .. n : t[j] = t[k] => j = k
  BY <1>9
<1>11. t \in [1 .. n -> S]
  BY <1>8, <1>9
<1>12. t \in Seq(S) /\ Len(t) = n
  BY <1>1, <1>11, IsASeq
<1>13. ASSUME NEW x \in S PROVE \E k \in 1 .. n : t[k] = x
  <2>1. rank[x] \in 1 .. n
    BY <1>2
  <2> QED
    BY <1>4, <1>9, <2>1
<1>14. \A y : y \in ToSet(t) <=> \E k \in 1 .. n : t[k] = y
  BY <1>12, ElementsOf
<1>15. ToSet(t) = S
  BY <1>9, <1>13, <1>14
<1> QED
  BY <1>7, <1>10, <1>12, <1>15

-----------------------------------------------------------------------------
(* Entries, whatever their order. *)

\* Every pair of entries is related by the relation that relates all.
LEMMA AllRelated ==
    ASSUME NEW S, NEW s \in Seq(S)
    PROVE  /\ Chained(s, S \X S) /\ ToSet(s) \subseteq S
           /\ \A x \in S : \A a \in ToSet(s) : <<a, x>> \in S \X S /\ <<x, a>> \in S \X S
<1>1. \A i \in 1 .. Len(s) : s[i] \in S
  OBVIOUS
<1> QED
  BY <1>1, ElementsOf DEF Chained

\* One sequence behind another has the entries of both.
LEMMA JoinedEntries ==
    ASSUME NEW S, NEW u \in Seq(S), NEW v \in Seq(S)
    PROVE  /\ u \o v \in Seq(S)
           /\ Len(u \o v) = Len(u) + Len(v)
           /\ ToSet(u \o v) = ToSet(u) \cup ToSet(v)
<1> DEFINE R == S \X S
<1>1. Chained(u, R) /\ Chained(v, R) /\ Linked(ToSet(u), ToSet(v), R)
  BY AllRelated DEF Linked
<1> HIDE DEF R
<1> QED
  BY <1>1, ChainConcat

\* A sequence with one entry more.
LEMMA AppendedEntries ==
    ASSUME NEW S, NEW s \in Seq(S), NEW x \in S
    PROVE  /\ Append(s, x) \in Seq(S)
           /\ Len(Append(s, x)) = Len(s) + 1
           /\ ToSet(Append(s, x)) = ToSet(s) \cup {x}
<1> DEFINE R == S \X S
<1>1. Chained(s, R) /\ \A a \in ToSet(s) : <<a, x>> \in R
  BY AllRelated
<1> HIDE DEF R
<1> QED
  BY <1>1, ChainAppend

\* A sequence without its first entry.
LEMMA RemainingEntries ==
    ASSUME NEW S, NEW s \in Seq(S), s # <<>>
    PROVE  /\ Tail(s) \in Seq(S) /\ Head(s) \in S
           /\ Len(Tail(s)) = Len(s) - 1
           /\ ToSet(s) = {Head(s)} \cup ToSet(Tail(s))
<1> DEFINE R == S \X S
<1>1. Chained(s, R)
  BY AllRelated
<1> HIDE DEF R
<1> QED
  BY <1>1, ChainTail, HeadTailProperties

-----------------------------------------------------------------------------
(* Loops. *)

\* What holds before the first turn and is kept by each turn holds after all.
LEMMA EveryTurn ==
    ASSUME NEW N \in Nat, NEW P, 0 \in P, \A n \in 0 .. N - 1 : n \in P => n + 1 \in P
    PROVE  0 .. N \subseteq P
<1> DEFINE K == (0 .. N) \ P
<1>1. IsFiniteSet(K) /\ K \subseteq Nat
  <2>1. IsFiniteSet(0 .. N)
    BY FS_Interval
  <2>2. K \subseteq 0 .. N
    OBVIOUS
  <2> HIDE DEF K
  <2>3. IsFiniteSet(K)
    BY <2>1, <2>2, FS_Subset
  <2> QED
    BY <2>2, <2>3
<1>2. ASSUME K # {} PROVE FALSE
  <2>1. PICK m \in K : \A i \in K : m <= i
    <3> HIDE DEF K
    <3> QED
      BY <1>1, <1>2, Lowest
  <2>2. m \in 1 .. N /\ m \notin P
    <3>1. m \in 0 .. N /\ m \notin P
      BY <2>1
    <3>2. m # 0
      BY <3>1
    <3> QED
      BY <3>1, <3>2
  <2>3. m - 1 \in 0 .. N - 1 /\ m - 1 + 1 = m /\ m - 1 \in 0 .. N
    BY <2>2
  <2>4. m - 1 \in P
    <3>1. m - 1 \notin K
      BY <2>1, <2>2
    <3> QED
      BY <2>3, <3>1
  <2> QED
    BY <2>2, <2>3, <2>4
<1> QED
  BY <1>2

\* f has what a loop with the turns of G has after each of them.
Turns(f, start, s, G) ==
    f[0] = start /\ \A n \in 1 .. Len(s) : f[n] = G[<<f[n - 1], s[n]>>]

\* A loop whose turns keep a type has a state of that type after each of them.
LEMMA LoopRuns ==
    ASSUME NEW S, NEW X, NEW start \in S, NEW s \in Seq(X), NEW G \in [S \X X -> S]
    PROVE  \E f \in [0 .. Len(s) -> S] : Turns(f, start, s, G)
<1> DEFINE Runs(n) == \E f \in [0 .. n -> S] :
               f[0] = start /\ \A i \in 1 .. n : f[i] = G[<<f[i - 1], s[i]>>]
           P == {n \in 0 .. Len(s) : Runs(n)}
<1>1. Len(s) \in Nat /\ \A i \in 1 .. Len(s) : s[i] \in X
  OBVIOUS
<1>2. 0 \in P
  <2> DEFINE f == [n \in 0 .. 0 |-> start]
  <2>1. f \in [0 .. 0 -> S] /\ f[0] = start /\ \A i \in 1 .. 0 : f[i] = G[<<f[i - 1], s[i]>>]
    OBVIOUS
  <2>2. Runs(0)
    BY <2>1
  <2> QED
    BY <1>1, <2>2
<1>3. ASSUME NEW n \in 0 .. Len(s) - 1, n \in P PROVE n + 1 \in P
  <2>1. PICK f \in [0 .. n -> S] :
            f[0] = start /\ \A i \in 1 .. n : f[i] = G[<<f[i - 1], s[i]>>]
    BY <1>3
  <2>2. n \in Nat /\ n + 1 \in 1 .. Len(s) /\ n + 1 \in 0 .. Len(s) /\ n \in 0 .. n
    BY <1>1
  <2>3. s[n + 1] \in X /\ f[n] \in S
    BY <1>1, <2>1, <2>2
  <2>4. PICK next \in S : next = G[<<f[n], s[n + 1]>>]
    BY <2>3
  <2> DEFINE g == [i \in 0 .. n + 1 |-> IF i = n + 1 THEN next ELSE f[i]]
  <2>5. \A i \in 0 .. n + 1 : i = n + 1 \/ i \in 0 .. n
    BY <2>2
  <2>6. g \in [0 .. n + 1 -> S]
    BY <2>1, <2>4, <2>5
  <2>7. g[0] = start /\ g[n + 1] = next /\ \A i \in 0 .. n : g[i] = f[i]
    BY <2>1, <2>2
  <2> HIDE DEF g
  <2>8. \A i \in 1 .. n + 1 : g[i] = G[<<g[i - 1], s[i]>>]
    <3> SUFFICES ASSUME NEW i \in 1 .. n + 1 PROVE g[i] = G[<<g[i - 1], s[i]>>]
      OBVIOUS
    <3>1. CASE i = n + 1
      <4>1. i - 1 = n
        BY <2>2, <3>1
      <4> QED
        BY <2>2, <2>4, <2>7, <3>1, <4>1
    <3>2. CASE i # n + 1
      <4>1. i \in 1 .. n /\ i \in 0 .. n /\ i - 1 \in 0 .. n
        BY <2>2, <3>2
      <4> QED
        BY <2>1, <2>7, <4>1
    <3> QED
      BY <3>1, <3>2
  <2>9. Runs(n + 1)
    BY <2>6, <2>7, <2>8
  <2> QED
    BY <2>2, <2>9
<1>4. Len(s) \in P
  <2> HIDE DEF P
  <2>1. 0 .. Len(s) \subseteq P
    BY <1>1, <1>2, <1>3, EveryTurn
  <2> QED
    BY <1>1, <2>1
<1> QED
  BY <1>4 DEF Turns

\* The first n entries of a sequence.
FirstEntries(s, n) == {s[k] : k \in 1 .. n}

\* Before a loop, after it, and from one turn to the next.
EntriesByTurn(s, S) ==
    /\ FirstEntries(s, 0) = {} /\ FirstEntries(s, Len(s)) = ToSet(s)
    /\ \A n \in 0 .. Len(s) - 1 :
          s[n + 1] \in S /\ FirstEntries(s, n + 1) = FirstEntries(s, n) \cup {s[n + 1]}

LEMMA EntriesTaken == ASSUME NEW S, NEW s \in Seq(S) PROVE EntriesByTurn(s, S)
<1>1. FirstEntries(s, 0) = {}
  BY DEF FirstEntries
<1>2. FirstEntries(s, Len(s)) = ToSet(s)
  BY ElementsOf DEF FirstEntries
<1>3. ASSUME NEW n \in 0 .. Len(s) - 1
      PROVE  s[n + 1] \in S /\ FirstEntries(s, n + 1) = FirstEntries(s, n) \cup {s[n + 1]}
  <2>1. n \in Nat /\ n + 1 \in 1 .. Len(s) /\ n + 1 \in 1 .. n + 1
    OBVIOUS
  <2>2. \A k : k \in 1 .. n + 1 <=> k \in 1 .. n \/ k = n + 1
    BY <2>1
  <2> QED
    BY <2>1, <2>2 DEF FirstEntries
<1> QED
  BY <1>1, <1>2, <1>3 DEF EntriesByTurn

\* The sums of the first n numbers.
LEMMA TotalRuns ==
    ASSUME NEW s \in Seq(Nat)
    PROVE  \E f \in [0 .. Len(s) -> Nat] :
              /\ f[0] = 0 /\ Total(s) = f[Len(s)]
              /\ \A n \in 1 .. Len(s) : f[n] = f[n - 1] + s[n]
<1> DEFINE G == [x \in Nat \X Nat |-> x[1] + x[2]]
           after == Loop(+, 0, s)
<1>1. G \in [Nat \X Nat -> Nat] /\ \A a, b \in Nat : G[<<a, b>>] = a + b
  OBVIOUS
<1> HIDE DEF G
<1>2. PICK f \in [0 .. Len(s) -> Nat] : Turns(f, 0, s, G)
  BY <1>1, LoopRuns
<1>3. f[0] = 0 /\ \A n \in 1 .. Len(s) : f[n] = G[<<f[n - 1], s[n]>>]
  BY <1>2 DEF Turns
<1>4. ASSUME NEW n \in 1 .. Len(s) PROVE f[n] = f[n - 1] + s[n]
  <2>1. s[n] \in Nat /\ n - 1 \in 0 .. Len(s)
    OBVIOUS
  <2>2. f[n - 1] \in Nat
    BY <2>1
  <2> QED
    BY <1>1, <1>3, <2>1, <2>2
<1>5. f = [n \in 0 .. Len(s) |-> IF n = 0 THEN 0 ELSE f[n - 1] + s[n]]
  <2>1. ASSUME NEW n \in 0 .. Len(s) PROVE f[n] = IF n = 0 THEN 0 ELSE f[n - 1] + s[n]
    <3>1. n = 0 \/ n \in 1 .. Len(s)
      OBVIOUS
    <3> QED
      BY <1>3, <1>4, <3>1
  <2> QED
    BY <2>1
<1>6. after = CHOOSE g : g = [n \in 0 .. Len(s) |-> IF n = 0 THEN 0 ELSE g[n - 1] + s[n]]
  BY DEF Loop
<1>7. after = [n \in 0 .. Len(s) |-> IF n = 0 THEN 0 ELSE after[n - 1] + s[n]]
  BY <1>5, <1>6
<1> HIDE DEF after
<1>8. after[0] = 0 /\ \A n \in 1 .. Len(s) : after[n] = after[n - 1] + s[n]
  <2>1. 0 \in 0 .. Len(s) /\ \A n \in 1 .. Len(s) : n \in 0 .. Len(s) /\ n # 0
    OBVIOUS
  <2> QED
    BY <1>7, <2>1
<1>9. after \in [0 .. Len(s) -> Nat]
  <2> DEFINE P == {n \in 0 .. Len(s) : after[n] \in Nat}
  <2>1. Len(s) \in Nat /\ 0 \in P
    BY <1>8
  <2>2. ASSUME NEW n \in 0 .. Len(s) - 1, n \in P PROVE n + 1 \in P
    <3>1. n + 1 \in 1 .. Len(s) /\ n + 1 \in 0 .. Len(s) /\ n + 1 - 1 = n
      OBVIOUS
    <3>2. after[n] \in Nat /\ s[n + 1] \in Nat
      BY <2>2, <3>1
    <3>3. after[n + 1] = after[n] + s[n + 1]
      BY <1>8, <3>1
    <3> QED
      BY <3>1, <3>2, <3>3
  <2> HIDE DEF P
  <2>3. 0 .. Len(s) \subseteq P
    BY <2>1, <2>2, EveryTurn
  <2>4. \A n \in 0 .. Len(s) : after[n] \in Nat
    BY <2>3 DEF P
  <2>5. after = [n \in 0 .. Len(s) |-> after[n]]
    BY <1>7
  <2> QED
    BY <2>4, <2>5
<1>10. Total(s) = after[Len(s)]
  BY DEF Total, after
<1> QED
  BY <1>8, <1>9, <1>10

\* The first n sequences, one behind the other.
LEMMA JoinedRuns ==
    ASSUME NEW T, NEW s \in Seq(Seq(T))
    PROVE  \E f \in [0 .. Len(s) -> Seq(T)] :
              /\ f[0] = <<>> /\ Joined(s) = f[Len(s)]
              /\ \A n \in 1 .. Len(s) : f[n] = f[n - 1] \o s[n]
<1>11. PICK Q : Q = Seq(T)
  OBVIOUS
<1> DEFINE G == [x \in Q \X Q |-> x[1] \o x[2]]
           after == Loop(\o, <<>>, s)
<1>0. <<>> \in Q /\ s \in Seq(Q) /\ \A a, b \in Q : a \o b \in Q
  BY <1>11, EmptySeq, ConcatProperties
<1>1. G \in [Q \X Q -> Q] /\ \A a, b \in Q : G[<<a, b>>] = a \o b
  BY <1>0
<1> HIDE DEF G
<1>2. PICK f \in [0 .. Len(s) -> Q] : Turns(f, <<>>, s, G)
  BY <1>0, <1>1, LoopRuns
<1>3. f[0] = <<>> /\ \A n \in 1 .. Len(s) : f[n] = G[<<f[n - 1], s[n]>>]
  BY <1>2 DEF Turns
<1>4. ASSUME NEW n \in 1 .. Len(s) PROVE f[n] = f[n - 1] \o s[n]
  <2>1. s[n] \in Q /\ n - 1 \in 0 .. Len(s)
    BY <1>0
  <2>2. f[n - 1] \in Q
    BY <2>1
  <2> QED
    BY <1>1, <1>3, <2>1, <2>2
<1>5. f = [n \in 0 .. Len(s) |-> IF n = 0 THEN <<>> ELSE f[n - 1] \o s[n]]
  <2>1. ASSUME NEW n \in 0 .. Len(s) PROVE f[n] = IF n = 0 THEN <<>> ELSE f[n - 1] \o s[n]
    <3>1. n = 0 \/ n \in 1 .. Len(s)
      OBVIOUS
    <3> QED
      BY <1>3, <1>4, <3>1
  <2> QED
    BY <2>1
<1>6. after = CHOOSE g : g = [n \in 0 .. Len(s) |-> IF n = 0 THEN <<>> ELSE g[n - 1] \o s[n]]
  BY DEF Loop
<1>7. after = [n \in 0 .. Len(s) |-> IF n = 0 THEN <<>> ELSE after[n - 1] \o s[n]]
  BY <1>5, <1>6
<1> HIDE DEF after
<1>8. after[0] = <<>> /\ \A n \in 1 .. Len(s) : after[n] = after[n - 1] \o s[n]
  <2>1. 0 \in 0 .. Len(s) /\ \A n \in 1 .. Len(s) : n \in 0 .. Len(s) /\ n # 0
    OBVIOUS
  <2> QED
    BY <1>7, <2>1
<1>9. after \in [0 .. Len(s) -> Q]
  <2> DEFINE P == {n \in 0 .. Len(s) : after[n] \in Q}
  <2>1. Len(s) \in Nat /\ 0 \in P
    BY <1>0, <1>8
  <2>2. ASSUME NEW n \in 0 .. Len(s) - 1, n \in P PROVE n + 1 \in P
    <3>1. n + 1 \in 1 .. Len(s) /\ n + 1 \in 0 .. Len(s) /\ n + 1 - 1 = n
      OBVIOUS
    <3>2. after[n] \in Q /\ s[n + 1] \in Q
      BY <1>0, <2>2, <3>1
    <3>3. after[n + 1] = after[n] \o s[n + 1]
      <4>1. PICK m \in 1 .. Len(s) : m = n + 1 /\ m - 1 = n
        BY <3>1
      <4>2. after[m] = after[m - 1] \o s[m]
        BY <1>8
      <4> QED
        BY <4>1, <4>2
    <3>4. PICK a \in Q, t \in Q : a = after[n] /\ t = s[n + 1]
      BY <3>2
    <3>5. after[n + 1] \in Q
      BY <1>0, <3>3, <3>4
    <3> QED
      BY <3>1, <3>5
  <2> HIDE DEF P
  <2>3. 0 .. Len(s) \subseteq P
    BY <2>1, <2>2, EveryTurn
  <2>4. \A n \in 0 .. Len(s) : after[n] \in Q
    BY <2>3 DEF P
  <2>5. after = [n \in 0 .. Len(s) |-> after[n]]
    BY <1>7
  <2> QED
    BY <2>4, <2>5
<1>10. Joined(s) = after[Len(s)]
  BY DEF Joined, after
<1> QED
  BY <1>11, <1>8, <1>9, <1>10

\* Of one place more, its entry goes behind the others.
LEMMA PickedNext ==
    ASSUME NEW S, NEW s \in Seq(S), NEW n \in 0 .. Len(s) - 1, NEW K \in SUBSET (1 .. n)
    PROVE  Picked(s, K \cup {n + 1}) = Append(Picked(s, K), s[n + 1])
<1>1. PICK m \in 1 .. Len(s) : m = n + 1
  OBVIOUS
<1>2. PICK x \in S : x = s[m]
  BY <1>1
<1>3. /\ K \in SUBSET (1 .. Len(s)) /\ K \cup {m} \in SUBSET (1 .. Len(s))
      /\ K \subseteq Nat /\ {m} \subseteq Nat /\ AllBelow(K, {m})
  BY <1>1 DEF AllBelow
<1>4. IsFiniteSet(K) /\ IsFiniteSet({m}) /\ Cardinality({m}) = 1
  <2>1. Len(s) \in Int /\ IsFiniteSet(1 .. Len(s))
    BY FS_Interval
  <2> QED
    BY <1>3, <2>1, FS_Subset, FS_Singleton
<1>5. PICK c \in Nat : c = Cardinality(K)
  BY <1>4, FS_CardinalityType
<1>6. InOrderJoins(K, {m}, c, 1)
  BY <1>3, <1>4, <1>5, InOrderJoined
<1>7. InOrder({m})[1] = m
  <2>1. \A k \in 1 .. 1 : InOrder({m})[k] \in {m}
    BY <1>3, <1>4, InOrderLists
  <2> QED
    BY <2>1
<1>8. PICK t, u : t = Picked(s, K) /\ u = Picked(s, K \cup {m})
  OBVIOUS
<1>9. /\ Cardinality(K \cup {m}) = c + 1
      /\ \A k \in 1 .. c : InOrder(K \cup {m})[k] = InOrder(K)[k]
      /\ InOrder(K \cup {m})[c + 1] = m
  <2>1. PICK B : B = {m}
    OBVIOUS
  <2>2. InOrderJoins(K, B, c, 1)
    BY <1>6, <2>1
  <2>3. 1 \in 1 .. 1
    OBVIOUS
  <2>4. InOrder(K \cup B)[c + 1] = InOrder(B)[1]
    BY <2>2, <2>3 DEF InOrderJoins
  <2>5. /\ Cardinality(K \cup B) = c + 1
        /\ \A k \in 1 .. c : InOrder(K \cup B)[k] = InOrder(K)[k]
    BY <2>2 DEF InOrderJoins
  <2> QED
    BY <1>7, <2>1, <2>4, <2>5
<1>10. /\ t = [k \in 1 .. c |-> s[InOrder(K)[k]]]
       /\ u = [k \in 1 .. c + 1 |-> s[InOrder(K \cup {m})[k]]]
  BY <1>5, <1>8, <1>9 DEF Picked
<1>11. t \in Seq(S) /\ u \in Seq(S) /\ Len(t) = c /\ Len(u) = c + 1
  <2> DEFINE R == S \X S
  <2>1. Chained(s, R)
    BY AllRelated
  <2> HIDE DEF R
  <2> QED
    BY <1>3, <1>5, <1>8, <1>9, <2>1, ChainPicked
<1>12. PICK w : w = Append(t, x)
  OBVIOUS
<1>13. /\ w \in Seq(S) /\ Len(w) = c + 1 /\ w[c + 1] = x
       /\ \A k \in 1 .. c : w[k] = t[k]
  BY <1>11, <1>12, AppendProperties
<1>14. ASSUME NEW k \in 1 .. c + 1 PROVE u[k] = w[k]
  <2>1. CASE k = c + 1
    BY <1>2, <1>9, <1>10, <1>13, <2>1
  <2>2. CASE k # c + 1
    <3>1. k \in 1 .. c
      BY <2>2
    <3>2. w[k] = s[InOrder(K)[k]]
      BY <1>10, <1>13, <3>1
    <3>3. u[k] = s[InOrder(K \cup {m})[k]]
      BY <1>10
    <3> QED
      BY <1>9, <3>1, <3>2, <3>3
  <2> QED
    BY <2>1, <2>2
<1>15. u = w
  BY <1>11, <1>13, <1>14, SeqEqual
<1> QED
  BY <1>1, <1>2, <1>8, <1>12, <1>15

-----------------------------------------------------------------------------
(* Entries left out. *)

LEMMA SeqInduct ==
    ASSUME NEW S, NEW P, <<>> \in P, \A t \in Seq(S), x \in S : t \in P => Append(t, x) \in P
    PROVE  Seq(S) \subseteq P
<1> SUFFICES ASSUME NEW s \in Seq(S) PROVE s \in P
  OBVIOUS
<1>1. PICK L \in Nat : L = Len(s)
  OBVIOUS
<1> DEFINE take(n) == [i \in 1 .. n |-> s[i]]
           Q == {n \in 0 .. L : take(n) \in P}
<1>2. ASSUME NEW n \in 0 .. L PROVE take(n) \in Seq(S) /\ Len(take(n)) = n
  <2>1. \A i \in 1 .. n : s[i] \in S
    BY <1>1
  <2>2. n \in Nat
    OBVIOUS
  <2> QED
    BY <2>1, <2>2
<1>3. 0 \in Q
  <2>1. take(0) = <<>>
    OBVIOUS
  <2> QED
    BY <1>1, <2>1
<1>4. ASSUME NEW n \in 0 .. L - 1, n \in Q PROVE n + 1 \in Q
  <2>1. PICK m \in 1 .. L : m = n + 1 /\ n \in 0 .. L /\ m \in 0 .. L
    BY <1>1
  <2>2. PICK t \in Seq(S) : t = take(n) /\ Len(t) = n /\ t \in P
    BY <1>2, <1>4, <2>1
  <2>3. PICK x \in S : x = s[m]
    BY <1>1, <2>1
  <2>4. Append(t, x) \in P
    BY <2>2
  <2>5. PICK u \in Seq(S) : u = take(m) /\ Len(u) = m
    BY <1>2, <2>1
  <2>6. \A i \in 1 .. m : u[i] = s[i]
    BY <2>5
  <2>7. PICK v : v = Append(t, x)
    OBVIOUS
  <2>8. /\ v \in Seq(S) /\ Len(v) = m /\ v[m] = x
        /\ \A i \in 1 .. n : v[i] = t[i]
    BY <2>1, <2>2, <2>7
  <2>9. \A i \in 1 .. n : t[i] = s[i]
    BY <2>2
  <2>10. \A i \in 1 .. m : v[i] = u[i]
    <3>1. ASSUME NEW i \in 1 .. m PROVE v[i] = u[i]
      <4>1. i \in 1 .. n \/ i = m
        BY <2>1
      <4> QED
        BY <2>3, <2>6, <2>8, <2>9, <4>1
    <3> QED
      BY <3>1
  <2>11. v = u
    BY <2>5, <2>8, <2>10, SeqEqual
  <2> QED
    BY <2>1, <2>4, <2>5, <2>7, <2>11
<1> HIDE DEF Q
<1>5. 0 .. L \subseteq Q
  BY <1>1, <1>3, <1>4, EveryTurn
<1>6. L \in Q
  BY <1>1, <1>5
<1>7. take(L) = s
  BY <1>1
<1> HIDE DEF take
<1> QED
  BY <1>6, <1>7 DEF Q

LEMMA OutsideTyped ==
    ASSUME NEW S, NEW s \in Seq(S), NEW A
    PROVE  /\ Outside(s, A) \in Seq(S)
           /\ ToSet(Outside(s, A)) = ToSet(s) \ A
<1>1. PICK K : K = {i \in DOMAIN s : s[i] \notin A}
  OBVIOUS
<1>2. K \in SUBSET (1 .. Len(s))
  BY <1>1
<1>3. Chained(s, S \X S)
  BY AllRelated
<1>4. Picked(s, K) \in Seq(S) /\ ToSet(Picked(s, K)) = {s[i] : i \in K}
  BY <1>2, <1>3, ChainPicked
<1>5. {s[i] : i \in K} = ToSet(s) \ A
  <2>1. \A x : x \in ToSet(s) <=> \E i \in 1 .. Len(s) : s[i] = x
    BY ElementsOf
  <2>2. DOMAIN s = 1 .. Len(s)
    OBVIOUS
  <2> QED
    BY <1>1, <2>1, <2>2
<1>6. Outside(s, A) = Picked(s, K)
  BY <1>1 DEF Outside
<1> QED
  BY <1>4, <1>5, <1>6

LEMMA OutsideEmpty == ASSUME NEW A PROVE Outside(<<>>, A) = <<>>
<1>1. {i \in DOMAIN <<>> : <<>>[i] \notin A} = {}
  OBVIOUS
<1>2. Cardinality({}) = 0
  BY FS_EmptySet
<1>3. Outside(<<>>, A) = Picked(<<>>, {})
  BY <1>1 DEF Outside
<1>4. Picked(<<>>, {}) = [k \in 1 .. 0 |-> <<>>[InOrder({})[k]]]
  BY <1>2 DEF Picked
<1>5. \A f : [k \in 1 .. 0 |-> f[k]] = <<>>
  OBVIOUS
<1>6. [k \in 1 .. 0 |-> <<>>[InOrder({})[k]]] = <<>>
  OBVIOUS
<1> QED
  BY <1>3, <1>4, <1>6

LEMMA OutsideAppend ==
    ASSUME NEW S, NEW s \in Seq(S), NEW x \in S, NEW A
    PROVE  /\ x \in A => Outside(Append(s, x), A) = Outside(s, A)
           /\ x \notin A => Outside(Append(s, x), A) = Append(Outside(s, A), x)
<1>1. PICK n \in Nat : n = Len(s)
  OBVIOUS
<1>2. PICK t : t = Append(s, x)
  OBVIOUS
<1>3. t \in Seq(S) /\ Len(t) = n + 1 /\ t[n + 1] = x /\ \A i \in 1 .. n : t[i] = s[i]
  BY <1>1, <1>2
<1>4. PICK K : K = {i \in 1 .. n : s[i] \notin A}
  OBVIOUS
<1>5. K \in SUBSET (1 .. n) /\ K \subseteq Nat /\ IsFiniteSet(K)
  <2>1. K \in SUBSET (1 .. n) /\ K \subseteq Nat
    BY <1>4
  <2>2. PICK a \in Int, b \in Int : a = 1 /\ b = n
    BY <1>1
  <2>3. IsFiniteSet(a .. b)
    BY FS_Interval
  <2> QED
    BY <2>1, <2>2, <2>3, FS_Subset
<1>6. Picked(t, K) = Picked(s, K)
  <2>1. \A k \in 1 .. Cardinality(K) : InOrder(K)[k] \in K
    BY <1>5, InOrderLists
  <2>2. \A k \in 1 .. Cardinality(K) : t[InOrder(K)[k]] = s[InOrder(K)[k]]
    BY <1>3, <1>5, <2>1
  <2> QED
    BY <2>2 DEF Picked
<1>7. Outside(s, A) = Picked(s, K)
  <2>1. DOMAIN s = 1 .. n
    BY <1>1
  <2> QED
    BY <1>4, <2>1 DEF Outside
<1>8. PICK J : J = {i \in DOMAIN t : t[i] \notin A}
  OBVIOUS
<1>9. Outside(t, A) = Picked(t, J)
  BY <1>8 DEF Outside
<1>10. PICK m \in Nat : m = n + 1 /\ DOMAIN t = 1 .. m /\ \A i \in 1 .. m : i \in 1 .. n \/ i = m
  <2>1. DOMAIN t = 1 .. Len(t)
    BY <1>3
  <2> QED
    BY <1>1, <1>3, <2>1
<1>11. CASE x \in A
  <2>1. J = K
    BY <1>3, <1>4, <1>8, <1>10, <1>11
  <2> QED
    BY <1>2, <1>6, <1>7, <1>9, <1>11, <2>1
<1>12. CASE x \notin A
  <2>1. J = K \cup {m}
    <3>1. m \in 1 .. m /\ \A i \in 1 .. n : i \in 1 .. m
      BY <1>10
    <3> QED
      BY <1>3, <1>4, <1>8, <1>10, <1>12, <3>1
  <2>2. n \in 0 .. Len(t) - 1
    BY <1>1, <1>3
  <2>3. Picked(t, K \cup {n + 1}) = Append(Picked(t, K), t[n + 1])
    BY <1>3, <1>5, <2>2, PickedNext
  <2>4. Picked(t, J) = Append(Picked(s, K), x)
    BY <1>3, <1>6, <1>10, <2>1, <2>3
  <2> QED
    BY <1>2, <1>7, <1>9, <1>12, <2>4
<1> QED
  BY <1>11, <1>12

LEMMA OutsideSkips ==
    ASSUME NEW S, NEW s \in Seq(S), NEW x \in S, NEW A, x \in A
    PROVE  Outside(Append(s, x), A) = Outside(s, A)
BY OutsideAppend

LEMMA OutsideTakes ==
    ASSUME NEW S, NEW s \in Seq(S), NEW x \in S, NEW A, x \notin A
    PROVE  Outside(Append(s, x), A) = Append(Outside(s, A), x)
BY OutsideAppend

LEMMA AppendConcat ==
    ASSUME NEW S, NEW u \in Seq(S), NEW t \in Seq(S), NEW x \in S
    PROVE  u \o Append(t, x) = Append(u \o t, x)
<1>1. PICK v : v = Append(t, x)
  OBVIOUS
<1>2. v \in Seq(S) /\ Len(v) = Len(t) + 1 /\ v[Len(t) + 1] = x /\ \A i \in 1 .. Len(t) : v[i] = t[i]
  BY <1>1
<1>3. PICK w \in Seq(S) : w = u \o t
  BY ConcatProperties
<1>4. /\ Len(w) = Len(u) + Len(t)
      /\ \A i \in 1 .. Len(u) + Len(t) : w[i] = IF i <= Len(u) THEN u[i] ELSE t[i - Len(u)]
  BY ONLY <1>3, u \in Seq(S), t \in Seq(S), ConcatProperties
<1>5. PICK y : y = u \o v
  OBVIOUS
<1>6. /\ y \in Seq(S) /\ Len(y) = Len(u) + Len(v)
      /\ \A i \in 1 .. Len(u) + Len(v) : y[i] = IF i <= Len(u) THEN u[i] ELSE v[i - Len(u)]
  <2>1. v \in Seq(S)
    BY <1>2
  <2> QED
    BY ONLY <2>1, <1>5, u \in Seq(S), ConcatProperties
<1>7. PICK z : z = Append(w, x)
  OBVIOUS
<1>8. z \in Seq(S) /\ Len(z) = Len(w) + 1 /\ z[Len(w) + 1] = x /\ \A i \in 1 .. Len(w) : z[i] = w[i]
  BY <1>7
<1>9. PICK a \in Nat, b \in Nat : a = Len(u) /\ b = Len(t)
  OBVIOUS
<1>10. Len(y) = a + b + 1 /\ Len(z) = a + b + 1 /\ Len(w) = a + b /\ Len(v) = b + 1
  BY <1>2, <1>4, <1>6, <1>8, <1>9
<1>11. ASSUME NEW i \in 1 .. Len(y) PROVE y[i] = z[i]
  <2>1. i \in 1 .. a + b + 1
    BY <1>10
  <2>2. CASE i <= a
    BY <1>4, <1>6, <1>8, <1>9, <1>10, <2>1, <2>2
  <2>3. CASE ~(i <= a) /\ i <= a + b
    <3>1. PICK j \in 1 .. b : j = i - a
      BY <2>1, <2>3
    <3>2. y[i] = v[j]
      BY <1>6, <1>9, <1>10, <2>1, <2>3, <3>1
    <3>3. z[i] = t[j]
      BY <1>4, <1>8, <1>9, <1>10, <2>1, <2>3, <3>1
    <3> QED
      BY <1>2, <1>9, <3>1, <3>2, <3>3
  <2>4. CASE i = a + b + 1
    <3>1. y[i] = v[b + 1]
      BY <1>6, <1>9, <1>10, <2>1, <2>4
    <3> QED
      BY <1>2, <1>8, <1>9, <1>10, <2>4, <3>1
  <2> QED
    BY <2>1, <2>2, <2>3, <2>4
<1>12. y = z
  BY <1>6, <1>8, <1>10, <1>11, SeqEqual
<1> QED
  BY <1>1, <1>3, <1>5, <1>7, <1>12

LEMMA OutsideConcat ==
    ASSUME NEW S, NEW u \in Seq(S), NEW v \in Seq(S), NEW A
    PROVE  Outside(u \o v, A) = Outside(u, A) \o Outside(v, A)
<1> DEFINE P == {t \in Seq(S) : Outside(u \o t, A) = Outside(u, A) \o Outside(t, A)}
<1>1. PICK ou \in Seq(S) : ou = Outside(u, A)
  BY OutsideTyped
<1>2. <<>> \in P
  <2>1. u \o <<>> = u /\ ou \o <<>> = ou /\ <<>> \in Seq(S)
    OBVIOUS
  <2> QED
    BY <1>1, <2>1, OutsideEmpty
<1>3. ASSUME NEW t \in Seq(S), NEW x \in S, t \in P PROVE Append(t, x) \in P
  <2>1. PICK w \in Seq(S), ot \in Seq(S) : w = u \o t /\ ot = Outside(t, A)
    BY OutsideTyped, ConcatProperties
  <2>2. u \o Append(t, x) = Append(w, x)
    BY <2>1, AppendConcat
  <2>3. Outside(w, A) = ou \o ot
    BY <1>1, <1>3, <2>1
  <2>4. Append(t, x) \in Seq(S)
    OBVIOUS
  <2>5. CASE x \in A
    <3>1. Outside(Append(w, x), A) = Outside(w, A)
      BY ONLY <2>5, w \in Seq(S), x \in S, OutsideSkips
    <3>2. Outside(Append(t, x), A) = Outside(t, A)
      BY ONLY <2>5, t \in Seq(S), x \in S, OutsideSkips
    <3> QED
      BY <1>1, <2>1, <2>2, <2>3, <2>4, <3>1, <3>2
  <2>6. CASE x \notin A
    <3>1. /\ Outside(Append(w, x), A) = Append(Outside(w, A), x)
          /\ Outside(Append(t, x), A) = Append(ot, x)
      <4>1. Outside(Append(w, x), A) = Append(Outside(w, A), x)
        BY <2>6, OutsideTakes
      <4>2. Outside(Append(t, x), A) = Append(Outside(t, A), x)
        BY <2>6, OutsideTakes
      <4> QED
        BY <2>1, <4>1, <4>2
    <3>2. ou \o Append(ot, x) = Append(ou \o ot, x)
      BY AppendConcat
    <3> QED
      BY <1>1, <2>2, <2>3, <2>4, <3>1, <3>2
  <2> QED
    BY <2>5, <2>6
<1> HIDE DEF P
<1>4. v \in P
  BY <1>2, <1>3, SeqInduct
<1> QED
  BY <1>4 DEF P

LEMMA OutsideTwice ==
    ASSUME NEW S, NEW s \in Seq(S), NEW A, NEW B
    PROVE  Outside(s, A \cup B) = Outside(Outside(s, A), B)
<1> DEFINE P == {t \in Seq(S) : Outside(t, A \cup B) = Outside(Outside(t, A), B)}
<1>1. <<>> \in P
  <2>1. <<>> \in Seq(S)
    OBVIOUS
  <2> QED
    BY <2>1, OutsideEmpty
<1>2. ASSUME NEW t \in Seq(S), NEW x \in S, t \in P PROVE Append(t, x) \in P
  <2> DEFINE C == A \cup B
  <2>1. PICK ot \in Seq(S) : ot = Outside(t, A)
    BY OutsideTyped
  <2>2. Outside(t, C) = Outside(ot, B)
    BY <1>2, <2>1
  <2>3. Append(t, x) \in Seq(S)
    OBVIOUS
  <2>4. CASE x \in A
    <3>1. Outside(Append(t, x), A) = ot /\ Outside(Append(t, x), C) = Outside(t, C)
      BY <2>1, <2>4, OutsideSkips, OutsideTakes
    <3> QED
      BY <2>1, <2>2, <2>3, <3>1
  <2>5. CASE x \notin A /\ x \in B
    <3>1. /\ Outside(Append(t, x), A) = Append(ot, x)
          /\ Outside(Append(t, x), C) = Outside(t, C)
          /\ Outside(Append(ot, x), B) = Outside(ot, B)
      BY <2>1, <2>5, OutsideSkips, OutsideTakes
    <3> QED
      BY <2>1, <2>2, <2>3, <3>1
  <2>6. CASE x \notin A /\ x \notin B
    <3>1. /\ Outside(Append(t, x), A) = Append(ot, x)
          /\ Outside(Append(t, x), C) = Append(Outside(t, C), x)
          /\ Outside(Append(ot, x), B) = Append(Outside(ot, B), x)
      <4>1. x \notin C
        BY <2>6
      <4>2. Outside(Append(t, x), A) = Append(Outside(t, A), x)
        BY <2>6, OutsideTakes
      <4> HIDE DEF C
      <4>3. Outside(Append(t, x), C) = Append(Outside(t, C), x)
        BY <4>1, OutsideTakes
      <4>4. Outside(Append(ot, x), B) = Append(Outside(ot, B), x)
        BY <2>6, OutsideTakes
      <4> QED
        BY <2>1, <4>2, <4>3, <4>4
    <3> QED
      BY <2>1, <2>2, <2>3, <3>1
  <2> QED
    BY <2>4, <2>5, <2>6
<1> HIDE DEF P
<1>3. s \in P
  BY <1>1, <1>2, SeqInduct
<1> QED
  BY <1>3 DEF P

LEMMA OutsideNone ==
    ASSUME NEW S, NEW s \in Seq(S), NEW A, ToSet(s) \cap A = {}
    PROVE  Outside(s, A) = s
<1> DEFINE P == {t \in Seq(S) : ToSet(t) \cap A = {} => Outside(t, A) = t}
<1>1. <<>> \in P
  <2>1. <<>> \in Seq(S)
    OBVIOUS
  <2> QED
    BY <2>1, OutsideEmpty
<1>2. ASSUME NEW t \in Seq(S), NEW x \in S, t \in P PROVE Append(t, x) \in P
  <2>1. Append(t, x) \in Seq(S) /\ ToSet(Append(t, x)) = ToSet(t) \cup {x}
    BY AppendedEntries
  <2>2. ASSUME ToSet(Append(t, x)) \cap A = {} PROVE Outside(Append(t, x), A) = Append(t, x)
    <3>1. x \notin A /\ ToSet(t) \cap A = {}
      BY <2>1, <2>2
    <3>2. Outside(t, A) = t
      BY <1>2, <3>1
    <3> QED
      BY <3>1, <3>2, OutsideSkips, OutsideTakes
  <2> QED
    BY <2>1, <2>2
<1> HIDE DEF P
<1>3. s \in P
  BY <1>1, <1>2, SeqInduct
<1> QED
  BY <1>3 DEF P

LEMMA OutsideAll ==
    ASSUME NEW S, NEW s \in Seq(S), NEW A, ToSet(s) \subseteq A
    PROVE  Outside(s, A) = <<>>
<1>1. PICK t \in Seq(S) : t = Outside(s, A) /\ ToSet(t) = {}
  BY OutsideTyped
<1>2. ASSUME NEW i \in 1 .. Len(t) PROVE FALSE
  <2>1. t[i] \in ToSet(t)
    BY ElementsOf
  <2> QED
    BY <1>1, <2>1
<1>3. Len(t) = 0
  <2>1. Len(t) \in Nat
    OBVIOUS
  <2>2. Len(t) # 0 => 1 \in 1 .. Len(t)
    BY <2>1
  <2> QED
    BY <1>2, <2>2
<1> QED
  BY <1>1, <1>3

-----------------------------------------------------------------------------
(* Sequences one behind the other. *)

LEMMA ChainSplit ==
    ASSUME NEW S, NEW u \in Seq(S), NEW v \in Seq(S), NEW R, Chained(u \o v, R)
    PROVE  /\ Chained(v, R)
           /\ Linked(ToSet(u), ToSet(v), R)
<1>1. PICK w \in Seq(S) : w = u \o v
  BY ConcatProperties
<1>2. /\ Len(w) = Len(u) + Len(v)
      /\ \A i \in 1 .. Len(u) + Len(v) : w[i] = IF i <= Len(u) THEN u[i] ELSE v[i - Len(u)]
  BY ONLY <1>1, u \in Seq(S), v \in Seq(S), ConcatProperties
<1>3. PICK a \in Nat, b \in Nat : a = Len(u) /\ b = Len(v)
  OBVIOUS
<1>4. \A i, j \in 1 .. a + b : i < j => <<w[i], w[j]>> \in R
  BY <1>1, <1>2, <1>3 DEF Chained
<1>5. ASSUME NEW j \in 1 .. b PROVE a + j \in 1 .. a + b /\ w[a + j] = v[j]
  <2>1. PICK k \in 1 .. a + b : k = a + j /\ ~(k <= a) /\ k - a = j
    BY <1>5
  <2>2. w[k] = v[j]
    BY <1>2, <1>3, <2>1
  <2> QED
    BY <2>1, <2>2
<1>6. ASSUME NEW i \in 1 .. a PROVE i \in 1 .. a + b /\ w[i] = u[i]
  <2>1. i \in 1 .. a + b /\ i <= a
    BY <1>6
  <2> QED
    BY <1>2, <1>3, <2>1
<1>7. ASSUME NEW i \in 1 .. b, NEW j \in 1 .. b, i < j PROVE <<v[i], v[j]>> \in R
  <2>1. PICK x \in 1 .. a + b, y \in 1 .. a + b : x = a + i /\ y = a + j /\ x < y
    BY <1>7
  <2>2. w[x] = v[i] /\ w[y] = v[j]
    BY <1>5, <2>1
  <2> QED
    BY <1>4, <2>1, <2>2
<1>8. ASSUME NEW x \in ToSet(u), NEW y \in ToSet(v) PROVE <<x, y>> \in R
  <2>1. PICK i \in 1 .. a : u[i] = x
    BY <1>3, ElementsOf
  <2>2. PICK j \in 1 .. b : v[j] = y
    BY <1>3, ElementsOf
  <2>3. PICK k \in 1 .. a + b : k = a + j /\ i < k
    BY <2>1, <2>2
  <2>4. w[k] = y /\ w[i] = x /\ i \in 1 .. a + b
    BY <1>5, <1>6, <2>1, <2>2, <2>3
  <2> QED
    BY <1>4, <2>3, <2>4
<1> QED
  BY <1>3, <1>7, <1>8 DEF Chained, Linked

\* One sequence behind the other, as an operator the provers take as it is.
Glued(u, v) == u \o v

LEMMA GluedEntries ==
    ASSUME NEW S, NEW u \in Seq(S), NEW v \in Seq(S)
    PROVE  /\ Glued(u, v) \in Seq(S)
           /\ ToSet(Glued(u, v)) = ToSet(u) \cup ToSet(v)
BY JoinedEntries DEF Glued

LEMMA GluedGroups ==
    ASSUME NEW S, NEW a \in Seq(S), NEW b \in Seq(S), NEW c \in Seq(S)
    PROVE  Glued(Glued(a, b), c) = Glued(a, Glued(b, c))
<1>1. (a \o b) \o c = a \o (b \o c)
  BY ConcatAssociative
<1> QED
  BY <1>1 DEF Glued

LEMMA GluedEmpty ==
    ASSUME NEW S, NEW u \in Seq(S)
    PROVE  Glued(<<>>, u) = u
<1>1. <<>> \o u = u
  OBVIOUS
<1> QED
  BY <1>1 DEF Glued

LEMMA OutsideGlued ==
    ASSUME NEW S, NEW u \in Seq(S), NEW v \in Seq(S), NEW A
    PROVE  Outside(Glued(u, v), A) = Glued(Outside(u, A), Outside(v, A))
<1>1. Outside(u \o v, A) = Outside(u, A) \o Outside(v, A)
  BY OutsideConcat
<1> QED
  BY <1>1 DEF Glued

LEMMA GluedSplits ==
    ASSUME NEW S, NEW u \in Seq(S), NEW v \in Seq(S), NEW R, Chained(Glued(u, v), R)
    PROVE  Chained(v, R) /\ Linked(ToSet(u), ToSet(v), R)
<1>1. Chained(u \o v, R)
  BY DEF Glued
<1> QED
  BY ONLY <1>1, u \in Seq(S), v \in Seq(S), ChainSplit

Irreflexive(R) == \A x : <<x, x>> \notin R

LEMMA MiddleOut ==
    ASSUME NEW T, NEW a \in Seq(T), NEW b \in Seq(T), NEW l \in Seq(T), NEW e \in Seq(T),
           NEW R, Irreflexive(R), NEW w, w = Glued(a, Glued(Glued(b, l), e)), Chained(w, R)
    PROVE  /\ w \in Seq(T)
           /\ ToSet(w) = ToSet(a) \cup ToSet(b) \cup ToSet(l) \cup ToSet(e)
           /\ ToSet(Glued(b, l)) \ ToSet(b) = ToSet(l)
           /\ Outside(w, ToSet(l)) = Glued(Glued(a, b), e)
<1>0. PICK D : D = ToSet(l)
  OBVIOUS
<1>1. PICK h \in Seq(T), t \in Seq(T) : h = Glued(a, b) /\ t = Glued(l, e)
  BY GluedEntries
<1>2. w = Glued(h, t)
  <2>1. Glued(Glued(b, l), e) = Glued(b, t)
    BY <1>1, GluedGroups
  <2>2. Glued(h, t) = Glued(a, Glued(b, t))
    BY <1>1, GluedGroups
  <2> QED
    BY <2>1, <2>2
<1>3. Chained(t, R) /\ Linked(ToSet(h), ToSet(t), R)
  BY <1>2, GluedSplits
<1>4. Linked(ToSet(l), ToSet(e), R)
  BY <1>1, <1>3, GluedSplits
<1>5. /\ ToSet(h) = ToSet(a) \cup ToSet(b)
      /\ ToSet(t) = ToSet(l) \cup ToSet(e)
      /\ ToSet(Glued(b, l)) = ToSet(b) \cup ToSet(l)
      /\ ToSet(w) = ToSet(h) \cup ToSet(t)
      /\ w \in Seq(T)
  BY <1>1, <1>2, GluedEntries
<1>6. ToSet(h) \cap D = {} /\ ToSet(e) \cap D = {}
  <2>1. ASSUME NEW x, x \in ToSet(h), x \in D PROVE FALSE
    <3>1. <<x, x>> \in R
      BY <1>0, <1>3, <1>5, <2>1 DEF Linked
    <3> QED
      BY <3>1 DEF Irreflexive
  <2>2. ASSUME NEW x, x \in ToSet(e), x \in D PROVE FALSE
    <3>1. <<x, x>> \in R
      BY <1>0, <1>4, <2>2 DEF Linked
    <3> QED
      BY <3>1 DEF Irreflexive
  <2> QED
    BY <2>1, <2>2
<1>7. Outside(w, D) = Glued(Outside(h, D), Outside(t, D))
  BY <1>2, OutsideGlued
<1>8. Outside(t, D) = Glued(Outside(l, D), Outside(e, D))
  BY <1>1, OutsideGlued
<1>9. Outside(h, D) = h /\ Outside(e, D) = e
  BY <1>6, OutsideNone
<1>10. Outside(l, D) = <<>>
  BY <1>0, OutsideAll
<1>11. Glued(<<>>, e) = e
  BY GluedEmpty
<1>12. Outside(w, D) = Glued(h, e)
  BY <1>7, <1>8, <1>9, <1>10, <1>11
<1>13. ToSet(Glued(b, l)) \ ToSet(b) = ToSet(l)
  BY <1>0, <1>5, <1>6
<1> QED
  BY <1>0, <1>1, <1>5, <1>12, <1>13

LEMMA NothingLeft ==
    ASSUME NEW S, NEW u \in Seq(S)
    PROVE  <<>> \in Seq(S) /\ Glued(u, <<>>) = u
<1>1. u \o <<>> = u
  OBVIOUS
<1> QED
  BY <1>1 DEF Glued
=============================================================================
