------------------------------- MODULE Ordered -------------------------------
(***************************************************************************)
(* Members of a set in their order, and the entries of a sequence at some  *)
(* of its places: what a loop meets that passes over a vector and takes    *)
(* some of it, or that pops a heap.  And the loops themselves, turn by     *)
(* turn, where each turn needs what the last one left.                     *)
(***************************************************************************)
EXTENDS Integers, FiniteSets, Sequences

\* The members of a finite set of numbers, lowest first.
InOrder(K) ==
    [k \in 1 .. Cardinality(K) |-> CHOOSE i \in K : Cardinality({j \in K : j <= i}) = k]

\* The members of a finite set as R orders them: R has the pairs of one before
\* another.
Sorted(S, R) ==
    [k \in 1 .. Cardinality(S) |->
        CHOOSE x \in S : Cardinality({y \in S : <<y, x>> \in R}) = k - 1]

\* The entries of s at the places in K.
Picked(s, K) == [k \in 1 .. Cardinality(K) |-> s[InOrder(K)[k]]]

\* The entries of s that are not in A, in their order.
Outside(s, A) == Picked(s, {i \in DOMAIN s : s[i] \notin A})

\* A loop over the entries of s: what it has after each number of turns.
Loop(turn(_, _), start, s) ==
    LET after[n \in 0 .. Len(s)] == IF n = 0 THEN start ELSE turn(after[n - 1], s[n])
    IN after

\* The sum of numbers, and the sequences of s one behind the other.
Total(s) == Loop(+, 0, s)[Len(s)]
Joined(s) == Loop(\o, <<>>, s)[Len(s)]
=============================================================================
