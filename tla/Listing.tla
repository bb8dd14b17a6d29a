---- MODULE Listing ----
(***************************************************************************)
(* The lists of a document, handled by the places of their items: the      *)
(* loops of src/project/EditOperations.cpp that sort a list, copy or erase *)
(* some of its items, or carry out an operation for each of them.          *)
(***************************************************************************)
EXTENDS Integers, Sequences, FiniteSets

\* The places S of a list in an order, each after those before it.
Ranked(S, Before(_, _)) ==
    [n \in 1..Cardinality(S) |-> CHOOSE i \in S : Cardinality({k \in S : Before(k, i)}) = n - 1]
Ascending(S) == Ranked(S, <)
Picked(points, places) == [n \in DOMAIN places |-> points[places[n]]]

\* A sequence, and one whose items have ids of their own
Listed(seq) == Len(seq) \in Nat /\ seq = [i \in 1..Len(seq) |-> seq[i]]
Labelled(seq) == Listed(seq) /\ \A i, k \in DOMAIN seq : seq[i].id = seq[k].id => i = k

\* What n passes make of a value, the k-th of them Pass(value, k).
Repeated(n, first, Pass(_, _)) ==
    LET after[k \in 0..n] == IF k = 0 THEN first ELSE Pass(after[k - 1], k)
    IN  after[n]
====
