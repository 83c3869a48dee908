-------------------------------- MODULE Lists --------------------------------
(* Parts of lists, given by the places of their elements: what SelectSeq and *)
(* the sorted sequence of a set are made of, in a form to reason about.      *)
EXTENDS Naturals, Sequences, FiniteSets

\* How many of the places come no later than i.
Rank(S, i) == Cardinality({j \in S : j <= i})

\* The k-th of the places.
Place(S, k) == CHOOSE i \in S : Rank(S, i) = k

\* The elements of the list at the places, in the order of the list.
AtPlaces(list, S) == [k \in 1 .. Cardinality(S) |-> list[Place(S, k)]]

\* The elements that pass the test.
Where(list, Test(_)) == AtPlaces(list, {i \in DOMAIN list : Test(list[i])})

\* How many keys come no later than the i-th when equal ones stay in order.
StableRank(key, i) ==
  Cardinality({j \in DOMAIN key : key[j] < key[i] \/ (key[j] = key[i] /\ j <= i)})

\* The place of the key that comes k-th.
StablePlace(key, k) == CHOOSE i \in DOMAIN key : StableRank(key, i) = k

\* Python's sorted(list, key=...), which is stable.
SortedBy(list, key) == [k \in DOMAIN list |-> list[StablePlace(key, k)]]
=============================================================================
