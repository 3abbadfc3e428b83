-------------------------------- MODULE Lists --------------------------------
(***************************************************************************)
(* Parts of a list that keep the order.  SelectSeq and Remove of the       *)
(* library say the same of a sequence, by a recursion that nothing can be  *)
(* proved about; the MC modules compare the two.                           *)
(***************************************************************************)
EXTENDS Naturals, Sequences, FiniteSets, Functions

\* Where s has an element of T, and the j-th place of a set of them.
Places(s, T) == {i \in DOMAIN s : s[i] \in T}
Place(at, j) == CHOOSE i \in at : Cardinality({k \in at : k <= i}) = j

\* The elements of s that are in T.
Only(s, T) ==
    LET at == Places(s, T) IN [j \in 1..Cardinality(at) |-> s[Place(at, j)]]

\* The elements of s that are not.
Without(s, T) == Only(s, Range(s) \ T)

\* v is behind w in s: in a list from bottom to top, above it.
Above(s, v, w) == \E i, j \in DOMAIN s : i > j /\ s[i] = v /\ s[j] = w
=============================================================================
