------------------------------- MODULE Ranks --------------------------------
(* The order of numbers: of places in a table, of hash buckets, of keys.   *)
EXTENDS Naturals, FiniteSets

\* The k-th number of a set.
Nth(S, k) == CHOOSE i \in S : Cardinality({j \in S : j <= i}) = k
=============================================================================
