------------------------------- MODULE Lists --------------------------------
(***************************************************************************)
(* Filtered and sorted lists.  The k-th element of a sorted list is the    *)
(* one that comes after k - 1 others; written this way, and not with       *)
(* SelectSeq and SortSeq, one can reason about it for lists of any length. *)
(***************************************************************************)
EXTENDS Naturals, Sequences, FiniteSets, Functions

IsList(s) == s \in Seq(Range(s))

\* The elements of S in the order R, a set of pairs.
InOrder(S, R) ==
  [k \in 1 .. Cardinality(S) |->
     CHOOSE i \in S : Cardinality({j \in S : <<j, i>> \in R}) = k - 1]

Ascending(I) == {p \in I \X I : p[1] < p[2]}

\* The elements of list at the places I, in their order.
Pick(list, I) ==
  LET order == InOrder(I, Ascending(I)) IN [k \in 1 .. Cardinality(I) |-> list[order[k]]]

\* The places where a key occurs for the first time, and for the last.
Firsts(keys) == {i \in DOMAIN keys : \A j \in DOMAIN keys : j < i => keys[j] # keys[i]}
Lasts(keys) == {i \in DOMAIN keys : \A j \in DOMAIN keys : j > i => keys[j] # keys[i]}
=============================================================================
