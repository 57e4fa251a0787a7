------------------------------ MODULE BestPath ------------------------------
(***************************************************************************)
(* What the phrase decoder promises, whatever the way it finds it: one     *)
(* answer, which is a best chain of the lattice, or the report that there  *)
(* is none.                                                                *)
(***************************************************************************)
EXTENDS Lattice

VARIABLES
  edges,   \* the lattice
  nWords,  \* the length of the island
  status,  \* "open", "found" or "none"
  chain    \* the edges of the answer

vars == <<edges, nWords, status, chain>>

Init == status = "open" /\ chain = {}

Answer ==
  /\ status = "open"
  /\ IF Chains(edges, nWords) = {}
     THEN status' = "none" /\ chain' = {}
     ELSE status' = "found" /\ chain' \in BestChains(edges, nWords)
  /\ UNCHANGED <<edges, nWords>>

Spec == Init /\ [][Answer]_vars

=============================================================================
