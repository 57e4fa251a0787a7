------------------------------ MODULE Lattice -------------------------------
(***************************************************************************)
(* Chains of edges across an island of `n' words, and which are best: the  *)
(* highest total score and, among those, the lowest total risk.            *)
(*                                                                         *)
(* An edge is a record with start, end, score and risk; `edges' gives      *)
(* every edge a name, such as its place in the list the decoder is handed. *)
(***************************************************************************)
EXTENDS Integers, FiniteSetsExt

\* The edges that lead forward inside the island; the decoder ignores the
\* others.
Usable(edges, n) ==
  {e \in DOMAIN edges :
     0 <= edges[e].start /\ edges[e].start < edges[e].end /\ edges[e].end <= n}

\* Edge `e' carries the word at position `p'.
Carries(edges, e, p) == edges[e].start <= p /\ p < edges[e].end

\* A chain from 0 to n is a set of edges that carries every word once.
Chains(edges, n) ==
  {S \in SUBSET Usable(edges, n) :
     /\ \A p \in 0 .. n - 1 : \E e \in S : Carries(edges, e, p)
     /\ \A d, e \in S : d = e \/ \A p \in 0 .. n - 1 :
          ~(Carries(edges, d, p) /\ Carries(edges, e, p))}

TotalScore(edges, S) == MapThenSumSet(LAMBDA e : edges[e].score, S)
TotalRisk(edges, S) == MapThenSumSet(LAMBDA e : edges[e].risk, S)

BestChains(edges, n) ==
  LET chains == Chains(edges, n)
      top    == Max({TotalScore(edges, S) : S \in chains})
      best   == {S \in chains : TotalScore(edges, S) = top}
      safest == Min({TotalRisk(edges, S) : S \in best})
  IN  {S \in best : TotalRisk(edges, S) = safest}

=============================================================================
