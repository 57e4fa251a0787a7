-------------------------- MODULE MCLatticeDecoder --------------------------
(* Instance of LatticeDecoder for TLC: an island of MaxWords words with the  *)
(* identity edges of some of its words and up to MaxExtra other edges, some  *)
(* of which lead nowhere.                                                    *)
EXTENDS LatticeDecoder

CONSTANTS MaxWords, MaxExtra

\* Every forward edge with a score, as a phrase has; and from the second word
\* an edge in place and one backwards, from the last one beyond the island.
Extra ==
  {e \in [start : 0 .. MaxWords - 1, end : 0 .. MaxWords,
           score : Scores \ {0}, risk : Risks] :
     e.start < e.end \/ (e.start = 1 /\ e.score = 1 /\ e.risk = 0)}
  \cup [start : {MaxWords - 1}, end : {MaxWords + 1}, score : {1}, risk : {0}]

Identity(p) == [start |-> p, end |-> p + 1, score |-> 0, risk |-> 0]

\* All identity edges, as the pipeline builds them, or none.
IdentityLists == {<<>>, [k \in 1 .. MaxWords |-> Identity(k - 1)]}

MCLattices ==
  {[n |-> MaxWords, edges |-> ids \o extra] :
     ids \in IdentityLists,
     extra \in UNION {[1 .. k -> Extra] : k \in 0 .. MaxExtra}}

=============================================================================
