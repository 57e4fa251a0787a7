--------------------------- MODULE LatticeDecoder ---------------------------
(***************************************************************************)
(* LatticeDecoder.decode (stage5_scorer/lattice.py): a forward pass that   *)
(* labels the positions of an island with the best way found to reach      *)
(* them, then a walk back along the edges the labels remember.             *)
(*                                                                         *)
(* An edge is abstracted to its ends, score and risk; it is named by its   *)
(* place in the list, which is also the order edges_by_start keeps.        *)
(* A position without a label is one whose best_score is -inf.             *)
(***************************************************************************)
EXTENDS Integers, Sequences

CONSTANTS
  Lattices,  \* the lattices considered: records with n and edges
  Scores,    \* the scores an edge may carry (scaled to integers)
  Risks      \* the risks an edge may carry

\* The list may hold edges that lead nowhere: backwards, in place, or beyond
\* the island.  No edge starts before the island.
Edge == [start : Nat, end : Nat, score : Scores, risk : Risks]

ASSUME NumbersAssumption == Scores \subseteq Int /\ Risks \subseteq Int
ASSUME LatticesAssumption == Lattices \subseteq [n : Nat, edges : Seq(Edge)]

VARIABLES
  pc,      \* "scan", "back", "found" or "none"
  nWords,  \* the words of the island
  edges,   \* the edges offered
  i,       \* scan: the position whose edges are tried
  todo,    \* scan: the edges of position i still to be tried
  label,   \* best_score, best_risk and best_edge of the positions reached
  pos,     \* back: where the walk stands
  path     \* back: result_edges, from the end of the island back to `pos'

vars == <<pc, nWords, edges, i, todo, label, pos, path>>

\* edges_by_start.get(p, [])
EdgesFrom(p) == {e \in 1 .. Len(edges) : edges[e].start = p}

Init ==
  /\ \E l \in Lattices : nWords = l.n /\ edges = l.edges
  /\ pc = "scan"
  /\ i = 0
  /\ todo = IF nWords > 0 THEN EdgesFrom(0) ELSE {}
  /\ label = [p \in {0} |-> [score |-> 0, risk |-> 0, edge |-> 0]]
  /\ pos = 0
  /\ path = <<>>

-----------------------------------------------------------------------------
\* Edges that do not advance, or that leave the island, are ignored.
LeadsOn(e) == edges[e].start < edges[e].end /\ edges[e].end <= nWords

\* What edge `e' makes of its end.
Through(e) ==
  [score |-> label[edges[e].start].score + edges[e].score,
   risk  |-> label[edges[e].start].risk + edges[e].risk,
   edge  |-> e]

\* Fault: at an equal score the riskier label wins.
BetterRiskier(a, b) ==
  a.score > b.score \/ (a.score = b.score /\ a.risk > b.risk)

\* A higher score, or the same score at a lower risk.
Better(a, b) ==
  a.score > b.score \/ (a.score = b.score /\ a.risk < b.risk)

\* Fault: the edge is remembered although the label is not improved.
RelabelledEdge(e) ==
  IF edges[e].end \in DOMAIN label /\ ~Better(Through(e), label[edges[e].end])
  THEN [label EXCEPT ![edges[e].end].edge = e]
  ELSE [p \in DOMAIN label \cup {edges[e].end} |->
          IF p = edges[e].end THEN Through(e) ELSE label[p]]

\* The labels once edge `e' has been tried.
Relabelled(e) ==
  IF edges[e].end \in DOMAIN label /\ ~Better(Through(e), label[edges[e].end])
  THEN label
  ELSE [p \in DOMAIN label \cup {edges[e].end} |->
          IF p = edges[e].end THEN Through(e) ELSE label[p]]

\* One turn of the inner loop.
TryEdge(e) ==
  /\ pc = "scan"
  /\ e \in todo
  /\ \A d \in todo : e <= d
  /\ todo' = todo \ {e}
  /\ label' = IF LeadsOn(e) THEN Relabelled(e) ELSE label
  /\ UNCHANGED <<pc, nWords, edges, i, pos, path>>

\* Fault: `continue' before the position is advanced.
NextPositionStuck ==
  /\ pc = "scan"
  /\ todo = {}
  /\ i + 1 < nWords
  /\ i + 1 \in DOMAIN label
  /\ i' = i + 1
  /\ todo' = EdgesFrom(i + 1)
  /\ UNCHANGED <<pc, nWords, edges, label, pos, path>>

\* The next turn of the outer loop; a position not reached is passed over.
NextPosition ==
  /\ pc = "scan"
  /\ todo = {}
  /\ i + 1 < nWords
  /\ i' = i + 1
  /\ todo' = IF i + 1 \in DOMAIN label THEN EdgesFrom(i + 1) ELSE {}
  /\ UNCHANGED <<pc, nWords, edges, label, pos, path>>

ScanDone ==
  /\ pc = "scan"
  /\ todo = {}
  /\ i + 1 >= nWords
  /\ pc' = "back"
  /\ pos' = nWords
  /\ UNCHANGED <<nWords, edges, i, todo, label, path>>

\* One turn of the walk back.
StepBack ==
  /\ pc = "back"
  /\ pos > 0
  /\ pos \in DOMAIN label
  /\ path' = Append(path, label[pos].edge)
  /\ pos' = edges[label[pos].edge].start
  /\ UNCHANGED <<pc, nWords, edges, i, todo, label>>

\* best_edge[pos] is None: the result is -inf with no edges.
NoPath ==
  /\ pc = "back"
  /\ pos > 0
  /\ pos \notin DOMAIN label
  /\ pc' = "none"
  /\ path' = <<>>
  /\ UNCHANGED <<nWords, edges, i, todo, label, pos>>

Found ==
  /\ pc = "back"
  /\ pos = 0
  /\ pc' = "found"
  /\ UNCHANGED <<nWords, edges, i, todo, label, pos, path>>

Next ==
  \/ \E e \in 1 .. Len(edges) : TryEdge(e)
  \/ NextPosition
  \/ ScanDone
  \/ StepBack
  \/ NoPath
  \/ Found

Spec == Init /\ [][Next]_vars

\* decode is straight-line Python: while a loop has a turn to take, it takes
\* it.
FairSpec == Spec /\ WF_vars(Next)

-----------------------------------------------------------------------------
(***************************************************************************)
(* Properties.                                                             *)
(***************************************************************************)
Label == [score : Int, risk : Int, edge : Nat]

\* Every variable has its type.
TypeOK ==
  /\ pc \in {"scan", "back", "found", "none"}
  /\ nWords \in Nat
  /\ edges \in Seq(Edge)
  /\ i \in 0 .. nWords
  /\ todo \subseteq 1 .. Len(edges)
  /\ 0 \in DOMAIN label
  /\ DOMAIN label \subseteq 0 .. nWords
  /\ label \in [DOMAIN label -> Label]
  /\ pos \in 0 .. nWords
  /\ path \in Seq(1 .. Len(edges))

\* A label remembers the edge it came through, and stays what that edge makes
\* of the label of its start: no label is improved after an edge out of it
\* has been used (best_score[i] is read once, in the order of positions).
BackPointersHold ==
  \A p \in DOMAIN label \ {0} :
    \E e \in 1 .. Len(edges) :
      /\ LeadsOn(e)
      /\ edges[e].end = p
      /\ edges[e].start \in DOMAIN label
      /\ label[p] = Through(e)

\* Once the scan is over no edge improves a label any more, and no edge leads
\* from a position that was reached to one that was not.
NoImprovementLeft ==
  pc # "scan" =>
    \A e \in 1 .. Len(edges) :
      edges[e].start \in DOMAIN label /\ LeadsOn(e) =>
        /\ edges[e].end \in DOMAIN label
        /\ ~Better(Through(e), label[edges[e].end])

\* The path walked so far is a chain of forward edges from the end of the
\* island back to `pos', so the spans handed on never overlap and leave no word
\* out.
PathConnects ==
  pc \in {"back", "found"} =>
    /\ Len(path) = 0 => pos = nWords
    /\ Len(path) > 0 => /\ edges[path[1]].end = nWords
                        /\ edges[path[Len(path)]].start = pos
    /\ \A k \in 1 .. Len(path) : LeadsOn(path[k])
    /\ \A k \in 1 .. Len(path) - 1 :
         edges[path[k]].start = edges[path[k + 1]].end

L == INSTANCE Lattice

\* best_score and total_risk, which the gate reads, are those of the edges
\* that are returned.
TotalsMatch ==
  pc = "found" =>
    LET S == {path[k] : k \in DOMAIN path} IN
    /\ label[nWords].score = L!TotalScore(edges, S)
    /\ label[nWords].risk = L!TotalRisk(edges, S)

\* The walk back ends: `while pos > 0' is always left.
Terminates == <>(pc \in {"found", "none"})

(***************************************************************************)
(* Refinement: the answer is a best chain, and "none" is reported only of  *)
(* a lattice that has none.                                                *)
(***************************************************************************)
Promise == INSTANCE BestPath WITH
  status <- IF pc \in {"scan", "back"} THEN "open" ELSE pc,
  chain <- IF pc = "found" THEN {path[k] : k \in DOMAIN path} ELSE {}

AnswersBest == Promise!Spec

=============================================================================
