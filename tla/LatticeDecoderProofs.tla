------------------------ MODULE LatticeDecoderProofs ------------------------
(***************************************************************************)
(* The labels and the path of the decoder, for islands of every length and *)
(* lattices with any edges, scores and risks.                              *)
(*                                                                         *)
(* Positions are processed in increasing order and usable edges lead       *)
(* forward, so the label of a position never changes once its edges have   *)
(* been tried.  Settled says so: what has been tried cannot improve        *)
(* anything, and the labels were all made from positions already visited.  *)
(*                                                                         *)
(* What the labels are worth is a matter of sums over sets of edges.  What *)
(* holds of those is shown by taking a least set, or a least position, of  *)
(* which it fails: such a set has an element to leave out, and a chain to  *)
(* such a position has a last edge.                                        *)
(***************************************************************************)
EXTENDS LatticeDecoder, FiniteSetTheorems, TLAPS

\* The facts about one edge that the proofs use.
LEMMA EdgeFacts ==
  ASSUME edges \in Seq(Edge), NEW e \in 1 .. Len(edges)
  PROVE  /\ edges[e].start \in Nat
         /\ edges[e].end \in Nat
         /\ edges[e].score \in Int
         /\ edges[e].risk \in Int
<1>1. edges[e] \in Edge
  OBVIOUS
<1> QED
  BY <1>1, NumbersAssumption DEF Edge

\* What an edge makes of a typed label is a typed label.
LEMMA ThroughType ==
  ASSUME TypeOK, NEW e \in 1 .. Len(edges), edges[e].start \in DOMAIN label
  PROVE  Through(e) \in Label
<1>1. label[edges[e].start].score \in Int /\ label[edges[e].start].risk \in Int
  <2>1. label[edges[e].start] \in Label
    BY DEF TypeOK
  <2> QED
    BY <2>1 DEF Label
<1>2. edges[e].score \in Int /\ edges[e].risk \in Int
  BY EdgeFacts DEF TypeOK
<1>3. e \in Nat
  OBVIOUS
<1> QED
  BY <1>1, <1>2, <1>3 DEF Through, Label

-----------------------------------------------------------------------------
\* The edges of position i being tried leave a position that was reached.
Scanning ==
  pc = "scan" =>
    /\ i = 0 \/ i < nWords
    /\ todo \subseteq EdgesFrom(i)
    /\ todo # {} => i \in DOMAIN label

\* A position past i was reached from i or before.
FromVisited ==
  pc = "scan" =>
    \A p \in DOMAIN label \ {0} : edges[label[p].edge].start <= i

\* An edge that has been tried cannot improve its end any more.
Settled ==
  pc = "scan" =>
    \A e \in 1 .. Len(edges) :
      /\ edges[e].start \in DOMAIN label
      /\ LeadsOn(e)
      /\ edges[e].start < i \/ (edges[e].start = i /\ e \notin todo)
      => /\ edges[e].end \in DOMAIN label
         /\ ~Better(Through(e), label[edges[e].end])

\* Nothing is walked back before the scan is over.
NoPathYet == pc = "scan" => Len(path) = 0

Inv ==
  /\ TypeOK
  /\ NoPathYet
  /\ BackPointersHold
  /\ Scanning
  /\ FromVisited
  /\ Settled
  /\ NoImprovementLeft
  /\ PathConnects

LEMMA InvInit == Init => Inv
<1> SUFFICES ASSUME Init PROVE Inv
  OBVIOUS
<1>1. PICK l \in Lattices : nWords = l.n /\ edges = l.edges
  BY DEF Init
<1>2. nWords \in Nat /\ edges \in Seq(Edge)
  BY <1>1, LatticesAssumption
<1>3. DOMAIN label = {0} /\ label[0] = [score |-> 0, risk |-> 0, edge |-> 0]
  BY DEF Init
<1>4. label \in [DOMAIN label -> Label]
  BY <1>3 DEF Init, Label
<1>5. TypeOK
  BY <1>2, <1>3, <1>4 DEF Init, TypeOK, EdgesFrom
<1>6. \A e \in 1 .. Len(edges) : edges[e].start \in Nat /\ edges[e].end \in Nat
  BY <1>2, EdgeFacts
<1>7. Settled
  BY <1>2, <1>3, <1>6 DEF Init, Settled, EdgesFrom, LeadsOn
<1> QED
  BY <1>2, <1>3, <1>5, <1>7
  DEF Init, Inv, BackPointersHold, Scanning, FromVisited, NoImprovementLeft,
      PathConnects, NoPathYet, EdgesFrom

-----------------------------------------------------------------------------
\* Trying an edge changes at most the label of its end, which lies past i,
\* and changes it to what the edge makes of the label of i.
LEMMA TryEdgeFacts ==
  ASSUME Inv, NEW e \in 1 .. Len(edges), TryEdge(e)
  PROVE  /\ pc = "scan" /\ pc' = "scan"
         /\ UNCHANGED <<nWords, edges, i, pos, path>>
         /\ e \in todo /\ todo' = todo \ {e}
         /\ edges[e].start = i /\ i \in DOMAIN label
         /\ LET j == edges[e].end IN
            \/ /\ label' = label
               /\ LeadsOn(e) => j \in DOMAIN label /\ ~Better(Through(e), label[j])
            \/ /\ LeadsOn(e)
               /\ label' \in [DOMAIN label \cup {j} -> Label]
               /\ label'[j] = Through(e)
               /\ \A p \in DOMAIN label : p # j => label'[p] = label[p]
               /\ j \in DOMAIN label => Better(Through(e), label[j])
<1> DEFINE j == edges[e].end
<1>1. /\ pc = "scan" /\ pc' = "scan" /\ e \in todo /\ todo' = todo \ {e}
      /\ UNCHANGED <<nWords, edges, i, pos, path>>
      /\ label' = IF LeadsOn(e) THEN Relabelled(e) ELSE label
  BY DEF TryEdge
<1>2. edges[e].start = i /\ i \in DOMAIN label
  BY <1>1 DEF Inv, Scanning, EdgesFrom
<1>3. CASE \/ ~LeadsOn(e)
           \/ j \in DOMAIN label /\ ~Better(Through(e), label[j])
  BY <1>1, <1>2, <1>3 DEF Relabelled
<1>4. CASE /\ LeadsOn(e)
           /\ j \in DOMAIN label => Better(Through(e), label[j])
  <2>1. label' = [p \in DOMAIN label \cup {j} |->
                    IF p = j THEN Through(e) ELSE label[p]]
    BY <1>1, <1>4 DEF Relabelled
  <2>2. Through(e) \in Label
    BY <1>2, ThroughType DEF Inv
  <2>3. label \in [DOMAIN label -> Label]
    BY DEF Inv, TypeOK
  <2>4. label' \in [DOMAIN label \cup {j} -> Label]
    BY <2>1, <2>2, <2>3
  <2> QED
    BY <1>1, <1>2, <1>4, <2>1, <2>4
<1> QED
  BY <1>3, <1>4

LEMMA TryEdgeStep ==
  ASSUME Inv, NEW e \in 1 .. Len(edges), TryEdge(e)
  PROVE  Inv'
<1> DEFINE j == edges[e].end
<1>1. /\ pc = "scan" /\ pc' = "scan"
      /\ nWords' = nWords /\ edges' = edges /\ i' = i /\ pos' = pos /\ path' = path
      /\ e \in todo /\ todo' = todo \ {e}
      /\ edges[e].start = i /\ i \in DOMAIN label
  BY TryEdgeFacts
<1>2. \/ /\ label' = label
         /\ LeadsOn(e) => j \in DOMAIN label /\ ~Better(Through(e), label[j])
      \/ /\ LeadsOn(e)
         /\ label' \in [DOMAIN label \cup {j} -> Label]
         /\ label'[j] = Through(e)
         /\ \A p \in DOMAIN label : p # j => label'[p] = label[p]
         /\ j \in DOMAIN label => Better(Through(e), label[j])
  BY TryEdgeFacts
<1>3. TypeOK /\ BackPointersHold /\ Scanning /\ FromVisited /\ Settled
  BY DEF Inv
<1>4. /\ i \in Nat /\ nWords \in Nat /\ DOMAIN label \subseteq 0 .. nWords
      /\ edges \in Seq(Edge) /\ 0 \in DOMAIN label
      /\ label \in [DOMAIN label -> Label]
  BY <1>3 DEF TypeOK
<1>5. \A d \in 1 .. Len(edges) : edges[d].start \in Nat /\ edges[d].end \in Nat
  BY <1>4, EdgeFacts
<1>6. NoImprovementLeft' /\ PathConnects'
  BY <1>1 DEF NoImprovementLeft, PathConnects
<1>0. NoPathYet'
  BY <1>1 DEF Inv, NoPathYet
<1>7. Scanning'
  BY <1>1, <1>2, <1>3 DEF Scanning, EdgesFrom
<1>8. \A d \in 1 .. Len(edges) : LeadsOn(d)' <=> LeadsOn(d)
  BY <1>1 DEF LeadsOn
<1>9. CASE label' = label
  <2>1. TypeOK'
    BY <1>1, <1>3, <1>9 DEF TypeOK
  <2>2. BackPointersHold'
    BY <1>1, <1>3, <1>9 DEF BackPointersHold, Through, LeadsOn
  <2>3. FromVisited'
    BY <1>1, <1>3, <1>9 DEF FromVisited
  <2>4. LeadsOn(e) => j \in DOMAIN label /\ ~Better(Through(e), label[j])
    <3>1. CASE /\ LeadsOn(e) /\ label'[j] = Through(e)
               /\ j \in DOMAIN label' /\ Better(Through(e), label[j])
      <4>1. ~Better(Through(e), Through(e))
        <5>1. Through(e) \in Label
          BY <1>1, <1>3, ThroughType
        <5> QED
          BY <5>1 DEF Better, Label
      <4> QED
        BY <1>9, <3>1, <4>1
    <3> QED
      BY <1>2, <1>9, <3>1
  <2>5. Settled'
    BY <1>1, <1>3, <1>8, <1>9, <2>4 DEF Settled, Through, Better
  <2> QED
    BY <1>0, <1>6, <1>7, <2>1, <2>2, <2>3, <2>5 DEF Inv
<1>10. CASE /\ LeadsOn(e)
            /\ label' \in [DOMAIN label \cup {j} -> Label]
            /\ label'[j] = Through(e)
            /\ \A p \in DOMAIN label : p # j => label'[p] = label[p]
            /\ j \in DOMAIN label => Better(Through(e), label[j])
  <2>1. /\ i < j /\ j \in 1 .. nWords
        /\ DOMAIN label' = DOMAIN label \cup {j}
        /\ label'[i] = label[i]
    BY <1>1, <1>4, <1>5, <1>10 DEF LeadsOn
  <2>2. \A d \in 1 .. Len(edges) :
           edges[d].start \in DOMAIN label /\ edges[d].start # j =>
             Through(d)' = Through(d)
    BY <1>1, <1>10 DEF Through
  <2>3. TypeOK'
    BY <1>1, <1>3, <1>10, <2>1 DEF TypeOK
  <2>4. FromVisited'
    <3>1. Through(e).edge = e
      BY DEF Through
    <3> QED
      BY <1>1, <1>3, <1>4, <1>10, <2>1, <3>1 DEF FromVisited
  <2>5. BackPointersHold'
    <3>1. SUFFICES ASSUME NEW p \in DOMAIN label' \ {0}
                   PROVE  \E d \in 1 .. Len(edges) :
                            /\ LeadsOn(d)
                            /\ edges[d].end = p
                            /\ edges[d].start \in DOMAIN label'
                            /\ label'[p] = Through(d)'
      BY <1>1, <1>8 DEF BackPointersHold
    <3>2. CASE p = j
      <4>1. Through(e)' = Through(e)
        BY <1>1, <2>1, <2>2
      <4> QED
        BY <1>1, <1>10, <2>1, <3>2, <4>1
    <3>3. CASE p # j
      <4>1. p \in DOMAIN label \ {0} /\ label'[p] = label[p]
        BY <1>10, <2>1, <3>3
      <4>2. PICK d \in 1 .. Len(edges) :
              /\ LeadsOn(d) /\ edges[d].end = p
              /\ edges[d].start \in DOMAIN label /\ label[p] = Through(d)
        BY <1>3, <4>1 DEF BackPointersHold
      <4>3. edges[d].start <= i
        <5>1. label[p].edge = d
          BY <4>2 DEF Through
        <5> QED
          BY <1>1, <1>3, <4>1, <5>1 DEF FromVisited
      <4>4. edges[d].start # j
        BY <1>4, <1>5, <2>1, <4>3
      <4>5. Through(d)' = Through(d)
        BY <2>2, <4>2, <4>4
      <4> QED
        BY <2>1, <4>1, <4>2, <4>5
    <3> QED
      BY <3>2, <3>3
  <2>6. Settled'
    <3>1. SUFFICES ASSUME NEW d \in 1 .. Len(edges),
                          edges[d].start \in DOMAIN label',
                          LeadsOn(d),
                          \/ edges[d].start < i
                          \/ edges[d].start = i /\ d \notin todo \ {e}
                   PROVE  /\ edges[d].end \in DOMAIN label'
                          /\ ~Better(Through(d)', label'[edges[d].end])
      BY <1>1, <1>8 DEF Settled, Better
    <3>2. edges[d].start \in DOMAIN label /\ edges[d].start # j
      BY <1>4, <1>5, <2>1, <3>1
    <3>3. Through(d)' = Through(d) /\ Through(d) \in Label
      BY <1>3, <2>2, <3>2, ThroughType
    <3>4. Through(e) \in Label
      BY <1>1, <1>3, ThroughType
    <3>5. CASE d = e
      <4>1. ~Better(Through(e), Through(e))
        BY <3>4 DEF Better, Label
      <4> QED
        BY <1>10, <2>1, <3>3, <3>5, <4>1
    <3>6. CASE d # e
      <4>1. /\ edges[d].end \in DOMAIN label
            /\ ~Better(Through(d), label[edges[d].end])
        BY <1>1, <1>3, <3>1, <3>2, <3>6 DEF Settled
      <4>2. CASE edges[d].end # j
        BY <1>10, <2>1, <3>3, <4>1, <4>2
      <4>3. CASE edges[d].end = j
        <5>1. Better(Through(e), label[j]) /\ label[j] \in Label
          BY <1>4, <1>10, <4>1, <4>3
        <5>2. ~Better(Through(d), Through(e))
          BY <3>3, <3>4, <4>1, <4>3, <5>1 DEF Better, Label
        <5> QED
          BY <1>10, <2>1, <3>3, <4>3, <5>2
      <4> QED
        BY <4>2, <4>3
    <3> QED
      BY <3>5, <3>6
  <2> QED
    BY <1>0, <1>6, <1>7, <2>3, <2>4, <2>5, <2>6 DEF Inv
<1> QED
  BY <1>2, <1>9, <1>10

-----------------------------------------------------------------------------
\* The other steps leave the labels alone, hence also what is said of them.
LEMMA LabelsStand ==
  ASSUME Inv, UNCHANGED <<nWords, edges, label>>
  PROVE  /\ BackPointersHold'
         /\ \A e \in 1 .. Len(edges) :
              /\ LeadsOn(e)' <=> LeadsOn(e)
              /\ Through(e)' = Through(e)
         /\ \A p : EdgesFrom(p)' = EdgesFrom(p)
  BY DEF Inv, BackPointersHold, Through, LeadsOn, EdgesFrom

LEMMA NextPositionStep == Inv /\ NextPosition => Inv'
<1> SUFFICES ASSUME Inv, NextPosition PROVE Inv'
  OBVIOUS
<1>1. /\ pc = "scan" /\ pc' = "scan" /\ todo = {} /\ i + 1 < nWords /\ i' = i + 1
      /\ nWords' = nWords /\ edges' = edges /\ label' = label
      /\ pos' = pos /\ path' = path
      /\ todo' = IF i + 1 \in DOMAIN label THEN EdgesFrom(i + 1) ELSE {}
  BY DEF NextPosition
<1>2. TypeOK /\ FromVisited /\ Settled
  BY DEF Inv
<1>3. i \in Nat /\ nWords \in Nat /\ edges \in Seq(Edge)
  BY <1>2 DEF TypeOK
<1>4. \A d \in 1 .. Len(edges) : edges[d].start \in Nat
  BY <1>3, EdgeFacts
<1>5. TypeOK'
  BY <1>1, <1>2, <1>3 DEF TypeOK, EdgesFrom
<1>6. Scanning'
  BY <1>1, LabelsStand DEF Scanning
<1>7. FromVisited'
  <2>1. ASSUME NEW p \in DOMAIN label \ {0} PROVE edges[label[p].edge].start <= i + 1
    <3>1. PICK d \in 1 .. Len(edges) : label[p] = Through(d)
      BY <2>1 DEF Inv, BackPointersHold
    <3>2. label[p].edge = d
      BY <3>1 DEF Through
    <3>3. edges[d].start <= i
      BY <1>1, <1>2, <3>2 DEF FromVisited
    <3> QED
      BY <1>3, <1>4, <3>2, <3>3
  <2> QED
    BY <1>1, <2>1 DEF FromVisited
<1>8. Settled'
  <2>1. SUFFICES ASSUME NEW d \in 1 .. Len(edges),
                        edges[d].start \in DOMAIN label, LeadsOn(d),
                        \/ edges[d].start < i + 1
                        \/ edges[d].start = i + 1 /\ d \notin todo'
                 PROVE  /\ edges[d].end \in DOMAIN label
                        /\ ~Better(Through(d), label[edges[d].end])
    BY <1>1, LabelsStand DEF Settled, Better
  <2>2. edges[d].start # i + 1
    BY <1>1, <2>1 DEF EdgesFrom
  <2>3. edges[d].start < i \/ (edges[d].start = i /\ d \notin todo)
    BY <1>1, <1>3, <1>4, <2>1, <2>2
  <2> QED
    BY <1>1, <1>2, <2>1, <2>3 DEF Settled
<1>9. BackPointersHold' /\ NoImprovementLeft' /\ PathConnects'
  BY <1>1, LabelsStand DEF NoImprovementLeft, PathConnects
<1> QED
  BY <1>1, <1>5, <1>6, <1>7, <1>8, <1>9 DEF Inv, NoPathYet

LEMMA ScanDoneStep == Inv /\ ScanDone => Inv'
<1> SUFFICES ASSUME Inv, ScanDone PROVE Inv'
  OBVIOUS
<1>1. /\ pc = "scan" /\ pc' = "back" /\ todo = {} /\ i + 1 >= nWords
      /\ nWords' = nWords /\ edges' = edges /\ label' = label /\ i' = i
      /\ todo' = todo /\ pos' = nWords /\ path' = path
  BY DEF ScanDone
<1>2. TypeOK /\ Settled
  BY DEF Inv
<1>3. i \in Nat /\ nWords \in Nat /\ edges \in Seq(Edge)
  BY <1>2 DEF TypeOK
<1>4. \A d \in 1 .. Len(edges) : edges[d].start \in Nat /\ edges[d].end \in Nat
  BY <1>3, EdgeFacts
<1>5. TypeOK'
  BY <1>1, <1>2, <1>3 DEF TypeOK
<1>6. NoImprovementLeft'
  <2>1. SUFFICES ASSUME NEW d \in 1 .. Len(edges),
                        edges[d].start \in DOMAIN label, LeadsOn(d)
                 PROVE  /\ edges[d].end \in DOMAIN label
                        /\ ~Better(Through(d), label[edges[d].end])
    BY <1>1, LabelsStand DEF NoImprovementLeft, Better
  <2>2. edges[d].start < i \/ (edges[d].start = i /\ d \notin todo)
    BY <1>1, <1>3, <1>4, <2>1 DEF LeadsOn
  <2> QED
    BY <1>1, <1>2, <2>1, <2>2 DEF Settled
<1>7. PathConnects'
  <2>1. Len(path) = 0
    BY <1>1 DEF Inv, NoPathYet
  <2> QED
    BY <1>1, <2>1 DEF PathConnects
<1> QED
  BY <1>1, <1>5, <1>6, <1>7, LabelsStand
  DEF Inv, Scanning, FromVisited, Settled, NoPathYet

LEMMA StepBackStep == Inv /\ StepBack => Inv'
<1> SUFFICES ASSUME Inv, StepBack PROVE Inv'
  OBVIOUS
<1> DEFINE n == Len(path)
<1>1. /\ pc = "back" /\ pc' = "back" /\ pos > 0 /\ pos \in DOMAIN label
      /\ nWords' = nWords /\ edges' = edges /\ label' = label /\ i' = i /\ todo' = todo
      /\ path' = Append(path, label[pos].edge)
      /\ pos' = edges[label[pos].edge].start
  BY DEF StepBack
<1>2. TypeOK /\ PathConnects /\ BackPointersHold
  BY DEF Inv
<1>3. PICK e \in 1 .. Len(edges) :
        /\ LeadsOn(e) /\ edges[e].end = pos
        /\ edges[e].start \in DOMAIN label /\ label[pos] = Through(e)
  BY <1>1, <1>2 DEF BackPointersHold, TypeOK
<1>4. label[pos].edge = e
  BY <1>3 DEF Through
<1>5. /\ path' = Append(path, e) /\ pos' = edges[e].start
      /\ path \in Seq(1 .. Len(edges)) /\ n \in Nat
  BY <1>1, <1>2, <1>4 DEF TypeOK
<1>6. /\ path' \in Seq(1 .. Len(edges))
      /\ Len(path') = n + 1
      /\ \A k \in 1 .. n : path'[k] = path[k]
      /\ path'[n + 1] = e
  BY <1>5
<1>7. TypeOK'
  BY <1>1, <1>2, <1>3, <1>5, <1>6 DEF TypeOK
<1> HIDE DEF n
<1>8. PathConnects'
  <2>1. /\ n = 0 => pos = nWords
        /\ n > 0 => edges[path[1]].end = nWords /\ edges[path[n]].start = pos
        /\ \A k \in 1 .. n : LeadsOn(path[k])
        /\ \A k \in 1 .. n - 1 : edges[path[k]].start = edges[path[k + 1]].end
    BY <1>1, <1>2, <1>5 DEF PathConnects, n
  <2>2. edges[path'[1]].end = nWords
    <3>1. CASE n = 0
      BY <1>3, <1>6, <2>1, <3>1
    <3>2. CASE n > 0
      <4>1. path'[1] = path[1]
        BY <1>5, <1>6, <3>2
      <4> QED
        BY <2>1, <3>2, <4>1
    <3> QED
      BY <1>5, <3>1, <3>2
  <2>3. \A k \in 1 .. n + 1 : LeadsOn(path'[k])
    BY <1>3, <1>5, <1>6, <2>1
  <2>4. ASSUME NEW k \in 1 .. n
        PROVE  edges[path'[k]].start = edges[path'[k + 1]].end
    <3>1. path'[k] = path[k]
      BY <1>6
    <3>2. CASE k = n
      BY <1>3, <1>5, <1>6, <2>1, <3>1, <3>2
    <3>3. CASE k # n
      <4>1. k \in 1 .. n - 1 /\ k + 1 \in 1 .. n
        BY <1>5, <3>3
      <4> QED
        BY <1>6, <2>1, <3>1, <4>1
    <3> QED
      BY <3>2, <3>3
  <2>5. (n + 1) - 1 = n /\ n + 1 # 0
    BY <1>5
  <2>6. edges'[path'[n + 1]].start = pos'
    BY <1>1, <1>5, <1>6
  <2>7. \A k \in 1 .. n + 1 : LeadsOn(path[k])'
    BY <1>1, <2>3 DEF LeadsOn
  <2> QED
    BY <1>1, <1>6, <2>2, <2>4, <2>5, <2>6, <2>7 DEF PathConnects
<1>9. NoImprovementLeft'
  BY <1>1, LabelsStand DEF Inv, NoImprovementLeft, Better
<1> QED
  BY <1>1, <1>7, <1>8, <1>9, LabelsStand
  DEF Inv, Scanning, FromVisited, Settled, NoPathYet

\* Reporting the answer changes nothing that is said here.
LEMMA ReportStep == Inv /\ (NoPath \/ Found \/ UNCHANGED vars) => Inv'
<1> SUFFICES ASSUME Inv, NoPath \/ Found \/ UNCHANGED vars PROVE Inv'
  OBVIOUS
<1>1. CASE NoPath
  <2>1. TypeOK'
    BY <1>1 DEF NoPath, Inv, TypeOK
  <2>2. NoImprovementLeft'
    BY <1>1, LabelsStand DEF NoPath, Inv, NoImprovementLeft, Better
  <2> QED
    BY <1>1, <2>1, <2>2, LabelsStand
    DEF NoPath, Inv, Scanning, FromVisited, Settled, PathConnects, NoPathYet
<1>2. CASE Found
  <2>1. TypeOK'
    BY <1>2 DEF Found, Inv, TypeOK
  <2>2. NoImprovementLeft'
    BY <1>2, LabelsStand DEF Found, Inv, NoImprovementLeft, Better
  <2>3. PathConnects'
    BY <1>2 DEF Found, Inv, PathConnects, LeadsOn
  <2> QED
    BY <1>2, <2>1, <2>2, <2>3, LabelsStand
    DEF Found, Inv, Scanning, FromVisited, Settled, NoPathYet
<1>3. CASE UNCHANGED vars
  BY <1>3
  DEF vars, Inv, TypeOK, BackPointersHold, Scanning, FromVisited, Settled,
      NoImprovementLeft, PathConnects, NoPathYet, EdgesFrom, LeadsOn, Through,
      Better
<1> QED
  BY <1>1, <1>2, <1>3

LEMMA Invariance == Spec => []Inv
<1>1. Inv /\ [Next]_vars => Inv'
  BY TryEdgeStep, NextPositionStep, ScanDoneStep, StepBackStep, ReportStep
  DEF Next
<1> QED
  BY <1>1, InvInit, PTL DEF Spec

\* The decoder keeps its type, whatever lattice it is given.
THEOREM TypeCorrect == Spec => []TypeOK
<1>1. Inv => TypeOK
  BY DEF Inv
<1> QED
  BY <1>1, Invariance, PTL

\* Every label is what its edge makes of the label that edge starts from.
THEOREM BackPointersCorrect == Spec => []BackPointersHold
<1>1. Inv => BackPointersHold
  BY DEF Inv
<1> QED
  BY <1>1, Invariance, PTL

\* After the scan no edge improves a label, and none leads out of the set of
\* positions reached: the labels solve the equations of the best path.
THEOREM NoImprovementCorrect == Spec => []NoImprovementLeft
<1>1. Inv => NoImprovementLeft
  BY DEF Inv
<1> QED
  BY <1>1, Invariance, PTL

\* The edges returned form one chain over the whole island.
THEOREM PathConnectsCorrect == Spec => []PathConnects
<1>1. Inv => PathConnects
  BY DEF Inv
<1> QED
  BY <1>1, Invariance, PTL

-----------------------------------------------------------------------------
(***************************************************************************)
(* Sums over finite sets, as MapThenSumSet adds them up.                   *)
(***************************************************************************)
\* What a fold takes out of a set first.
Some(s) == CHOOSE x \in s : TRUE

\* `g' adds up `f' over the subsets of `S' the way MapThenSumSet does.
Adds(f, S, g) ==
  g = [s \in SUBSET S |-> IF s = {} THEN 0 ELSE f[Some(s)] + g[s \ {Some(s)}]]

Sum(f, S) == (CHOOSE g : Adds(f, S, g))[S]

\* Of some finite sets one contains no other.
LEMMA LeastSet ==
  ASSUME NEW S, IsFiniteSet(S), NEW T, T \subseteq SUBSET S, T # {}
  PROVE  \E x \in T : \A y \in T : ~(y \subseteq x /\ y # x)
<1>1. T \subseteq FiniteSubsetsOf(S)
  BY FS_Subset DEF FiniteSubsetsOf
<1>2. PICK x \in T : \A y \in T : ~(<<y, x>> \in StrictSubsetOrdering(S))
  BY <1>1, FS_StrictSubsetOrderingWellFounded, WFMin
<1> QED
  BY <1>2 DEF StrictSubsetOrdering

\* Of some numbers one is the least.
LEMMA LeastNumber ==
  ASSUME NEW T, T \subseteq Nat, T # {}
  PROVE  \E x \in T : \A y \in T : x <= y
<1>1. PICK t \in T : TRUE
  OBVIOUS
<1>2. IsFiniteSet(0 .. t)
  BY <1>1, FS_Interval
<1> DEFINE R == 0 .. t
           Below == {x \in SUBSET R : \E y \in T : y <= t /\ x = 0 .. y}
<1>3. R \in Below
  BY <1>1
<1>4. PICK x \in Below : \A y \in Below : ~(y \subseteq x /\ y # x)
  <2> HIDE DEF Below, R
  <2>1. IsFiniteSet(R) /\ Below \subseteq SUBSET R /\ Below # {}
    BY <1>2, <1>3 DEF Below, R
  <2> QED
    BY <2>1, LeastSet
<1>5. PICK m \in T : m <= t /\ x = 0 .. m
  BY <1>4
<1>6. ASSUME NEW y \in T, ~(m <= y) PROVE FALSE
  <2>1. y \in Nat /\ m \in Nat /\ t \in Nat
    BY <1>1
  <2>2. y < m /\ y <= t
    BY <1>5, <1>6, <2>1
  <2>3. 0 .. y \in Below
    BY <2>1, <2>2
  <2>4. 0 .. y \subseteq x /\ 0 .. y # x
    <3>1. m \in x /\ m \notin 0 .. y
      BY <1>5, <2>1, <2>2
    <3> QED
      BY <1>5, <2>1, <2>2, <3>1
  <2> QED
    BY <1>4, <2>3, <2>4
<1> QED
  BY <1>6

\* Two ways to add up agree wherever both are defined.
LEMMA AddsUnique ==
  ASSUME NEW f, NEW S, IsFiniteSet(S), NEW R,
         NEW g, Adds(f, S, g), NEW h, Adds(f, R, h), NEW t \in SUBSET S, t \subseteq R
  PROVE  g[t] = h[t]
<1> DEFINE Bad == {u \in SUBSET t : g[u] # h[u]}
<1>1. SUFFICES ASSUME Bad # {} PROVE FALSE
  OBVIOUS
<1>2. IsFiniteSet(t)
  BY FS_Subset
<1>3. PICK u \in Bad : \A v \in Bad : ~(v \subseteq u /\ v # u)
  <2> HIDE DEF Bad
  <2>1. Bad \subseteq SUBSET t
    BY DEF Bad
  <2> QED
    BY <1>1, <1>2, <2>1, LeastSet
<1>4. /\ g[u] = IF u = {} THEN 0 ELSE f[Some(u)] + g[u \ {Some(u)}]
      /\ h[u] = IF u = {} THEN 0 ELSE f[Some(u)] + h[u \ {Some(u)}]
  <2>1. u \in SUBSET S /\ u \in SUBSET R
    OBVIOUS
  <2> QED
    BY <2>1 DEF Adds
<1>5. u # {}
  BY <1>4
<1>6. Some(u) \in u
  BY <1>5 DEF Some
<1>7. g[u \ {Some(u)}] = h[u \ {Some(u)}]
  <2> DEFINE v == u \ {Some(u)}
  <2>1. v \in SUBSET t /\ v \subseteq u /\ v # u
    BY <1>6
  <2>2. v \notin Bad
    BY <1>3, <2>1
  <2> QED
    BY <2>1, <2>2
<1> QED
  BY <1>4, <1>5, <1>7

\* There is a way to add up over every finite set.
LEMMA AddsExists ==
  ASSUME NEW f, NEW S, IsFiniteSet(S)
  PROVE  \E g : Adds(f, S, g)
<1> DEFINE Bad == {t \in SUBSET S : ~(\E g : Adds(f, t, g))}
<1>1. SUFFICES ASSUME Bad # {} PROVE FALSE
  OBVIOUS
<1>2. PICK t \in Bad : \A v \in Bad : ~(v \subseteq t /\ v # t)
  <2> HIDE DEF Bad
  <2>1. Bad \subseteq SUBSET S
    BY DEF Bad
  <2> QED
    BY <1>1, <2>1, LeastSet
<1> DEFINE G(u) == CHOOSE g : Adds(f, u, g)
<1>3. \A u \in SUBSET t : u # t => Adds(f, u, G(u))
  <2>1. SUFFICES ASSUME NEW u \in SUBSET t, u # t PROVE Adds(f, u, G(u))
    OBVIOUS
  <2>2. u \notin Bad
    BY <1>2, <2>1
  <2>3. \E g : Adds(f, u, g)
    BY <2>1, <2>2
  <2> QED
    BY <2>3
<1> DEFINE v == t \ {Some(t)}
           g == [u \in SUBSET t |->
                   IF u # t THEN G(u)[u]
                   ELSE IF t = {} THEN 0 ELSE f[Some(t)] + G(v)[v]]
<1> HIDE DEF G
<1>4. ASSUME NEW u \in SUBSET t
      PROVE  g[u] = IF u = {} THEN 0 ELSE f[Some(u)] + g[u \ {Some(u)}]
  <2> DEFINE w == u \ {Some(u)}
  <2>1. CASE u = {}
    <3>1. CASE t = {}
      BY <2>1, <3>1
    <3>2. CASE t # {}
      <4>1. Adds(f, u, G(u)) /\ u \in SUBSET u
        BY <1>3, <2>1, <3>2
      <4>2. G(u)[u] = 0
        BY <2>1, <4>1 DEF Adds
      <4> QED
        BY <2>1, <3>2, <4>2
    <3> QED
      BY <3>1, <3>2
  <2>2. CASE u # {}
    <3>1. Some(u) \in u /\ w \in SUBSET t /\ w # t /\ w \in SUBSET u
      BY <2>2 DEF Some
    <3>2. g[w] = G(w)[w]
      BY <3>1
    <3>3. CASE u = t
      BY <2>2, <3>1, <3>2, <3>3
    <3>4. CASE u # t
      <4>1. Adds(f, u, G(u)) /\ Adds(f, w, G(w))
        BY <1>3, <3>1, <3>4
      <4>2. g[u] = G(u)[u]
        BY <3>4
      <4>3. G(u)[u] = f[Some(u)] + G(u)[w]
        BY <2>2, <4>1 DEF Adds
      <4>4. G(u)[w] = G(w)[w]
        <5>1. IsFiniteSet(u)
          BY FS_Subset
        <5> HIDE DEF w
        <5> QED
          BY <3>1, <4>1, <5>1, AddsUnique
      <4> QED
        BY <2>2, <3>2, <4>2, <4>3, <4>4
    <3> QED
      BY <3>3, <3>4
  <2> QED
    BY <2>1, <2>2
<1>5. g = [u \in SUBSET t |-> IF u = {} THEN 0 ELSE f[Some(u)] + g[u \ {Some(u)}]]
  <2> HIDE DEF g
  <2>1. g = [u \in SUBSET t |-> g[u]]
    BY DEF g
  <2> QED
    BY <1>4, <2>1
<1>6. Adds(f, t, g)
  BY <1>5 DEF Adds
<1> QED
  BY <1>2, <1>6

\* The sum does not depend on the way that is taken.
LEMMA SumIs ==
  ASSUME NEW f, NEW S, IsFiniteSet(S), NEW g, Adds(f, S, g)
  PROVE  g[S] = Sum(f, S)
<1> DEFINE h == CHOOSE h : Adds(f, S, h)
<1>1. Adds(f, S, h)
  OBVIOUS
<1>2. Sum(f, S) = h[S] /\ S \in SUBSET S
  BY DEF Sum
<1> HIDE DEF h
<1> QED
  BY <1>1, <1>2, AddsUnique

\* The sum over nothing is 0; the sum over more is its first element and the
\* sum over the others.
LEMMA SumStep ==
  ASSUME NEW f, NEW S, IsFiniteSet(S)
  PROVE  Sum(f, S) = IF S = {} THEN 0 ELSE f[Some(S)] + Sum(f, S \ {Some(S)})
<1> DEFINE g == CHOOSE g : Adds(f, S, g)
           T == S \ {Some(S)}
           h == CHOOSE h : Adds(f, T, h)
<1>1. IsFiniteSet(T)
  BY FS_Subset
<1>2. Adds(f, S, g)
  BY AddsExists
<1>3. Adds(f, T, h)
  BY <1>1, AddsExists
<1>4. Sum(f, S) = g[S] /\ Sum(f, T) = h[T]
  BY DEF Sum
<1> HIDE DEF g, h
<1>5. S \in SUBSET S /\ T \in SUBSET S
  OBVIOUS
<1>6. g[T] = h[T]
  BY <1>2, <1>3, <1>5, AddsUnique
<1>7. g[S] = IF S = {} THEN 0 ELSE f[Some(S)] + g[T]
  BY <1>2, <1>5 DEF Adds
<1> QED
  BY <1>4, <1>6, <1>7

\* A sum of integers is one.
LEMMA SumType ==
  ASSUME NEW f, NEW S, IsFiniteSet(S), \A x \in S : f[x] \in Int
  PROVE  Sum(f, S) \in Int
<1> DEFINE Bad == {t \in SUBSET S : Sum(f, t) \notin Int}
<1>1. SUFFICES ASSUME Bad # {} PROVE FALSE
  OBVIOUS
<1>2. PICK t \in Bad : \A v \in Bad : ~(v \subseteq t /\ v # t)
  <2> HIDE DEF Bad
  <2>1. Bad \subseteq SUBSET S
    BY DEF Bad
  <2> QED
    BY <1>1, <2>1, LeastSet
<1> DEFINE v == t \ {Some(t)}
<1>3. IsFiniteSet(t)
  BY FS_Subset
<1>4. Sum(f, t) = IF t = {} THEN 0 ELSE f[Some(t)] + Sum(f, v)
  BY <1>3, SumStep
<1>5. t # {}
  BY <1>4
<1>6. Some(t) \in t
  BY <1>5 DEF Some
<1>7. Sum(f, v) \in Int
  BY <1>2, <1>6
<1> QED
  BY <1>4, <1>5, <1>6, <1>7

\* Whichever element is taken out.
LEMMA SumRemove ==
  ASSUME NEW f, NEW S, IsFiniteSet(S), \A x \in S : f[x] \in Int, NEW a \in S
  PROVE  Sum(f, S) = f[a] + Sum(f, S \ {a})
<1> DEFINE Bad == {t \in SUBSET S : \E x \in t : Sum(f, t) # f[x] + Sum(f, t \ {x})}
<1>1. SUFFICES ASSUME Bad # {} PROVE FALSE
  OBVIOUS
<1>2. PICK t \in Bad : \A v \in Bad : ~(v \subseteq t /\ v # t)
  <2> HIDE DEF Bad
  <2>1. Bad \subseteq SUBSET S
    BY DEF Bad
  <2> QED
    BY <1>1, <2>1, LeastSet
<1>3. PICK x \in t : Sum(f, t) # f[x] + Sum(f, t \ {x})
  BY <1>2
<1> DEFINE y == Some(t)
<1>4. IsFiniteSet(t) /\ IsFiniteSet(t \ {x}) /\ IsFiniteSet(t \ {y}) /\ IsFiniteSet((t \ {x}) \ {y})
  BY FS_Subset
<1>5. Sum(f, t) = f[y] + Sum(f, t \ {y})
  BY <1>3, <1>4, SumStep
<1>6. y \in t /\ y # x
  BY <1>3, <1>5 DEF Some
<1> HIDE DEF y
<1>7. t \ {x} \notin Bad /\ t \ {y} \notin Bad /\ t \ {x} \in SUBSET S /\ t \ {y} \in SUBSET S
  BY <1>2, <1>6
<1>8. Sum(f, t \ {x}) = f[y] + Sum(f, (t \ {x}) \ {y})
  BY <1>6, <1>7
<1>9. Sum(f, t \ {y}) = f[x] + Sum(f, (t \ {y}) \ {x})
  BY <1>6, <1>7
<1>10. (t \ {y}) \ {x} = (t \ {x}) \ {y}
  OBVIOUS
<1>11. Sum(f, (t \ {x}) \ {y}) \in Int
  BY <1>4, SumType
<1>12. f[x] \in Int /\ f[y] \in Int
  BY <1>6
<1>13. Sum(f, t \ {y}) = f[x] + Sum(f, (t \ {x}) \ {y})
  BY <1>9, <1>10
<1> QED
  <2> DEFINE a1 == Sum(f, t)
             a2 == Sum(f, t \ {x})
             a3 == Sum(f, t \ {y})
             a4 == Sum(f, (t \ {x}) \ {y})
  <2>1. /\ a1 # f[x] + a2 /\ a1 = f[y] + a3 /\ a2 = f[y] + a4
        /\ a3 = f[x] + a4 /\ a4 \in Int
    BY <1>3, <1>5, <1>8, <1>11, <1>13
  <2> HIDE DEF a1, a2, a3, a4, Bad
  <2> QED
    BY <1>12, <2>1

-----------------------------------------------------------------------------
\* Score and risk of the edges, by name.
ScoreOf == [e \in 1 .. Len(edges) |-> edges[e].score]
RiskOf == [e \in 1 .. Len(edges) |-> edges[e].risk]

\* The totals of the lattice are sums.
LEMMA TotalsAreSums ==
  ASSUME NEW S \in SUBSET (1 .. Len(edges)), Len(edges) \in Nat
  PROVE  /\ L!TotalScore(edges, S) = Sum(ScoreOf, S)
         /\ L!TotalRisk(edges, S) = Sum(RiskOf, S)
         /\ Promise!TotalScore(edges, S) = Sum(ScoreOf, S)
         /\ Promise!TotalRisk(edges, S) = Sum(RiskOf, S)
<1> DEFINE Scores1(g) == g = [s \in SUBSET S |->
                                IF s = {} THEN 0 ELSE edges[Some(s)].score + g[s \ {Some(s)}]]
           Risks1(g) == g = [s \in SUBSET S |->
                                IF s = {} THEN 0 ELSE edges[Some(s)].risk + g[s \ {Some(s)}]]
<1>1. /\ L!TotalScore(edges, S) = (CHOOSE g : Scores1(g))[S]
      /\ Promise!TotalScore(edges, S) = (CHOOSE g : Scores1(g))[S]
  BY DEF L!TotalScore, L!MapThenSumSet, L!MapThenFoldSet,
         Promise!TotalScore, Promise!MapThenSumSet, Promise!MapThenFoldSet, Some
<1>2. /\ L!TotalRisk(edges, S) = (CHOOSE g : Risks1(g))[S]
      /\ Promise!TotalRisk(edges, S) = (CHOOSE g : Risks1(g))[S]
  BY DEF L!TotalRisk, L!MapThenSumSet, L!MapThenFoldSet,
         Promise!TotalRisk, Promise!MapThenSumSet, Promise!MapThenFoldSet, Some
<1>3. IsFiniteSet(S)
  <2>1. IsFiniteSet(1 .. Len(edges))
    BY FS_Interval
  <2> QED
    BY <2>1, FS_Subset
<1>4. \A s \in SUBSET S : s # {} =>
        /\ ScoreOf[Some(s)] = edges[Some(s)].score
        /\ RiskOf[Some(s)] = edges[Some(s)].risk
  BY DEF Some, ScoreOf, RiskOf
<1>5. \A g : Scores1(g) <=> Adds(ScoreOf, S, g)
  BY <1>4 DEF Adds
<1>6. \A g : Risks1(g) <=> Adds(RiskOf, S, g)
  BY <1>4 DEF Adds
<1>7. (CHOOSE g : Scores1(g))[S] = Sum(ScoreOf, S)
  <2> HIDE DEF Scores1
  <2>1. \E g : Adds(ScoreOf, S, g)
    BY <1>3, AddsExists
  <2>2. Adds(ScoreOf, S, CHOOSE g : Scores1(g))
    BY <2>1, <1>5
  <2> QED
    BY <1>3, <2>2, SumIs
<1>8. (CHOOSE g : Risks1(g))[S] = Sum(RiskOf, S)
  <2> HIDE DEF Risks1
  <2>1. \E g : Adds(RiskOf, S, g)
    BY <1>3, AddsExists
  <2>2. Adds(RiskOf, S, CHOOSE g : Risks1(g))
    BY <2>1, <1>6
  <2> QED
    BY <1>3, <2>2, SumIs
<1> QED
  BY <1>1, <1>2, <1>7, <1>8

-----------------------------------------------------------------------------
\* Edge `e' carries the word at position `p'.
Spans(e, p) == edges[e].start <= p /\ p < edges[e].end

\* `S' carries every word before `v' once, and none after it.
ChainTo(S, v) ==
  /\ S \subseteq 1 .. Len(edges)
  /\ \A e \in S : LeadsOn(e) /\ edges[e].end <= v
  /\ \A p \in 0 .. v - 1 : \E e \in S : Spans(e, p)
  /\ \A d, e \in S : d = e \/ \A p \in 0 .. v - 1 : ~(Spans(d, p) /\ Spans(e, p))

\* The way to the first word costs nothing.
Origin == label[0].score = 0 /\ label[0].risk = 0

\* Without its last edge a chain leads to where that edge starts.
LEMMA ChainWithoutLast ==
  ASSUME TypeOK, NEW v \in 1 .. nWords, NEW S, ChainTo(S, v)
  PROVE  \E e \in S : /\ edges[e].end = v /\ LeadsOn(e)
                      /\ edges[e].start \in 0 .. v - 1
                      /\ ChainTo(S \ {e}, edges[e].start)
<1>1. v \in Nat /\ v > 0 /\ nWords \in Nat /\ v - 1 \in 0 .. v - 1
  BY DEF TypeOK
<1>2. S \subseteq 1 .. Len(edges) /\ edges \in Seq(Edge)
  BY DEF ChainTo, TypeOK
<1>3. \A d \in S : edges[d].start \in Nat /\ edges[d].end \in Nat
  BY <1>2, EdgeFacts
<1>4. PICK e \in S : Spans(e, v - 1)
  BY <1>1 DEF ChainTo
<1>5. LeadsOn(e) /\ edges[e].end = v /\ edges[e].start \in 0 .. v - 1
  BY <1>1, <1>3, <1>4 DEF ChainTo, Spans, LeadsOn
<1> DEFINE u == edges[e].start
<1>6. ASSUME NEW d \in S \ {e} PROVE edges[d].end <= u
  <2>1. edges[d].end <= v /\ edges[d].start < edges[d].end
    BY DEF ChainTo, LeadsOn
  <2>2. SUFFICES ASSUME edges[d].end > u PROVE FALSE
    BY <1>3
  <2>3. edges[d].end - 1 \in 0 .. v - 1
    BY <1>1, <1>3, <2>1
  <2>4. Spans(d, edges[d].end - 1) /\ Spans(e, edges[d].end - 1)
    BY <1>1, <1>3, <1>5, <2>1, <2>2 DEF Spans
  <2> QED
    BY <2>3, <2>4 DEF ChainTo
<1>7. ASSUME NEW p \in 0 .. u - 1 PROVE \E d \in S \ {e} : Spans(d, p)
  <2>1. p \in 0 .. v - 1
    BY <1>1, <1>3, <1>5
  <2>2. PICK d \in S : Spans(d, p)
    BY <2>1 DEF ChainTo
  <2>3. ~Spans(e, p)
    BY <1>1, <1>3 DEF Spans
  <2> QED
    BY <2>2, <2>3
<1>8. \A p \in 0 .. u - 1 : p \in 0 .. v - 1
  BY <1>1, <1>3, <1>5
<1>9. ChainTo(S \ {e}, u)
  <2>1. \A d, f \in S \ {e} : d = f \/ \A p \in 0 .. u - 1 : ~(Spans(d, p) /\ Spans(f, p))
    BY <1>8 DEF ChainTo
  <2>2. \A d \in S \ {e} : LeadsOn(d)
    BY DEF ChainTo
  <2> QED
    BY <1>2, <1>6, <1>7, <2>1, <2>2 DEF ChainTo
<1> QED
  BY <1>5, <1>9

\* Once the scan is over the label of a position is at least as good as any
\* chain to it: a chain that beats a label has a shorter one that does.
LEMMA OptimalLabels ==
  ASSUME Inv, Origin, pc # "scan", NEW w \in 0 .. nWords, NEW C, ChainTo(C, w)
  PROVE  /\ w \in DOMAIN label
         /\ \/ Sum(ScoreOf, C) < label[w].score
            \/ Sum(ScoreOf, C) = label[w].score /\ label[w].risk <= Sum(RiskOf, C)
<1> DEFINE Met(v, S) == /\ v \in DOMAIN label
                        /\ \/ Sum(ScoreOf, S) < label[v].score
                           \/ /\ Sum(ScoreOf, S) = label[v].score
                              /\ label[v].risk <= Sum(RiskOf, S)
           Bad == {v \in 0 .. nWords : \E S : ChainTo(S, v) /\ ~Met(v, S)}
<1>1. SUFFICES ASSUME Bad # {} PROVE FALSE
  OBVIOUS
<1>2. TypeOK /\ NoImprovementLeft
  BY DEF Inv
<1>3. edges \in Seq(Edge) /\ Len(edges) \in Nat /\ nWords \in Nat
  BY <1>2 DEF TypeOK
<1>4. PICK v \in Bad : \A x \in Bad : v <= x
  <2> HIDE DEF Bad
  <2>1. Bad \subseteq Nat
    BY <1>3 DEF Bad
  <2> QED
    BY <1>1, <2>1, LeastNumber
<1>5. PICK S : ChainTo(S, v) /\ ~Met(v, S)
  BY <1>4
<1>6. S \subseteq 1 .. Len(edges)
  BY <1>5 DEF ChainTo
<1>7. IsFiniteSet(S)
  <2>1. IsFiniteSet(1 .. Len(edges))
    BY <1>3, FS_Interval
  <2> QED
    BY <1>6, <2>1, FS_Subset
<1>8. \A e \in S : /\ edges[e].start \in Nat /\ edges[e].end \in Nat
                   /\ ScoreOf[e] \in Int /\ RiskOf[e] \in Int
                   /\ ScoreOf[e] = edges[e].score /\ RiskOf[e] = edges[e].risk
  BY <1>3, <1>6, EdgeFacts DEF ScoreOf, RiskOf
<1>9. CASE v = 0
  <2>1. S = {}
    <3>1. SUFFICES ASSUME NEW e \in S PROVE FALSE
      OBVIOUS
    <3>2. edges[e].end <= 0 /\ edges[e].start < edges[e].end
      BY <1>5, <1>9 DEF ChainTo, LeadsOn
    <3> QED
      BY <1>8, <3>2
  <2>2. Sum(ScoreOf, S) = 0 /\ Sum(RiskOf, S) = 0
    BY <1>7, <2>1, SumStep
  <2>3. 0 \in DOMAIN label
    BY <1>2 DEF TypeOK
  <2> QED
    BY <1>5, <1>9, <2>2, <2>3 DEF Origin
<1>10. CASE v # 0
  <2>1. v \in 1 .. nWords /\ v \in Nat
    BY <1>3, <1>10
  <2>2. PICK e \in S : /\ edges[e].end = v /\ LeadsOn(e)
                       /\ edges[e].start \in 0 .. v - 1
                       /\ ChainTo(S \ {e}, edges[e].start)
    <3> HIDE DEF Met, Bad
    <3> QED
      BY <1>2, <1>5, <2>1, ChainWithoutLast
  <2> DEFINE u == edges[e].start
             T == S \ {e}
  <2>3. u \in 0 .. nWords /\ u < v
    BY <1>3, <2>1, <2>2
  <2>4. u \notin Bad
    BY <1>4, <2>1, <2>3
  <2>5. Met(u, T)
    BY <2>2, <2>3, <2>4
  <2>6. /\ v \in DOMAIN label
        /\ ~Better(Through(e), label[v])
    BY <1>2, <1>6, <2>2, <2>5 DEF NoImprovementLeft
  <2>7. /\ Sum(ScoreOf, S) = ScoreOf[e] + Sum(ScoreOf, T)
        /\ Sum(RiskOf, S) = RiskOf[e] + Sum(RiskOf, T)
    BY <1>7, <1>8, SumRemove
  <2>8. Sum(ScoreOf, T) \in Int /\ Sum(RiskOf, T) \in Int
    <3>1. IsFiniteSet(T)
      BY <1>7, FS_Subset
    <3> QED
      BY <1>8, <3>1, SumType
  <2>9. /\ label[v].score \in Int /\ label[v].risk \in Int
        /\ label[u].score \in Int /\ label[u].risk \in Int
    <3>1. label[v] \in Label /\ label[u] \in Label
      BY <1>2, <2>5, <2>6 DEF TypeOK
    <3> QED
      BY <3>1 DEF Label
  <2>10. /\ Through(e).score = label[u].score + ScoreOf[e]
         /\ Through(e).risk = label[u].risk + RiskOf[e]
    BY <1>8 DEF Through
  <2> DEFINE s1 == Sum(ScoreOf, S)
             s2 == Sum(ScoreOf, T)
             r1 == Sum(RiskOf, S)
             r2 == Sum(RiskOf, T)
             se == ScoreOf[e]
             re == RiskOf[e]
             vs == label[v].score
             vr == label[v].risk
             us == label[u].score
             ur == label[u].risk
  <2>11. /\ s1 = se + s2 /\ r1 = re + r2 /\ s2 \in Int /\ r2 \in Int
         /\ se \in Int /\ re \in Int
         /\ vs \in Int /\ vr \in Int /\ us \in Int /\ ur \in Int
         /\ s2 < us \/ (s2 = us /\ ur <= r2)
         /\ ~(us + se > vs \/ (us + se = vs /\ ur + re < vr))
         /\ ~(s1 < vs \/ (s1 = vs /\ vr <= r1))
    BY <1>5, <1>8, <2>5, <2>6, <2>7, <2>8, <2>9, <2>10 DEF Better
  <2> HIDE DEF s1, s2, r1, r2, se, re, vs, vr, us, ur, Bad, Met
  <2> QED
    BY <2>11
<1> QED
  BY <1>9, <1>10

-----------------------------------------------------------------------------
\* The edges of the path.
Taken == {path[k] : k \in DOMAIN path}

\* One of two edges ends before the other starts.
Apart(d, e) == edges[d].end <= edges[e].start \/ edges[e].end <= edges[d].start

\* The edges taken carry the words from `pos' on, each once, and what the label
\* of the end of the island says is what they add to the label of `pos'.
Walked ==
  pc \in {"back", "found"} =>
    /\ IF path = <<>> THEN pos = nWords ELSE nWords \in DOMAIN label /\ pos \in DOMAIN label
    /\ pc = "found" => pos = 0
    /\ \A e \in Taken : LeadsOn(e) /\ pos <= edges[e].start
    /\ \A p \in pos .. nWords - 1 : \E e \in Taken : Spans(e, p)
    /\ \A d, e \in Taken : d = e \/ Apart(d, e)
    /\ pos \in DOMAIN label =>
         /\ label[nWords].score = label[pos].score + Sum(ScoreOf, Taken)
         /\ label[nWords].risk = label[pos].risk + Sum(RiskOf, Taken)

\* The edges taken are finitely many, with numbers on them.
LEMMA TakenFacts ==
  ASSUME TypeOK
  PROVE  /\ Taken \subseteq 1 .. Len(edges)
         /\ IsFiniteSet(Taken)
         /\ \A e \in Taken : ScoreOf[e] \in Int /\ RiskOf[e] \in Int
         /\ path = <<>> => Taken = {}
<1>1. path \in Seq(1 .. Len(edges)) /\ edges \in Seq(Edge) /\ Len(edges) \in Nat
  BY DEF TypeOK
<1>2. Taken \subseteq 1 .. Len(edges)
  BY <1>1 DEF Taken
<1>3. IsFiniteSet(Taken)
  <2>1. IsFiniteSet(1 .. Len(edges))
    BY <1>1, FS_Interval
  <2> QED
    BY <1>2, <2>1, FS_Subset
<1>4. \A e \in 1 .. Len(edges) : ScoreOf[e] \in Int /\ RiskOf[e] \in Int
  BY <1>1, EdgeFacts DEF ScoreOf, RiskOf
<1> QED
  BY <1>2, <1>3, <1>4 DEF Taken

\* Labels hold numbers.
LEMMA LabelFacts ==
  ASSUME TypeOK, NEW p \in DOMAIN label
  PROVE  label[p].score \in Int /\ label[p].risk \in Int
<1>1. label[p] \in Label
  BY DEF TypeOK
<1> QED
  BY <1>1 DEF Label

\* No edge leads back to the first word, so its label stays.
LEMMA OriginStep == Inv /\ Origin /\ [Next]_vars => Origin'
<1> SUFFICES ASSUME Inv, Origin, [Next]_vars PROVE Origin'
  OBVIOUS
<1>1. TypeOK
  BY DEF Inv
<1>2. ASSUME NEW e \in 1 .. Len(edges), TryEdge(e) PROVE Origin'
  <2>1. edges[e].start \in Nat /\ edges[e].end \in Nat
    BY <1>1, EdgeFacts DEF TypeOK
  <2>2. 0 \in DOMAIN label
    BY <1>1 DEF TypeOK
  <2>3. CASE label' = label
    BY <2>3 DEF Origin
  <2>4. CASE /\ LeadsOn(e)
             /\ \A p \in DOMAIN label : p # edges[e].end => label'[p] = label[p]
    <3>1. edges[e].end # 0
      BY <2>1, <2>4 DEF LeadsOn
    <3> QED
      BY <2>2, <2>4, <3>1 DEF Origin
  <2> QED
    BY <1>2, <2>3, <2>4, TryEdgeFacts
<1>3. CASE label' = label
  BY <1>3 DEF Origin
<1> QED
  BY <1>2, <1>3
  DEF Next, NextPosition, ScanDone, StepBack, NoPath, Found, vars

\* What is said of the path stands while edges, labels and path do.
LEMMA TakenStands ==
  ASSUME UNCHANGED <<nWords, edges, label, path>>
  PROVE  /\ Taken' = Taken /\ ScoreOf' = ScoreOf /\ RiskOf' = RiskOf
         /\ Sum(ScoreOf, Taken)' = Sum(ScoreOf, Taken)
         /\ Sum(RiskOf, Taken)' = Sum(RiskOf, Taken)
         /\ \A e : LeadsOn(e)' <=> LeadsOn(e)
         /\ \A d, e : Apart(d, e)' <=> Apart(d, e)
         /\ \A e, p : Spans(e, p)' <=> Spans(e, p)
  BY DEF Taken, ScoreOf, RiskOf, Sum, Adds, LeadsOn, Apart, Spans

\* A turn of the walk adds an edge that ends where the others start.
LEMMA WalkBack ==
  ASSUME Inv, Walked, StepBack
  PROVE  Walked'
<1>1. /\ pc = "back" /\ pc' = "back" /\ pos > 0 /\ pos \in DOMAIN label
      /\ nWords' = nWords /\ edges' = edges /\ label' = label
      /\ path' = Append(path, label[pos].edge)
      /\ pos' = edges[label[pos].edge].start
  BY DEF StepBack
<1>2. TypeOK /\ BackPointersHold
  BY DEF Inv
<1>3. PICK e \in 1 .. Len(edges) :
        /\ LeadsOn(e) /\ edges[e].end = pos
        /\ edges[e].start \in DOMAIN label /\ label[pos] = Through(e)
  BY <1>1, <1>2 DEF BackPointersHold, TypeOK
<1>4. label[pos].edge = e
  BY <1>3 DEF Through
<1>5. path' = Append(path, e) /\ pos' = edges[e].start /\ path \in Seq(1 .. Len(edges))
  BY <1>1, <1>2, <1>4 DEF TypeOK
<1>6. Taken' = Taken \cup {e} /\ path' # <<>>
  BY <1>5 DEF Taken
<1>7. /\ Taken \subseteq 1 .. Len(edges) /\ IsFiniteSet(Taken)
      /\ \A d \in Taken : ScoreOf[d] \in Int /\ RiskOf[d] \in Int
      /\ path = <<>> => Taken = {}
  BY <1>2, TakenFacts
<1>8. /\ edges \in Seq(Edge) /\ nWords \in Nat /\ pos \in 0 .. nWords
      /\ edges[e].start \in Nat /\ edges[e].end \in Nat
      /\ edges[e].score \in Int /\ edges[e].risk \in Int
  BY <1>2, EdgeFacts DEF TypeOK
<1>9. \A d \in Taken : edges[d].start \in Nat /\ edges[d].end \in Nat
  BY <1>7, <1>8, EdgeFacts
<1>10. /\ \A d \in Taken : LeadsOn(d) /\ pos <= edges[d].start
       /\ \A p \in pos .. nWords - 1 : \E d \in Taken : Spans(d, p)
       /\ \A d, f \in Taken : d = f \/ Apart(d, f)
       /\ label[nWords].score = label[pos].score + Sum(ScoreOf, Taken)
       /\ label[nWords].risk = label[pos].risk + Sum(RiskOf, Taken)
       /\ IF path = <<>> THEN pos = nWords ELSE nWords \in DOMAIN label
  BY <1>1 DEF Walked
<1>11. edges[e].start < pos
  BY <1>3, <1>8 DEF LeadsOn
<1>12. e \notin Taken
  BY <1>8, <1>10, <1>11
<1>13. nWords \in DOMAIN label /\ pos' \in DOMAIN label
  BY <1>1, <1>3, <1>5, <1>10
<1>14. \A d \in Taken' : LeadsOn(d)' /\ pos' <= edges'[d].start
  <2>1. \A d \in Taken : edges[e].start <= edges[d].start
    BY <1>8, <1>9, <1>10, <1>11
  <2> QED
    BY <1>1, <1>3, <1>5, <1>6, <1>8, <1>10, <2>1 DEF LeadsOn
<1>15. \A p \in pos' .. nWords - 1 : \E d \in Taken' : Spans(d, p)'
  <2>1. SUFFICES ASSUME NEW p \in pos' .. nWords - 1
                 PROVE  \E d \in Taken \cup {e} : Spans(d, p)
    BY <1>1, <1>6 DEF Spans
  <2>2. CASE p < pos
    BY <1>3, <1>5, <2>2 DEF Spans
  <2>3. CASE p >= pos
    <3>1. p \in pos .. nWords - 1
      BY <1>5, <1>8, <2>3
    <3> QED
      BY <1>10, <3>1
  <2> QED
    BY <1>5, <1>8, <2>2, <2>3
<1>16. \A d, f \in Taken' : d = f \/ Apart(d, f)'
  <2>1. SUFFICES ASSUME NEW d \in Taken \cup {e}, NEW f \in Taken \cup {e}
                 PROVE  d = f \/ Apart(d, f)
    BY <1>1, <1>6 DEF Apart
  <2>2. \A g \in Taken : Apart(g, e) /\ Apart(e, g)
    BY <1>3, <1>10 DEF Apart
  <2> QED
    BY <1>10, <2>2
<1>17. /\ Sum(ScoreOf, Taken') = ScoreOf[e] + Sum(ScoreOf, Taken)
       /\ Sum(RiskOf, Taken') = RiskOf[e] + Sum(RiskOf, Taken)
  <2>1. IsFiniteSet(Taken \cup {e}) /\ (Taken \cup {e}) \ {e} = Taken
    BY <1>7, <1>12, FS_AddElement
  <2>2. \A d \in Taken \cup {e} : ScoreOf[d] \in Int /\ RiskOf[d] \in Int
    BY <1>7, <1>8 DEF ScoreOf, RiskOf
  <2>3. /\ Sum(ScoreOf, Taken \cup {e}) = ScoreOf[e] + Sum(ScoreOf, (Taken \cup {e}) \ {e})
        /\ Sum(RiskOf, Taken \cup {e}) = RiskOf[e] + Sum(RiskOf, (Taken \cup {e}) \ {e})
    BY <2>1, <2>2, SumRemove
  <2> QED
    BY <1>6, <2>1, <2>3
<1>18. ScoreOf[e] = edges[e].score /\ RiskOf[e] = edges[e].risk
  BY DEF ScoreOf, RiskOf
<1>19. /\ label[pos].score = label[pos'].score + ScoreOf[e]
       /\ label[pos].risk = label[pos'].risk + RiskOf[e]
  BY <1>3, <1>5, <1>18 DEF Through
<1>20. /\ label[nWords].score = label[pos'].score + Sum(ScoreOf, Taken')
       /\ label[nWords].risk = label[pos'].risk + Sum(RiskOf, Taken')
  <2> DEFINE s == label[pos'].score
             r == label[pos'].risk
             se == ScoreOf[e]
             re == RiskOf[e]
             ts == Sum(ScoreOf, Taken)
             tr == Sum(RiskOf, Taken)
  <2>1. s \in Int /\ r \in Int
    BY <1>2, <1>13, LabelFacts
  <2>2. ts \in Int /\ tr \in Int
    BY <1>7, SumType
  <2>3. se \in Int /\ re \in Int
    BY <1>8, <1>18
  <2>4. /\ label[nWords].score = (s + se) + ts /\ Sum(ScoreOf, Taken') = se + ts
        /\ label[nWords].risk = (r + re) + tr /\ Sum(RiskOf, Taken') = re + tr
    BY <1>10, <1>17, <1>19
  <2> HIDE DEF s, r, se, re, ts, tr
  <2>5. (s + se) + ts = s + (se + ts) /\ (r + re) + tr = r + (re + tr)
    BY <2>1, <2>2, <2>3
  <2> QED
    BY <2>4, <2>5 DEF s, r
<1>21. ScoreOf' = ScoreOf /\ RiskOf' = RiskOf
  BY <1>1 DEF ScoreOf, RiskOf
<1>22. Sum(ScoreOf, Taken)' = Sum(ScoreOf, Taken') /\ Sum(RiskOf, Taken)' = Sum(RiskOf, Taken')
  BY <1>21 DEF Sum, Adds
<1> QED
  BY <1>1, <1>6, <1>13, <1>14, <1>15, <1>16, <1>20, <1>22 DEF Walked

\* No other step disturbs what has been walked.
LEMMA WalkStep == Inv /\ Walked /\ [Next]_vars => Walked'
<1> SUFFICES ASSUME Inv, Walked, [Next]_vars PROVE Walked'
  OBVIOUS
<1>1. TypeOK
  BY DEF Inv
<1>2. CASE pc' \notin {"back", "found"}
  BY <1>2 DEF Walked
<1>3. CASE ScanDone
  <2>1. /\ pc = "scan" /\ pc' = "back" /\ pos' = nWords /\ path' = path
        /\ UNCHANGED <<nWords, edges, label, path>> /\ nWords' = nWords /\ label' = label
    BY <1>3 DEF ScanDone
  <2>2. path = <<>>
    BY <1>1, <2>1 DEF Inv, NoPathYet, TypeOK
  <2>3. Taken = {} /\ IsFiniteSet(Taken)
    BY <1>1, <2>2, TakenFacts
  <2>4. Sum(ScoreOf, Taken) = 0 /\ Sum(RiskOf, Taken) = 0
    BY <2>3, SumStep
  <2>5. nWords \in Nat
    BY <1>1 DEF TypeOK
  <2>6. nWords \in DOMAIN label =>
          label[nWords].score = label[nWords].score + 0 /\ label[nWords].risk = label[nWords].risk + 0
    <3>1. SUFFICES ASSUME nWords \in DOMAIN label
                   PROVE  label[nWords].score = label[nWords].score + 0
                          /\ label[nWords].risk = label[nWords].risk + 0
      OBVIOUS
    <3>2. label[nWords].score \in Int /\ label[nWords].risk \in Int
      BY <1>1, <3>1, LabelFacts
    <3> QED
      BY <3>2
  <2>7. pos' .. nWords' - 1 = {}
    BY <2>1, <2>5
  <2>8. Taken' = {} /\ Sum(ScoreOf, Taken)' = 0 /\ Sum(RiskOf, Taken)' = 0
    BY <2>1, <2>3, <2>4, TakenStands
  <2> QED
    BY <2>1, <2>2, <2>6, <2>7, <2>8 DEF Walked
<1>4. CASE StepBack
  BY <1>4, WalkBack
<1>5. CASE Found
  <2>1. /\ pc = "back" /\ pc' = "found" /\ pos = 0 /\ pos' = pos /\ path' = path
        /\ UNCHANGED <<nWords, edges, label, path>>
        /\ nWords' = nWords /\ label' = label /\ edges' = edges
    BY <1>5 DEF Found
  <2> QED
    BY <2>1, TakenStands DEF Walked
<1>6. CASE UNCHANGED vars
  <2>1. /\ pc' = pc /\ pos' = pos /\ path' = path
        /\ UNCHANGED <<nWords, edges, label, path>>
        /\ nWords' = nWords /\ label' = label /\ edges' = edges
    BY <1>6 DEF vars
  <2> QED
    BY <2>1, TakenStands DEF Walked
<1> QED
  BY <1>2, <1>3, <1>4, <1>5, <1>6
  DEF Next, TryEdge, NextPosition, NoPath

\* Every reachable state satisfies the invariant and what is said of the walk.
LEMMA WalkInvariance == Spec => [](Inv /\ Origin /\ Walked)
<1>1. Init => Inv /\ Origin /\ Walked
  <2>1. Init => Inv
    BY InvInit
  <2> QED
    BY <2>1 DEF Init, Origin, Walked
<1>2. Inv /\ Origin /\ Walked /\ [Next]_vars => (Inv /\ Origin /\ Walked)'
  <2>1. Inv /\ [Next]_vars => Inv'
    BY TryEdgeStep, NextPositionStep, ScanDoneStep, StepBackStep, ReportStep
    DEF Next
  <2> QED
    BY <2>1, OriginStep, WalkStep
<1> QED
  BY <1>1, <1>2, PTL DEF Spec

\* best_score and total_risk, which the gate reads, are the sums over the edges
\* that are returned.
THEOREM TotalsCorrect == Spec => []TotalsMatch
<1>1. Inv /\ Origin /\ Walked => TotalsMatch
  <2> SUFFICES ASSUME Inv, Origin, Walked, pc = "found" PROVE TotalsMatch
    BY DEF TotalsMatch
  <2>1. TypeOK /\ Len(edges) \in Nat
    BY DEF Inv, TypeOK
  <2>2. pos = 0 /\ 0 \in DOMAIN label
    BY <2>1 DEF Walked, TypeOK
  <2>3. /\ Taken \in SUBSET (1 .. Len(edges)) /\ IsFiniteSet(Taken)
        /\ \A e \in Taken : ScoreOf[e] \in Int /\ RiskOf[e] \in Int
    BY <2>1, TakenFacts
  <2>4. Sum(ScoreOf, Taken) \in Int /\ Sum(RiskOf, Taken) \in Int
    BY <2>3, SumType
  <2>5. label[nWords].score = 0 + Sum(ScoreOf, Taken) /\ label[nWords].risk = 0 + Sum(RiskOf, Taken)
    BY <2>2 DEF Walked, Origin
  <2>6. label[nWords].score = Sum(ScoreOf, Taken) /\ label[nWords].risk = Sum(RiskOf, Taken)
    BY <2>4, <2>5
  <2>7. /\ L!TotalScore(edges, Taken) = Sum(ScoreOf, Taken)
        /\ L!TotalRisk(edges, Taken) = Sum(RiskOf, Taken)
    BY <2>1, <2>3, TotalsAreSums
  <2> QED
    BY <2>6, <2>7 DEF TotalsMatch, Taken
<1> QED
  BY <1>1, WalkInvariance, PTL

-----------------------------------------------------------------------------
\* The chains of the abstract lattice are the chains to the end of the island.
LEMMA PromisedChains ==
  ASSUME TypeOK, NEW S
  PROVE  S \in Promise!Chains(edges, nWords) <=> ChainTo(S, nWords)
<1>1. /\ edges \in Seq(Edge) /\ nWords \in Nat
      /\ DOMAIN edges = 1 .. Len(edges)
  BY DEF TypeOK
<1>2. \A e \in 1 .. Len(edges) : edges[e].start \in Nat /\ edges[e].end \in Nat
  BY <1>1, EdgeFacts
<1>3. \A e : e \in Promise!Usable(edges, nWords) <=>
               e \in 1 .. Len(edges) /\ LeadsOn(e)
  BY <1>1, <1>2 DEF Promise!Usable, LeadsOn
<1>4. S \in SUBSET Promise!Usable(edges, nWords) <=>
        S \subseteq 1 .. Len(edges) /\ \A e \in S : LeadsOn(e) /\ edges[e].end <= nWords
  BY <1>3 DEF LeadsOn
<1> QED
  BY <1>4 DEF Promise!Chains, Promise!Carries, ChainTo, Spans

\* The edges taken are a chain, and one of the best.
LEMMA TakenIsBest ==
  ASSUME Inv, Origin, Walked, pc = "back", pos = 0
  PROVE  Taken \in Promise!BestChains(edges, nWords)
<1>1. TypeOK /\ nWords \in 0 .. nWords /\ 0 \in DOMAIN label /\ Len(edges) \in Nat /\ nWords \in Nat
  BY DEF Inv, TypeOK
<1>2. /\ Taken \subseteq 1 .. Len(edges) /\ IsFiniteSet(Taken)
      /\ \A e \in Taken : ScoreOf[e] \in Int /\ RiskOf[e] \in Int
  BY <1>1, TakenFacts
<1>3. \A e \in Taken : edges[e].start \in Nat /\ edges[e].end \in Nat
  BY <1>1, <1>2, EdgeFacts DEF TypeOK
<1>4. ChainTo(Taken, nWords)
  <2>1. \A e \in Taken : LeadsOn(e) /\ edges[e].end <= nWords
    BY DEF Walked, LeadsOn
  <2>2. \A p \in 0 .. nWords - 1 : \E e \in Taken : Spans(e, p)
    BY DEF Walked
  <2>3. \A d, e \in Taken : d = e \/ \A p \in 0 .. nWords - 1 : ~(Spans(d, p) /\ Spans(e, p))
    <3>1. SUFFICES ASSUME NEW d \in Taken, NEW e \in Taken, d # e, NEW p \in 0 .. nWords - 1,
                          Spans(d, p), Spans(e, p)
                   PROVE  FALSE
      OBVIOUS
    <3>2. Apart(d, e)
      BY <3>1 DEF Walked
    <3> QED
      BY <1>1, <1>3, <3>1, <3>2 DEF Apart, Spans
  <2> QED
    BY <1>2, <2>1, <2>2, <2>3 DEF ChainTo
<1> DEFINE C == Promise!Chains(edges, nWords)
           score(S) == Promise!TotalScore(edges, S)
           risk(S) == Promise!TotalRisk(edges, S)
<1>5. Taken \in C
  BY <1>1, <1>4, PromisedChains
<1>6. ASSUME NEW S \in C
      PROVE  /\ score(S) = Sum(ScoreOf, S) /\ risk(S) = Sum(RiskOf, S)
             /\ score(S) \in Int /\ risk(S) \in Int
             /\ ChainTo(S, nWords)
  <2>1. ChainTo(S, nWords)
    BY <1>1, PromisedChains
  <2>2. S \subseteq 1 .. Len(edges)
    BY <2>1 DEF ChainTo
  <2>3. IsFiniteSet(S)
    <3>1. IsFiniteSet(1 .. Len(edges))
      BY <1>1, FS_Interval
    <3> QED
      BY <2>2, <3>1, FS_Subset
  <2>4. \A e \in S : ScoreOf[e] \in Int /\ RiskOf[e] \in Int
    BY <1>1, <2>2, EdgeFacts DEF ScoreOf, RiskOf, TypeOK
  <2>5. Sum(ScoreOf, S) \in Int /\ Sum(RiskOf, S) \in Int
    BY <2>3, <2>4, SumType
  <2> QED
    BY <1>1, <2>1, <2>2, <2>5, TotalsAreSums
<1>7. label[nWords].score = score(Taken) /\ label[nWords].risk = risk(Taken)
  <2>1. /\ label[nWords].score = 0 + Sum(ScoreOf, Taken)
        /\ label[nWords].risk = 0 + Sum(RiskOf, Taken)
    BY <1>1 DEF Walked, Origin
  <2>2. score(Taken) = Sum(ScoreOf, Taken) /\ risk(Taken) = Sum(RiskOf, Taken)
        /\ score(Taken) \in Int /\ risk(Taken) \in Int
    BY <1>5, <1>6
  <2> QED
    BY <2>1, <2>2
<1>8. ASSUME NEW S \in C
      PROVE  score(S) < score(Taken) \/ (score(S) = score(Taken) /\ risk(Taken) <= risk(S))
  <2>1. ChainTo(S, nWords) /\ score(S) = Sum(ScoreOf, S) /\ risk(S) = Sum(RiskOf, S)
    BY <1>6
  <2>2. \/ Sum(ScoreOf, S) < label[nWords].score
        \/ Sum(ScoreOf, S) = label[nWords].score /\ label[nWords].risk <= Sum(RiskOf, S)
    BY <1>1, <2>1, OptimalLabels
  <2> QED
    BY <1>7, <2>1, <2>2
<1> DEFINE top == Promise!Max({score(S) : S \in C})
           best == {S \in C : score(S) = top}
           safest == Promise!Min({risk(S) : S \in best})
<1>9. top = score(Taken)
  <2>1. \A S \in C : score(S) \in Int /\ score(S) <= score(Taken)
    BY <1>5, <1>6, <1>8
  <2> DEFINE X == {score(S) : S \in C}
             m == score(Taken)
  <2>2. m \in X /\ \A x \in X : x \in Int /\ x <= m
    BY <1>5, <2>1
  <2>3. top = CHOOSE x \in X : \A y \in X : x >= y
    BY DEF Promise!Max
  <2> HIDE DEF X, m, top, C, score, risk
  <2>4. \A x \in X : (\A y \in X : x >= y) => x = m
    BY <2>2
  <2>5. \A y \in X : m >= y
    BY <2>2
  <2> QED
    BY <2>2, <2>3, <2>4, <2>5 DEF m
<1>10. safest = risk(Taken)
  <2>1. \A S \in best : risk(S) \in Int /\ risk(Taken) <= risk(S)
    <3>1. SUFFICES ASSUME NEW S \in best PROVE risk(S) \in Int /\ risk(Taken) <= risk(S)
      OBVIOUS
    <3>2. S \in C /\ score(S) = score(Taken)
      BY <1>9
    <3>3. score(S) \in Int /\ risk(S) \in Int
      BY <1>6, <3>2
    <3>4. score(S) < score(Taken) \/ (score(S) = score(Taken) /\ risk(Taken) <= risk(S))
      BY <1>8, <3>2
    <3> HIDE DEF score, risk, C, best
    <3> QED
      BY <3>2, <3>3, <3>4
  <2>2. Taken \in best
    BY <1>5, <1>9
  <2> DEFINE X == {risk(S) : S \in best}
             m == risk(Taken)
  <2>3. m \in X /\ \A x \in X : x \in Int /\ m <= x
    BY <2>1, <2>2
  <2>4. safest = CHOOSE x \in X : \A y \in X : x <= y
    BY DEF Promise!Min
  <2> HIDE DEF X, m, safest, best, C, score, risk
  <2>5. \A x \in X : (\A y \in X : x <= y) => x = m
    BY <2>3
  <2>6. \A y \in X : m <= y
    BY <2>3
  <2> QED
    BY <2>3, <2>4, <2>5, <2>6 DEF m
<1>11. Promise!BestChains(edges, nWords) = {S \in best : risk(S) = safest}
  BY DEF Promise!BestChains
<1>12. Taken \in best
  BY <1>5, <1>9
<1> HIDE DEF best, safest, risk
<1> QED
  BY <1>10, <1>11, <1>12

\* If the end of the island was not reached there is no chain.
LEMMA NoChain ==
  ASSUME Inv, Origin, Walked, pc = "back", pos \notin DOMAIN label
  PROVE  Promise!Chains(edges, nWords) = {}
<1>1. TypeOK /\ nWords \in 0 .. nWords
  BY DEF Inv, TypeOK
<1>2. nWords \notin DOMAIN label
  BY DEF Walked
<1>3. ASSUME NEW S \in Promise!Chains(edges, nWords) PROVE FALSE
  <2>1. ChainTo(S, nWords)
    BY <1>1, <1>3, PromisedChains
  <2> QED
    BY <1>1, <1>2, <2>1, OptimalLabels
<1> QED
  BY <1>3

\* Every step of the decoder is the promised answer or no step at all.
LEMMA AnswerStep ==
  ASSUME Inv, Origin, Walked, [Next]_vars
  PROVE  [Promise!Answer]_(Promise!vars)
<1>1. CASE pc \in {"scan", "back"} /\ pc' \in {"scan", "back"} /\ UNCHANGED <<edges, nWords>>
  BY <1>1 DEF Promise!vars
<1>2. CASE NoPath
  <2>1. /\ pc = "back" /\ pc' = "none" /\ pos \notin DOMAIN label /\ edges' = edges /\ nWords' = nWords
    BY <1>2 DEF NoPath
  <2>2. Promise!Chains(edges, nWords) = {}
    BY <2>1, NoChain
  <2> QED
    BY <2>1, <2>2 DEF Promise!Answer
<1>3. CASE Found
  <2>1. /\ pc = "back" /\ pc' = "found" /\ pos = 0 /\ edges' = edges /\ nWords' = nWords
        /\ path' = path
    BY <1>3 DEF Found
  <2>2. Taken \in Promise!BestChains(edges, nWords)
    BY <2>1, TakenIsBest
  <2>3. Promise!Chains(edges, nWords) # {}
    BY <2>2 DEF Promise!BestChains
  <2> QED
    BY <2>1, <2>2, <2>3 DEF Promise!Answer, Taken
<1>4. CASE UNCHANGED vars
  BY <1>4 DEF vars, Promise!vars
<1> QED
  BY <1>1, <1>2, <1>3, <1>4
  DEF Next, TryEdge, NextPosition, ScanDone, StepBack

\* The decoder answers with a best chain of the lattice, highest in score and
\* then lowest in risk, or reports that there is none because there is none.
THEOREM DecoderKeepsPromise == Spec => AnswersBest
<1>1. Init => Promise!Init
  BY DEF Init, Promise!Init
<1>2. Inv /\ Origin /\ Walked /\ [Next]_vars => [Promise!Answer]_(Promise!vars)
  BY AnswerStep
<1> QED
  BY <1>1, <1>2, WalkInvariance, PTL DEF Spec, AnswersBest, Promise!Spec

=============================================================================
