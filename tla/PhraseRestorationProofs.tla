---------------------- MODULE PhraseRestorationProofs ----------------------
(***************************************************************************)
(* Where phrases may write, for every text, every lexicon and every        *)
(* setting of the gate.                                                    *)
(*                                                                         *)
(* Islands hold their words in order, lie one after the other and have no  *)
(* break inside (Solid, Apart).  A chain of the lattice carries every word *)
(* of its island once, so the changes made of it are disjoint and reach    *)
(* all words or none, and stay inside the island.  An island lists all the *)
(* words of its stretch of text (WordsListed) and every change is that of  *)
(* a phrase edge (FromPhrases), so a change only adds accents.  What an    *)
(* island adds is one to one with the chain that passed the gate, or one   *)
(* safe phrase, so the gate holds of the changes too (Gated): sums over    *)
(* finite sets are reasoned about by a least set that breaks the claim.    *)
(***************************************************************************)
EXTENDS PhraseRestoration, SequenceTheorems, FiniteSetTheorems, TLAPS

Start(island) == island[1]
Last(island) == island[Len(island)]

\* A list of words in order, with no break between the first and `end'.
Solid(words, end) ==
  /\ \A i, j \in DOMAIN words : i < j => words[i] < words[j]
  /\ words # <<>> => \A t \in Positions :
       words[1] <= t /\ t <= end => tokens[t].kind # "other"

IslandsSolid ==
  \A k \in DOMAIN islands : islands[k] # <<>> /\ Solid(islands[k], Last(islands[k]))

IslandsApart ==
  \A j, k \in DOMAIN islands : j < k => Last(islands[j]) < Start(islands[k])

\* While tokens are read: the words collected follow the islands.
Collected ==
  phase = "extract" =>
    /\ changes = {}
    /\ Solid(current, at - 1)
    /\ \A i \in DOMAIN current : current[i] < at
    /\ \A k \in DOMAIN islands : Last(islands[k]) < at
    /\ current # <<>> => \A k \in DOMAIN islands : Last(islands[k]) < current[1]

\* The text, the lexicon and the islands have their types.
Typed ==
  /\ phase \in {"extract", "restore", "done"}
  /\ tokens \in Seq(Token)
  /\ lexicon \in Seq(Phrase)
  /\ at \in Nat \ {0}
  /\ current \in Seq(Positions)
  /\ islands \in Seq(Seq(Positions))

Islands == Typed /\ IslandsSolid /\ IslandsApart /\ Collected

LEMMA IslandsInit == Init => Islands
<1>1. SUFFICES ASSUME Init
               PROVE  Islands
  OBVIOUS
<1>2. tokens \in Seq(Token) /\ lexicon \in Seq(Phrase)
  BY <1>1, InputAssumption DEF Init
<1>3. phase = "extract" /\ at = 1 /\ current = <<>> /\ islands = <<>> /\ changes = {}
  BY <1>1 DEF Init
<1>4. Typed
  BY <1>2, <1>3 DEF Typed
<1>5. IslandsSolid /\ IslandsApart /\ Collected
  BY <1>3 DEF IslandsSolid, IslandsApart, Collected, Solid
<1> QED
  BY <1>4, <1>5 DEF Islands

\* The ends of an island.
LEMMA EndFacts ==
  ASSUME Islands, NEW k \in DOMAIN islands
  PROVE  /\ islands[k] \in Seq(Positions) /\ Len(islands[k]) \in Nat \ {0}
         /\ Start(islands[k]) \in Positions
         /\ Last(islands[k]) \in Positions
         /\ \A i \in DOMAIN islands[k] :
              /\ islands[k][i] \in Positions
              /\ Start(islands[k]) <= islands[k][i]
              /\ islands[k][i] <= Last(islands[k])
<1> DEFINE island == islands[k]
<1>1. /\ island \in Seq(Positions) /\ island # <<>>
      /\ \A i, j \in DOMAIN island : i < j => island[i] < island[j]
  BY DEF Islands, Typed, IslandsSolid, Solid
<1> HIDE DEF island
<1>2. Len(island) \in Nat \ {0} /\ DOMAIN island = 1 .. Len(island)
  BY <1>1
<1>3. \A i \in DOMAIN island : island[i] \in Positions
  BY <1>1
<1>4. Start(island) \in Positions /\ Last(island) \in Positions
  BY <1>2, <1>3 DEF Start, Last
<1>5. \A i \in DOMAIN island : Start(island) <= island[i] /\ island[i] <= Last(island)
  BY <1>1, <1>2, <1>3 DEF Start, Last, Positions
<1> QED
  BY <1>1, <1>2, <1>3, <1>4, <1>5 DEF island

\* flush() keeps the islands solid and apart.
LEMMA FlushFacts ==
  ASSUME Islands, phase = "extract"
  PROVE  /\ Flushed[2] = <<>>
         /\ Flushed[1] \in Seq(Seq(Positions))
         /\ \A k \in DOMAIN Flushed[1] :
              /\ Flushed[1][k] # <<>>
              /\ Solid(Flushed[1][k], Last(Flushed[1][k]))
              /\ Last(Flushed[1][k]) < at
         /\ \A j, k \in DOMAIN Flushed[1] :
              j < k => Last(Flushed[1][j]) < Start(Flushed[1][k])
<1>1. CASE current = <<>>
  <2>1. Flushed = <<islands, current>>
    BY <1>1 DEF Flushed
  <2> QED
    BY <1>1, <2>1 DEF Islands, Typed, IslandsSolid, IslandsApart, Collected
<1>2. CASE current # <<>>
  <2> DEFINE new == Append(islands, current)
             n == Len(islands)
  <2>1. Flushed[1] = new /\ Flushed[2] = <<>>
    BY <1>2 DEF Flushed
  <2>2. /\ islands \in Seq(Seq(Positions)) /\ current \in Seq(Positions)
        /\ Len(current) \in Nat \ {0} /\ DOMAIN current = 1 .. Len(current)
        /\ \A i \in DOMAIN current : current[i] \in Positions /\ current[i] < at
        /\ at \in Nat
    BY <1>2 DEF Islands, Typed, Collected
  <2>3. Last(current) \in Positions /\ Last(current) < at
    BY <2>2 DEF Last
  <2>4. Solid(current, Last(current))
    BY <1>2, <2>2, <2>3 DEF Islands, Collected, Solid, Positions
  <2>5. /\ new \in Seq(Seq(Positions)) /\ DOMAIN new = 1 .. n + 1
        /\ \A k \in 1 .. n : k \in DOMAIN islands /\ new[k] = islands[k]
        /\ new[n + 1] = current
        /\ n \in Nat
    BY <2>2
  <2>6. \A k \in 1 .. n + 1 : k \in 1 .. n \/ k = n + 1
    BY <2>5
  <2> HIDE DEF new, n
  <2>7. \A k \in 1 .. n + 1 :
          new[k] # <<>> /\ Solid(new[k], Last(new[k])) /\ Last(new[k]) < at
    <3>1. \A k \in 1 .. n :
            new[k] # <<>> /\ Solid(new[k], Last(new[k])) /\ Last(new[k]) < at
      BY <2>5 DEF Islands, IslandsSolid, Collected
    <3> QED
      BY <1>2, <2>3, <2>4, <2>5, <2>6, <3>1
  <2>8. \A j, k \in 1 .. n + 1 : j < k => Last(new[j]) < Start(new[k])
    <3>1. SUFFICES ASSUME NEW j \in 1 .. n + 1, NEW k \in 1 .. n + 1, j < k
                   PROVE  Last(new[j]) < Start(new[k])
      OBVIOUS
    <3>2. j \in 1 .. n
      BY <2>5, <3>1
    <3>3. CASE k \in 1 .. n
      BY <2>5, <3>1, <3>2, <3>3 DEF Islands, IslandsApart
    <3>4. CASE k = n + 1
      BY <1>2, <2>5, <3>2, <3>4 DEF Islands, Collected, Start
    <3> QED
      BY <2>6, <3>3, <3>4
  <2> QED
    BY <2>1, <2>5, <2>7, <2>8
<1> QED
  BY <1>1, <1>2

LEMMA ReadWordStep ==
  ASSUME Islands, ReadWord
  PROVE  Islands'
<1>1. /\ at \in Positions /\ at \in Nat /\ at' = at + 1
      /\ phase = "extract" /\ tokens[at].kind = "word"
      /\ current' = Append(current, at)
      /\ UNCHANGED <<phase, tokens, lexicon, islands, changes>>
  BY DEF ReadWord, Islands, Typed, Positions
<1> DEFINE n == Len(current)
<1>2. /\ current \in Seq(Positions) /\ n \in Nat
      /\ current' \in Seq(Positions) /\ DOMAIN current' = 1 .. n + 1
      /\ \A i \in 1 .. n : i \in DOMAIN current /\ current'[i] = current[i]
      /\ current'[n + 1] = at
  BY <1>1 DEF Islands, Typed
<1> HIDE DEF n
<1>3. \A i \in 1 .. n + 1 : i \in 1 .. n \/ i = n + 1
  BY <1>2
<1>4. \A i \in 1 .. n : current[i] \in Int /\ current[i] < at
  BY <1>1, <1>2 DEF Islands, Collected, Positions
<1>5. \A i, j \in 1 .. n + 1 : i < j => current'[i] < current'[j]
  <2>1. SUFFICES ASSUME NEW i \in 1 .. n + 1, NEW j \in 1 .. n + 1, i < j
                 PROVE  current'[i] < current'[j]
    OBVIOUS
  <2>2. i \in 1 .. n
    BY <1>2, <2>1
  <2>3. CASE j \in 1 .. n
    BY <1>1, <1>2, <2>1, <2>2, <2>3 DEF Islands, Collected, Solid
  <2>4. CASE j = n + 1
    BY <1>2, <1>4, <2>2, <2>4
  <2> QED
    BY <1>3, <2>3, <2>4
<1>6. \A t \in Positions : current'[1] <= t /\ t <= at => tokens[t].kind # "other"
  <2>1. SUFFICES ASSUME NEW t \in Positions, current'[1] <= t, t <= at, t # at
                 PROVE  tokens[t].kind # "other"
    BY <1>1
  <2>2. t <= at - 1
    BY <1>1, <2>1 DEF Positions
  <2>3. current # <<>> /\ current'[1] = current[1]
    BY <1>2, <2>1 DEF Positions
  <2> QED
    BY <1>1, <2>1, <2>2, <2>3 DEF Islands, Collected, Solid
<1>7. Typed' /\ IslandsSolid' /\ IslandsApart'
  BY <1>1, <1>2 DEF Islands, Typed, IslandsSolid, IslandsApart, Solid, Positions
<1>8. Collected'
  <2>1. \A i \in 1 .. n + 1 : current'[i] < at + 1
    BY <1>1, <1>2, <1>3, <1>4
  <2>2. \A k \in DOMAIN islands : Last(islands[k]) < at /\ Last(islands[k]) \in Int
    BY <1>1, EndFacts DEF Islands, Collected, Positions
  <2>3. \A k \in DOMAIN islands : Last(islands[k]) < current'[1]
    <3>1. CASE n = 0
      BY <1>2, <2>2, <3>1
    <3>2. CASE n # 0
      BY <1>1, <1>2, <3>2 DEF Islands, Collected
    <3> QED
      BY <3>1, <3>2
  <2>4. Solid(current', at)
    BY <1>1, <1>2, <1>5, <1>6 DEF Solid
  <2>5. (at + 1) - 1 = at
    BY <1>1
  <2> QED
    BY <1>1, <1>2, <2>1, <2>2, <2>3, <2>4, <2>5, <1>5, <1>6 DEF Islands, Collected, Solid, Positions
<1> QED
  BY <1>7, <1>8 DEF Islands

LEMMA IslandsStep ==
  ASSUME Islands, [Next]_vars
  PROVE  Islands'
<1>1. CASE ReadWord
  BY <1>1, ReadWordStep
<1>2. CASE ReadSpace
  <2>1. /\ at \in Nat \ {0} /\ at' = at + 1
        /\ phase = "extract" /\ tokens[at].kind = "space"
        /\ UNCHANGED <<phase, tokens, lexicon, current, islands, changes>>
    BY <1>2 DEF ReadSpace, Islands, Typed
  <2>2. Typed' /\ IslandsSolid' /\ IslandsApart'
    BY <2>1 DEF Islands, Typed, IslandsSolid, IslandsApart, Solid, Positions
  <2>3. \A t \in Positions : t <= at => t = at \/ t <= at - 1
    BY <2>1 DEF Positions
  <2>4. Solid(current, at)
    BY <2>1, <2>3 DEF Islands, Collected, Solid
  <2>5. (at + 1) - 1 = at
    BY <2>1
  <2>6. /\ \A i \in DOMAIN current : current[i] \in Int /\ current[i] < at + 1
        /\ \A k \in DOMAIN islands : Last(islands[k]) < at + 1
    <3>1. \A i \in DOMAIN current : current[i] \in Int /\ current[i] < at
      BY <2>1 DEF Islands, Typed, Collected, Positions
    <3>2. \A k \in DOMAIN islands : Last(islands[k]) \in Int /\ Last(islands[k]) < at
      BY <2>1, EndFacts DEF Islands, Collected, Positions
    <3> QED
      BY <2>1, <3>1, <3>2
  <2>7. Collected'
    BY <2>1, <2>4, <2>5, <2>6 DEF Islands, Collected, Solid, Positions
  <2> QED
    BY <2>2, <2>7 DEF Islands
<1>3. CASE ReadOther \/ ExtractDone
  <2>1. /\ at \in Nat \ {0} /\ phase = "extract" /\ changes = {}
        /\ islands' = Flushed[1] /\ current' = Flushed[2]
        /\ at' \in Nat \ {0} /\ (phase' = "extract" => at' = at + 1)
        /\ phase' \in {"extract", "restore"}
        /\ UNCHANGED <<tokens, lexicon, changes>>
    BY <1>3 DEF ReadOther, ExtractDone, Islands, Typed, Collected
  <2>2. Typed'
    <3>1. current' = <<>> /\ islands' \in Seq(Seq(Positions)) /\ Positions' = Positions
      BY <2>1, FlushFacts DEF Positions
    <3>2. <<>> \in Seq(Positions)
      OBVIOUS
    <3> QED
      BY <2>1, <3>1, <3>2 DEF Islands, Typed
  <2>3. IslandsSolid' /\ IslandsApart'
    BY <2>1, FlushFacts DEF IslandsSolid, IslandsApart, Solid, Positions
  <2>4. Collected'
    <3>1. current' = <<>>
      BY <2>1, FlushFacts
    <3>2. \A k \in DOMAIN islands' : Last(islands'[k]) < at /\ Last(islands'[k]) \in Int
      <4>1. \A k \in DOMAIN islands' : islands'[k] \in Seq(Positions) /\ islands'[k] # <<>>
        BY <2>1, FlushFacts
      <4> QED
        BY <2>1, <4>1, FlushFacts DEF Last, Positions
    <3> QED
      BY <2>1, <3>1, <3>2 DEF Collected, Solid, Last
  <2> QED
    BY <2>2, <2>3, <2>4 DEF Islands
<1>4. CASE RestoreIsland \/ RestoreDone \/ UNCHANGED vars
  <2>1. /\ UNCHANGED <<tokens, lexicon, current, islands>>
        /\ at' \in Nat \ {0} /\ phase' \in {"extract", "restore", "done"}
        /\ phase' = "extract" => UNCHANGED <<phase, at, changes>>
    BY <1>4 DEF RestoreIsland, RestoreDone, vars, Islands, Typed
  <2> QED
    BY <2>1 DEF Islands, Typed, IslandsSolid, IslandsApart, Collected, Solid, Positions
<1> QED
  BY <1>1, <1>2, <1>3, <1>4 DEF Next

-----------------------------------------------------------------------------
\* A phrase edge reads some words of its island as a phrase of the lexicon.
LEMMA PhraseEdgeFacts ==
  ASSUME Typed, NEW island \in Seq(Positions), NEW e \in PhraseEdges(island)
  PROVE  /\ e[1] \in Nat /\ e[2] \in Nat /\ e[3] \in 1 .. Len(lexicon)
         /\ e[1] < e[2] /\ e[2] <= Len(island)
         /\ e[1] + 1 \in DOMAIN island /\ e[2] \in DOMAIN island
         /\ e = <<e[1], e[2], e[3]>>
<1>1. /\ e \in (0 .. Len(island)) \X (0 .. Len(island)) \X (1 .. Len(lexicon))
      /\ e[1] < e[2]
  BY DEF PhraseEdges
<1> QED
  BY <1>1 DEF Typed

\* The phrases of a best chain do not overlap; if they are the whole chain,
\* every word is under one.
LEMMA ChainFacts ==
  ASSUME Typed, NEW island \in Seq(Positions),
         NEW chain \in BestChains(Edges(island), Len(island))
  PROVE  /\ \A e \in chain : e[3] # 0 => e \in PhraseEdges(island)
         /\ \A d, e \in chain : d[3] # 0 /\ e[3] # 0
              => d = e \/ d[2] <= e[1] \/ e[2] <= d[1]
         /\ \A p \in 0 .. Len(island) - 1 :
              \E e \in chain : e[1] <= p /\ p < e[2]
<1> DEFINE n == Len(island)
           edges == Edges(island)
<1>1. n \in Nat
  OBVIOUS
<1>2. chain \in Chains(edges, n)
  BY DEF BestChains
<1>3. DOMAIN edges = IdentityEdges(island) \cup PhraseEdges(island)
  BY DEF Edges
<1>4. \A e \in DOMAIN edges : edges[e].start = e[1] /\ edges[e].end = e[2]
  BY DEF Edges
<1> HIDE DEF n, edges
<1>5. chain \subseteq DOMAIN edges
  BY <1>2 DEF Chains, Usable
<1>6. \A e \in chain : e[3] # 0 => e \in PhraseEdges(island)
  BY <1>3, <1>5 DEF IdentityEdges
<1>7. \A d, e \in chain : d[3] # 0 /\ e[3] # 0
        => d = e \/ d[2] <= e[1] \/ e[2] <= d[1]
  <2>1. SUFFICES ASSUME NEW d \in chain, NEW e \in chain, d[3] # 0, e[3] # 0, d # e,
                        d[2] > e[1], e[2] > d[1]
                 PROVE  FALSE
    <3>1. \A e \in chain : e[3] # 0 => e[1] \in Int /\ e[2] \in Int
      BY <1>6, PhraseEdgeFacts
    <3> QED
      BY <3>1
  <2>2. /\ d[1] \in Nat /\ e[1] \in Nat /\ d[2] \in Nat /\ e[2] \in Nat
        /\ d[1] < d[2] /\ e[1] < e[2] /\ d[2] <= n /\ e[2] <= n
    BY <1>6, <2>1, PhraseEdgeFacts DEF n
  <2>3. \E p \in 0 .. n - 1 : d[1] <= p /\ p < d[2] /\ e[1] <= p /\ p < e[2]
    <3>1. CASE d[1] <= e[1]
      BY <1>1, <2>1, <2>2, <3>1
    <3>2. CASE e[1] <= d[1]
      BY <1>1, <2>1, <2>2, <3>2
    <3> QED
      BY <2>2, <3>1, <3>2
  <2>4. \A p \in 0 .. n - 1 : ~(Carries(edges, d, p) /\ Carries(edges, e, p))
    BY <1>2, <2>1 DEF Chains
  <2> QED
    BY <1>4, <1>5, <2>3, <2>4 DEF Carries
<1>8. \A p \in 0 .. n - 1 : \E e \in chain : e[1] <= p /\ p < e[2]
  BY <1>2, <1>4, <1>5 DEF Chains, Carries
<1> QED
  BY <1>6, <1>7, <1>8 DEF n

\* The edges that become changes are phrases of the island, do not overlap,
\* and carry all of its words, if there are any.
LEMMA ChosenFacts ==
  ASSUME Typed, NEW island \in Seq(Positions),
         NEW chain \in BestChains(Edges(island), Len(island))
  PROVE  /\ Chosen(island, chain) \subseteq PhraseEdges(island)
         /\ \A d, e \in Chosen(island, chain) : d = e \/ d[2] <= e[1] \/ e[2] <= d[1]
         /\ Chosen(island, chain) # {} => \A p \in 0 .. Len(island) - 1 :
              \E e \in Chosen(island, chain) : e[1] <= p /\ p < e[2]
<1> DEFINE phrases == {e \in chain : e[3] # 0}
<1>1. CASE Chosen(island, chain) = {}
  BY <1>1
<1>2. CASE Chosen(island, chain) = phrases /\ phrases = chain
  BY <1>2, ChainFacts
<1>3. CASE Chosen(island, chain) = FirstFull(island)
  <2>1. \A e \in FirstFull(island) :
          /\ e \in PhraseEdges(island)
          /\ e[1] = 0 /\ e[2] = Len(island)
          /\ \A d \in FirstFull(island) : e[3] <= d[3]
    BY DEF FirstFull, FullEdges
  <2>2. \A d, e \in FirstFull(island) : d = e
    <3>1. SUFFICES ASSUME NEW d \in FirstFull(island), NEW e \in FirstFull(island)
                   PROVE  d = e
      OBVIOUS
    <3>2. /\ d = <<d[1], d[2], d[3]>> /\ e = <<e[1], e[2], e[3]>>
          /\ d[3] \in Int /\ e[3] \in Int
      BY <2>1, PhraseEdgeFacts
    <3>3. d[3] = e[3]
      BY <2>1, <3>2
    <3> QED
      BY <2>1, <3>2, <3>3
  <2> QED
    BY <1>3, <2>1, <2>2
<1> QED
  BY <1>1, <1>2, <1>3 DEF Chosen

-----------------------------------------------------------------------------
\* Change `c' starts and ends at words of the island.
Inside(c, island) ==
  /\ Start(island) <= c.start
  /\ c.start < c.end
  /\ c.end <= Last(island) + 1

\* Each change lies inside an island that has been restored.
ChangesInside ==
  /\ changes \subseteq ChangeType
  /\ \A c \in changes : \E k \in DOMAIN islands :
       /\ phase = "restore" => k < at
       /\ Inside(c, islands[k])

LEMMA ChangeFacts ==
  ASSUME Islands, NEW k \in DOMAIN islands, NEW e \in PhraseEdges(islands[k])
  PROVE  /\ Change(islands[k], e) \in ChangeType
         /\ Inside(Change(islands[k], e), islands[k])
<1> DEFINE island == islands[k]
<1>1. /\ island \in Seq(Positions)
      /\ \A i \in DOMAIN island :
           /\ island[i] \in Positions
           /\ Start(island) <= island[i] /\ island[i] <= Last(island)
      /\ \A i, j \in DOMAIN island : i < j => island[i] < island[j]
      /\ Last(island) \in Positions
  BY EndFacts DEF Islands, IslandsSolid, Solid
<1>2. /\ e[1] \in Nat /\ e[2] \in Nat /\ e[1] < e[2]
      /\ e[1] + 1 \in DOMAIN island /\ e[2] \in DOMAIN island
      /\ e[3] \in 1 .. Len(lexicon)
  BY <1>1, PhraseEdgeFacts DEF Islands
<1> HIDE DEF island
<1> DEFINE first == e[1] + 1
           final == e[2]
<1>3. island[first] \in Positions /\ island[final] \in Positions
  BY <1>1, <1>2
<1>4. island[first] <= island[final]
  <2>1. first = final \/ first < final
    BY <1>2
  <2>2. CASE first < final
    <3>1. island[first] < island[final]
      BY <1>1, <1>2, <2>2
    <3> QED
      BY <1>3, <3>1 DEF Positions
  <2> QED
    BY <1>3, <2>1, <2>2 DEF Positions
<1>5. Change(island, e) =
        [start |-> island[first], end |-> island[final] + 1, phrase |-> e[3]]
  BY DEF Change
<1>6. Start(island) <= island[first] /\ island[final] <= Last(island)
  BY <1>1, <1>2
<1> HIDE DEF first, final
<1>7. island[final] + 1 \in 2 .. Len(tokens) + 1
  BY <1>3 DEF Positions
<1>8. Inside(Change(island, e), island)
  BY <1>1, <1>3, <1>4, <1>5, <1>6 DEF Inside, Positions
<1> QED
  BY <1>2, <1>3, <1>5, <1>7, <1>8 DEF ChangeType, island

\* What one island adds.
LEMMA RestoreFacts ==
  ASSUME Islands, RestoreIsland
  PROVE  /\ at \in DOMAIN islands
         /\ \E new : /\ changes' = changes \cup new
                     /\ \A c \in new : c \in ChangeType /\ Inside(c, islands[at])
                     /\ \A c, d \in new : c # d => ~Overlaps(c, d)
                     /\ new # {} => \A w \in DOMAIN islands[at] : \E c \in new :
                                      islands[at][w] \in Rewritten(c)
<1>1. at \in DOMAIN islands /\ at <= Len(islands)
  BY DEF RestoreIsland, Islands, Typed
<1> DEFINE island == islands[at]
<1>2. /\ island \in Seq(Positions)
      /\ \A i \in DOMAIN island : island[i] \in Positions
      /\ \A i, j \in DOMAIN island : i < j => island[i] < island[j]
      /\ DOMAIN island = 1 .. Len(island) /\ Len(island) \in Nat
  BY <1>1, EndFacts DEF Islands, IslandsSolid, Solid
<1>3. CASE changes' = changes
  <2>1. changes' = changes \cup {}
    BY <1>3
  <2> QED
    BY <1>1, <2>1
<1>4. CASE \E chain \in BestChains(Edges(island), Len(island)) :
             changes' = changes \cup {Change(island, e) : e \in Chosen(island, chain)}
  <2>1. PICK chain \in BestChains(Edges(island), Len(island)) :
               changes' = changes \cup {Change(island, e) : e \in Chosen(island, chain)}
    BY <1>4
  <2> DEFINE chosen == Chosen(island, chain)
             new == {Change(island, e) : e \in chosen}
  <2>2. /\ chosen \subseteq PhraseEdges(island)
        /\ \A d, e \in chosen : d = e \/ d[2] <= e[1] \/ e[2] <= d[1]
        /\ chosen # {} => \A p \in 0 .. Len(island) - 1 :
             \E e \in chosen : e[1] <= p /\ p < e[2]
    BY <1>2, ChosenFacts DEF Islands
  <2> HIDE DEF chosen
  <2>3. \A e \in chosen :
          /\ e[1] \in Nat /\ e[2] \in Nat
          /\ e[1] + 1 \in DOMAIN island /\ e[2] \in DOMAIN island
          /\ Change(island, e).start = island[e[1] + 1]
          /\ Change(island, e).end = island[e[2]] + 1
    BY <1>2, <2>2, PhraseEdgeFacts DEF Islands, Change
  <2>4. \A c \in new : c \in ChangeType /\ Inside(c, island)
    BY <1>1, <2>2, ChangeFacts
  <2>5. \A c, d \in new : c # d => ~Overlaps(c, d)
    <3>1. SUFFICES ASSUME NEW d \in chosen, NEW e \in chosen, d[2] <= e[1]
                   PROVE  Change(island, d).end <= Change(island, e).start
      <4>1. \A d, e \in chosen : d = e
              \/ Change(island, d).end <= Change(island, e).start
              \/ Change(island, e).end <= Change(island, d).start
        BY <2>2, <3>1
      <4>2. \A e \in chosen : Change(island, e).start \in Int /\ Change(island, e).end \in Int
        <5>1. \A i \in DOMAIN island : island[i] \in Int
          BY <1>2 DEF Positions
        <5> QED
          BY <2>3, <5>1
      <4> QED
        BY <4>1, <4>2 DEF Overlaps
    <3>2. d[2] < e[1] + 1
      <4>1. d[2] \in Nat /\ e[1] \in Nat
        BY <2>3
      <4> QED
        BY <3>1, <4>1
    <3>3. island[d[2]] < island[e[1] + 1]
      BY <1>2, <2>3, <3>2
    <3>4. island[d[2]] \in Int /\ island[e[1] + 1] \in Int
      BY <1>2, <2>3 DEF Positions
    <3> QED
      BY <2>3, <3>3, <3>4
  <2>6. new # {} => \A w \in DOMAIN island : \E c \in new : island[w] \in Rewritten(c)
    <3>1. SUFFICES ASSUME new # {}, NEW w \in DOMAIN island
                   PROVE  \E c \in new : island[w] \in Rewritten(c)
      OBVIOUS
    <3>2. w \in Nat /\ w - 1 \in 0 .. Len(island) - 1
      BY <1>2
    <3>3. PICK e \in chosen : e[1] <= w - 1 /\ w - 1 < e[2]
      BY <2>2, <3>1, <3>2
    <3>4. /\ e[1] + 1 = w \/ e[1] + 1 < w
          /\ w = e[2] \/ w < e[2]
      BY <2>3, <3>2, <3>3
    <3>5. island[e[1] + 1] <= island[w] /\ island[w] < island[e[2]] + 1
      <4> DEFINE x == e[1] + 1
                 y == e[2]
      <4>1. /\ x \in DOMAIN island /\ y \in DOMAIN island
            /\ x = w \/ x < w
            /\ w = y \/ w < y
        BY <2>3, <3>4
      <4> HIDE DEF x, y
      <4>2. island[x] \in Int /\ island[w] \in Int /\ island[y] \in Int
        BY <1>2, <3>1, <4>1 DEF Positions
      <4>3. /\ island[x] = island[w] \/ island[x] < island[w]
            /\ island[w] = island[y] \/ island[w] < island[y]
        BY <1>2, <3>1, <4>1
      <4>4. island[x] <= island[w] /\ island[w] < island[y] + 1
        BY <4>2, <4>3
      <4> QED
        BY <4>4 DEF x, y
    <3>6. island[w] \in Rewritten(Change(island, e))
      BY <1>2, <2>3, <3>1, <3>5 DEF Rewritten
    <3> QED
      BY <3>6
  <2> HIDE DEF new
  <2>7. changes' = changes \cup new
    BY <2>1 DEF new, chosen
  <2> QED
    BY <1>1, <2>4, <2>5, <2>6, <2>7
<1> QED
  BY <1>3, <1>4 DEF RestoreIsland

\* A change inside one island rewrites no word of another.
LEMMA Elsewhere ==
  ASSUME Islands, NEW j \in DOMAIN islands, NEW k \in DOMAIN islands, j # k,
         NEW c \in ChangeType, Inside(c, islands[j]), NEW w \in DOMAIN islands[k]
  PROVE  islands[k][w] \notin Rewritten(c)
<1>1. /\ Start(islands[j]) \in Int /\ Last(islands[j]) \in Int
      /\ islands[k][w] \in Int
      /\ Start(islands[k]) \in Int /\ Last(islands[k]) \in Int
      /\ Start(islands[k]) <= islands[k][w] /\ islands[k][w] <= Last(islands[k])
  BY EndFacts DEF Positions
<1>2. j < k \/ k < j
  BY DEF Islands, Typed
<1>3. Last(islands[j]) < Start(islands[k]) \/ Last(islands[k]) < Start(islands[j])
  BY <1>2 DEF Islands, IslandsApart
<1>4. c.start \in Int /\ c.end \in Int
  BY DEF ChangeType, Positions
<1> QED
  BY <1>1, <1>3, <1>4 DEF Inside, Rewritten

-----------------------------------------------------------------------------
IInv ==
  /\ Islands
  /\ ChangesInside
  /\ PhrasesDisjoint
  /\ AllOrNothing

LEMMA IInvInit == Init => IInv
<1>1. SUFFICES ASSUME Init
               PROVE  IInv
  OBVIOUS
<1>2. changes = {}
  BY <1>1 DEF Init
<1> QED
  BY <1>1, <1>2, IslandsInit
  DEF IInv, ChangesInside, PhrasesDisjoint, AllOrNothing

\* Restoring an island: the new changes stay inside it and the old ones out.
LEMMA RestoreStep ==
  ASSUME IInv, RestoreIsland
  PROVE  ChangesInside' /\ PhrasesDisjoint' /\ AllOrNothing'
<1>1. PICK new :
        /\ changes' = changes \cup new
        /\ \A c \in new : c \in ChangeType /\ Inside(c, islands[at])
        /\ \A c, d \in new : c # d => ~Overlaps(c, d)
        /\ new # {} => \A w \in DOMAIN islands[at] : \E c \in new :
                         islands[at][w] \in Rewritten(c)
  BY RestoreFacts DEF IInv
<1>2. /\ at \in DOMAIN islands /\ at \in Nat /\ at' = at + 1
      /\ phase = "restore" /\ UNCHANGED <<phase, tokens, lexicon, islands>>
  BY RestoreFacts DEF IInv, RestoreIsland, Islands, Typed
<1>3. Islands
  BY DEF IInv
<1>4. \A c \in changes : c \in ChangeType /\ \E k \in DOMAIN islands :
        k < at /\ Inside(c, islands[k])
  BY <1>2 DEF IInv, ChangesInside
<1>5. ChangesInside'
  <2>1. changes' \subseteq ChangeType
    BY <1>1, <1>4
  <2>2. \A c \in changes' : \E k \in DOMAIN islands : k < at + 1 /\ Inside(c, islands[k])
    <3>1. \A c \in new : at < at + 1 /\ Inside(c, islands[at])
      BY <1>1, <1>2
    <3>2. \A k \in DOMAIN islands : k < at => k < at + 1
      BY <1>2, <1>3 DEF Islands, Typed
    <3> QED
      BY <1>1, <1>2, <1>4, <3>1, <3>2
  <2> QED
    BY <1>2, <2>1, <2>2 DEF ChangesInside, ChangeType, Positions
<1>6. PhrasesDisjoint'
  <2>1. \A c \in changes, d \in new : ~Overlaps(c, d) /\ ~Overlaps(d, c)
    <3>1. SUFFICES ASSUME NEW c \in changes, NEW d \in new
                   PROVE  c.end <= d.start
      <4>1. \A c \in changes, d \in new :
              /\ c.start \in Int /\ c.end \in Int /\ d.start \in Int /\ d.end \in Int
        BY <1>1, <1>4 DEF ChangeType, Positions
      <4> QED
        BY <4>1 DEF Overlaps
    <3>2. PICK k \in DOMAIN islands : k < at /\ Inside(c, islands[k])
      BY <1>4
    <3>3. Last(islands[k]) < Start(islands[at])
      BY <1>2, <1>3, <3>2 DEF Islands, IslandsApart
    <3>4. /\ Last(islands[k]) \in Int /\ Start(islands[at]) \in Int
          /\ c.end \in Int /\ d.start \in Int
      <4>1. Last(islands[k]) \in Positions /\ Start(islands[at]) \in Positions
        BY <1>2, <1>3, EndFacts
      <4>2. c.end \in Int /\ d.start \in Int
        BY <1>1, <1>4 DEF ChangeType, Positions
      <4> QED
        BY <4>1, <4>2 DEF Positions
    <3> QED
      BY <1>1, <3>2, <3>3, <3>4 DEF Inside
  <2> QED
    BY <1>1, <2>1 DEF IInv, PhrasesDisjoint
<1>7. AllOrNothing'
  <2> DEFINE words(k) == {islands[k][w] : w \in DOMAIN islands[k]}
             reach(set) == UNION {Rewritten(c) : c \in set}
  <2>1. reach(changes \cup new) = reach(changes) \cup reach(new)
    OBVIOUS
  <2>2. \A k \in DOMAIN islands : k # at => words(k) \cap reach(new) = {}
    BY <1>1, <1>2, <1>3, Elsewhere
  <2>3. words(at) \cap reach(changes) = {}
    <3>1. \A c \in changes : \A w \in DOMAIN islands[at] :
            islands[at][w] \notin Rewritten(c)
      <4>1. SUFFICES ASSUME NEW c \in changes, NEW w \in DOMAIN islands[at]
                     PROVE  islands[at][w] \notin Rewritten(c)
        OBVIOUS
      <4>2. PICK k \in DOMAIN islands : k < at /\ Inside(c, islands[k])
        BY <1>4
      <4>3. k # at
        BY <1>2, <4>2
      <4> QED
        BY <1>2, <1>3, <1>4, <4>2, <4>3, Elsewhere
    <3> QED
      BY <3>1
  <2>4. new = {} \/ words(at) \subseteq reach(new)
    BY <1>1
  <2>5. \A k \in DOMAIN islands :
          \/ words(k) \cap reach(changes) = {}
          \/ words(k) \cap reach(changes) = words(k)
    <3>1. DOMAIN islands = 1 .. Len(islands)
      BY <1>3 DEF Islands, Typed
    <3>2. AllOrNothing
      BY DEF IInv
    <3> QED
      BY <3>1, <3>2 DEF AllOrNothing
  <2>6. \A k \in DOMAIN islands :
          \/ words(k) \cap reach(changes \cup new) = {}
          \/ words(k) \cap reach(changes \cup new) = words(k)
    <3>1. SUFFICES ASSUME NEW k \in DOMAIN islands
                   PROVE  \/ words(k) \cap reach(changes \cup new) = {}
                          \/ words(k) \cap reach(changes \cup new) = words(k)
      OBVIOUS
    <3>2. CASE k = at
      <4> HIDE DEF words
      <4>1. CASE new = {}
        BY <4>1, <3>2, <2>3
      <4>2. CASE words(at) \subseteq reach(new)
        <5> HIDE DEF reach
        <5> QED
          BY <4>2, <3>2, <2>1
      <4> QED
        BY <2>4, <4>1, <4>2
    <3>3. CASE k # at
      <4> HIDE DEF words, reach
      <4> QED
        BY <3>3, <2>1, <2>2, <2>5
    <3> QED
      BY <3>2, <3>3
  <2>7. DOMAIN islands = 1 .. Len(islands)
    BY <1>3 DEF Islands, Typed
  <2> QED
    BY <1>1, <1>2, <2>6, <2>7 DEF AllOrNothing, Rewritten, Positions
<1> QED
  BY <1>5, <1>6, <1>7

LEMMA IInvStep == IInv /\ [Next]_vars => IInv'
<1>1. SUFFICES ASSUME IInv, [Next]_vars
               PROVE  IInv'
  OBVIOUS
<1>2. Islands'
  BY <1>1, IslandsStep DEF IInv
<1>3. CASE RestoreIsland
  BY <1>1, <1>2, <1>3, RestoreStep DEF IInv
<1>4. CASE ReadWord \/ ReadSpace \/ ReadOther \/ ExtractDone
  <2>1. changes' = {}
    BY <1>1, <1>4
    DEF ReadWord, ReadSpace, ReadOther, ExtractDone, IInv, Islands, Collected
  <2> QED
    BY <1>2, <2>1 DEF IInv, ChangesInside, PhrasesDisjoint, AllOrNothing
<1>5. CASE RestoreDone \/ UNCHANGED vars
  <2>1. /\ UNCHANGED <<tokens, lexicon, islands, changes>>
        /\ phase' = "restore" => phase = "restore" /\ at' = at
    BY <1>5 DEF RestoreDone, vars
  <2>2. ChangesInside'
    BY <1>1, <2>1 DEF IInv, ChangesInside, ChangeType, Positions
  <2>3. PhrasesDisjoint'
    BY <1>1, <2>1 DEF IInv, PhrasesDisjoint
  <2>4. AllOrNothing'
    <3>1. AllOrNothing
      BY <1>1 DEF IInv
    <3>2. Positions' = Positions
      BY <2>1 DEF Positions
    <3>3. SUFFICES ASSUME NEW k \in 1 .. Len(islands)
                   PROVE  LET words == {islands[k][w] : w \in DOMAIN islands[k]}
                              under == words \cap UNION {Rewritten(c) : c \in changes}'
                          IN  under = {} \/ under = words
      BY <2>1 DEF AllOrNothing
    <3>4. UNION {Rewritten(c) : c \in changes}' = UNION {Rewritten(c) : c \in changes}
      BY <2>1, <3>2 DEF Rewritten
    <3> QED
      BY <3>1, <3>4 DEF AllOrNothing
  <2> QED
    BY <1>2, <2>2, <2>3, <2>4 DEF IInv
<1> QED
  BY <1>1, <1>3, <1>4, <1>5 DEF Next

LEMMA Invariance == Spec => []IInv
BY IInvInit, IInvStep, PTL DEF Spec

\* Type correctness, for every text and lexicon.
THEOREM TypeCorrect == Spec => []TypeOK
<1>1. IInv => TypeOK
  BY DEF IInv, Islands, Typed, ChangesInside, TypeOK
<1> QED
  BY <1>1, Invariance, PTL

\* No two phrases rewrite the same token, within an island or across two.
THEOREM PhrasesDisjointCorrect == Spec => []PhrasesDisjoint
<1>1. IInv => PhrasesDisjoint
  BY DEF IInv
<1> QED
  BY <1>1, Invariance, PTL

\* No phrase is read across punctuation, a number or a line end.
THEOREM StaysBetweenBreaksCorrect == Spec => []StaysBetweenBreaks
<1>1. IInv => StaysBetweenBreaks
  <2>1. SUFFICES ASSUME IInv, NEW c \in changes, NEW t \in Positions,
                        c.start <= t, t < c.end
                 PROVE  tokens[t].kind # "other"
    BY DEF StaysBetweenBreaks, Rewritten
  <2>2. PICK k \in DOMAIN islands : Inside(c, islands[k])
    BY <2>1 DEF IInv, ChangesInside
  <2>3. /\ c.start \in Int /\ c.end \in Int /\ t \in Int
        /\ Start(islands[k]) \in Int /\ Last(islands[k]) \in Int
    BY <2>1, EndFacts DEF IInv, ChangesInside, ChangeType, Positions
  <2>4. Start(islands[k]) <= t /\ t <= Last(islands[k])
    BY <2>1, <2>2, <2>3 DEF Inside
  <2> QED
    BY <2>1, <2>4 DEF IInv, Islands, IslandsSolid, Solid, Start
<1> QED
  BY <1>1, Invariance, PTL

\* An island is rewritten in all of its words or in none.
THEOREM AllOrNothingCorrect == Spec => []AllOrNothing
<1>1. IInv => AllOrNothing
  BY DEF IInv
<1> QED
  BY <1>1, Invariance, PTL

-----------------------------------------------------------------------------
\* A list that holds all the words from its first to `end', and nothing else.
Lists(words, end) ==
  /\ \A i \in DOMAIN words : tokens[words[i]].kind = "word"
  /\ words # <<>> => \A t \in Positions :
       words[1] <= t /\ t <= end /\ tokens[t].kind = "word" =>
         \E i \in DOMAIN words : t = words[i]

\* While tokens are read, and after.
WordsListed ==
  /\ \A k \in DOMAIN islands : Lists(islands[k], Last(islands[k]))
  /\ phase = "extract" => Lists(current, at - 1)

FromPhrases ==
  \A c \in changes : \E k \in DOMAIN islands :
    \E e \in PhraseEdges(islands[k]) : c = Change(islands[k], e)

LEMMA ListedInit == Init => WordsListed /\ FromPhrases
BY DEF Init, WordsListed, FromPhrases, Lists

\* flush() drops no word.
LEMMA FlushLists ==
  ASSUME Islands, WordsListed, phase = "extract"
  PROVE  \A k \in DOMAIN Flushed[1] : Lists(Flushed[1][k], Last(Flushed[1][k]))
<1>1. CASE current = <<>>
  BY <1>1 DEF Flushed, WordsListed
<1>2. CASE current # <<>>
  <2> DEFINE new == Append(islands, current)
             n == Len(islands)
  <2>1. Flushed[1] = new
    BY <1>2 DEF Flushed
  <2>2. /\ islands \in Seq(Seq(Positions)) /\ current \in Seq(Positions)
        /\ n \in Nat /\ DOMAIN new = 1 .. n + 1
        /\ \A k \in 1 .. n : k \in DOMAIN islands /\ new[k] = islands[k]
        /\ new[n + 1] = current
    BY DEF Islands, Typed
  <2>3. Last(current) \in Positions /\ Last(current) <= at - 1 /\ at \in Nat
    <3>1. /\ Len(current) \in DOMAIN current /\ at \in Nat
          /\ \A i \in DOMAIN current : current[i] \in Positions /\ current[i] < at
      BY <1>2, <2>2 DEF Islands, Typed, Collected
    <3> QED
      BY <3>1 DEF Last, Positions
  <2>4. Lists(current, Last(current))
    BY <1>2, <2>3 DEF WordsListed, Lists, Positions
  <2> HIDE DEF new, n
  <2>5. \A k \in 1 .. n + 1 : k \in 1 .. n \/ k = n + 1
    BY <2>2
  <2> QED
    BY <2>1, <2>2, <2>4, <2>5 DEF WordsListed
<1> QED
  BY <1>1, <1>2

LEMMA ReadWordLists ==
  ASSUME Islands, WordsListed, ReadWord
  PROVE  Lists(current', at)
<1>1. /\ at \in Positions /\ at \in Nat /\ tokens[at].kind = "word"
      /\ phase = "extract" /\ current' = Append(current, at)
  BY DEF ReadWord, Islands, Typed, Positions
<1> DEFINE n == Len(current)
<1>2. /\ current \in Seq(Positions) /\ n \in Nat /\ DOMAIN current = 1 .. n
      /\ DOMAIN current' = 1 .. n + 1
      /\ \A i \in 1 .. n : current'[i] = current[i]
      /\ current'[n + 1] = at
  BY <1>1 DEF Islands, Typed
<1>3. n = 0 <=> current = <<>>
  BY <1>2
<1> HIDE DEF n
<1>4. \A i \in 1 .. n + 1 : i \in 1 .. n \/ i = n + 1
  BY <1>2
<1>5. \A i \in DOMAIN current' : tokens[current'[i]].kind = "word"
  BY <1>1, <1>2, <1>4 DEF WordsListed, Lists
<1>6. SUFFICES ASSUME NEW t \in Positions, current'[1] <= t, t <= at,
                      tokens[t].kind = "word"
               PROVE  \E i \in DOMAIN current' : t = current'[i]
  BY <1>5 DEF Lists
<1>7. CASE t = at
  <2>1. n + 1 \in DOMAIN current'
    BY <1>2
  <2> QED
    BY <1>2, <1>7, <2>1
<1>8. CASE t # at
  <2>1. t <= at - 1 /\ n # 0 /\ current'[1] = current[1]
    BY <1>1, <1>2, <1>6, <1>8 DEF Positions
  <2>2. PICK i \in DOMAIN current : t = current[i]
    BY <1>1, <1>3, <1>6, <2>1 DEF WordsListed, Lists
  <2>3. i \in DOMAIN current' /\ current'[i] = current[i]
    BY <1>2, <2>2
  <2> QED
    BY <2>2, <2>3
<1> QED
  BY <1>7, <1>8

LEMMA ListedStep ==
  ASSUME Islands, WordsListed, [Next]_vars
  PROVE  WordsListed'
<1>1. Positions' = Positions /\ UNCHANGED tokens
  <2>1. UNCHANGED tokens
    BY DEF Next, vars, ReadWord, ReadSpace, ReadOther, ExtractDone, RestoreIsland, RestoreDone
  <2> QED
    BY <2>1 DEF Positions
<1>2. CASE ReadWord
  <2>1. at' = at + 1 /\ at \in Nat /\ UNCHANGED <<phase, islands>>
    BY <1>2 DEF ReadWord, Islands, Typed
  <2>2. at' - 1 = at
    BY <2>1
  <2>3. Lists(current', at)
    BY <1>2, ReadWordLists
  <2> QED
    BY <1>1, <2>1, <2>2, <2>3 DEF WordsListed, Lists
<1>3. CASE ReadSpace
  <2>1. /\ at' = at + 1 /\ at \in Nat /\ UNCHANGED <<phase, islands, current>>
        /\ phase = "extract" /\ tokens[at].kind = "space"
    BY <1>3 DEF ReadSpace, Islands, Typed
  <2>2. at' - 1 = at
    BY <2>1
  <2>3. \A t \in Positions : t <= at => t = at \/ t <= at - 1
    BY <2>1 DEF Positions
  <2>4. Lists(current, at)
    BY <2>1, <2>3 DEF WordsListed, Lists
  <2> QED
    BY <1>1, <2>1, <2>2, <2>4 DEF WordsListed, Lists
<1>4. CASE ReadOther \/ ExtractDone
  <2>1. phase = "extract" /\ islands' = Flushed[1] /\ current' = Flushed[2]
    BY <1>4 DEF ReadOther, ExtractDone
  <2>2. \A k \in DOMAIN Flushed[1] : Lists(Flushed[1][k], Last(Flushed[1][k]))
    BY <2>1, FlushLists
  <2>3. current' = <<>>
    BY <2>1, FlushFacts
  <2> QED
    BY <1>1, <2>1, <2>2, <2>3 DEF WordsListed, Lists, Last
<1>5. CASE RestoreIsland \/ RestoreDone \/ UNCHANGED vars
  <2>1. UNCHANGED islands /\ (phase' = "extract" => UNCHANGED <<phase, at, current>>)
    BY <1>5 DEF RestoreIsland, RestoreDone, vars
  <2> QED
    BY <1>1, <2>1 DEF WordsListed, Lists
<1> QED
  BY <1>2, <1>3, <1>4, <1>5 DEF Next

\* A change is only ever made of a phrase edge of the island in work.
LEMMA FromPhrasesStep ==
  ASSUME Islands, FromPhrases, [Next]_vars
  PROVE  FromPhrases'
<1>1. CASE ReadWord \/ ReadSpace \/ ReadOther \/ ExtractDone
  <2>1. changes' = {}
    BY <1>1 DEF ReadWord, ReadSpace, ReadOther, ExtractDone, Islands, Collected
  <2> QED
    BY <2>1 DEF FromPhrases
<1>2. CASE UNCHANGED <<tokens, lexicon, islands>>
           /\ \A c \in changes' : \/ c \in changes
                                  \/ \E k \in DOMAIN islands : \E e \in PhraseEdges(islands[k]) :
                                       c = Change(islands[k], e)
  <2>1. \A island : PhraseEdges(island)' = PhraseEdges(island)
    BY <1>2 DEF PhraseEdges, Safe
  <2>2. \A c \in changes' : \E k \in DOMAIN islands : \E e \in PhraseEdges(islands[k]) :
          c = Change(islands[k], e)
    BY <1>2 DEF FromPhrases
  <2> QED
    BY <1>2, <2>1, <2>2, Zenon DEF FromPhrases, Change
<1>3. CASE RestoreIsland
  <2>1. /\ at \in DOMAIN islands /\ UNCHANGED <<tokens, lexicon, islands>>
        /\ islands[at] \in Seq(Positions) /\ Typed
    BY <1>3, RestoreFacts, EndFacts DEF RestoreIsland, Islands
  <2>2. CASE changes' = changes
    BY <1>2, <2>1, <2>2
  <2>3. CASE \E chain \in BestChains(Edges(islands[at]), Len(islands[at])) :
               changes' = changes \cup
                            {Change(islands[at], e) : e \in Chosen(islands[at], chain)}
    <3>1. PICK chain \in BestChains(Edges(islands[at]), Len(islands[at])) :
                 changes' = changes \cup
                              {Change(islands[at], e) : e \in Chosen(islands[at], chain)}
      BY <2>3
    <3>2. Chosen(islands[at], chain) \subseteq PhraseEdges(islands[at])
      BY <2>1, ChosenFacts
    <3> QED
      BY <1>2, <2>1, <3>1, <3>2
  <2> QED
    BY <1>3, <2>2, <2>3 DEF RestoreIsland
<1>4. CASE RestoreDone \/ UNCHANGED vars
  BY <1>2, <1>4 DEF RestoreDone, vars
<1> QED
  BY <1>1, <1>3, <1>4 DEF Next

\* A part of a list.
LEMMA PartFacts ==
  ASSUME NEW S, NEW list \in Seq(S), NEW from \in Nat, NEW to \in Nat,
         from < to, to <= Len(list)
  PROVE  LET part == SubSeq(list, from + 1, to) IN
         /\ DOMAIN part = 1 .. to - from
         /\ \A i \in 1 .. to - from : part[i] = list[from + i]
<1>1. /\ from + 1 \in 1 .. Len(list) /\ to \in from + 1 .. Len(list)
      /\ from + 1 \in 1 .. Len(list) + 1 /\ to \in from .. Len(list)
  OBVIOUS
<1>2. /\ Len(SubSeq(list, from + 1, to)) = to - from
      /\ SubSeq(list, from + 1, to) \in Seq(S)
      /\ \A i \in 1 .. to - from : SubSeq(list, from + 1, to)[i] = list[from + i]
  BY <1>1, SubSeqProperties
<1> QED
  BY <1>2

\* The words a phrase edge reads are the words its change rewrites.
LEMMA EdgeAddsAccents ==
  ASSUME Islands, WordsListed, NEW k \in DOMAIN islands,
         NEW e \in PhraseEdges(islands[k]), NEW c, c = Change(islands[k], e)
  PROVE  LET key == lexicon[c.phrase].key IN
         \E word \in [DOMAIN key -> RewrittenWords(c)] :
           /\ \A i, j \in DOMAIN key : i < j => word[i] < word[j]
           /\ RewrittenWords(c) \subseteq {word[i] : i \in DOMAIN key}
           /\ \A i \in DOMAIN key : tokens[word[i]].key = key[i] /\ ~tokens[word[i]].accented
<1> DEFINE island == islands[k]
           from == e[1]
           n == e[2] - e[1]
           key == lexicon[c.phrase].key
           words == SubSeq(island, e[1] + 1, e[2])
           word == [i \in DOMAIN key |-> island[from + i]]
<1>1. /\ island \in Seq(Positions)
      /\ \A i \in DOMAIN island : island[i] \in Positions /\ tokens[island[i]].kind = "word"
      /\ \A i, j \in DOMAIN island : i < j => island[i] < island[j]
      /\ DOMAIN island = 1 .. Len(island) /\ Len(island) \in Nat
  BY EndFacts DEF Islands, IslandsSolid, Solid, WordsListed, Lists
<1>2. /\ e[1] \in Nat /\ e[2] \in Nat /\ e[1] < e[2] /\ e[2] <= Len(island)
      /\ e[3] \in 1 .. Len(lexicon)
  BY <1>1, PhraseEdgeFacts DEF Islands
<1>3. c.start = island[from + 1] /\ c.end = island[e[2]] + 1 /\ c.phrase = e[3]
  BY DEF Change
<1>4. Safe(words, e[3])
  BY DEF PhraseEdges
<1>5. \A t \in Positions :
        island[1] <= t /\ t <= island[Len(island)] /\ tokens[t].kind = "word" =>
          \E i \in DOMAIN island : t = island[i]
  BY <1>1, <1>2 DEF WordsListed, Lists, Last
<1> HIDE DEF island
<1>6. n \in Nat \ {0} /\ from + n = e[2] /\ from \in Nat
  BY <1>2
<1>7. DOMAIN words = 1 .. n /\ \A i \in 1 .. n : words[i] = island[from + i]
  BY <1>1, <1>2, PartFacts
<1> HIDE DEF words, n
<1>8. /\ DOMAIN key = 1 .. n
      /\ \A i \in 1 .. n : tokens[words[i]].key = key[i] /\ ~tokens[words[i]].accented
  <2> DEFINE letters == [i \in DOMAIN words |-> tokens[words[i]].key]
  <2>1. letters = key /\ \A i \in DOMAIN words : ~tokens[words[i]].accented
    BY <1>3, <1>4 DEF Safe
  <2>2. DOMAIN letters = 1 .. n /\ \A i \in 1 .. n : letters[i] = tokens[words[i]].key
    BY <1>7
  <2> HIDE DEF letters, key
  <2> QED
    BY <1>7, <2>1, <2>2
<1>9. \A i \in 1 .. n : from + i \in DOMAIN island
  BY <1>1, <1>2, <1>6
<1> HIDE DEF key, from
<1>10. \A i \in DOMAIN key : word[i] = island[from + i]
  OBVIOUS
<1>11. \A i, j \in DOMAIN key : i < j => word[i] < word[j]
  BY <1>1, <1>6, <1>8, <1>9, <1>10
<1>12. word \in [DOMAIN key -> RewrittenWords(c)]
  <2>1. SUFFICES ASSUME NEW i \in 1 .. n
                 PROVE  island[from + i] \in RewrittenWords(c)
    BY <1>8
  <2>2. /\ 1 \in 1 .. n /\ n \in 1 .. n
        /\ from + 1 = from + i \/ from + 1 < from + i
        /\ from + i = from + n \/ from + i < from + n
    BY <1>6
  <2> DEFINE x == from + 1
             y == from + i
             z == from + n
  <2>3. /\ x \in DOMAIN island /\ y \in DOMAIN island /\ z \in DOMAIN island
        /\ x = y \/ x < y
        /\ y = z \/ y < z
    BY <1>9, <2>2
  <2> HIDE DEF x, y, z
  <2>4. /\ island[x] \in Int /\ island[y] \in Int /\ island[z] \in Int
        /\ island[x] = island[y] \/ island[x] < island[y]
        /\ island[y] = island[z] \/ island[y] < island[z]
    BY <1>1, <2>3 DEF Positions
  <2>5. island[x] <= island[y] /\ island[y] < island[z] + 1
    BY <2>4
  <2>6. c.start = island[x] /\ c.end = island[z] + 1
    BY <1>3, <1>6 DEF x, z
  <2> QED
    BY <1>1, <2>3, <2>5, <2>6 DEF RewrittenWords, Rewritten, y
<1>13. RewrittenWords(c) \subseteq {word[i] : i \in DOMAIN key}
  <2>1. SUFFICES ASSUME NEW t \in Positions, c.start <= t, t < c.end,
                        tokens[t].kind = "word"
                 PROVE  \E i \in 1 .. n : t = island[from + i]
    BY <1>8, <1>10 DEF RewrittenWords, Rewritten
  <2>2. /\ from + 1 \in DOMAIN island /\ e[2] \in DOMAIN island
        /\ 1 \in DOMAIN island /\ Len(island) \in DOMAIN island
    BY <1>1, <1>2, <1>6, <1>9
  <2>3. island[1] <= island[from + 1] /\ island[e[2]] <= island[Len(island)]
    <3>1. /\ 1 = from + 1 \/ 1 < from + 1
          /\ e[2] = Len(island) \/ e[2] < Len(island)
      BY <1>1, <1>2, <1>6
    <3>2. \A i \in DOMAIN island : island[i] \in Int
      BY <1>1 DEF Positions
    <3> QED
      BY <1>1, <2>2, <3>1, <3>2
  <2>4. \A i \in DOMAIN island : island[i] \in Int
    BY <1>1 DEF Positions
  <2>5. island[1] <= t /\ t <= island[Len(island)] /\ t \in Int
    BY <1>3, <2>1, <2>2, <2>3, <2>4 DEF Positions
  <2>6. PICK w \in DOMAIN island : t = island[w]
    BY <1>5, <2>1, <2>5
  <2>7. from + 1 <= w
    <3>1. w < from + 1 => island[w] < island[from + 1]
      BY <1>1, <2>2
    <3> QED
      BY <1>1, <1>3, <1>6, <2>1, <2>2, <2>4, <2>6, <3>1
  <2>8. w <= e[2]
    <3>1. e[2] < w => island[e[2]] < island[w]
      BY <1>1, <2>2
    <3> QED
      BY <1>1, <1>2, <1>3, <2>1, <2>2, <2>4, <2>6, <3>1
  <2>9. w - from \in 1 .. n /\ from + (w - from) = w
    BY <1>1, <1>2, <1>6, <2>7, <2>8
  <2> QED
    BY <2>6, <2>9
<1>14. \A i \in DOMAIN key : tokens[word[i]].key = key[i] /\ ~tokens[word[i]].accented
  BY <1>7, <1>8, <1>10
<1> HIDE DEF word
<1> QED
  BY <1>11, <1>12, <1>13, <1>14 DEF key

\* A change only adds accents: for every text and lexicon, the words it
\* rewrites have the letters of its phrase one for one, and no accents yet.
THEOREM OnlyAddsAccentsCorrect == Spec => []OnlyAddsAccents
<1> DEFINE WInv == IInv /\ WordsListed /\ FromPhrases
<1>1. Init => WInv
  BY IInvInit, ListedInit
<1>2. WInv /\ [Next]_vars => WInv'
  BY IInvStep, ListedStep, FromPhrasesStep DEF IInv
<1>3. WInv => OnlyAddsAccents
  <2>1. SUFFICES ASSUME WInv, NEW c \in changes
                 PROVE  LET key == lexicon[c.phrase].key IN
                        \E word \in [DOMAIN key -> RewrittenWords(c)] :
                          /\ \A i, j \in DOMAIN key : i < j => word[i] < word[j]
                          /\ RewrittenWords(c) \subseteq {word[i] : i \in DOMAIN key}
                          /\ \A i \in DOMAIN key :
                               tokens[word[i]].key = key[i] /\ ~tokens[word[i]].accented
    BY DEF OnlyAddsAccents
  <2>2. PICK k \in DOMAIN islands :
              \E e \in PhraseEdges(islands[k]) : c = Change(islands[k], e)
    BY <2>1 DEF FromPhrases
  <2>3. PICK e \in PhraseEdges(islands[k]) : c = Change(islands[k], e)
    BY <2>2
  <2> QED
    BY <2>1, <2>3, EdgeAddsAccents DEF IInv
<1> QED
  BY <1>1, <1>2, <1>3, PTL DEF Spec

-----------------------------------------------------------------------------
\* What a fold takes out of a set first.
Some(s) == CHOOSE x \in s : TRUE

\* `g' adds up `f' over the subsets of `S' the way MapThenSumSet does.
Adds(f, S, g) ==
  g = [s \in SUBSET S |-> IF s = {} THEN 0 ELSE f[Some(s)] + g[s \ {Some(s)}]]

Sum(f, S) == (CHOOSE g : Adds(f, S, g))[S]

\* Of some finite sets one contains no other.
LEMMA LeastSet ==
  ASSUME NEW S, IsFiniteSet(S), NEW T, T \subseteq SUBSET S, T # {}
  PROVE  \E x \in T : \A y \in T : ~(y \subseteq x /\ y # x)
<1>1. T \subseteq FiniteSubsetsOf(S)
  BY FS_Subset DEF FiniteSubsetsOf
<1>2. PICK x \in T : \A y \in T : ~(<<y, x>> \in StrictSubsetOrdering(S))
  BY <1>1, FS_StrictSubsetOrderingWellFounded, WFMin
<1> QED
  BY <1>2 DEF StrictSubsetOrdering

\* Two ways to add up agree wherever both are defined.
LEMMA AddsUnique ==
  ASSUME NEW f, NEW S, IsFiniteSet(S), NEW R,
         NEW g, Adds(f, S, g), NEW h, Adds(f, R, h), NEW t \in SUBSET S, t \subseteq R
  PROVE  g[t] = h[t]
<1> DEFINE Bad == {u \in SUBSET t : g[u] # h[u]}
<1>1. SUFFICES ASSUME Bad # {} PROVE FALSE
  OBVIOUS
<1>2. IsFiniteSet(t)
  BY FS_Subset
<1>3. PICK u \in Bad : \A v \in Bad : ~(v \subseteq u /\ v # u)
  <2> HIDE DEF Bad
  <2>1. Bad \subseteq SUBSET t
    BY DEF Bad
  <2> QED
    BY <1>1, <1>2, <2>1, LeastSet
<1>4. /\ g[u] = IF u = {} THEN 0 ELSE f[Some(u)] + g[u \ {Some(u)}]
      /\ h[u] = IF u = {} THEN 0 ELSE f[Some(u)] + h[u \ {Some(u)}]
  <2>1. u \in SUBSET S /\ u \in SUBSET R
    OBVIOUS
  <2> QED
    BY <2>1 DEF Adds
<1>5. u # {}
  BY <1>4
<1>6. Some(u) \in u
  BY <1>5 DEF Some
<1>7. g[u \ {Some(u)}] = h[u \ {Some(u)}]
  <2> DEFINE v == u \ {Some(u)}
  <2>1. v \in SUBSET t /\ v \subseteq u /\ v # u
    BY <1>6
  <2>2. v \notin Bad
    BY <1>3, <2>1
  <2> QED
    BY <2>1, <2>2
<1> QED
  BY <1>4, <1>5, <1>7

\* There is a way to add up over every finite set.
LEMMA AddsExists ==
  ASSUME NEW f, NEW S, IsFiniteSet(S)
  PROVE  \E g : Adds(f, S, g)
<1> DEFINE Bad == {t \in SUBSET S : ~(\E g : Adds(f, t, g))}
<1>1. SUFFICES ASSUME Bad # {} PROVE FALSE
  OBVIOUS
<1>2. PICK t \in Bad : \A v \in Bad : ~(v \subseteq t /\ v # t)
  <2> HIDE DEF Bad
  <2>1. Bad \subseteq SUBSET S
    BY DEF Bad
  <2> QED
    BY <1>1, <2>1, LeastSet
<1> DEFINE G(u) == CHOOSE g : Adds(f, u, g)
<1>3. \A u \in SUBSET t : u # t => Adds(f, u, G(u))
  <2>1. SUFFICES ASSUME NEW u \in SUBSET t, u # t PROVE Adds(f, u, G(u))
    OBVIOUS
  <2>2. u \notin Bad
    BY <1>2, <2>1
  <2>3. \E g : Adds(f, u, g)
    BY <2>1, <2>2
  <2> QED
    BY <2>3
<1> DEFINE v == t \ {Some(t)}
           g == [u \in SUBSET t |->
                   IF u # t THEN G(u)[u]
                   ELSE IF t = {} THEN 0 ELSE f[Some(t)] + G(v)[v]]
<1> HIDE DEF G
<1>4. ASSUME NEW u \in SUBSET t
      PROVE  g[u] = IF u = {} THEN 0 ELSE f[Some(u)] + g[u \ {Some(u)}]
  <2> DEFINE w == u \ {Some(u)}
  <2>1. CASE u = {}
    <3>1. CASE t = {}
      BY <2>1, <3>1
    <3>2. CASE t # {}
      <4>1. Adds(f, u, G(u)) /\ u \in SUBSET u
        BY <1>3, <2>1, <3>2
      <4>2. G(u)[u] = 0
        BY <2>1, <4>1 DEF Adds
      <4> QED
        BY <2>1, <3>2, <4>2
    <3> QED
      BY <3>1, <3>2
  <2>2. CASE u # {}
    <3>1. Some(u) \in u /\ w \in SUBSET t /\ w # t /\ w \in SUBSET u
      BY <2>2 DEF Some
    <3>2. g[w] = G(w)[w]
      BY <3>1
    <3>3. CASE u = t
      BY <2>2, <3>1, <3>2, <3>3
    <3>4. CASE u # t
      <4>1. Adds(f, u, G(u)) /\ Adds(f, w, G(w))
        BY <1>3, <3>1, <3>4
      <4>2. g[u] = G(u)[u]
        BY <3>4
      <4>3. G(u)[u] = f[Some(u)] + G(u)[w]
        BY <2>2, <4>1 DEF Adds
      <4>4. G(u)[w] = G(w)[w]
        <5>1. IsFiniteSet(u)
          BY FS_Subset
        <5> HIDE DEF w
        <5> QED
          BY <3>1, <4>1, <5>1, AddsUnique
      <4> QED
        BY <2>2, <3>2, <4>2, <4>3, <4>4
    <3> QED
      BY <3>3, <3>4
  <2> QED
    BY <2>1, <2>2
<1>5. g = [u \in SUBSET t |-> IF u = {} THEN 0 ELSE f[Some(u)] + g[u \ {Some(u)}]]
  <2> HIDE DEF g
  <2>1. g = [u \in SUBSET t |-> g[u]]
    BY DEF g
  <2> QED
    BY <1>4, <2>1
<1>6. Adds(f, t, g)
  BY <1>5 DEF Adds
<1> QED
  BY <1>2, <1>6

\* The sum does not depend on the way that is taken.
LEMMA SumIs ==
  ASSUME NEW f, NEW S, IsFiniteSet(S), NEW g, Adds(f, S, g)
  PROVE  g[S] = Sum(f, S)
<1> DEFINE h == CHOOSE h : Adds(f, S, h)
<1>1. Adds(f, S, h)
  OBVIOUS
<1>2. Sum(f, S) = h[S] /\ S \in SUBSET S
  BY DEF Sum
<1> HIDE DEF h
<1> QED
  BY <1>1, <1>2, AddsUnique

\* The sum over nothing is 0; the sum over more is its first element and the
\* sum over the others.
LEMMA SumStep ==
  ASSUME NEW f, NEW S, IsFiniteSet(S)
  PROVE  Sum(f, S) = IF S = {} THEN 0 ELSE f[Some(S)] + Sum(f, S \ {Some(S)})
<1> DEFINE g == CHOOSE g : Adds(f, S, g)
           T == S \ {Some(S)}
           h == CHOOSE h : Adds(f, T, h)
<1>1. IsFiniteSet(T)
  BY FS_Subset
<1>2. Adds(f, S, g)
  BY AddsExists
<1>3. Adds(f, T, h)
  BY <1>1, AddsExists
<1>4. Sum(f, S) = g[S] /\ Sum(f, T) = h[T]
  BY DEF Sum
<1> HIDE DEF g, h
<1>5. S \in SUBSET S /\ T \in SUBSET S
  OBVIOUS
<1>6. g[T] = h[T]
  BY <1>2, <1>3, <1>5, AddsUnique
<1>7. g[S] = IF S = {} THEN 0 ELSE f[Some(S)] + g[T]
  BY <1>2, <1>5 DEF Adds
<1> QED
  BY <1>4, <1>6, <1>7

\* A sum of integers is one.
LEMMA SumType ==
  ASSUME NEW f, NEW S, IsFiniteSet(S), \A x \in S : f[x] \in Int
  PROVE  Sum(f, S) \in Int
<1> DEFINE Bad == {t \in SUBSET S : Sum(f, t) \notin Int}
<1>1. SUFFICES ASSUME Bad # {} PROVE FALSE
  OBVIOUS
<1>2. PICK t \in Bad : \A v \in Bad : ~(v \subseteq t /\ v # t)
  <2> HIDE DEF Bad
  <2>1. Bad \subseteq SUBSET S
    BY DEF Bad
  <2> QED
    BY <1>1, <2>1, LeastSet
<1> DEFINE v == t \ {Some(t)}
<1>3. IsFiniteSet(t)
  BY FS_Subset
<1>4. Sum(f, t) = IF t = {} THEN 0 ELSE f[Some(t)] + Sum(f, v)
  BY <1>3, SumStep
<1>5. t # {}
  BY <1>4
<1>6. Some(t) \in t
  BY <1>5 DEF Some
<1>7. Sum(f, v) \in Int
  BY <1>2, <1>6
<1> QED
  BY <1>4, <1>5, <1>6, <1>7

\* Whichever element is taken out.
LEMMA SumRemove ==
  ASSUME NEW f, NEW S, IsFiniteSet(S), \A x \in S : f[x] \in Int, NEW a \in S
  PROVE  Sum(f, S) = f[a] + Sum(f, S \ {a})
<1> DEFINE Bad == {t \in SUBSET S : \E x \in t : Sum(f, t) # f[x] + Sum(f, t \ {x})}
<1>1. SUFFICES ASSUME Bad # {} PROVE FALSE
  OBVIOUS
<1>2. PICK t \in Bad : \A v \in Bad : ~(v \subseteq t /\ v # t)
  <2> HIDE DEF Bad
  <2>1. Bad \subseteq SUBSET S
    BY DEF Bad
  <2> QED
    BY <1>1, <2>1, LeastSet
<1>3. PICK x \in t : Sum(f, t) # f[x] + Sum(f, t \ {x})
  BY <1>2
<1> DEFINE y == Some(t)
<1>4. IsFiniteSet(t) /\ IsFiniteSet(t \ {x}) /\ IsFiniteSet(t \ {y}) /\ IsFiniteSet((t \ {x}) \ {y})
  BY FS_Subset
<1>5. Sum(f, t) = f[y] + Sum(f, t \ {y})
  BY <1>3, <1>4, SumStep
<1>6. y \in t /\ y # x
  BY <1>3, <1>5 DEF Some
<1> HIDE DEF y
<1>7. t \ {x} \notin Bad /\ t \ {y} \notin Bad /\ t \ {x} \in SUBSET S /\ t \ {y} \in SUBSET S
  BY <1>2, <1>6
<1>8. Sum(f, t \ {x}) = f[y] + Sum(f, (t \ {x}) \ {y})
  BY <1>6, <1>7
<1>9. Sum(f, t \ {y}) = f[x] + Sum(f, (t \ {y}) \ {x})
  BY <1>6, <1>7
<1>10. (t \ {y}) \ {x} = (t \ {x}) \ {y}
  OBVIOUS
<1>11. Sum(f, (t \ {x}) \ {y}) \in Int
  BY <1>4, SumType
<1>12. f[x] \in Int /\ f[y] \in Int
  BY <1>6
<1>13. Sum(f, t \ {y}) = f[x] + Sum(f, (t \ {x}) \ {y})
  BY <1>9, <1>10
<1> QED
  <2> DEFINE a1 == Sum(f, t)
             a2 == Sum(f, t \ {x})
             a3 == Sum(f, t \ {y})
             a4 == Sum(f, (t \ {x}) \ {y})
  <2>1. /\ a1 # f[x] + a2 /\ a1 = f[y] + a3 /\ a2 = f[y] + a4
        /\ a3 = f[x] + a4 /\ a4 \in Int
    BY <1>3, <1>5, <1>8, <1>11, <1>13
  <2> HIDE DEF a1, a2, a3, a4, Bad
  <2> QED
    BY <1>12, <2>1

\* The sum over nothing.
LEMMA SumNone == \A f : Sum(f, {}) = 0
<1>1. SUFFICES ASSUME NEW f PROVE Sum(f, {}) = 0
  OBVIOUS
<1> DEFINE none == {}
<1>2. IsFiniteSet(none) /\ none = {}
  BY FS_EmptySet
<1> HIDE DEF none
<1>3. Sum(f, none) = 0
  BY <1>2, SumStep
<1> QED
  BY <1>2, <1>3

\* A sum over an image is the sum over what it is the image of, if no two
\* elements have the same image.
LEMMA SumImage ==
  ASSUME NEW S, IsFiniteSet(S), NEW h, NEW f, NEW g,
         \A x, y \in S : h[x] = h[y] => x = y,
         \A x \in S : f[h[x]] = g[x] /\ g[x] \in Int
  PROVE  /\ IsFiniteSet({h[x] : x \in S})
         /\ Sum(f, {h[x] : x \in S}) = Sum(g, S)
<1> DEFINE Image(t) == {h[x] : x \in t}
<1>1. ASSUME NEW t \in SUBSET S PROVE IsFiniteSet(t) /\ IsFiniteSet(Image(t))
  <2>1. IsFiniteSet(t)
    BY FS_Subset
  <2>2. [x \in t |-> h[x]] \in Surjection(t, Image(t))
    BY DEF Surjection
  <2> HIDE DEF Image
  <2> QED
    BY <2>1, <2>2, FS_Surjection
<1> DEFINE Bad == {t \in SUBSET S : Sum(f, Image(t)) # Sum(g, t)}
<1>2. ASSUME Bad # {} PROVE FALSE
  <2>1. PICK t \in Bad : \A v \in Bad : ~(v \subseteq t /\ v # t)
    <3> HIDE DEF Bad
    <3>1. Bad \subseteq SUBSET S
      BY DEF Bad
    <3> QED
      BY <1>2, <3>1, LeastSet
  <2>2. t \in SUBSET S /\ Sum(f, Image(t)) # Sum(g, t)
    OBVIOUS
  <2>3. IsFiniteSet(t) /\ IsFiniteSet(Image(t))
    BY <1>1, <2>2
  <2>4. t # {}
    <3>1. Image({}) = {}
      OBVIOUS
    <3> HIDE DEF Image
    <3>2. t = {} => Sum(f, Image(t)) = 0 /\ Sum(g, t) = 0
      BY <2>3, <3>1, SumStep
    <3> QED
      BY <2>2, <3>2
  <2> DEFINE x == Some(t)
             v == t \ {x}
  <2>5. x \in t /\ x \in S
    BY <2>2, <2>4 DEF Some
  <2>6. Sum(g, t) = g[x] + Sum(g, v)
    BY <2>3, <2>4, SumStep
  <2>7. Sum(f, Image(v)) = Sum(g, v)
    BY <2>1, <2>2, <2>5
  <2> HIDE DEF x
  <2>8. Image(t) \ {h[x]} = Image(v)
    BY <2>2, <2>5
  <2>9. h[x] \in Image(t) /\ \A y \in Image(t) : f[y] \in Int
    BY <2>2, <2>5
  <2>10. Sum(f, Image(t)) = f[h[x]] + Sum(f, Image(v))
    <3> HIDE DEF Image, v
    <3> QED
      BY <2>3, <2>8, <2>9, SumRemove
  <2> QED
    BY <2>2, <2>5, <2>6, <2>7, <2>10
<1>3. S \in SUBSET S
  OBVIOUS
<1> QED
  BY <1>1, <1>2, <1>3

-----------------------------------------------------------------------------
\* What the gate counts of each change.
Scores == [c \in ChangeType |-> PhraseScore(c.phrase)]
Risks == [c \in ChangeType |-> PhraseRisk(c.phrase)]

ScoreTotal(S) == MapThenSumSet(LAMBDA c : PhraseScore(c.phrase), S)
RiskTotal(S) == MapThenSumSet(LAMBDA c : PhraseRisk(c.phrase), S)

LEMMA GateIsSum ==
  ASSUME NEW S \in SUBSET ChangeType, IsFiniteSet(S)
  PROVE  ScoreTotal(S) = Sum(Scores, S) /\ RiskTotal(S) = Sum(Risks, S)
<1> DEFINE G(g) == g = [s \in SUBSET S |->
                     IF s = {} THEN 0 ELSE PhraseScore(Some(s).phrase) + g[s \ {Some(s)}]]
           H(g) == g = [s \in SUBSET S |->
                     IF s = {} THEN 0 ELSE PhraseRisk(Some(s).phrase) + g[s \ {Some(s)}]]
<1>1. /\ ScoreTotal(S) = (CHOOSE g : G(g))[S]
      /\ RiskTotal(S) = (CHOOSE g : H(g))[S]
  BY DEF ScoreTotal, RiskTotal, MapThenSumSet, MapThenFoldSet, Some
<1>2. \A s \in SUBSET S : s # {} =>
        /\ Scores[Some(s)] = PhraseScore(Some(s).phrase)
        /\ Risks[Some(s)] = PhraseRisk(Some(s).phrase)
  BY DEF Some, Scores, Risks
<1>3. (\A g : G(g) <=> Adds(Scores, S, g)) /\ (\A g : H(g) <=> Adds(Risks, S, g))
  BY <1>2 DEF Adds
<1> HIDE DEF G, H
<1>4. (\E g : Adds(Scores, S, g)) /\ (\E g : Adds(Risks, S, g))
  BY AddsExists
<1>5. Adds(Scores, S, CHOOSE g : G(g)) /\ Adds(Risks, S, CHOOSE g : H(g))
  BY <1>3, <1>4
<1> QED
  BY <1>1, <1>5, SumIs

\* What the decoder counts of each edge.
EdgeScores(edges) == [e \in DOMAIN edges |-> edges[e].score]
EdgeRisks(edges) == [e \in DOMAIN edges |-> edges[e].risk]

LEMMA TotalsAreSums ==
  ASSUME NEW edges, NEW S \in SUBSET DOMAIN edges, IsFiniteSet(S)
  PROVE  /\ TotalScore(edges, S) = Sum(EdgeScores(edges), S)
         /\ TotalRisk(edges, S) = Sum(EdgeRisks(edges), S)
<1> DEFINE G(g) == g = [s \in SUBSET S |->
                     IF s = {} THEN 0 ELSE edges[Some(s)].score + g[s \ {Some(s)}]]
           H(g) == g = [s \in SUBSET S |->
                     IF s = {} THEN 0 ELSE edges[Some(s)].risk + g[s \ {Some(s)}]]
           scores == EdgeScores(edges)
           risks == EdgeRisks(edges)
<1>1. /\ TotalScore(edges, S) = (CHOOSE g : G(g))[S]
      /\ TotalRisk(edges, S) = (CHOOSE g : H(g))[S]
  BY DEF TotalScore, TotalRisk, MapThenSumSet, MapThenFoldSet, Some
<1>2. \A s \in SUBSET S : s # {} =>
        /\ scores[Some(s)] = edges[Some(s)].score
        /\ risks[Some(s)] = edges[Some(s)].risk
  BY DEF Some, EdgeScores, EdgeRisks
<1> HIDE DEF scores, risks
<1>3. (\A g : G(g) <=> Adds(scores, S, g)) /\ (\A g : H(g) <=> Adds(risks, S, g))
  BY <1>2 DEF Adds
<1> HIDE DEF G, H
<1>4. (\E g : Adds(scores, S, g)) /\ (\E g : Adds(risks, S, g))
  BY AddsExists
<1>5. Adds(scores, S, CHOOSE g : G(g)) /\ Adds(risks, S, CHOOSE g : H(g))
  BY <1>3, <1>4
<1> QED
  BY <1>1, <1>5, SumIs DEF scores, risks

LEMMA MinOfTwo ==
  ASSUME NEW a \in Int, NEW b \in Int
  PROVE  /\ Min({a, b}) \in {a, b}
         /\ Min({a, b}) <= a /\ Min({a, b}) <= b
<1>1. \E x \in {a, b} : \A y \in {a, b} : x <= y
  <2>1. a <= b \/ b <= a
    OBVIOUS
  <2> QED
    BY <2>1
<1> QED
  BY <1>1 DEF Min

\* A safe phrase weighs at least 34000 and risks at most 30.
LEMMA SafePhrase ==
  ASSUME Typed, NEW words, NEW p \in 1 .. Len(lexicon), Safe(words, p)
  PROVE  /\ PhraseScore(p) \in Int /\ PhraseScore(p) >= 34000
         /\ PhraseRisk(p) \in Int /\ PhraseRisk(p) <= 30
<1> DEFINE conf == lexicon[p].conf
           n == lexicon[p].n
<1>1. conf \in 0 .. 100 /\ n \in Nat
  <2>1. lexicon[p] \in Phrase
    BY DEF Typed
  <2> QED
    BY <2>1 DEF Phrase
<1>2. conf >= 85 /\ n >= 2
  BY DEF Safe
<1> DEFINE m == Min({200, 25 * n})
           r == (100 - conf) + (IF n = 2 THEN 15 ELSE 0)
<1>3. PhraseScore(p) = conf * (350 + m) /\ PhraseRisk(p) = Min({100, r})
  BY DEF PhraseScore, PhraseRisk
<1> HIDE DEF conf, n
<1>4. m \in {200, 25 * n} /\ m \in Int /\ m >= 50
  <2>1. 25 * n \in Int /\ 25 * n >= 50
    BY <1>1, <1>2
  <2> DEFINE a == 200
             b == 25 * n
  <2>2. a \in Int /\ b \in Int /\ a >= 50 /\ b >= 50 /\ m = Min({a, b})
    BY <2>1
  <2> HIDE DEF a, b, m
  <2>3. m \in {a, b}
    BY <2>2, MinOfTwo, Zenon
  <2> QED
    BY <2>2, <2>3 DEF a, b
<1> HIDE DEF m
<1>5. conf * (350 + m) \in Int /\ conf * (350 + m) >= 34000
  <2>1. conf \in Int /\ 350 + m \in Int /\ 350 + m >= 400
    BY <1>1, <1>4
  <2> DEFINE k == 350 + m
  <2> HIDE DEF k
  <2>2. k \in Int /\ k >= 400
    BY <2>1 DEF k
  <2>3. conf * k \in Int /\ conf * k >= 85 * k
    BY <1>1, <1>2, <2>2
  <2> QED
    BY <2>2, <2>3 DEF k
<1>6. r \in Int /\ r <= 30
  BY <1>1, <1>2
<1> HIDE DEF r
<1>7. Min({100, r}) \in Int /\ Min({100, r}) <= 30
  <2> DEFINE a == 100
  <2>1. a \in Int
    OBVIOUS
  <2> HIDE DEF a
  <2>2. Min({a, r}) \in {a, r} /\ Min({a, r}) <= r
    BY <1>6, <2>1, MinOfTwo, Zenon
  <2> QED
    BY <1>6, <2>1, <2>2 DEF a
<1> QED
  BY <1>3, <1>5, <1>7

-----------------------------------------------------------------------------
\* What `set' adds up to passes the gate.
Passes(set) ==
  /\ set \subseteq ChangeType
  /\ IsFiniteSet(set)
  /\ Sum(Scores, set) >= AcceptMargin
  /\ Sum(Risks, set) <= RiskThreshold

\* A chain that is applied passed the gate as the decoder's totals, and these
\* are the totals of its changes; a phrase over the whole island that is
\* applied in place of a chain is safe, which is more than the gate asks.
LEMMA ChosenPasses ==
  ASSUME AcceptMargin <= 34000, RiskThreshold >= 30,
         Islands, NEW k \in DOMAIN islands,
         NEW chain \in BestChains(Edges(islands[k]), Len(islands[k])),
         Chosen(islands[k], chain) # {}
  PROVE  Passes({Change(islands[k], e) : e \in Chosen(islands[k], chain)})
<1> DEFINE island == islands[k]
           n == Len(island)
           chosen == Chosen(island, chain)
           edges == Edges(island)
           h == [e \in chosen |-> Change(island, e)]
           new == {Change(island, e) : e \in chosen}
<1>1. island \in Seq(Positions) /\ n \in Nat /\ Typed
  BY EndFacts DEF Islands
<1>2. /\ chosen \subseteq PhraseEdges(island)
      /\ \A d, e \in chosen : d = e \/ d[2] <= e[1] \/ e[2] <= d[1]
  BY <1>1, ChosenFacts
<1>3. \A e \in PhraseEdges(island) :
        /\ e[1] \in Nat /\ e[2] \in Nat /\ e[3] \in 1 .. Len(lexicon)
        /\ e[1] < e[2] /\ e[2] <= n
        /\ e[1] + 1 \in DOMAIN island
        /\ Change(island, e) \in ChangeType
        /\ Safe(SubSeq(island, e[1] + 1, e[2]), e[3])
  <2>1. SUFFICES ASSUME NEW e \in PhraseEdges(island)
                 PROVE  /\ e[1] \in Nat /\ e[2] \in Nat /\ e[3] \in 1 .. Len(lexicon)
                        /\ e[1] < e[2] /\ e[2] <= n
                        /\ e[1] + 1 \in DOMAIN island
                        /\ Change(island, e) \in ChangeType
                        /\ Safe(SubSeq(island, e[1] + 1, e[2]), e[3])
    OBVIOUS
  <2>2. Change(island, e) \in ChangeType
    BY <2>1, ChangeFacts
  <2>3. Safe(SubSeq(island, e[1] + 1, e[2]), e[3])
    BY <2>1 DEF PhraseEdges
  <2> QED
    BY <1>1, <2>1, <2>2, <2>3, PhraseEdgeFacts
<1>4. \A e \in PhraseEdges(island) :
        /\ PhraseScore(e[3]) \in Int /\ PhraseScore(e[3]) >= 34000
        /\ PhraseRisk(e[3]) \in Int /\ PhraseRisk(e[3]) <= 30
  BY <1>1, <1>3, SafePhrase
<1>5. \A e \in chosen : h[e] = Change(island, e) /\ h[e].phrase = e[3]
                        /\ h[e].start = island[e[1] + 1]
  BY DEF Change
<1>6. \A e \in PhraseEdges(island) : /\ e \in DOMAIN edges
                                     /\ edges[e].score = PhraseScore(e[3])
                                     /\ edges[e].risk = PhraseRisk(e[3])
  <2>1. \A e \in PhraseEdges(island) : e[3] # 0
    BY <1>1, <1>3
  <2> QED
    BY <2>1 DEF Edges
<1>7. \/ chosen = chain /\ Accepted(edges, chain)
      \/ chosen \subseteq FirstFull(island)
  BY DEF Chosen
<1>8. new = {h[e] : e \in chosen}
  BY <1>5
<1>9. \A i, j \in DOMAIN island : i < j => island[i] < island[j]
  BY DEF Islands, IslandsSolid, Solid
<1>10. \A i \in DOMAIN island : island[i] \in Int
  BY <1>1 DEF Positions
<1>11. chosen # {}
  OBVIOUS
<1> HIDE DEF island, n, chosen, edges, h, new
<1>12. \A d, e \in chosen : d[1] = e[1] => d = e
  <2>1. SUFFICES ASSUME NEW d \in chosen, NEW e \in chosen, d[1] = e[1], d # e
                 PROVE  FALSE
    OBVIOUS
  <2>2. d[1] \in Nat /\ d[2] \in Nat /\ e[2] \in Nat /\ d[1] < d[2] /\ e[1] < e[2]
    BY <1>2, <1>3
  <2>3. d[2] <= e[1] \/ e[2] <= d[1]
    BY <1>2, <2>1
  <2> QED
    BY <2>1, <2>2, <2>3
<1>13. IsFiniteSet(chosen)
  <2> DEFINE f == [e \in chosen |-> e[1]]
  <2>1. \A e \in chosen : e[1] \in 0 .. n
    BY <1>1, <1>2, <1>3
  <2>2. f \in Injection(chosen, 0 .. n)
    BY <1>12, <2>1 DEF Injection, IsInjective
  <2>3. IsFiniteSet(0 .. n)
    BY <1>1, FS_Interval
  <2> HIDE DEF f
  <2> QED
    BY <2>2, <2>3, FS_Injection
<1>14. \A d, e \in chosen : h[d] = h[e] => d = e
  <2>1. SUFFICES ASSUME NEW d \in chosen, NEW e \in chosen, h[d] = h[e]
                 PROVE  d[1] = e[1]
    BY <1>12
  <2> DEFINE x == d[1] + 1
             y == e[1] + 1
  <2>2. island[x] = island[y]
    BY <1>5, <2>1
  <2>3. x \in DOMAIN island /\ y \in DOMAIN island /\ d[1] \in Int /\ e[1] \in Int
    BY <1>2, <1>3
  <2>4. DOMAIN island = 1 .. n
    BY <1>1 DEF n
  <2>5. x \in Int /\ y \in Int
    BY <2>3
  <2>6. x = y
    <3> HIDE DEF x, y
    <3> QED
      BY <1>9, <1>10, <2>2, <2>3, <2>5
  <2> QED
    BY <2>3, <2>6
<1>15. \A e \in chosen : h[e] \in ChangeType
  BY <1>2, <1>3, <1>5
<1> DEFINE scores == [e \in chosen |-> PhraseScore(e[3])]
           risks == [e \in chosen |-> PhraseRisk(e[3])]
<1>16. \A e \in chosen :
         /\ Scores[h[e]] = scores[e] /\ scores[e] = PhraseScore(e[3]) /\ scores[e] \in Int
         /\ Risks[h[e]] = risks[e] /\ risks[e] = PhraseRisk(e[3]) /\ risks[e] \in Int
  BY <1>2, <1>4, <1>5, <1>15 DEF Scores, Risks
<1> HIDE DEF scores, risks
<1>17. /\ IsFiniteSet(new)
       /\ Sum(Scores, new) = Sum(scores, chosen)
       /\ Sum(Risks, new) = Sum(risks, chosen)
  BY <1>8, <1>13, <1>14, <1>16, SumImage
<1>18. new \subseteq ChangeType
  BY <1>8, <1>15
<1>19. Sum(scores, chosen) >= AcceptMargin /\ Sum(risks, chosen) <= RiskThreshold
  <2>1. CASE chosen = chain /\ Accepted(edges, chain)
    <3>1. chosen \subseteq DOMAIN edges
      BY <1>2, <1>6
    <3>2. /\ Sum(EdgeScores(edges), chosen) >= AcceptMargin
          /\ Sum(EdgeRisks(edges), chosen) <= RiskThreshold
      BY <1>13, <2>1, <3>1, TotalsAreSums DEF Accepted
    <3> DEFINE id == [e \in chosen |-> e]
               es == EdgeScores(edges)
               er == EdgeRisks(edges)
               image == {id[e] : e \in chosen}
    <3>3. /\ \A d, e \in chosen : id[d] = id[e] => d = e
          /\ image = chosen
      OBVIOUS
    <3>4. \A e \in chosen : es[id[e]] = scores[e] /\ scores[e] \in Int
      BY <1>2, <1>6, <1>16, <3>1 DEF EdgeScores
    <3>5. \A e \in chosen : er[id[e]] = risks[e] /\ risks[e] \in Int
      BY <1>2, <1>6, <1>16, <3>1 DEF EdgeRisks
    <3>6. Sum(es, chosen) >= AcceptMargin /\ Sum(er, chosen) <= RiskThreshold
      BY <3>2
    <3> HIDE DEF id, es, er
    <3>7. Sum(es, image) = Sum(scores, chosen)
      BY <1>13, <3>3, <3>4, SumImage
    <3>8. Sum(er, image) = Sum(risks, chosen)
      BY <1>13, <3>3, <3>5, SumImage
    <3>9. Sum(es, chosen) = Sum(scores, chosen) /\ Sum(er, chosen) = Sum(risks, chosen)
      <4> HIDE DEF image
      <4> QED
        BY <3>3, <3>7, <3>8
    <3> QED
      BY <3>6, <3>9
  <2>2. CASE chosen \subseteq FirstFull(island)
    <3>1. PICK e \in chosen : TRUE
      BY <1>11
    <3>2. \A d \in chosen : d = e
      <4>1. \A d \in chosen : d[1] = 0
        BY <2>2 DEF FirstFull, FullEdges
      <4> QED
        BY <1>12, <3>1, <4>1
    <3>3. chosen \ {e} = {}
      BY <3>2
    <3>4. Sum(scores, {}) = 0 /\ Sum(risks, {}) = 0
      BY SumNone
    <3>5. Sum(scores, chosen) = scores[e] + 0 /\ Sum(risks, chosen) = risks[e] + 0
      BY <1>13, <1>16, <3>1, <3>3, <3>4, SumRemove
    <3>6. scores[e] \in Int /\ scores[e] >= 34000 /\ risks[e] \in Int /\ risks[e] <= 30
      BY <1>2, <1>4, <1>16, <3>1
    <3>7. AcceptMargin \in Int /\ RiskThreshold \in Int
      BY ConfigAssumption
    <3> QED
      BY <3>5, <3>6, <3>7
  <2> QED
    BY <1>7, <2>1, <2>2
<1> QED
  BY <1>17, <1>18, <1>19 DEF Passes, new, chosen, island

-----------------------------------------------------------------------------
\* The changes made in an island passed the gate together.
Gated == \A k \in DOMAIN islands : Together(k) = {} \/ Passes(Together(k))

LEMMA GatedStep ==
  ASSUME AcceptMargin <= 34000, RiskThreshold >= 30, IInv, Gated, [Next]_vars
  PROVE  Gated'
<1>1. CASE changes' = {}
  BY <1>1 DEF Gated, Together
<1>2. CASE UNCHANGED <<tokens, lexicon, islands, changes>>
  <2>1. \A k : Together(k)' = Together(k)
    BY <1>2 DEF Together, Rewritten, Positions
  <2>2. \A set : Passes(set)' = Passes(set)
    <3>1. Scores' = Scores /\ Risks' = Risks /\ ChangeType' = ChangeType
      BY <1>2 DEF Scores, Risks, ChangeType, Positions, PhraseScore, PhraseRisk
    <3> QED
      BY <3>1 DEF Passes
  <2> QED
    BY <1>2, <2>1, <2>2 DEF Gated
<1>3. CASE RestoreIsland /\ changes' # changes
  <2>1. /\ at \in DOMAIN islands /\ at \in Nat /\ Islands
        /\ phase = "restore" /\ UNCHANGED <<tokens, lexicon, islands>>
    BY <1>3, RestoreFacts DEF IInv, RestoreIsland, Islands, Typed
  <2>2. PICK chain \in BestChains(Edges(islands[at]), Len(islands[at])) :
               changes' = changes \cup
                            {Change(islands[at], e) : e \in Chosen(islands[at], chain)}
    BY <1>3 DEF RestoreIsland
  <2> DEFINE chosen == Chosen(islands[at], chain)
             new == {Change(islands[at], e) : e \in chosen}
  <2>3. changes' = changes \cup new /\ chosen # {}
    BY <1>3, <2>2
  <2>4. Passes(new)
    BY <2>1, <2>3, ChosenPasses
  <2>5. \A set : Passes(set)' = Passes(set)
    <3>1. Scores' = Scores /\ Risks' = Risks /\ ChangeType' = ChangeType
      BY <2>1 DEF Scores, Risks, ChangeType, Positions, PhraseScore, PhraseRisk
    <3> QED
      BY <3>1 DEF Passes
  <2>6. \A c \in new : /\ c \in ChangeType /\ Inside(c, islands[at])
                       /\ \E w \in DOMAIN islands[at] : islands[at][w] \in Rewritten(c)
    <3>1. SUFFICES ASSUME NEW e \in chosen, NEW c, c = Change(islands[at], e)
                   PROVE  /\ c \in ChangeType /\ Inside(c, islands[at])
                          /\ \E w \in DOMAIN islands[at] : islands[at][w] \in Rewritten(c)
      OBVIOUS
    <3>2. islands[at] \in Seq(Positions)
      BY <2>1, EndFacts
    <3>3. e \in PhraseEdges(islands[at])
      BY <2>1, <3>1, <3>2, ChosenFacts DEF Islands
    <3>4. c \in ChangeType /\ Inside(c, islands[at])
      BY <2>1, <3>1, <3>3, ChangeFacts
    <3> DEFINE w == e[1] + 1
    <3>5. w \in DOMAIN islands[at] /\ islands[at][w] \in Positions
      BY <2>1, <3>2, <3>3, PhraseEdgeFacts, EndFacts DEF Islands
    <3>6. islands[at][w] = c.start
      BY <3>1 DEF Change
    <3> HIDE DEF w
    <3>7. islands[at][w] \in Rewritten(c)
      BY <3>4, <3>5, <3>6 DEF Inside, Rewritten, Positions
    <3> QED
      BY <3>4, <3>5, <3>7
  <2>7. \A c \in changes : c \in ChangeType /\ \E k \in DOMAIN islands :
          k < at /\ Inside(c, islands[k])
    BY <2>1 DEF IInv, ChangesInside
  <2>8. \A c \in changes : \A w \in DOMAIN islands[at] : islands[at][w] \notin Rewritten(c)
    <3>1. SUFFICES ASSUME NEW c \in changes, NEW w \in DOMAIN islands[at]
                   PROVE  islands[at][w] \notin Rewritten(c)
      OBVIOUS
    <3>2. PICK k \in DOMAIN islands : k < at /\ Inside(c, islands[k])
      BY <2>7
    <3>3. k # at
      BY <2>1, <3>2
    <3> QED
      BY <2>1, <2>7, <3>1, <3>2, <3>3, Elsewhere
  <2> HIDE DEF chosen, new
  <2>9. \A c : Rewritten(c)' = Rewritten(c)
    BY <2>1 DEF Rewritten, Positions
  <2>10. SUFFICES ASSUME NEW k \in DOMAIN islands
                  PROVE  Together(k)' = {} \/ Passes(Together(k)')
    BY <2>1, <2>5 DEF Gated
  <2>11. CASE k = at
    <3>1. Together(k)' = new
      BY <2>1, <2>3, <2>6, <2>8, <2>9, <2>11 DEF Together
    <3> QED
      BY <2>4, <3>1
  <2>12. CASE k # at
    <3>1. \A c \in new : \A w \in DOMAIN islands[k] : islands[k][w] \notin Rewritten(c)
      BY <2>1, <2>6, <2>10, <2>12, Elsewhere
    <3>2. Together(k)' = Together(k)
      BY <2>1, <2>3, <2>9, <3>1 DEF Together
    <3> QED
      BY <2>10, <3>2 DEF Gated
  <2> QED
    BY <2>11, <2>12
<1> QED
  <2>1. CASE ReadWord \/ ReadSpace \/ ReadOther \/ ExtractDone
    <3>1. changes' = {}
      BY <2>1 DEF ReadWord, ReadSpace, ReadOther, ExtractDone, IInv, Islands, Collected
    <3> QED
      BY <1>1, <3>1
  <2>2. CASE RestoreIsland
    <3>1. UNCHANGED <<tokens, lexicon, islands>>
      BY <2>2 DEF RestoreIsland
    <3> QED
      BY <1>2, <1>3, <2>2, <3>1
  <2>3. CASE RestoreDone \/ UNCHANGED vars
    BY <1>2, <2>3 DEF RestoreDone, vars
  <2> QED
    BY <2>1, <2>2, <2>3 DEF Next

\* The property, in the two totals.
LEMMA GateMet ==
  ASSUME \A k \in 1 .. Len(islands) : Together(k) # {} =>
           /\ ScoreTotal(Together(k)) >= AcceptMargin
           /\ RiskTotal(Together(k)) <= RiskThreshold
  PROVE  AppliedPassesGate
BY Zenon DEF AppliedPassesGate, ScoreTotal, RiskTotal

\* What is applied passed the gate, the phrase over the whole island that
\* takes a chain's place included: nothing gates that one, but it is safe, and
\* at a margin of at most 3.4 and a threshold of at least 0.30 (the defaults
\* are 2.0 and 0.50) a safe phrase passes.
THEOREM AppliedPassesGateCorrect ==
  ASSUME AcceptMargin <= 34000, RiskThreshold >= 30
  PROVE  Spec => []AppliedPassesGate
<1>1. Init => IInv /\ Gated
  BY IInvInit DEF Init, Gated
<1>2. IInv /\ Gated /\ [Next]_vars => (IInv /\ Gated)'
  BY IInvStep, GatedStep
<1>3. IInv /\ Gated => AppliedPassesGate
  <2>1. SUFFICES ASSUME IInv, Gated
                 PROVE  \A k \in 1 .. Len(islands) : Together(k) # {} =>
                          /\ ScoreTotal(Together(k)) >= AcceptMargin
                          /\ RiskTotal(Together(k)) <= RiskThreshold
    BY GateMet
  <2>2. ASSUME NEW k \in 1 .. Len(islands), Together(k) # {}
        PROVE  /\ ScoreTotal(Together(k)) >= AcceptMargin
               /\ RiskTotal(Together(k)) <= RiskThreshold
    <3>1. k \in DOMAIN islands
      BY <2>1 DEF IInv, Islands, Typed
    <3>2. Passes(Together(k))
      BY <2>1, <2>2, <3>1 DEF Gated
    <3> QED
      BY <3>2, GateIsSum DEF Passes
  <2> QED
    BY <2>2
<1> QED
  BY <1>1, <1>2, <1>3, PTL DEF Spec

=============================================================================
