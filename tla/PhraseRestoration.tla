------------------------- MODULE PhraseRestoration -------------------------
(***************************************************************************)
(* Step 5b of TextCorrector._run_pipeline: accents are restored for whole  *)
(* phrases.  The tokens are grouped into islands of words; for each island *)
(* the phrases of the lexicon that have the letters of some of its words   *)
(* become edges of a lattice; the decoder picks a best chain; a gate and a *)
(* coverage rule decide whether it becomes changes of the text.            *)
(*                                                                         *)
(* A word is abstracted to its letters without accents (`key'), whether it *)
(* carries accents, and whether Stage 3 protected it.  Positions are token *)
(* positions: token t fills the interval [t, t + 1).                       *)
(***************************************************************************)
EXTENDS Spans, Sequences, Lattice

CONSTANTS
  Keys,           \* the letters a word may have, accents stripped
  Documents,      \* the token lists considered
  Lexicons,       \* the phrase lists considered
  MinLen,         \* phrase_span_min_len
  MaxLen,         \* phrase_span_max_len
  AcceptMargin,   \* phrase_span_accept_margin, in units of 0.0001
  RiskThreshold   \* phrase_span_risk_threshold, in units of 0.01

\* "word" stands for the word-like token types; "other" for all that are
\* neither word-like nor SPACE: punctuation, numbers, newlines.
Token == [kind : {"word", "space", "other"}, key : Keys,
          accented : BOOLEAN, protected : BOOLEAN]

\* A phrase of the lexicon.  conf is its confidence in units of 0.01; n is a
\* field of the entry, which is not always the number of its words.
Phrase == [key : Seq(Keys), n : Nat, accented : BOOLEAN, conf : 0 .. 100]

ASSUME InputAssumption ==
  /\ Documents \subseteq Seq(Token)
  /\ Lexicons \subseteq Seq(Phrase)
ASSUME ConfigAssumption ==
  MinLen \in Nat /\ MaxLen \in Nat /\ AcceptMargin \in Int /\ RiskThreshold \in Int

VARIABLES
  phase,    \* "extract", "restore" or "done"
  tokens,   \* the tokens of the text
  lexicon,  \* the phrases, in the order lookup_phrase_notone lists them
  at,       \* extract: the token looked at; restore: the island looked at
  current,  \* extract: current_raw_indexes
  islands,  \* the islands, each the positions of its words (raw_token_indexes)
  changes   \* phrase_changes

vars == <<phase, tokens, lexicon, at, current, islands, changes>>

Init ==
  /\ tokens \in Documents
  /\ lexicon \in Lexicons
  /\ phase = "extract"
  /\ at = 1
  /\ current = <<>>
  /\ islands = <<>>
  /\ changes = {}

-----------------------------------------------------------------------------
(***************************************************************************)
(* extract_word_islands                                                    *)
(***************************************************************************)
\* Fault: a lone word is not closed off.
FlushedLate ==
  IF Len(current) < 2 THEN <<islands, current>>
  ELSE <<Append(islands, current), <<>>>>

\* flush(): the words collected become an island.
Flushed ==
  IF current = <<>> THEN <<islands, current>>
  ELSE <<Append(islands, current), <<>>>>

ReadWord ==
  /\ phase = "extract"
  /\ at <= Len(tokens)
  /\ tokens[at].kind = "word"
  /\ current' = Append(current, at)
  /\ at' = at + 1
  /\ UNCHANGED <<phase, tokens, lexicon, islands, changes>>

ReadSpace ==
  /\ phase = "extract"
  /\ at <= Len(tokens)
  /\ tokens[at].kind = "space"
  /\ at' = at + 1
  /\ UNCHANGED <<phase, tokens, lexicon, current, islands, changes>>

ReadOther ==
  /\ phase = "extract"
  /\ at <= Len(tokens)
  /\ tokens[at].kind = "other"
  /\ islands' = Flushed[1]
  /\ current' = Flushed[2]
  /\ at' = at + 1
  /\ UNCHANGED <<phase, tokens, lexicon, changes>>

ExtractDone ==
  /\ phase = "extract"
  /\ at > Len(tokens)
  /\ islands' = Flushed[1]
  /\ current' = Flushed[2]
  /\ phase' = "restore"
  /\ at' = 1
  /\ UNCHANGED <<tokens, lexicon, changes>>

-----------------------------------------------------------------------------
(***************************************************************************)
(* _propose_for_island                                                     *)
(***************************************************************************)
\* Fault: the span may already carry accents.
SafeAccented(words, p) ==
  /\ [k \in DOMAIN words |-> tokens[words[k]].key] = lexicon[p].key
  /\ lexicon[p].accented
  /\ lexicon[p].n >= 2
  /\ lexicon[p].conf >= 85

\* is_safe_phrase_restoration: phrase `p' has the letters of the words at
\* positions `words', none of which carries accents yet.
Safe(words, p) ==
  /\ [k \in DOMAIN words |-> tokens[words[k]].key] = lexicon[p].key
  /\ lexicon[p].accented
  /\ \A k \in DOMAIN words : ~tokens[words[k]].accented
  /\ lexicon[p].n >= 2
  /\ lexicon[p].conf >= 85

\* compute_phrase_span_score
PhraseScore(p) == lexicon[p].conf * (350 + Min({200, 25 * lexicon[p].n}))

\* compute_phrase_span_risk
PhraseRisk(p) ==
  Min({100, (100 - lexicon[p].conf)
              + (IF lexicon[p].n = 2 THEN 15 ELSE 0)})

\* Word positions are counted from 0, the edge <<i, j, p>> reads the words
\* from i up to j as phrase p.
PhraseEdges(island) ==
  {e \in (0 .. Len(island)) \X (0 .. Len(island)) \X (1 .. Len(lexicon)) :
     /\ e[1] + MinLen <= e[2]
     /\ e[2] <= e[1] + MaxLen
     /\ e[1] < e[2]
     /\ Safe(SubSeq(island, e[1] + 1, e[2]), e[3])}

\* _build_identity_edges_for_island: words kept as they are, phrase 0.
IdentityEdges(island) == {<<i, i + 1, 0>> : i \in 0 .. Len(island) - 1}

\* The lattice of an island.
Edges(island) ==
  [e \in IdentityEdges(island) \cup PhraseEdges(island) |->
     [start |-> e[1], end |-> e[2],
      score |-> IF e[3] = 0 THEN 0 ELSE PhraseScore(e[3]),
      risk  |-> IF e[3] = 0 THEN 0 ELSE PhraseRisk(e[3])]]

-----------------------------------------------------------------------------
(***************************************************************************)
(* The decision.                                                           *)
(***************************************************************************)
\* The text a chosen edge rewrites.
Change(island, e) ==
  [start |-> island[e[1] + 1], end |-> island[e[2]] + 1, phrase |-> e[3]]

\* Fault: the risk is not looked at.
AcceptedRisky(edges, chain) ==
  /\ \E e \in chain : e[3] # 0
  /\ TotalScore(edges, chain) >= AcceptMargin

\* should_accept_phrase_decode
Accepted(edges, chain) ==
  /\ \E e \in chain : e[3] # 0
  /\ TotalScore(edges, chain) >= AcceptMargin
  /\ TotalRisk(edges, chain) <= RiskThreshold

\* The phrases over the whole island; full_edges[:1] is the first of them.
FullEdges(island) ==
  {e \in PhraseEdges(island) : e[1] = 0 /\ e[2] = Len(island)}
FirstFull(island) ==
  {e \in FullEdges(island) : \A d \in FullEdges(island) : e[3] <= d[3]}

\* Fault: a chain with words left out is used as it is.
ChosenPartly(island, chain) ==
  LET phrases == {e \in chain : e[3] # 0} IN
  IF ~Accepted(Edges(island), chain) THEN {} ELSE phrases

\* The edges that become changes: those of the chain if every word is under
\* a phrase, else a phrase over the whole island if there is one.
Chosen(island, chain) ==
  LET phrases == {e \in chain : e[3] # 0} IN
  IF ~Accepted(Edges(island), chain) THEN {}
  ELSE IF phrases = chain THEN phrases
  ELSE FirstFull(island)

\* The loop body for one island.
RestoreIsland ==
  /\ phase = "restore"
  /\ at <= Len(islands)
  /\ LET island == islands[at] IN
     IF PhraseEdges(island) = {}
     THEN changes' = changes
     ELSE \E chain \in BestChains(Edges(island), Len(island)) :
            changes' = changes \cup
                         {Change(island, e) : e \in Chosen(island, chain)}
  /\ at' = at + 1
  /\ UNCHANGED <<phase, tokens, lexicon, current, islands>>

RestoreDone ==
  /\ phase = "restore"
  /\ at > Len(islands)
  /\ phase' = "done"
  /\ UNCHANGED <<tokens, lexicon, at, current, islands, changes>>

Next ==
  \/ ReadWord
  \/ ReadSpace
  \/ ReadOther
  \/ ExtractDone
  \/ RestoreIsland
  \/ RestoreDone

Spec == Init /\ [][Next]_vars

-----------------------------------------------------------------------------
(***************************************************************************)
(* Properties.                                                             *)
(***************************************************************************)
Positions == 1 .. Len(tokens)

ChangeType == [start : Positions, end : 2 .. Len(tokens) + 1, phrase : 1 .. Len(lexicon)]

\* Every variable has its type.
TypeOK ==
  /\ phase \in {"extract", "restore", "done"}
  /\ tokens \in Seq(Token)
  /\ lexicon \in Seq(Phrase)
  /\ at \in Nat \ {0}
  /\ current \in Seq(Positions)
  /\ islands \in Seq(Seq(Positions))
  /\ changes \subseteq ChangeType

\* The tokens and the words that a change rewrites.
Rewritten(c) == {t \in Positions : c.start <= t /\ t < c.end}
RewrittenWords(c) == {t \in Rewritten(c) : tokens[t].kind = "word"}

\* Two phrases never rewrite the same token, within an island or across two,
\* so _merge_phrase_changes never lets one phrase replace another.
PhrasesDisjoint ==
  \A c, d \in changes : c # d => ~Overlaps(c, d)

\* "Punctuation ... and non-word tokens do [break an island]"
\* (word_island.py:51): no phrase is read across one.
StaysBetweenBreaks ==
  \A c \in changes : \A t \in Rewritten(c) : tokens[t].kind # "other"

\* "Require ALL tokens to be covered by phrase edges" (corrector.py:317): an
\* island is rewritten in all of its words or in none.
AllOrNothing ==
  \A k \in 1 .. Len(islands) :
    LET words == {islands[k][w] : w \in DOMAIN islands[k]}
        under == words \cap UNION {Rewritten(c) : c \in changes}
    IN  under = {} \/ under = words

\* A change only adds accents: it has the letters of the words it rewrites,
\* one for one across spaces, and no accent the writer typed is overruled.
OnlyAddsAccents ==
  \A c \in changes :
    LET key == lexicon[c.phrase].key IN
    \E word \in [DOMAIN key -> RewrittenWords(c)] :
      /\ \A i, j \in DOMAIN key : i < j => word[i] < word[j]
      /\ RewrittenWords(c) \subseteq {word[i] : i \in DOMAIN key}
      /\ \A i \in DOMAIN key : tokens[word[i]].key = key[i] /\ ~tokens[word[i]].accented

\* The changes made in island `k'.
Together(k) ==
  {c \in changes : \E w \in DOMAIN islands[k] : islands[k][w] \in Rewritten(c)}

\* What is applied passed the gate: not only the chain the decoder chose, but
\* also the phrase over the whole island that is applied in its place.
AppliedPassesGate ==
  \A k \in 1 .. Len(islands) :
    Together(k) # {} =>
      /\ MapThenSumSet(LAMBDA c : PhraseScore(c.phrase), Together(k)) >= AcceptMargin
      /\ MapThenSumSet(LAMBDA c : PhraseRisk(c.phrase), Together(k)) <= RiskThreshold

\* "Punctuation, protected tokens, and non-word tokens do [break an island]"
\* (word_island.py:51): no phrase rewrites a protected token.
ProtectedUntouched ==
  \A c \in changes : \A t \in Rewritten(c) : ~tokens[t].protected

=============================================================================
