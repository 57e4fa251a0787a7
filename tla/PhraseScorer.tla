---------------------------- MODULE PhraseScorer ----------------------------
(***************************************************************************)
(* The n-gram store is built from phrase files, loaded, and the readings   *)
(* of a window are scored with it (stage5_scorer/scorer.py).               *)
(*                                                                         *)
(* A window is a sequence of tokens with their candidates; a candidate     *)
(* tells whether an OCR confusion proposed it and its edit distance, None  *)
(* if it has none.  A reading has one candidate's text for each token.     *)
(* Scores of readings are in units of 1/100000.                            *)
(***************************************************************************)
EXTENDS NgramStore

LEX == INSTANCE LexiconStore

CONSTANTS PhraseFiles,   \* what the phrase files may hold
          Lexicon,       \* the lexicon, a store of LexiconStore
          Windows,       \* the windows to be scored
          Domains        \* the domains a caller may name

None == -1

\* The windows come from the generator, which merges candidates by their texts
\* and always proposes the text itself.
ASSUME WindowsAssumption ==
  \A w \in Windows :
    /\ IsList(w)
    /\ \A i \in DOMAIN w :
         /\ IsFiniteSet(w[i].candidates)
         /\ \E c \in w[i].candidates : c.text = w[i].text
         /\ \A c \in w[i].candidates :
              /\ c.edit \in Nat \cup {None}
              /\ \A d \in w[i].candidates : d.text = c.text => d = c
ASSUME PhraseFilesAssumption ==
  \A files \in PhraseFiles : \A f \in Origins :
    /\ IsFiniteSet(files[f])
    /\ \A e \in files[f] : IsList(e.tokens) /\ e.score \in Nat

VARIABLES sources,  \* the phrase files
          file,     \* ngram_store.vi.json: its state and what was written
          store,    \* the loaded store: its state and content
          window,   \* the window scored last, and the domain it was scored for
          domain,
          scored    \* its readings with the breakdown of their scores

scorerVars == <<sources, file, store, window, domain, scored>>

ScorerInit ==
  /\ sources \in PhraseFiles
  /\ file = [state |-> "absent", content |-> EmptyNgrams]
  /\ store = [state |-> "none", content |-> EmptyNgrams]
  /\ window = <<>> /\ domain = NoDomain /\ scored = <<>>

-----------------------------------------------------------------------------
(***************************************************************************)
(* Readings                                                                *)
(***************************************************************************)
original_tokens(w) == [i \in DOMAIN w |-> w[i].text]

\* Every combination of the texts of the candidates; generate_sequences and the
\* beam leave out some of them.
Combinations(w) ==
  LET all == UNION {{c.text : c \in w[i].candidates} : i \in DOMAIN w} IN
  {r \in [DOMAIN w -> all] : \A i \in DOMAIN w : \E c \in w[i].candidates : c.text = r[i]}

Changed(reading, original) == {i \in DOMAIN reading : reading[i] # original[i]}

IsSpace(text) == Strip(text) = <<>>

Content(tokens) == Pick(tokens, {i \in DOMAIN tokens : ~IsSpace(tokens[i])})

\* By ranges of code points, which take in the Icelandic eth.
is_vietnamese_char(ch) == ch \in DOMAIN VIETNAMESE_ACCENT_MAP \cup {"eth", "ETH"}

contains_vietnamese(text) == \E i \in DOMAIN text : is_vietnamese_char(text[i])

contains_word(text) == text \in Lexicon.wordSurfaces

contains_syllable(text) == text \in DOMAIN Lexicon.syllableBySurface

\* The values of f added up.
Added(f) == FoldFunction(+, 0, f)

-----------------------------------------------------------------------------
(***************************************************************************)
(* The signals                                                             *)
(***************************************************************************)
\* Fault: an accentless match makes a valid word.
_score_word_validity_accentless(reading) ==
  Cardinality({i \in DOMAIN reading : LEX!lookup_accentless(Lexicon, reading[i]) # <<>>})

_score_word_validity(reading) == Cardinality({i \in DOMAIN reading : contains_word(reading[i])})

_score_syllable_freq(reading) == Cardinality({i \in DOMAIN reading : contains_syllable(reading[i])})

_score_phrase_ngram(ngrams, reading) ==
  LET content == Content(reading)
      At(n) == Added([i \in 1 .. Len(content) - n + 1 |->
                        phrase_score(ngrams, SubSeq(content, i, i + n - 1))])
  IN  At(2) + At(3) + At(4)

_score_domain_context(ngrams, reading, dom) ==
  IF dom = NoDomain THEN 0 ELSE domain_phrase_score(ngrams, dom, Content(reading))

\* The tokens of the window with the text of position i: a text that occurs
\* twice counts twice.
Same(w, i) == {k \in DOMAIN w : w[k].text = w[i].text}

_score_ocr_confusion(w, reading) ==
  Added([i \in Changed(reading, original_tokens(w)) |->
           Cardinality({k \in Same(w, i) :
                          \E c \in w[k].candidates : c.text = reading[i] /\ c.ocr})])

\* In units of 1/100000 with its weight of 0.6.
_score_edit_distance(w, reading) ==
  LET Distances(k, text) ==
        Added([c \in {d \in w[k].candidates : d.text = text /\ d.edit # None} |->
                 60000 \div (1 + c.edit)])
  IN  Added([i \in DOMAIN w |->
               IF reading[i] = w[i].text THEN 60000
               ELSE Added([k \in Same(w, i) |-> Distances(k, reading[i])])])

_is_accentless_variant_correction(original, candidate) ==
  /\ original # candidate
  /\ ~contains_vietnamese(original)
  /\ contains_vietnamese(candidate)
  /\ strip_accents(candidate) = Lower(original)
  /\ \E e \in Range(LEX!lookup_accentless(Lexicon, original)) : Lower(e.surface) = Lower(candidate)

\* Fault: the neighbour is the token beside it, a space too.
_candidate_improves_ngram_beside(ngrams, candidate, original, tokens, i) ==
  \E k \in {i - 1, i + 1} \cap DOMAIN tokens :
     LET Pair(text) == IF k < i THEN <<tokens[k], text>> ELSE <<text, tokens[k]>>
         found == ScoreOr0(ngrams.ngrams, Pair(candidate))
     IN  found >= 5000 /\ found >= ScoreOr0(ngrams.ngrams, Pair(original)) + 2000

\* min_score 0.5, min_delta 0.2, against the neighbours as they were written.
_candidate_improves_ngram(ngrams, candidate, original, tokens, i) ==
  LET solid == {k \in DOMAIN tokens : ~IsSpace(tokens[k])}
      left == {k \in solid : k < i}
      right == {k \in solid : k > i}
      Improves(found, before) == found >= 5000 /\ found >= before + 2000
  IN  /\ i \in solid
      /\ \/ /\ left # {}
            /\ Improves(bigram_score(ngrams, tokens[Max(left)], candidate),
                        bigram_score(ngrams, tokens[Max(left)], original))
         \/ /\ right # {}
            /\ Improves(bigram_score(ngrams, candidate, tokens[Min(right)]),
                        bigram_score(ngrams, original, tokens[Min(right)]))

Penalized(ngrams, reading, original) ==
  {i \in Changed(reading, original) :
     /\ contains_word(original[i])
     /\ ~_is_accentless_variant_correction(original[i], reading[i])
     /\ ~_candidate_improves_ngram(ngrams, reading[i], original[i], original, i)}

\* Fault: the share of all content tokens, not of the changed ones.
_score_overcorrection_penalty_of_all(ngrams, reading, original) ==
  (130000 * Cardinality(Penalized(ngrams, reading, original))) \div Max({1, Len(Content(reading))})

\* The share of the changes that are penalized, with its weight of 1.3.
_score_overcorrection_penalty(ngrams, reading, original) ==
  LET total == Cardinality(Changed(reading, original)) IN
  IF total = 0 THEN 0
  ELSE (130000 * Cardinality(Penalized(ngrams, reading, original))) \div total

_score_sequence(ngrams, w, dom, reading) ==
  [word_validity |-> 100000 * _score_word_validity(reading),
   syllable_freq |-> 12000 * _score_syllable_freq(reading),
   phrase_ngram |-> 14 * _score_phrase_ngram(ngrams, reading),
   domain_context |-> 12 * _score_domain_context(ngrams, reading, dom),
   ocr_confusion |-> 100000 * _score_ocr_confusion(w, reading),
   edit_distance |-> _score_edit_distance(w, reading),
   overcorrection |-> _score_overcorrection_penalty(ngrams, reading, original_tokens(w)),
   negative_phrase |-> 15 * negative_phrase_score(ngrams, Content(reading))]

\* ScoreBreakdown.total
Total(b) ==
  b.word_validity + b.syllable_freq + b.phrase_ngram + b.domain_context + b.ocr_confusion
    + b.edit_distance - b.overcorrection - b.negative_phrase

-----------------------------------------------------------------------------
(***************************************************************************)
(* Actions                                                                 *)
(***************************************************************************)
\* Bound: the files change only while no window is kept, for the scores of a
\* window do not depend on what is on the disk by then.
BetweenWindows == window = <<>>

ChangeSources(files) ==
  /\ BetweenWindows
  /\ sources' = files
  /\ UNCHANGED <<file, store, window, domain, scored>>

\* The file is written in place; a build that dies leaves it torn.
Build ==
  /\ BetweenWindows
  /\ \/ file' = [state |-> "written", content |-> build(sources)]
     \/ file' = [state |-> "torn", content |-> EmptyNgrams]
  /\ UNCHANGED <<sources, store, window, domain, scored>>

\* JsonNgramStore: without a file everything scores 0, a torn one raises.
Load ==
  /\ store' = [state |-> CASE file.state = "absent" -> "empty"
                           [] file.state = "written" -> "loaded"
                           [] file.state = "torn" -> "failed",
               content |-> file.content]
  /\ window' = <<>> /\ domain' = NoDomain /\ scored' = <<>>
  /\ UNCHANGED <<sources, file>>

\* Bound: one window for each load (BetweenWindows), for scoring keeps nothing.
ScoreWindow(w, dom) ==
  /\ BetweenWindows
  /\ file.content = store.content
  /\ store.state \in {"empty", "loaded"}
  /\ window' = w
  /\ domain' = dom
  /\ scored' = [r \in Combinations(w) |-> _score_sequence(store.content, w, dom, r)]
  /\ UNCHANGED <<sources, file, store>>

ScorerNext ==
  \/ \E files \in PhraseFiles : ChangeSources(files)
  \/ Build
  \/ Load
  \/ \E w \in Windows, dom \in Domains : ScoreWindow(w, dom)

ScorerSpec == ScorerInit /\ [][ScorerNext]_scorerVars

-----------------------------------------------------------------------------
(***************************************************************************)
(* Properties                                                              *)
(***************************************************************************)
\* A phrase that was kept scores in full however many phrases it is a part of,
\* and an n-gram is in the file only as a run of some phrase and scores no
\* more than the best of them (build_ngram_store.build).
PhraseKeepsItsScore ==
  [][file'.state = "written" =>
       LET kept == deduplicate(Records(sources))
           ngrams == file'.content.ngrams
       IN  /\ \A r \in kept : Len(r.tokens) \in 2 .. 4 =>
                 ScoreOr0(ngrams, r.tokens) >= Clamped(100 * r.score)
           /\ \A g \in DOMAIN ngrams :
                 \E r \in Records(sources) :
                    g \in _generate_ngrams(r.tokens) /\ ngrams[g] <= Clamped(100 * r.score)]_file

\* No worse than the text as written in all that comes from context.
ContextNoWorse(b, o) ==
  /\ b.phrase_ngram >= o.phrase_ngram /\ b.domain_context >= o.domain_context
  /\ b.negative_phrase <= o.negative_phrase

ContextNoBetter(b, o) ==
  /\ b.phrase_ngram <= o.phrase_ngram /\ b.domain_context <= o.domain_context
  /\ b.negative_phrase >= o.negative_phrase

DistinctTexts == \A i, j \in DOMAIN window : window[i].text = window[j].text => i = j

\* The readings that change one token only.
OneChange == {r \in DOMAIN scored : Cardinality(Changed(r, original_tokens(window))) = 1}

\* A bare token that is no word gives way to an accented form that is one,
\* whatever else the reading changes, unless the context is against it: the
\* signals and their weights together restore accents although the original is
\* credited with its distance, and a penalty that is a share of the changes
\* (_score_overcorrection_penalty) never turns against the change.
RestoredUnknownWins ==
  \A q \in DOMAIN scored : \A i \in DOMAIN window \ Changed(q, original_tokens(window)) :
    \A r \in {s \in DOMAIN scored : Changed(s, q) = {i}} :
      /\ ~contains_word(q[i]) /\ contains_word(r[i])
      /\ strip_accents(r[i]) = Lower(q[i])
      /\ ContextNoWorse(scored[r], scored[q])
      => Total(scored[r]) > Total(scored[q])

\* A word of the lexicon is not given up for an OCR confusion that the context
\* does not support: the penalty outweighs the confusion.  This holds for one
\* change in a window without repeated tokens.
KnownWordKept ==
  DistinctTexts =>
    \A r \in OneChange : \A i \in Changed(r, original_tokens(window)) :
       /\ contains_word(window[i].text)
       /\ ~_is_accentless_variant_correction(window[i].text, r[i])
       /\ ~_candidate_improves_ngram(store.content, r[i], window[i].text, original_tokens(window), i)
       /\ ContextNoBetter(scored[r], scored[original_tokens(window)])
       => Total(scored[r]) < Total(scored[original_tokens(window)])

\* The window with a space between any two tokens.
Spaced(s, space) ==
  [i \in 1 .. (IF s = <<>> THEN 0 ELSE 2 * Len(s) - 1) |->
     IF i % 2 = 1 THEN s[(i + 1) \div 2] ELSE space]

SpaceToken == [text |-> <<" ">>, candidates |-> {[text |-> <<" ">>, ocr |-> FALSE, edit |-> None]}]

\* Two readings of a window differ by the same score with spaces between the
\* tokens and without: neither n-grams nor the check of the neighbours
\* (_candidate_improves_ngram) sees the spaces.
SpacesDontMatter ==
  LET spaced == Spaced(window, SpaceToken)
      Difference(r) ==
        Total(_score_sequence(store.content, spaced, domain, Spaced(r, <<" ">>)))
          - Total(scored[r])
  IN  \A r, q \in DOMAIN scored : Difference(r) = Difference(q)
=============================================================================
