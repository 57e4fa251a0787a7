# A TLA+ model of the Vietnamese text corrector

`vn_corrector` takes a text, normalizes it, marks what must not be touched,
proposes replacements for its words (single words from indexes, whole phrases
from a phrase lexicon), scores them in context, decides per word whether to
accept, flag or leave, and writes the accepted changes back by character offset.
The correction is a sequential program. What makes it hard is the long chain of
partial orders, ties, thresholds and merges between a proposal and the text,
where each stage trusts a promise of the one before. The lexicon and the n-gram
scores it reads are built by other processes, which may die at any step and may
run while a corrector starts.

## Inventory

| Part | State it keeps | Operations | Hard about it |
|---|---|---|---|
| `pipeline/corrector.py`, `context.py` | per call: text, tokens, protected spans, phrase changes, token changes, flags; per process: one cached corrector | `correct_text`, `correct`, `_run_pipeline`, phrase-span loop, `_merge_phrase_changes` | any stage may raise; text, lowered text and result share offsets; errors swallowed in two places |
| `pipeline/reconstruction.py` | kept changes, cursor, pieces | `resolve_overlapping_changes`, `apply_changes` | greedy choice, then replacement of what was chosen; a silent skip |
| `stage5_scorer/lattice.py` | best score, risk and edge per word position | `LatticeDecoder.decode`, gate, scores | dynamic programming, back-pointers, zero-score ties |
| `stage4_candidates/word_island.py`, `phrase_span.py` | islands, phrase edges | `extract_word_islands`, `_propose_for_island` | what ends an island; what a phrase may overwrite |
| `stage5_scorer/windowing.py`, `combinations.py` | windows, beam, ranking | `build_windows`, `beam_search_sequences`, `score_window` | merging at a limit, ties at the beam's edge |
| `stage5_scorer/scorer.py`, `backends/json_ngram_store.py` | the n-gram store | `_score_sequence` and its features | weights against penalties that are shares of the changes |
| `stage6_decision` | one decision per position | `decide_window`, `decide_token`, changes, flags | order of the tests, margins read from two different scales |
| `stage4_candidates/generator.py`, `sources/`, `ranking.py`, `limits.py`, `cache.py` | proposals per token, LRU cache, counters | `generate_token`, `generate_document`, merge, rank, trim, `get`, `put` | the original kept through every trim, sources that raise halfway, a set handed on in any order |
| `stage3_protect` | spans, placeholder map | matchers, `resolve_conflicts`, `mask`, `restore` | priority against position, placeholders already in the text |
| `tokenizer.py` | tokens | scanning, protected flags | spans that do not respect tokens |
| `case_mask.py`, `normalizer.py`, `stage1_normalize` | case pattern; normalized text and counters | lower and restore; NFC, invisible characters, spaces | positions after a change of length; the order of the steps |
| `stage2_lexicon` | lists of entries, dictionaries, an index built on demand; SQLite, JSON | `load_default_lexicon`, lookups; an unused build pipeline | two sources of one entry; dictionaries against lists; reading while another process writes |
| `scripts/build_trusted_*.py`, `build_ngram_store.py` | a list of words, a database, an n-gram file | read, merge, populate, commit; deduplicate, count | torn files, dead builds, a list that is read twice |
| `stage7_evaluation`, `cli.py` | reports; none | evaluate, report; commands | rates of different denominators, empty texts |

The stages call each other directly, in the order of `_run_pipeline`; they share
the tokens and the text of the call, the lexicon and the candidate cache. The
builds and the corrector meet only in files.

The hazards this makes are listed in `PROJECT.json`, each at its line, with the
properties that watch it or the reason why none does.

### What makes each part correct

- **Protection.** Kept spans lie apart; a match is given up only for a kept one
  that overlaps it and beats it by the rules, or starts before it; of matches
  with the same start the best is kept; masking can be undone.
- **Tokenizer.** The tokens are the runs of the text; what a protected span
  covers in whole is flagged.
- **Candidates and cache.** The original is first whatever fails or is trimmed;
  a source that raises silences no other; a cached answer is the one that would
  be computed; a protected token has no candidate but itself; the order of a
  set does not show.
- **Phrase restoration.** A phrase adds accents and nothing else, stays between
  two breaks, passed the gate, covers its island in whole or leaves it alone.
- **Lattice decoder.** The answer is a chain over the whole island, of highest
  score and then lowest risk; its totals are those of the chain; the walk back
  ends.
- **Windows, beam, decisions.** Each ambiguous token comes up for exactly one
  decision; the unchanged text always takes part; an accepted word is clear of
  the original and of every rival; whatever else differs is reported.
- **Scorer.** Signals and weights together restore accents of unknown words,
  keep known words against confusions, and do not see spaces.
- **Reconstruction.** Edits that are applied do not overlap; one is given up
  only for another that is applied; the text written and the log of changes
  agree.
- **Composition.** The words of a protected span that lie inside it are still in
  the result; the log's offsets lead from the input to the result;
  capitals stay where they were; the measures of an evaluation agree.
- **Lexicon.** A build leaves all or nothing and loses nothing that was there;
  dictionaries, lists and the index agree; built-in entries stand.

## The modules

| Module | Code | What it holds |
|---|---|---|
| `Spans` | `common/spans.py`, `reconstruction.py` | half-open spans, overlap, cover |
| `Protection` | `stage3_protect/engine.py` | `find_matches`, `resolve_conflicts`, `mask`, `restore`, a step per matcher, candidate, span, placeholder |
| `Tokenizer` | `tokenizer.py`, `corrector.py:33-59` | a step per character, then per token |
| `PhraseRestoration` | `word_island.py`, `phrase_span.py`, `lattice.py:66-133`, `corrector.py:281-347` | islands, a step per token; then a step per island, with proposals, decoding, gate and fallback |
| `Lattice` | `lattice.py` | edges, chains, best chains, as mathematics |
| `BestPath` | - | abstract: one answer, a best chain or none |
| `LatticeDecoder` | `lattice.py:135-203` | `decode`, a step per edge tried, then per edge walked back |
| `WindowDecision` | `windowing.py`, `combinations.py`, `scorer.py`, `stage6_decision` | a step per token placed, per position the beam grows by, per ranking, per token decided |
| `TextEdit` | - | abstract: a maximal set of edits that do not overlap is committed at once |
| `Reconstruction` | `reconstruction.py`, `corrector.py:106-128` | greedy resolution, phrase merge, splice, a step per change |
| `CharNormalizer` | `char_normalizer.py` | keys of a text: without accents, without tone |
| `EditDistance` | `sources/edit_distance.py`, `metrics.py` | the Levenshtein table, row by row |
| `LexiconStore` | `data_store.py` | a store as a value: adding entries, the lookups |
| `Sources` | `stage4_candidates/sources/` | what each source proposes for a token |
| `Lists` | - | lists filtered and sorted, first and last places of a key, in a form the prover can use |
| `TokenCache` | `cache.py` | `get`, `put`, eviction |
| `CandidateGeneration` | `generator.py`, `ranking.py`, `limits.py` | one generator: a step per call, token, source, evidence round, merge |
| `Normalizer` | `stage1_normalize/engine.py` and its steps | `normalize` with its counters |
| `CaseMask` | `case_mask.py` | patterns, lowering, restoring |
| `Evaluation` | `metrics.py`, `runner.py` | rates of an example, the report |
| `Corrector` | `pipeline/corrector.py`, `context.py` | an evaluation that calls `correct_text`: a step per stage, and a step for a stage that raises |
| `TrustedWords` | `build_trusted_words_vi.py` | reading the word files, merging them |
| `LexiconDb` | `build_trusted_lexicon_db.py` | the tables, what each step of the build inserts |
| `LexiconLoad` | `data_store.py` | `load_json_resources`, `load_sqlite` table by table |
| `Lexicon` | the two builds, `stage2_lexicon/__init__.py` | three processes: the list is written or torn, a build commits or dies, a reader loads between its steps |
| `NgramStore` | `build_ngram_store.py`, `json_ngram_store.py` | phrases, deduplication, n-grams, lookups |
| `PhraseScorer` | `scorer.py`, `weights.py` | n-gram file built, torn, loaded; readings of a window scored |

`MC<Module>` gives a module its constants for TLC; `<Module>Proofs` holds its
theorems, `TextProofs` those of `Reconstruction` and `Tokenizer`, `ScoringProofs`
those of `WindowDecision` and `PhraseScorer`.

How they fit together. `PhraseRestoration` uses `Lattice` for the best chain it
is handed (any best chain: how ties are broken is left open), and
`LatticeDecoder` is checked to hand out such a chain, so the two can be read
one without the other. `CandidateGeneration` works on `LexiconStore`, the same
store that `Lexicon` fills. `Corrector` composes the stages: `Normalizer` and
`CaseMask` take part as they are, the others by what their own modules say they
may hand over. Protection hands over spans of the text that lie apart
(`SpansApart`), over one word, several or parts of one, the windows at most one
change of each word that is free of protection (`ProtectedAlone`,
`AcceptedIsClear`), the phrases a change over an island that only adds accents
(`OnlyAddsAccents`), reconstruction a set of edits apart (`CommitsAtOnce`).

Every stage is a loop or two over a list in the program. The model has a
variable for what the loop carries, a `phase` (`pc` in `Reconstruction`, `stage`
in `Corrector`, `step` in `Lexicon`) that says which loop runs, and one action
per turn of a loop, with the turns that leave the loop as actions of their own.
Loops over a set of equals take the elements in every order the sort permits;
where Python's sort is stable and the order of the input says which comes
first, the index of the input does. What the code reads from a Python set comes
in every order.

What is abstracted. In the stages over words, a word is a key (its letters
without accents) and a flag for accents; in the modules that make keys, a text
is a sequence of characters and a few characters stand for the tables of the
code (`a'` a letter with a tone, `a^` one with a circumflex). A score is an
integer in units fine enough to tell the code's thresholds apart (0.01 for
margins and thresholds, 0.0001 for phrase scores, 0.00001 for readings).
Matchers and the windows' scores are constants: a stage must be right for any
of them.

## The runs

All runs stop when the program does, so deadlock is not checked, but for
`lexicon` and `scoring`, whose processes go on and which are checked for it.

| Run | Instance | Shows |
|---|---|---|
| `reconstruction` | 4 characters, up to 3 changes of every span, 2 confidences, every split into token and phrase changes | no edit twice, none given up without cause, log and text agree; the loops refine `TextEdit` |
| `protection` | texts of up to 5 of 6 symbols; e-mail, URL, unit and number matchers with the priorities of `resources/matchers` | what is given up, by the rules or against them; best of a start; round trip |
| `tokenizer` | texts of up to 4 of 5 characters with every set of disjoint spans | tokens are the runs; aligned spans are protected |
| `lattice_decoder` | 3 words, all identity edges or none, up to 3 further edges, in place, backward and past the end among them; scores 0-2, risks 0-1 | the answer refines `BestPath`, totals match, the decoder ends |
| `phrase_restoration` | up to 4 tokens of 6 kinds, up to 2 of 9 phrases around the gate's thresholds, default configuration | islands, all-or-nothing, accents only, the gate |
| `phrase_protected` | up to 3 tokens | **violated**: a phrase rewrites a protected word |
| `window_decision` | up to 5 tokens, 2 ambiguous, windows of 2, beam of 2, 2 candidates a token, scores at the thresholds and below 0 | one verdict each, the original carried, accepted changes clear of rivals, the rest reported |
| `candidates` | 2 lexicons, 4 words (one empty), 9 documents, 3 calls, a cache of 2, 3 candidates a token, sources that raise halfway, ties | original first, cache and set order invisible, other sources heard, protected tokens alone |
| `corrector` | texts of up to 8 characters: mixed, upper and title case, decomposed, marked, too long, empty; up to two protected spans anywhere; the default and four configurations; every stage raises | offsets, protection, case and measures end to end |
| `normalize_idempotent` | the same | **violated**: a second normalization changes the text |
| `lexicon` | 2 versions of the word files and every subset of missing ones, 2 of the resources, a list torn after its first line, 2 builds that end well and any number that die, a reader in each mode at each step | merge, build and load keep their promises under interleaving and crashes |
| `scoring` | 3 sets of phrase files that share keys and parts, builds that die, every reading of 14 windows, 2 domains | weights and penalties together; the n-gram file |

Bounds. `MaxChanges`, `TextLen` (reconstruction): three changes are a winner, a
loser and a third that overlaps either, which is what a greedy choice, a merge
and a splice tell apart; four characters give spans that touch, nest, cross and
lie apart. Three words and three edges beyond the identities give two rival
chains with ties in score and risk, an edge that improves a label late, and one
that leads nowhere. Four tokens make two islands, or one island a chain covers
in part. Five tokens with a window of two make one window that merges and two
that do not; a beam of two is full after two choices. In five symbols two
matchers can clash with the earlier one shorter, and three spans follow one
another. Four characters hold three runs, with spans that start or end in the
middle of the second.

`MaxCalls` is 3 with a cache of two: the third key evicts the first, and a
third call can ask for what the first left. The lexicon of `MCCandidateGeneration`
gives a word more candidates than are kept and two with one prior, so trimming
cuts and ties are broken. `Corrector` needs eight characters for two words of
one island, a separator, and a replacement of each length; a second example
sees what the first left behind, and `Again` runs an evaluation in a process
whose default corrector failed once. `MCDetected` lets protection find any one
or two spans that lie apart: over a word, over both, over a separator, or from
the middle of a word to the middle of the next.

`MaxCommits` is 2: the second build opens a file with rows, and a reader may
have begun before either. `TornAt` is 1: a torn list has lost a line and kept
one. Two guards keep the interleavings of `Lexicon` to those that can differ:
`BetweenLoads` does what touches nothing that a load reads between two loads, so
that only a commit falls between two SELECTs; `ListMayChange` changes the list
of words only where a build is about to read it, before its first and its second
reading. In `PhraseScorer`, `BetweenWindows` changes the files only while no
window is kept: what a window scored does not depend on the disk by then.

The scores of `window_decision` are in hundredths. The code's confidence is
`(score + 5) / 10`, clamped, so the threshold 0.72 is a score of 2.20; 2.16,
2.20, 2.24 and 2.28 lie below it, on it and above it, and apart by less than,
exactly and more than the two margins 0.04 and 0.08. A score of -8 lies below 0:
where a position has no runner-up the code takes 0 for its score, which is then
ahead of the best.

Fairness. Only `lattice_decoder` needs it: `FairSpec` asks that a decoder that
can take a step does. `decode` is a sequential function that nothing suspends,
so weak fairness of its next step is what running it means. No other property
is a liveness property.

### What some properties leave out

- `OffsetsHold` and `CaseKept` are about texts in which lowering and raising a
  letter keeps the length, since `Lower` and its inverse map one character to
  one (`CharNormalizer`). So it is for every Vietnamese letter. `str.lower`
  makes two code points of U+0130, and `str.upper` two of `ß`: the lowered text,
  the mask and the offsets would shift, and no counter of Stage 1 would tell.
- The first half of `OffsetsHold`, positions in the text as given, is claimed
  only where Stage 1 counted nothing: what it removes shifts them. `CaseKept`
  ends at the first change of length.
- `ProtectedSurvives` is about the part of a span whose words lie inside it. The
  words a span cuts may be changed, and phrases may be written over any
  (`phrase_protected`).
- `PlainRoundTrip` is about texts without the opening mark of a placeholder.
- `KnownWordKept` is about readings without repeated tokens, so it excludes a
  window with two space tokens, as most real ones have. It reaches them together
  with `SpacesDontMatter`: putting the spaces in raises the totals of all readings
  of a window by one amount.
- `MergeLosesNothing` takes one file away at a time; for a set of missing files
  it is applied once for each.
- `CacheTransparent` is about one generator, whose lexicon, domain and
  configuration are fixed when it is made, as in the code.

### What the violated runs say

- `phrase_protected`: `word_island.py` cuts islands on token types; the flag
  that Stage 3 set is read by the windows and not by phrase restoration, while
  the docstring (`word_island.py:51`) says protected tokens break an island.
- `normalize_idempotent`: NFC runs before the invisible characters are removed,
  so a letter and its mark with a joiner between them are composed only by a
  second run. `test_normalizer.py:367` states idempotence as an invariant.

## What is proved

The theorems hold for every value of the constants: every text, lexicon,
candidate list, matcher, threshold, limit, subject to the `ASSUME`s of the
module, which give constants their types and limits their sign, and what is
said of them below. Where a fact is about a sum, a chain or a joined sequence,
the proof is an induction written out: of the counterexamples one would be the
least (`LeastNumber`, `LeastSet`, from the library's facts on finite sets), and
the one before it is none.

**Reconstruction** (`TextProofs`). Type correctness and the properties
of the run. The pass over the changes is inductive with two facts the run does
not list: what waits is no more confident than what was kept (`Sorted`), so what
was turned down is dominated; and of the changes looked at, each that is not
kept overlaps one that is (`Settled`), where a phrase may take the place of a
witness because it covers it. The splice keeps that the pieces written tile the
text up to the cursor and hold the changes applied (`Written`). From these
follows that the three loops refine `TextEdit`: every step but the last
stutters, the last commits.

**LatticeDecoder** (`LatticeDecoderProofs`). The labels never become stale.
The invariant is the argument of the dynamic program: an edge leads forward,
the scan visits positions in order, so once a position's edges are tried its
label is final (`Settled`), every back-pointer comes from a visited position
(`FromVisited`), and the position being scanned is not improved any more
(`Scanning`). `BackPointersHold` and `NoImprovementLeft` need them; then
`PathConnects` follows backward along the pointers. `TotalsMatch`: the label of
a position is the sum over the edges from there back to the start, so what is
returned are the totals of the chain. `AnswersBest`, the refinement of
`BestPath`: by induction over the length of a chain, no chain to a position is
better than its label (`NoImprovementLeft` is the step), hence the chain
returned is a best one, and a decoder that finds no back-pointer answers for a
lattice without a chain.

**PhraseRestoration** (`PhraseRestorationProofs`). Islands are disjoint runs of
words between breaks, in order (`Islands`), and each change lies inside the
island it was made for (`ChangesInside`). With the lemma that a chain carries a
word once this gives `PhrasesDisjoint`, `StaysBetweenBreaks` and
`AllOrNothing`, whichever best chain is returned. `OnlyAddsAccents` needs two
more: an island lists all the words of its stretch (`WordsListed`), so that
counting along the island is counting along the text, and every change is that
of a phrase edge (`FromPhrases`). `AppliedPassesGate`: what a path is gated on
is what the edges applied add up to (`GateMet`). Where the fallback takes the
phrase over the whole island it does not ask the gate again; the theorem shows
that it need not, for thresholds up to the least weight (34000) and the highest
risk (30) of a safe phrase. The theorem has that condition on the configuration
(the other one that has any is `OriginalFirstCorrect`); the defaults (20000 and
50, `pipeline/config.py:54`) meet it.

**WindowDecision** (`ScoringProofs`). Windows are kept in order and
apart while they are placed (`Layout`), the beam holds readings of the words
seen (`Drawn`), and verdicts belong to windows already left or to positions
already passed (`Verdicts`). `AcceptedIsClear` further uses that a ranking puts
a best reading first (`Ranked`). Nothing is assumed about scores but that they
are integers, nor about the beam but that it holds at least one reading.
`FavouriteSurvives`: one reading in the beam takes a best candidate at every
position and no reading, the unchanged text included, is ahead of it (`Ahead`).
Extended by a best candidate it leads the extensions, and a leader is never
pruned because every entry that ties with the last one kept is kept.

**PhraseScorer** (`ScoringProofs` too, which is why its initial states and steps
are `ScorerInit` and `ScorerNext`). All four properties of the run, for windows
of any length. What the store holds are numbers, through every build, torn or
not, and every load, and what is scored are the readings of a proper window with
that store (`Kept`); the rest is arithmetic on sums. A signal adds up over the
tokens, so it is first shown that a sum does not depend on the order of its
terms (`SumRemove`), is one over parts (`SumUnion`) and goes with its terms to
other places (`SumMoved`). `RestoredUnknownWins`: of two readings that differ at
one place (`OneMore`) every signal but the penalty differs by the term of that
place; a word gained is worth 100000, the credit of the original is at most
60000 and a syllable lost 12000, and a share of penalized changes does not grow
when a change that is not penalized joins them (`PenaltyOneMore`, from
`QuotientFacts`). `KnownWordKept`: with one change the share is the whole
(`FullPenalty`), and without repeated tokens a confusion is credited once
(`CreditedOnce`), so the penalty of 130000 outweighs the 112000 that a confusion
and a syllable can bring. `SpacesDontMatter`: with the spaces the token at `i`
stands at `2 * i - 1` (`Moved`); the content is the same (`PickMoved`), the
nearest neighbours that are no spaces are the same (`EndsApart`), hence so are
the penalized changes, and every total grows by one amount (`SpaceScore`).
`PhraseKeepsItsScore`: the score of an n-gram is the largest of those its
phrases give, each is clamped from a part of the phrase's score
(`ScoreFromFacts`), and the whole phrase is one of them.

What it rests on. The candidates of a token are finitely many, the text itself
is among them and no two have one text; an edit distance is a number or absent
(`WindowsAssumption`): such are the lists of `CandidateGeneration`, which merges
by text (`MergeFacts`). The entries of the phrase files are
lists of tokens with scores that are not negative (`PhraseFilesAssumption`).
Nothing is assumed of the lexicon.

**Protection** (`ProtectionProofs`). The table of occupied positions is exactly
what the kept spans cover (`Occupied`), kept spans come before what is left in
the order of the sort (`Ordered`), and what was dropped has a kept span that
overlaps it and starts no later (`Settled`), although the code only asks whether
some position is taken. If that span starts at the same position it is the best
of that start (`BestOfItsStart`), so it beats what was dropped by the rules of
the docstring; with both cases `GivenUpByRule` follows. `PlainRoundTrip`: the masked text from the next span on (`Rests`) is what
mask has still to write and restore has still to undo (`TextKept`). A value is
put back in one place, its own, since the rest of the text has no opening mark
but those of later spans, and two spans never have one placeholder: of two of
one type the later has more before it (`PlaceholdersDiffer`). Assumed of the
parts of a placeholder: none but the first is the opening mark, different
numbers are written differently, and no text is longer than there are numerals
(`PlaceholderAssumption`), which the strings and `int` of the code give.

**Tokenizer** (`TextProofs`, with the theorems of `Reconstruction`; this is why
`Tokenizer` names its `Init`, `Next` and `Spec` after itself). The tokens read tile the text up to the
start of the one that is being read (`CoveredText`), each is a run of one class
that cannot go on (`Runs`), and the flags are those of the tokens passed
(`Flags`). An aligned span is covered by whole tokens because a token that
crossed its border would hold a boundary inside.

**CandidateGeneration** (`CandidateGenerationProofs`). All five properties of
the run, in three invariants on top of each other. `IInv`: the answers follow
the tokens of the document (`InStep`), and the sources are never asked for a
token that keeps its identity; so the answer for a token under a protected span
is the token alone (`ProtectedAlone`). `Collecting`: the proposals are those of
the sources asked so far, joined in their order (`Collected`), and before the
merge the phrase evidence, whose texts are texts already there. So every source
that does not raise is heard (`OtherSourcesHeard`), and what is merged for a
token alone is a function of the lexicon and the text, which is why an entry of
the cache can be compared with a fresh generation at all. `Caching`: no two
entries share a key, each holds the fresh answer, the last is the one asked for
last, and a generation under way is for a key the cache does not hold
(`CacheTransparent`). `OriginalFirst` then follows from the operators: a merge
has each text once and the text itself among them (`MergeFacts`), the sort keys
are numbers and `Above` orders them (`KeyIsTyped`, `AboveOrders`), so sorting
loses nothing (`SortedFacts`), exactly one candidate is the original
(`OriginalAlone`), and a trimmed list is the original and a front of the others
(`OriginalThenOthers`). `EvidenceOrderIrrelevant`: evidence for a text that is
there already makes no new candidate and moves none, and a candidate is built
from sets and counts, which a permutation of the proposals keeps (`MergedSame`,
`MergeTurned`).

What it rests on. Lists in a lexicon are lists, of texts or of entries with a
surface and a frequency, and the texts asked for are lists
(`LexiconsAssumption`, `WordsAssumption`, `DocumentsAssumption`); every source
has a weight (`LimitsAssumption`; `source_prior_weights` and the default of
`get` give one); `max_candidates_per_token` is at least 1 (`ConfigAssumption`).
`OriginalFirstCorrect` has two more hypotheses, both defaults of `config.py`:
the original is kept first, and its source is registered. Without the latter
the statement is false.

**Corrector** (`CorrectorProofs`). `ProtectedSurvives`, `OffsetsHold` and `CaseKept` rest on one invariant
(`IInv`). From `protect` to the answer the text in work, its mask and its
counters are those of the example (`Prepared`); spans lie in that text
(`SpansFit`); each change lies within it, begins with a word, quotes what stands
there and, if a window made it, covers one word that is free of protection,
apart from the others (`ChangesFit`, `PhrasesFit`); what is handed back is the
text with them applied and its case put back (`Handed`). `apply_changes` is then
followed from left to right, change by change (`JoinedStep`): the gap before a
change stands moved by the sum of what the changes before added, and so does the
replacement (`Applied`). A change of a window is that of a word free of
protection, so it touches no stretch of a span whose words lie inside the span
(`Untouched`); such a stretch, if no phrase touches it either, lies in one gap
(`GapAround`), so it is still in the text; and putting the case back changes no
letter into another (`RestoreFacts`). For the first half of `OffsetsHold` each
step of Stage 1 is shown to count whatever it changes (`NormalizeTells`), so the
text is the given one where every counter is 0: `normalize_unicode` counts the
positions at which the texts differ, and where no character was counted the
other two keep every place (`PickAll`) and every character. For `CaseKept`
nothing in front of the first change of length has moved (`SteadyPlace`), and
each pattern is what its name says of the capitals (`PatternFacts`). A change
may write a character that is no letter where a letter stood; such a place has
no case to keep, and the property says so. `MeasuresAgree`: each evaluation is
that of its example and of some text that came back (`Evaluated`), so it is
enough to reason about `evaluate_one`. The edit distance is 0 for equal texts
only: by induction over the rows of the table, which `RowsFacts` gives, an entry
is 0 just where the two fronts are equal (`LevenshteinFacts`). The report adds
fractions of different denominators, but term for term those before and after
have the same one, so the totals do too, and their numerators are ordered if
those of the terms are (`TotalsCompare`); the improvement has the sign of their
difference (`ImprovementSign`).

What it rests on. Inputs, expected texts and replacements are lists, and an
evaluation has at least one example (`CorrectorAssumption`). Nothing is assumed
of the spans that are detected, of what the replacements consist of, of how many words a text has, nor of the
table of letters beyond the one in `CharNormalizer`, which is finite.

**Lexicon** (`LexiconProofs`). All five properties of the run, in two
invariants. `Building` is about the builds: the tables of a running transaction
hold every key of the database it opened (`KeysKept`); once the resources are in,
all of them are (`Complete`), and stay, since no insertion takes a key away
(`IgnoreFacts`, `ReplaceFacts`); what was read of the trusted words is there as
it was read (`HasTrusted`, `HasSyllables`). A dead build drops the transaction, a
commit publishes all of it: `AllOrNothing` and `BuildKeepsAndAdds`. That a
trusted row stands as it is, although of the rows with one key the last one wins,
needs that no two lines of the list have one surface (`AreLines`), which is where
the builds meet `MergeLosesNothing`. That one is about `merge_words`, an induction
over the words of all files: the group of a text has the keys, one of the
surfaces and all the sources of its words (`IsMerged`), whatever the order of
the files. A file less leaves fewer sources, and fewer sources never make a word
more trusted (`MoreIsMore`): 100, 98, and less than either for a single one.
`Reading` is about the loads: whatever is committed before a SELECT, and
whichever SELECT it is, the lists of the store have no id twice and each
dictionary holds just the entries of its lists under its key (`Agrees`). An
entry whose id was seen is not taken in, and each table has ids of its own, so
`StoreAgrees`; the index built on demand is made of the same entries in the
same way. No SELECT removes an entry or the first answer for a phrase
(`Grows`), so what the resources gave is there at the end (`BuiltIn`,
`BuiltInFirst`).

What it rests on. Raw files are lists of lists of characters, and there is some
version of them (`FilesAssumption`). The lists of the resources are lists, and
their words and their units are without duplicates (`ResourcesAssumption`), as
those in `resources/lexicons` are. `_load_words` does not look for them: with a
word twice in the file, its id would be in the store twice.

Some facts are proved and are in no run, because a property that is run implies
them or a proof rests on them: the type invariants, `SpansApart`,
`NoDoubleEdit`, `NothingLost`, `OnlyCoveringPhraseReplaces`, `TextTiled`,
`TokensTile`, `TokensEndAtBoundaries`, `BackPointersHold`, `NoImprovementLeft`,
`PathConnects`, `PhrasesDisjoint`.

Only model-checked, and why. `Terminates`, the end of the decoder, is liveness.
`SelectSeq` and `SortSeq` are built into the prover without a definition: it
knows nothing of what they return, which is why the modules proved about write
filters and sorts as places in an order (`Lists`).

## What is not modelled

- *Matchers and their registry*: regular expressions and word lists from YAML.
  What they find is a constant of `Protection`.
- *The limits of `generate_sequences`*, the exhaustive enumeration of readings:
  it runs only when beam search is switched off, which `PipelineConfig` gives no
  way to do; its docstring calls it a legacy fallback. `PhraseScorer` scores
  every combination of candidates, whichever of them are enumerated.
- *The scores in `WindowDecision`* are any of a finite set; the features are in
  `PhraseScorer`, where explanations, which are text, are left out.
- *`stage2_lexicon/pipeline` and `builders`*: nothing in the repository calls
  them but their tests. Getters and statistics of the store only read a list.
- *Flags, the confidence of the whole text and diagnostics* of the result:
  formatting of what `WindowDecision` decided.
- *Build metadata, reports, the command line, downloads and timing.*

## Observations

Behaviour of the code that the models show or that was met while modelling.
Here and there a docstring or a comment promises otherwise. No run is violated
by these: the property concerned says what the code keeps of the promise.

| Promise | What the code does | What is checked |
|---|---|---|
| higher priority wins, position only breaks ties (`engine.py:39-43`) | the start comes first in the sort | `GivenUpByRule` names the exception |
| `restore` undoes `mask` (`engine.py:99`, `118`) | not if the text holds a placeholder | `PlainRoundTrip`, for texts without the opening mark |
| tokens that overlap a span are marked (`corrector.py:275`, `common/spans.py:110`) | those inside it are (`corrector.py:34`) | `AlignedSpansProtected`, `ProtectedSurvives`, for words inside |
| windows are clamped to the limit (`windowing.py:17-18`) | merged ones exceed it | `OneVerdictPerToken`, `AmbiguousIsPlaced`; nothing of the length |
| entries already seen are skipped (`data_store.py:382-383`) | of words, syllables and units | `BuiltInFirst`, for words, units and the first phrase; nothing of abbreviations and OCR corrections |

- *Phrases.* The gate's margin is the distance to the unchanged text
  (`lattice.py:187-203`), so of two equally good phrases the first is applied;
  the design of 2026-05-08 (line 128) has such a pair unchanged. With a margin
  of 3.9 the fallback of `corrector.py:320` applies a phrase whose own score is
  below the margin, since the gate judged another chain.
- *Windows.* Windows are clamped, then merged, and not clamped again
  (`windowing.py:35-42`), so a merged one may exceed the limit its docstring
  gives. Of a best reading with two words one may be accepted and the other
  flagged, which leaves a mixture that was compared with nothing
  (`decision.py:55`).
- *Protection.* Candidates are sorted by start first, so in `1 g@b.co` a unit
  drops an address of higher priority (`engine.py:48`). A placeholder that is
  written out in the text is replaced by `restore`. An exception
  of `protect` leaves the text without protection and no trace in the result.
- *Candidates.* An empty text gets no candidate. The original never counts as a
  known word. The edit-distance source yields nothing: no store overrides
  `query_prefix` (`store.py:115`), and the lookup it falls back to finds only
  entries whose key is at distance 0. Without a domain every entry with a domain
  or tags is domain-specific. Phrase windows are symmetric
  (`phrase_evidence.py:62`). `generate_document` never uses the cache, whose key
  has no domain, and which hands out its own lists.
- *Case.* A text of the TITLE pattern that does not begin with its first letter
  loses its capital (`case_mask.py:6`); mixed case is put back by position.
- *Composition.* Of parts that are injected, the missing ones are built with
  defaults (`_build_partial_context`). The counts of rejections, flags and
  needed context of an evaluation are always 0.
- *Lexicon builds.* `merge_words` keeps the first surface, its docstring says
  otherwise (lines 292-293). The check for digits in `check_garbage` is never
  reached. Tokens with an accented capital never become syllables. After a
  second build the shares of a syllable's forms no longer add to 1. A build
  that dies before its commit leaves the schema alone. The list of words is
  read twice, so the second reading may see another list: then words stand
  without their syllables.
- *Lexicon loads.* In the mode that reads both, phrases of both are kept and
  abbreviations and OCR corrections of the database replace the built-in ones;
  the docstring (`data_store.py:382-383`) says that entries seen are skipped,
  which holds of words, units and syllables. Units among the words are loaded
  twice and come out of the database as words. A frequency of 0 is read as 1. A
  fallback to the resources covers a missing file only. A load during a commit
  may see some tables before and some after it; `StoreAgrees` holds all the same.
- *Scores.* Deduplication forgets the domain of what it drops; the base score
  is not weighted; phrases of five and more tokens count only by their parts; a
  negative phrase must be the whole content of a reading. In a window with one
  token twice each change counts twice (`scorer.py:250`), so a confusion can win
  over a known word; so can two confusions together, for the penalty is a share
  of the changes. A torn n-gram file raises, a missing one scores 0.
