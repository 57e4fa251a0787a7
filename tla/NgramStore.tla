----------------------------- MODULE NgramStore -----------------------------
(***************************************************************************)
(* scripts/build_ngram_store.py: phrases of several origins become scores  *)
(* of n-grams; stage5_scorer/backends/json_ngram_store.py: their lookup.   *)
(*                                                                         *)
(* A phrase is a sequence of tokens, a token a text (see CharNormalizer).  *)
(* An entry of a file has its tokens, the n it claims, a score in          *)
(* hundredths and a domain.  Scores of n-grams are in units of 1/10000.    *)
(***************************************************************************)
EXTENDS CharNormalizer, Integers, FiniteSets

SOURCE_WEIGHTS == [curated |-> 100, domain |-> 95, trusted_sqlite |-> 90, lexicon_json |-> 85]

NoDomain == "none"

\* A file that is not there is skipped: it has no entries.
Origins == {"curated", "lexicon_json", "trusted_sqlite", "domain", "negative"}

-----------------------------------------------------------------------------
LowerAll(tokens) == [i \in DOMAIN tokens |-> Lower(tokens[i])]

PhraseRecord(tokens, score, source, domain) ==
  [tokens |-> tokens, score |-> score, source |-> source, domain |-> domain]

\* load_curated_phrases, load_negative_phrases: the n must be right.
Claimed(entries) ==
  {PhraseRecord(e.tokens, e.score, "curated", e.domain) :
     e \in {f \in entries : f.n >= 2 /\ f.n = Len(f.tokens)}}

\* load_lexicon_phrases_json, load_sqlite_phrases: the n is counted anew.
Counted(entries, source) ==
  {PhraseRecord(LowerAll(e.tokens), e.score, source, e.domain) :
     e \in {f \in entries : Len(f.tokens) >= 2}}

\* load_domain_phrases: every phrase, of one token too, with one score.
OfDomain(entries) ==
  {PhraseRecord(e.tokens, SOURCE_WEIGHTS.domain, "domain", e.domain) : e \in entries}

Records(files) ==
  Claimed(files.curated) \cup Counted(files.lexicon_json, "lexicon_json")
    \cup Counted(files.trusted_sqlite, "trusted_sqlite") \cup OfDomain(files.domain)

dedup_key(record) == LowerAll(record.tokens)

effective_score(record) == SOURCE_WEIGHTS[record.source] * record.score

\* Of the records with one key the one that scores highest is kept; of several
\* of them the first, here any.
deduplicate(records) ==
  {CHOOSE best \in group : \A r \in group : effective_score(r) <= effective_score(best) :
     group \in {{r \in records : dedup_key(r) = key} : key \in {dedup_key(s) : s \in records}}}

-----------------------------------------------------------------------------
_generate_ngrams(tokens) ==
  UNION {{SubSeq(tokens, i, i + n - 1) : i \in 1 .. Len(tokens) - n + 1} : n \in 2 .. Len(tokens)}

_score_for_phrase_tokens(phraseLen, ngramLen, base) ==
  CASE ngramLen = phraseLen -> 100 * base
    [] ngramLen # phraseLen /\ ngramLen >= 3 -> 85 * base
    [] ngramLen # phraseLen /\ ngramLen < 3 -> 70 * base

Clamped(score) == Min({Max({score, 500}), 10000})

\* The records an n-gram is a part of, and the score it has from one of them.
ScoreFrom(record, ngram) ==
  Clamped(_score_for_phrase_tokens(Len(record.tokens), Len(ngram), record.score))

\* Fault: the last phrase writes over what the others gave.
CombinedLast(scores) == CHOOSE s \in scores : \A t \in scores : s <= t

\* max(current, score)
Combined(scores) == Max(scores)

BestOf(records, KeysOf(_), ScoreOf(_, _)) ==
  [key \in UNION {KeysOf(r) : r \in records} |->
     Combined({ScoreOf(r, key) : r \in {s \in records : key \in KeysOf(s)}})]

\* n-grams of more than four tokens are dropped.
build(files) ==
  LET positive == deduplicate(Records(files))
      KeysUpToFour(r) == {g \in _generate_ngrams(r.tokens) : Len(g) <= 4}
      Whole(r) == {r.tokens}
      ScoreOf(r, key) == 100 * r.score
      domains == {r.domain : r \in positive} \ {NoDomain}
  IN  [ngrams |-> BestOf(positive, KeysUpToFour, ScoreFrom),
       domains |-> [d \in domains |-> BestOf({r \in positive : r.domain = d}, Whole, ScoreOf)],
       negative |-> BestOf(Claimed(files.negative), Whole, ScoreOf)]

-----------------------------------------------------------------------------
(***************************************************************************)
(* JsonNgramStore: what is not in the file scores 0.                       *)
(***************************************************************************)
EmptyNgrams == [ngrams |-> <<>>, domains |-> <<>>, negative |-> <<>>]

ScoreOr0(dict, key) == IF key \in DOMAIN dict THEN dict[key] ELSE 0

bigram_score(store, left, right) == ScoreOr0(store.ngrams, <<left, right>>)

phrase_score(store, tokens) == ScoreOr0(store.ngrams, tokens)

domain_phrase_score(store, domain, tokens) ==
  IF domain \in DOMAIN store.domains THEN ScoreOr0(store.domains[domain], tokens) ELSE 0

negative_phrase_score(store, tokens) == ScoreOr0(store.negative, tokens)
=============================================================================
