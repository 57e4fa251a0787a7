------------------------------- MODULE Sources ------------------------------
(***************************************************************************)
(* stage4_candidates/sources: what each source proposes for a token.       *)
(* Weights, frequencies and scores are in thousandths, and Absent stands   *)
(* for an optional number that is None.                                    *)
(***************************************************************************)
EXTENDS LexiconStore, EditDistance, Lists

CONSTANTS
  Weight,                 \* source_prior_weights: source to weight
  MaxOcrReplacements, MaxPhraseWindow, MaxEditDistance,
  MinEditLength, MaxEditLength,
  Domain,                 \* the domain of the generator, or NoDomain
  Within(_, _)            \* Within(d, e): the name d occurs in the name e

SourceNames ==
  {"original", "ocr_confusion", "syllable_map", "word_lexicon", "abbreviation",
   "phrase_specific", "domain_specific", "edit_distance"}

ASSUME LimitsAssumption ==
  /\ \A s \in SourceNames : Weight[s] \in Int
  /\ MaxOcrReplacements \in Nat

Absent == -1

Proposal(text, source, prior) ==
  [text |-> text, source |-> source, prior |-> prior, distance |-> Absent,
   known |-> FALSE, syllableFreq |-> Absent, wordFreq |-> Absent, tokenCount |-> 1]

IdentityProposals(lex, word) ==
  <<Proposal(word, "original", Weight["original"])>>

OcrProposals(lex, word) ==
  LET all == lookup_ocr(lex, word)
      some == SubSeq(all, 1, Min({Len(all), MaxOcrReplacements}))
      texts == Pick(some, {i \in DOMAIN some : some[i] # word})
  IN  [i \in DOMAIN texts |-> Proposal(texts[i], "ocr_confusion", Weight["ocr_confusion"])]

SyllableProposals(lex, word) ==
  LET found == get_syllable_candidates(lex, to_no_tone_key(word))
      forms == Pick(found, {i \in DOMAIN found : found[i].surface # word})
  IN  [i \in DOMAIN forms |->
         [Proposal(forms[i].surface, "syllable_map",
                   Weight["syllable_map"] + forms[i].freq \div 5) EXCEPT
            !.distance = Levenshtein(word, forms[i].surface),
            !.syllableFreq = forms[i].freq]]

WordProposals(lex, word) ==
  LET kinds == {"word", "unit", "name", "location", "brand"}
      found == lookup_accentless(lex, to_no_tone_key(word))
      words == Pick(found, {i \in DOMAIN found :
                              found[i].kind \in kinds /\ found[i].surface # word})
  IN  [i \in DOMAIN words |->
         [Proposal(words[i].surface, "word_lexicon",
                   Weight["word_lexicon"] + (3 * words[i].freq) \div 10) EXCEPT
            !.known = TRUE, !.wordFreq = words[i].freq]]

\* An expansion is one text; CountWords is len(expansion.split()).
CountWords(text) ==
  Cardinality({i \in DOMAIN text :
                 text[i] \notin Whitespace /\ (i = 1 \/ text[i - 1] \in Whitespace)})

AbbreviationProposals(lex, word) ==
  LET found == lookup_abbreviation(lex, word)
      all == IF found = <<>> THEN <<>> ELSE found[1].expansions
      texts == Pick(all, {i \in DOMAIN all : all[i] # word})
  IN  [i \in DOMAIN texts |->
         [Proposal(texts[i], "abbreviation", Weight["abbreviation"]) EXCEPT
            !.tokenCount = CountWords(texts[i])]]

\* Without a domain of its own the source takes every entry with a domain or tags.
OfDomain(e) ==
  /\ e.domain # NoDomain \/ e.tags # {}
  /\ Domain # NoDomain => e.domain # NoDomain /\ Within(Domain, e.domain)

DomainProposals(lex, word) ==
  LET found == lookup_accentless(lex, to_no_tone_key(word))
      entries == Pick(found, {i \in DOMAIN found :
                                OfDomain(found[i]) /\ found[i].surface # word})
  IN  [i \in DOMAIN entries |->
         [Proposal(entries[i].surface, "domain_specific",
                   Weight["domain_specific"] + entries[i].freq \div 5) EXCEPT
            !.distance = Levenshtein(word, entries[i].surface),
            !.wordFreq = entries[i].freq]]

\* _get_prefix_candidates: the first of three lookups that finds something.
PrefixCandidates(lex, key) ==
  LET whole == query_prefix(lex, key)
      start == query_prefix(lex, SubSeq(key, 1, Min({3, Len(key)})))
  IN  IF whole # <<>> THEN whole
      ELSE IF start # <<>> THEN start
      ELSE lookup_accentless(lex, key)

EditDistanceProposals(lex, word) ==
  LET key == to_no_tone_key(word)
      Dist(e) == Levenshtein(to_no_tone_key(e.surface), key)
      found == IF Len(word) \in MinEditLength .. MaxEditLength
               THEN PrefixCandidates(lex, key) ELSE <<>>
      near == Pick(found, {i \in DOMAIN found :
                /\ found[i].surface # word
                /\ Dist(found[i]) \in 1 .. MaxEditDistance})
      three == SubSeq(near, 1, Min({3, Len(near)}))
  IN  [i \in DOMAIN three |->
         [Proposal(three[i].surface, "edit_distance",
                   Weight["edit_distance"] + three[i].freq \div 10 - 50 * Dist(three[i]))
          EXCEPT !.distance = Dist(three[i])]]

-----------------------------------------------------------------------------
(***************************************************************************)
(* Phrase evidence: the windows around token `at' with a candidate put in  *)
(***************************************************************************)
PhraseExists(lex, phrase) ==
  \/ lookup_phrase_str(lex, phrase) # <<>>
  \/ lookup_phrase(lex, phrase) # <<>>
  \/ lookup_phrase_normalized(lex, normalize_key(phrase)) # <<>>

\* " ".join of the token texts
Join(texts) ==
  FoldLeft(LAMBDA joined, t : IF joined = <<>> THEN t ELSE joined \o <<" ">> \o t,
           <<>>, texts)

FormsPhrase(lex, tokens, at, candidate) ==
  \E w \in 1 .. MaxPhraseWindow :
    LET first == IF at > w THEN at - w + 1 ELSE 1
        end == Min({Len(tokens), at + w - 1})
        texts == [i \in 1 .. end - first + 1 |->
                    IF first + i - 1 = at THEN candidate ELSE tokens[first + i - 1].text]
    IN  end > first /\ PhraseExists(lex, Join(texts))
=============================================================================
