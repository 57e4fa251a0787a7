------------------------ MODULE MCCandidateGeneration -----------------------
(***************************************************************************)
(* CandidateGeneration with small lexicons.  The frequencies are chosen so *)
(* that candidates tie, and more are found than are kept.                  *)
(***************************************************************************)
EXTENDS CandidateGeneration

MCWeight ==
  [original |-> 100, phrase_specific |-> 350, ocr_confusion |-> 300,
   word_lexicon |-> 250, syllable_map |-> 200, abbreviation |-> 150,
   domain_specific |-> 200, edit_distance |-> 50]

ma == <<"m", "a">>
maA == <<"m", "a'">>
maB == <<"m", "a^">>
maC == <<"m", "a^'">>
mam == <<"m", "a", "m">>
moO == <<"m", "o'">>
m0 == <<"m", "0">>
mm == <<"m", "m">>
space == <<" ">>

LexEntry(surface, kind, freq, domain) ==
  [surface |-> surface, noTone |-> strip_accents(surface), kind |-> kind,
   freq |-> freq, domain |-> domain, tags |-> {}]

PhraseRow(phrase) ==
  [phrase |-> phrase, noTone |-> strip_accents(phrase), n |-> 2, freq |-> 500,
   domain |-> NoDomain]

Syllables ==
  AddSyllables(EmptyStore, <<LexEntry(maA, "syllable", 200, NoDomain),
                             LexEntry(maB, "syllable", 200, NoDomain),
                             LexEntry(maC, "syllable", 200, NoDomain)>>)

WithWords ==
  AddUnits(AddWords(Syllables, <<LexEntry(maB, "word", 400, "food"),
                                 LexEntry(<<"m", "a'", "m", "o">>, "word", 400, NoDomain)>>),
           <<LexEntry(moO, "unit", 1000, "measurement")>>)

\* The first OCR correction of mm is empty: that source raises, and the
\* abbreviations of mm are still to come.
WithRest ==
  PutOcr(
    PutAbbreviations(AddPhrases(WithWords, <<PhraseRow(maA \o space \o maB)>>),
                     <<[surface |-> mm, expansions |-> <<maA \o space \o moO, ma>>]>>),
    <<[noisy |-> m0, corrections |-> <<moO, maA, ma>>],
      [noisy |-> mm, corrections |-> <<<<>>, mam>>]>>)

MCLexicons == {Syllables, WithRest}
MCWords == {ma, mm, m0, <<>>}

\* A document of the given texts, with one protected span or none.
TokenOf(texts, i) ==
  LET start == IF i = 1 THEN 0 ELSE Len(FlattenSeq(SubSeq(texts, 1, i - 1))) IN
  [text |-> texts[i], start |-> start, end |-> start + Len(texts[i]),
   type |-> IF texts[i] = space THEN "SPACE"
            ELSE IF texts[i] = <<"5">> THEN "NUMBER" ELSE "VI_WORD",
   protected |-> FALSE]

MCDocuments ==
  {[tokens |-> [i \in DOMAIN t |-> TokenOf(t, i)], spans |-> s] :
     t \in {<<ma, space, ma>>, <<mam, space, <<"5">>>>, <<mm, space, ma>>},
     s \in {{}, {[start |-> 0, end |-> 2]}, {[start |-> 2, end |-> 5]}}}

MCSources == DOMAIN MCWeight
MCWithin(d, e) == d = e
MCIdentityTypes == {"NUMBER", "UNIT", "PUNCT", "SPACE", "NEWLINE", "PROTECTED"}
=============================================================================
