---------------------------- MODULE LexiconLoad -----------------------------
(***************************************************************************)
(* stage2_lexicon/backends/data_store.py: filling a store from the JSON    *)
(* resources and from the tables of the database (see LexiconDb).          *)
(***************************************************************************)
EXTENDS LexiconStore, FiniteSets

Entry(prefix, surface, noTone, kind, confidence, freq, domain, source) ==
  [id |-> <<prefix, surface>>, surface |-> surface, noTone |-> noTone, kind |-> kind,
   confidence |-> confidence, freq |-> freq, domain |-> domain, source |-> source]

Phrase(phrase, noTone, freq, domain, source) ==
  [id |-> <<"phrase", phrase>>, phrase |-> phrase, noTone |-> noTone, freq |-> freq,
   domain |-> domain, source |-> source]

-----------------------------------------------------------------------------
(***************************************************************************)
(* From the JSON resources                                                 *)
(***************************************************************************)
_infer_kind(type) == IF type = "unit_word" THEN "unit" ELSE "word"

JsonEntry(prefix, e, kind, domain) ==
  Entry(prefix, e.surface, strip_accents(e.surface), kind, e.freq, e.freq, domain, "built-in")

JsonWord(e) == JsonEntry("word", e, _infer_kind(e.type), e.domain)

JsonUnit(e) == JsonEntry("unit", e, "unit", "measurement")

JsonPhrase(e) ==
  Phrase(e.surface, strip_accents(e.surface), e.freq, e.domain, "built-in")

Mapped(Op(_), rows) == [i \in DOMAIN rows |-> Op(rows[i])]

_load_words(s, words) == AddWords(s, Mapped(JsonWord, words))

_load_units(s, units) == AddUnits(s, Mapped(JsonUnit, units))

_load_phrases(s, phrases) == AddPhrases(s, Mapped(JsonPhrase, phrases))

_load_abbreviations(s, abbreviations) ==
  PutAbbreviations(s, Mapped(LAMBDA e : [surface |-> e.surface, expansions |-> e.list],
                             abbreviations))

_load_ocr_confusions(s, ocr) ==
  PutOcr(s, Mapped(LAMBDA e : [noisy |-> e.surface, corrections |-> e.list], ocr))

load_json_resources(s, resources) ==
  LET words == _load_words(s, resources.words)
      units == _load_units(words, resources.units)
      abbreviations == _load_abbreviations(units, resources.abbreviations)
      foreign == [abbreviations EXCEPT !.foreignWords = Range(resources.foreign)]
      phrases == _load_phrases(foreign, resources.phrases)
  IN  _load_ocr_confusions(phrases, resources.ocr)

-----------------------------------------------------------------------------
(***************************************************************************)
(* From the database, one SELECT after the other                           *)
(***************************************************************************)
\* x or y
OrElse(x, y) == IF x = 0 THEN y ELSE x

\* seen_ids: an entry whose id the store has is passed over.
Ids(s) == {e.id : e \in Range(data(s))}

Unseen(s, entries) ==
  LET ids == [i \in DOMAIN entries |-> entries[i].id] IN
  Pick(entries, {i \in Firsts(ids) : ids[i] \notin Ids(s)})

SyllableEntry(row) ==
  LET share == (100 * row.count) \div row.total IN
  Entry("syllable", row.key[2], row.key[1], "syllable", share, share, NoDomain,
        "external-dictionary")

\* A frequency of 0 is read as 1.
WordEntry(row) ==
  LET freq == OrElse(row.freq, 100) IN
  Entry("word", row.key, row.noTone, row.kind, OrElse(row.confidence, freq), freq,
        row.domain, row.source)

UnitOfWord(row) ==
  [WordEntry(row) EXCEPT !.id = <<"unit", row.key>>,
                         !.domain = IF row.domain = NoDomain THEN "measurement" ELSE row.domain,
                         !.source = "external-dictionary"]

UnitEntry(row) ==
  LET freq == OrElse(row.freq, 100) IN
  Entry("unit", row.key, strip_accents(row.key), "unit", freq, freq, row.domain,
        "external-dictionary")

PhraseEntry(row) ==
  Phrase(row.key, strip_accents(row.key), OrElse(row.freq, 50), row.domain,
         "external-dictionary")

Selects ==
  <<"syllables", "words", "units of words", "abbreviations", "foreign", "units", "phrases",
    "ocr">>

\* An abbreviation, a confusion or a phrase has an id of its own table, which
\* is not among the ids seen so far.
load_sqlite(s, tables, select) ==
  CASE select = "syllables" ->
         AddSyllables(s, Unseen(s, Mapped(SyllableEntry, tables.syllables)))
    [] select = "words" -> AddWords(s, Unseen(s, Mapped(WordEntry, tables.words)))
    [] select = "units of words" ->
         AddUnits(s, Unseen(s, Mapped(UnitOfWord, Having(tables.words, "kind", "unit"))))
    [] select = "abbreviations" ->
         PutAbbreviations(s, Mapped(LAMBDA r : [surface |-> r.key, expansions |-> r.list],
                                    tables.abbreviations))
    [] select = "foreign" ->
         [s EXCEPT !.foreignWords = @ \cup {tables.foreign[i].key : i \in DOMAIN tables.foreign}]
    [] select = "units" -> AddUnits(s, Unseen(s, Mapped(UnitEntry, tables.units)))
    [] select = "phrases" -> AddPhrases(s, Mapped(PhraseEntry, tables.phrases))
    [] select = "ocr" ->
         PutOcr(s, Mapped(LAMBDA r : [noisy |-> r.key, corrections |-> r.list], tables.ocr))

-----------------------------------------------------------------------------
(***************************************************************************)
(* core/types.py: LexiconIndex.build                                       *)
(***************************************************************************)
LexiconIndex(entries) ==
  [by_surface |-> AppendAll(<<>>, "surface", entries),
   by_normalized |-> AppendAll(<<>>, "noTone", entries),
   by_kind |-> AppendAll(<<>>, "kind", entries)]
=============================================================================
