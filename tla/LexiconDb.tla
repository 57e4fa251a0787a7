----------------------------- MODULE LexiconDb ------------------------------
(***************************************************************************)
(* scripts/build_trusted_lexicon_db.py: the tables of the SQLite lexicon   *)
(* and what each step of the build inserts into them.  A table is the      *)
(* sequence of its rows in the order of their insertion; "key" is the      *)
(* primary key.  Frequencies and confidences are in hundredths.            *)
(***************************************************************************)
EXTENDS CharNormalizer, Integers, FiniteSets

TableNames == {"syllables", "words", "units", "abbreviations", "foreign", "phrases", "ocr"}

EmptyTables == [t \in TableNames |-> <<>>]

Keys(table) == {table[i].key : i \in DOMAIN table}

KeyList(rows) == [i \in DOMAIN rows |-> rows[i].key]

\* The first row of a key stands; the last one stands, in its own place.
InsertOrIgnore(table, rows) ==
  table \o Pick(rows, {i \in Firsts(KeyList(rows)) : rows[i].key \notin Keys(table)})

InsertOrReplace(table, rows) ==
  Pick(table, {i \in DOMAIN table : table[i].key \notin Keys(rows)})
    \o Pick(rows, Lasts(KeyList(rows)))

-----------------------------------------------------------------------------
(***************************************************************************)
(* The JSON resources: each entry has the fields its file has.             *)
(***************************************************************************)
Row(entry, kind, domain) ==
  [key |-> entry.surface, noTone |-> strip_accents(entry.surface), kind |-> kind,
   source |-> "built-in", confidence |-> entry.freq, freq |-> entry.freq, domain |-> domain]

\* The kind is the field of that name, not inferred from the type.
WordRow(entry) == Row(entry, entry.kind, entry.domain)

UnitRow(entry) == Row(entry, "unit", "measurement")

PhraseRow(entry) == Row(entry, "phrase", entry.domain)

Rows(RowOf(_), entries) == [i \in DOMAIN entries |-> RowOf(entries[i])]

ListRow(entry) == [key |-> entry.surface, list |-> entry.list]

_populate_from_json(db, resources) ==
  [db EXCEPT
     !.words = InsertOrIgnore(@, Rows(WordRow, resources.words)),
     !.units = InsertOrIgnore(@, Rows(UnitRow, resources.units)),
     !.abbreviations = InsertOrIgnore(@, Rows(ListRow, resources.abbreviations)),
     !.foreign = InsertOrIgnore(@, Rows(LAMBDA word : [key |-> word], resources.foreign)),
     !.phrases = InsertOrIgnore(@, Rows(PhraseRow, resources.phrases)),
     !.ocr = InsertOrIgnore(@, Rows(ListRow, resources.ocr))]

-----------------------------------------------------------------------------
(***************************************************************************)
(* The list of trusted words                                               *)
(***************************************************************************)
TrustedRow(entry) ==
  [key |-> entry.surface, noTone |-> entry.noTone, kind |-> entry.kind,
   source |-> "external-dictionary", confidence |-> entry.confidence,
   freq |-> entry.frequency, domain |-> "none"]

\* A phrase has no column for its confidence: it stands in for a frequency of 0.
TrustedPhraseRow(entry) ==
  LET freq == IF entry.frequency = 0 THEN entry.confidence ELSE entry.frequency IN
  [TrustedRow(entry) EXCEPT !.freq = freq, !.confidence = freq]

\* Fault: the trusted words give way as the phrases do.
_populate_trusted_jsonl_ignore(db, lines) ==
  [db EXCEPT !.words = InsertOrIgnore(@, Rows(TrustedRow, lines))]

_populate_trusted_jsonl(db, lines) ==
  LET usable == {i \in DOMAIN lines : lines[i].surface # <<>> /\ lines[i].noTone # <<>>}
      phrases == {i \in usable : lines[i].kind = "phrase"}
  IN  [db EXCEPT
         !.words = InsertOrReplace(@, Rows(TrustedRow, Pick(lines, usable \ phrases))),
         !.phrases = InsertOrIgnore(@, Rows(TrustedPhraseRow, Pick(lines, phrases)))]

\* The letters of _word_re: an accented letter only in lower case.
SyllableLetters ==
  {"a", "o", "d", "b", "A", "O", "D", "B", "-", "a'", "a^", "a^'", "o'", "dd"}

\* surface.split()
Tokens(surface) ==
  LET text == Strip(surface)
      gaps == {i \in DOMAIN text : text[i] \in Whitespace}
      Begins == {i \in DOMAIN text \ gaps : i = 1 \/ i - 1 \in gaps}
      Word(i) == LET after == {j \in gaps : j > i} IN
                 SubSeq(text, i, IF after = {} THEN Len(text) ELSE Min(after) - 1)
      order == InOrder(Begins, Ascending(Begins))
  IN  [k \in DOMAIN order |-> Word(order[k])]

SyllableTokens(lines) ==
  LET all == FlattenSeq([i \in DOMAIN lines |-> Tokens(lines[i].surface)])
      plain == Pick(all, {i \in DOMAIN all : Range(all[i]) \subseteq SyllableLetters})
  IN  [i \in DOMAIN plain |-> Lower(plain[i])]

\* freq is count over total; both are kept as freq_count and freq_no_tone.
SyllableRow(tokens, surface) ==
  LET Count(P(_)) == Cardinality({i \in DOMAIN tokens : P(tokens[i])}) IN
  [key |-> <<strip_accents(surface), surface>>,
   count |-> Count(LAMBDA t : t = surface),
   total |-> Count(LAMBDA t : strip_accents(t) = strip_accents(surface))]

_populate_syllables(db, lines) ==
  LET tokens == SyllableTokens(lines) IN
  [db EXCEPT !.syllables =
     InsertOrIgnore(@, Rows(LAMBDA s : SyllableRow(tokens, s), FirstOfEach(tokens)))]
=============================================================================
