---------------------------- MODULE TrustedWords ----------------------------
(***************************************************************************)
(* scripts/build_trusted_words_vi.py: word lists of several origins become *)
(* one list of trusted words.                                              *)
(*                                                                         *)
(* The raw files are a function from the names of those that are there to  *)
(* their lines.  A line is a text (see CharNormalizer); of a JSON line only*)
(* the text it holds is written, or Broken if it does not parse.           *)
(* Confidences are in hundredths.                                          *)
(***************************************************************************)
EXTENDS CharNormalizer, Integers, FiniteSets

CONSTANT MaxLength            \* _MAX_LENGTH, 60 in the code

ASSUME MaxLengthAssumption == MaxLength \in Nat \ {0}

SOURCE_CONFIDENCE ==
  [uvd_1 |-> 90, underthesea_merged |-> 95, aspell_vi |-> 92, vietnamese_names |-> 80]

FileOrder == <<"uvd1", "underthesea_merged", "aspell_vi", "boy", "girl">>

Broken == <<"{">>

Digits == {"1", "2"}

\* A character outside ASCII.
Accented(text) ==
  \E i \in DOMAIN text :
     text[i] \in DOMAIN VIETNAMESE_ACCENT_MAP \cup DOMAIN _LOOKALIKE_FIX

-----------------------------------------------------------------------------
(***************************************************************************)
(* An address or a control character is one character of the model.        *)
(***************************************************************************)
check_garbage(word) ==
  LET Count(S) == Cardinality({i \in DOMAIN word : word[i] \in S}) IN
  \/ IsBlank(word)
  \/ Len(word) > MaxLength
  \/ Count({"@mail", "http://", "^L"}) > 0
  \/ 10 * Count(Digits \cup {"%", "{", "/"}) > 3 * Len(word)
  \/ 2 * Count(Digits) > Len(word)

RawWord(source, surface) ==
  [normalized |-> normalize_text(surface), surface |-> surface,
   noTone |-> strip_accents(normalize_text(surface)), source |-> source]

RawWords(source, surfaces) ==
  LET words == [i \in DOMAIN surfaces |-> RawWord(source, surfaces[i])] IN
  Pick(words, {i \in DOMAIN words : ~check_garbage(words[i].normalized)})

\* The texts that are not empty.
NonEmpty(texts) == Pick(texts, {i \in DOMAIN texts : texts[i] # <<>>})

_read_lines(lines) == NonEmpty([i \in DOMAIN lines |-> Strip(lines[i])])

load_uvd1(lines) == RawWords("uvd_1", _read_lines(lines))

load_underthesea_merged(lines) ==
  LET read == _read_lines(lines) IN
  RawWords("underthesea_merged", Pick(read, {i \in DOMAIN read : read[i] # Broken}))

\* line.split("/")[0]
BeforeSlash(line) ==
  LET slashes == {i \in DOMAIN line : line[i] = "/"} IN
  IF slashes = {} THEN line ELSE SubSeq(line, 1, Min(slashes) - 1)

\* The first line may be the number of words.
load_aspell(lines) ==
  LET read == _read_lines(lines)
      start == IF read # <<>> /\ Range(read[1]) \subseteq Digits THEN 1 ELSE 0
      words == [i \in 1 .. Len(read) - start |-> Strip(BeforeSlash(read[i + start]))]
  IN  RawWords("aspell_vi", NonEmpty(words))

load_names(lines) ==
  LET read == _read_lines(lines)
      words == RawWords("vietnamese_names", Pick(read, {i \in DOMAIN read : Accented(read[i])}))
  IN  Pick(words, {i \in DOMAIN words : Accented(words[i].normalized)})

LoadFile(file, lines) ==
  CASE file = "uvd1" -> load_uvd1(lines)
    [] file = "underthesea_merged" -> load_underthesea_merged(lines)
    [] file = "aspell_vi" -> load_aspell(lines)
    [] file \in {"boy", "girl"} -> load_names(lines)

\* A file that is not there is skipped with a warning.
AllRaw(files) ==
  FlattenSeq([k \in DOMAIN FileOrder |->
                IF FileOrder[k] \in DOMAIN files
                THEN LoadFile(FileOrder[k], files[FileOrder[k]]) ELSE <<>>])

-----------------------------------------------------------------------------
(***************************************************************************)
(* Merging: one entry for each normalized text                             *)
(***************************************************************************)
\* The source is added before the best confidence is taken, so the new source
\* is never better than it and the first surface stays.
MergeWord(grouped, rw) ==
  LET known == IF rw.normalized \in DOMAIN grouped THEN grouped[rw.normalized]
               ELSE [normalized |-> rw.normalized, surface |-> rw.surface,
                     noTone |-> rw.noTone, sources |-> {}]
      sources == known.sources \cup {rw.source}
      current == Max({SOURCE_CONFIDENCE[s] : s \in sources})
      surface == IF SOURCE_CONFIDENCE[rw.source] > current THEN rw.surface ELSE known.surface
  IN  [t \in DOMAIN grouped \cup {rw.normalized} |->
         IF t = rw.normalized THEN [known EXCEPT !.sources = sources, !.surface = surface]
         ELSE grouped[t]]

merge_words(words) ==
  LET grouped[k \in 0 .. Len(words)] ==
        IF k = 0 THEN <<>> ELSE MergeWord(grouped[k - 1], words[k])
  IN  grouped[Len(words)]

\* Fault: two sources count as much as the weaker of them.
ConfidenceOfWeaker(sources) ==
  IF Cardinality(sources) >= 3 THEN 100
  ELSE Min({SOURCE_CONFIDENCE[s] : s \in sources})

Confidence(sources) ==
  CASE Cardinality(sources) >= 3 -> 100
    [] Cardinality(sources) = 2 -> 98
    [] OTHER -> Max({SOURCE_CONFIDENCE[s] : s \in sources})

Kind(entry) ==
  CASE entry.sources = {"vietnamese_names"} -> "name"
    [] entry.sources # {"vietnamese_names"} /\ Contains(entry.normalized, " ") -> "phrase"
    [] OTHER -> "word"

to_entry_dict(entry) ==
  [surface |-> entry.surface, normalized |-> entry.normalized, noTone |-> entry.noTone,
   kind |-> Kind(entry), confidence |-> Confidence(entry.sources), frequency |-> 0]

\* The lines that are written, in the order the words first appeared in: the
\* order by code points only decides which lines a torn write leaves.
build_trusted_lexicon(files) ==
  LET raw == AllRaw(files)
      merged == merge_words(raw)
      order == FirstOfEach([i \in DOMAIN raw |-> raw[i].normalized])
  IN  [i \in DOMAIN order |-> to_entry_dict(merged[order[i]])]
=============================================================================
