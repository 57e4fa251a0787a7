---------------------------- MODULE LexiconStore ----------------------------
(***************************************************************************)
(* stage2_lexicon/backends/data_store.py: the in-memory lexicon as a       *)
(* value, and the lookups the stages make in it.  A store is a record of   *)
(* the lists of entries and of the dictionaries derived from them.         *)
(***************************************************************************)
EXTENDS CharNormalizer, Integers

NoDomain == "none"
ProtectedDomains == {"chemical", "brand", "code"}

EmptyStore ==
  [syllableData |-> <<>>, wordData |-> <<>>, unitData |-> <<>>, phraseData |-> <<>>,
   syllableIndex |-> <<>>, syllableBySurface |-> <<>>,
   wordIndex |-> <<>>, wordBySurface |-> <<>>,
   phraseIndex |-> <<>>, phraseSurfaces |-> <<>>,
   abbrevData |-> <<>>, ocrData |-> <<>>,
   foreignWords |-> {}, wordSurfaces |-> {}]

\* dict.get(key, [])
Get(dict, key) == IF key \in DOMAIN dict THEN dict[key] ELSE <<>>

\* The entries of a list that have the key, in their order.
Having(entries, field, key) ==
  Pick(entries, {i \in DOMAIN entries : entries[i][field] = key})

\* Fault: the newest come first.
PrependAll(dict, field, entries) ==
  [key \in DOMAIN dict \cup {entries[i][field] : i \in DOMAIN entries} |->
     Having(entries, field, key) \o Get(dict, key)]

\* dict.setdefault(e.field, []).append(e), for one entry after the other
AppendAll(dict, field, entries) ==
  [key \in DOMAIN dict \cup {entries[i][field] : i \in DOMAIN entries} |->
     Get(dict, key) \o Having(entries, field, key)]

\* dict[key] = value, for one after the other: the last one stands.
PutAll(dict, keys, values) ==
  [key \in DOMAIN dict \cup Range(keys) |->
     IF key \in Range(keys) THEN values[CHOOSE i \in Lasts(keys) : keys[i] = key] ELSE dict[key]]

-----------------------------------------------------------------------------
(***************************************************************************)
(* Putting entries into the store: their list and every index of their     *)
(* kind                                                                    *)
(***************************************************************************)
AddSyllables(s, entries) ==
  [s EXCEPT !.syllableData = @ \o entries,
            !.syllableIndex = AppendAll(@, "noTone", entries),
            !.syllableBySurface = AppendAll(@, "surface", entries)]

IndexWords(s, entries) ==
  [s EXCEPT !.wordIndex = AppendAll(@, "noTone", entries),
            !.wordBySurface = AppendAll(@, "surface", entries),
            !.wordSurfaces = @ \cup {entries[i].surface : i \in DOMAIN entries}]

AddWords(s, entries) == IndexWords([s EXCEPT !.wordData = @ \o entries], entries)

\* Fault: a unit is found under its surface alone.
AddUnitsBySurface(s, entries) ==
  [s EXCEPT !.unitData = @ \o entries,
            !.wordBySurface = AppendAll(@, "surface", entries),
            !.wordSurfaces = @ \cup {entries[i].surface : i \in DOMAIN entries}]

AddUnits(s, entries) == IndexWords([s EXCEPT !.unitData = @ \o entries], entries)

AddPhrases(s, phrases) ==
  [s EXCEPT !.phraseData = @ \o phrases,
            !.phraseIndex = AppendAll(@, "noTone", phrases),
            !.phraseSurfaces = AppendAll(@, "phrase", phrases)]

PutAbbreviations(s, abbreviations) ==
  [s EXCEPT !.abbrevData =
     PutAll(@, [i \in DOMAIN abbreviations |-> abbreviations[i].surface], abbreviations)]

PutOcr(s, confusions) ==
  [s EXCEPT !.ocrData = PutAll(@, [i \in DOMAIN confusions |-> confusions[i].noisy],
                                 [i \in DOMAIN confusions |-> confusions[i].corrections])]

-----------------------------------------------------------------------------
(***************************************************************************)
(* The lookups                                                             *)
(***************************************************************************)
data(s) == s.syllableData \o s.wordData \o s.unitData

lookup(s, text) == Get(s.syllableBySurface, text) \o Get(s.wordBySurface, text)

lookup_accentless(s, text) ==
  Get(s.syllableIndex, strip_accents(text)) \o Get(s.wordIndex, strip_accents(text))

lookup_abbreviation(s, text) ==
  IF text \in DOMAIN s.abbrevData THEN <<s.abbrevData[text]>> ELSE <<>>

lookup_unit(s, text) ==
  Having(Get(s.wordBySurface, text), "kind", "unit")

lookup_phrase(s, text) == Get(s.phraseSurfaces, text)

lookup_phrase_normalized(s, text) == Get(s.phraseIndex, strip_accents(text))

lookup_phrase_str(s, text) ==
  LET entries == lookup_phrase_normalized(s, text) IN
  IF entries = <<>> THEN <<>> ELSE entries[1].phrase

lookup_phrase_notone(s, key) == Get(s.phraseIndex, Lower(Strip(key)))

lookup_syllable(s, text) ==
  LET entries == Get(s.syllableIndex, strip_accents(text)) IN
  [i \in DOMAIN entries |-> entries[i].surface]

get_syllable_candidates(s, key) == Get(s.syllableIndex, key)

lookup_ocr(s, noisy) == Get(s.ocrData, noisy)

\* No backend overrides query_prefix: the result is always None.
query_prefix(s, prefix) == <<>>

is_protected_token(s, text) ==
  LET key == normalize_key(text) IN
  /\ key # <<>>
  /\ \/ key \in {normalize_key(w) : w \in s.foreignWords}
     \/ text \in DOMAIN s.abbrevData
     \/ /\ text \in s.wordSurfaces
        /\ s.wordBySurface[text][1].domain \in ProtectedDomains
=============================================================================
