--------------------------- MODULE CharNormalizer ---------------------------
(***************************************************************************)
(* stage1_normalize/char_normalizer.py: the functions that turn a text     *)
(* into the keys under which the lexicon finds it.                         *)
(*                                                                         *)
(* A text is a sequence of characters.  A few characters stand for the     *)
(* tables of the code: a letter with a tone is written "a'", with a        *)
(* circumflex "a^", the letter d with stroke "dd", and its Icelandic       *)
(* lookalike "eth".                                                        *)
(***************************************************************************)
EXTENDS Naturals, Sequences, SequencesExt, Functions, Lists

VIETNAMESE_ACCENT_MAP ==
  ("a'" :> "a" @@ "a^" :> "a" @@ "a^'" :> "a" @@ "o'" :> "o" @@ "dd" :> "d" @@
   "A'" :> "A" @@ "A^" :> "A" @@ "O'" :> "O" @@ "DD" :> "D")

\* str.lower on the upper-case letters in use; every other character is kept.
LowerOf ==
  [up \in {"A", "O", "D", "B", "A'", "A^", "O'", "DD", "ETH"} |->
     CASE up = "A" -> "a" [] up = "O" -> "o" [] up = "D" -> "d" [] up = "B" -> "b"
       [] up = "A'" -> "a'" [] up = "A^" -> "a^" [] up = "O'" -> "o'"
       [] up = "DD" -> "dd" [] up = "ETH" -> "eth"]

_LOOKALIKE_FIX == ("eth" :> "dd" @@ "ETH" :> "DD" @@ "--" :> "-")

Whitespace == {" ", "\n", "\t"}

Translate(table, ch) == IF ch \in DOMAIN table THEN table[ch] ELSE ch

\* str.lower: one character for each, which is so of every Vietnamese letter; of
\* the letters of Unicode only U+0130 becomes two.
Lower(text) == [i \in DOMAIN text |-> Translate(LowerOf, text[i])]

fix_lookalikes(text) == [i \in DOMAIN text |-> Translate(_LOOKALIKE_FIX, text[i])]

strip_accents_preserve_case(text) ==
  [i \in DOMAIN text |-> Translate(VIETNAMESE_ACCENT_MAP, text[i])]

strip_accents(text) == Lower(strip_accents_preserve_case(text))

strip_vietnamese_accents(text) == strip_accents(text)

to_no_tone_key(text) == strip_accents(text)

IsBlank(text) == \A i \in DOMAIN text : text[i] \in Whitespace

\* The keys of a dictionary filled in the order of a sequence.
FirstOfEach(keys) == Pick(keys, Firsts(keys))

\* str.strip: without the white space at both ends.
Strip(text) ==
  LET solid == {i \in DOMAIN text : text[i] \notin Whitespace}
  IN  IF solid = {} THEN <<>>
      ELSE SubSeq(text, CHOOSE i \in solid : \A j \in solid : i <= j,
                        CHOOSE i \in solid : \A j \in solid : j <= i)

\* Every run of white space becomes one space.
Collapse(text) ==
  LET kept == Pick(text, {i \in DOMAIN text :
                            text[i] \in Whitespace => i = 1 \/ text[i - 1] \notin Whitespace})
  IN  [k \in DOMAIN kept |-> IF kept[k] \in Whitespace THEN " " ELSE kept[k]]

\* normalize_text, of a text in NFC.
normalize_text(text) == Collapse(Lower(Strip(fix_lookalikes(text))))

normalize_key(text) == Strip(Collapse(strip_accents(text)))
=============================================================================
