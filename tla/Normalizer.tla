----------------------------- MODULE Normalizer -----------------------------
(***************************************************************************)
(* Stage 1, stage1_normalize/engine.py: compose the text (NFC), remove the *)
(* invisible characters, unify line ends and spaces, and count what was    *)
(* done.  A few characters stand for the tables: "acute" and "circumflex"  *)
(* are combining marks, "zw", "bidi", "bom" and "ctl" one character of     *)
(* each class that is removed, "nbsp" a space that is not U+0020.          *)
(***************************************************************************)
EXTENDS CharNormalizer, Lists

Composites ==
  (<<"a", "acute">> :> "a'" @@ <<"A", "acute">> :> "A'" @@ <<"o", "acute">> :> "o'" @@
   <<"a", "circumflex">> :> "a^" @@ <<"A", "circumflex">> :> "A^" @@
   <<"a^", "acute">> :> "a^'")

Invisible ==
  ("ctl" :> "removed_control" @@ "zw" :> "removed_zero_width" @@
   "bidi" :> "removed_bidi" @@ "bom" :> "removed_bom")

NonstandardSpaces == {"nbsp"}

Steps == {"normalize_unicode", "remove_invisible", "normalize_whitespace"}

\* unicodedata.normalize("NFC", text): a mark joins the character before it.
NFC(text) ==
  LET Join(done, ch) ==
        IF done # <<>> /\ <<Last(done), ch>> \in DOMAIN Composites
        THEN Append(Front(done), Composites[<<Last(done), ch>>])
        ELSE Append(done, ch)
      composed[k \in 0 .. Len(text)] ==
        IF k = 0 THEN <<>> ELSE Join(composed[k - 1], text[k])
  IN  composed[Len(text)]

\* The positions at which the texts differ, the shorter one padded.
Differences(a, b) ==
  {i \in DOMAIN a \cup DOMAIN b : i > Len(a) \/ i > Len(b) \/ a[i] # b[i]}

normalize_unicode(text) ==
  [text |-> NFC(text), stats |-> [unicode_changes |-> Cardinality(Differences(text, NFC(text)))]]

Counted(text, Test(_)) == Cardinality({i \in DOMAIN text : Test(text[i])})

remove_invisible(text) ==
  [text |-> Pick(text, {i \in DOMAIN text : text[i] \notin DOMAIN Invisible}),
   stats |-> [k \in Range(Invisible) |->
                Counted(text, LAMBDA ch : ch \in DOMAIN Invisible /\ Invisible[ch] = k)]]

\* CR LF becomes LF, then every CR left; the count is of the CRs.
LineEnds(text) ==
  LET left == Pick(text, {i \in DOMAIN text :
                            ~(text[i] = "\r" /\ i < Len(text) /\ text[i + 1] = "\n")})
  IN  [k \in DOMAIN left |-> IF left[k] = "\r" THEN "\n" ELSE left[k]]

normalize_whitespace(text) ==
  [text |-> [i \in DOMAIN LineEnds(text) |->
               IF LineEnds(text)[i] \in NonstandardSpaces THEN " " ELSE LineEnds(text)[i]],
   stats |-> [normalized_linebreaks |-> Counted(text, LAMBDA ch : ch = "\r"),
              converted_spaces |-> Counted(text, LAMBDA ch : ch \in NonstandardSpaces)]]

\* No step shares a statistic with another one.
_merge_stats(target, source) ==
  [k \in DOMAIN target \cup DOMAIN source |->
     (IF k \in DOMAIN target THEN target[k] ELSE 0) +
     (IF k \in DOMAIN source THEN source[k] ELSE 0)]

\* A step of the engine, by its name.
Run(step, text) ==
  CASE step = "normalize_unicode" -> normalize_unicode(text)
    [] step = "remove_invisible" -> remove_invisible(text)
    [] step = "normalize_whitespace" -> normalize_whitespace(text)

\* Every step of `order' that the configuration enables.
Document(text, enabled, order) ==
  LET after[k \in 0 .. Len(order)] ==
        IF k = 0 THEN [text |-> text, stats |-> <<>>]
        ELSE IF order[k] \notin enabled THEN after[k - 1]
        ELSE LET out == Run(order[k], after[k - 1].text)
             IN  [text |-> out.text, stats |-> _merge_stats(after[k - 1].stats, out.stats)]
  IN  after[Len(order)]

normalize(text, enabled) ==
  Document(text, enabled, <<"normalize_unicode", "remove_invisible", "normalize_whitespace">>)
=============================================================================
