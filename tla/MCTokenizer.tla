---------------------------- MODULE MCTokenizer -----------------------------
(***************************************************************************)
(* Tokenizer over short texts with every set of disjoint spans.  "a^" is   *)
(* an accented letter.                                                     *)
(***************************************************************************)
EXTENDS Tokenizer, SequencesExt

MCClass ==
  [c \in {"a", "a^", "1", ",", " ", "NL"} |->
     CASE c \in {"a", "a^"} -> "LETTER"
       [] c = "1" -> "NUMBER"
       [] c = "," -> "PUNCT"
       [] c = " " -> "SPACE"
       [] c = "NL" -> "NEWLINE"]
MCSymbols == DOMAIN MCClass

ShortTexts == BoundedSeq({"a", "a^", "1", ",", " ", "NL"}, 4)
DisjointSpans(t) ==
  {set \in SUBSET Span(Len(t)) : \A r, s \in set : r = s \/ ~Overlaps(r, s)}

=============================================================================
