------------------------------ MODULE CaseMask ------------------------------
(***************************************************************************)
(* case_mask.py: the text is lowered before the stages look at it, and the *)
(* pattern of its capitals is put back on what they return.                *)
(***************************************************************************)
EXTENDS CharNormalizer, Lists

\* str.upper on the lower-case letters in use.
UpperOf == [ch \in Range(LowerOf) |-> CHOOSE up \in DOMAIN LowerOf : LowerOf[up] = ch]

IsUpper(ch) == ch \in DOMAIN LowerOf
IsLower(ch) == ch \in Range(LowerOf)
IsAlpha(ch) == IsUpper(ch) \/ IsLower(ch)

Upper(text) == [i \in DOMAIN text |-> Translate(UpperOf, text[i])]

detect_case_pattern(text) ==
  LET alpha == Pick(text, {i \in DOMAIN text : IsAlpha(text[i])})
      upper == {i \in DOMAIN alpha : IsUpper(alpha[i])}
  IN  CASE alpha = <<>> -> "UNKNOWN"
        [] upper = DOMAIN alpha /\ alpha # <<>> -> "UPPER"
        [] upper = {} /\ alpha # <<>> -> "LOWER"
        [] upper = {1} /\ Len(alpha) > 1 -> "TITLE"
        [] OTHER -> "MIXED"

\* The first character, letter or not, is raised and the others are lowered.
_to_title_case(text) ==
  [i \in DOMAIN text |->
     Translate(IF i = 1 THEN UpperOf ELSE LowerOf, text[i])]

\* Fault: what lies past the end of the original keeps the last case seen.
_apply_mixed_case_spill(original, working) ==
  [i \in DOMAIN working |->
     Translate(IF original # <<>> /\ IsUpper(original[IF i <= Len(original) THEN i ELSE Len(original)])
               THEN UpperOf ELSE LowerOf, working[i])]

\* Capital by position, not by word; what is past the original is lowered.
_apply_mixed_case(original, working) ==
  [i \in DOMAIN working |->
     Translate(IF i <= Len(original) /\ IsUpper(original[i]) THEN UpperOf ELSE LowerOf,
               working[i])]

restore_case(text, pattern, original) ==
  CASE pattern = "LOWER" -> Lower(text)
    [] pattern = "UPPER" -> Upper(text)
    [] pattern = "TITLE" -> _to_title_case(text)
    [] pattern = "MIXED" -> _apply_mixed_case(original, text)
    [] pattern = "UNKNOWN" -> text

create_case_mask(text) ==
  [original |-> text, working |-> Lower(text), pattern |-> detect_case_pattern(text)]

apply_case_mask(text, mask) == restore_case(text, mask.pattern, mask.original)
=============================================================================
