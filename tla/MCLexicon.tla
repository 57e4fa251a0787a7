----------------------------- MODULE MCLexicon ------------------------------
(***************************************************************************)
(* Lexicon with a few words that meet: one text in two files in two cases, *)
(* a phrase and a unit that are built in as well as trusted, and a capital *)
(* with an accent that is no syllable.                                     *)
(***************************************************************************)
EXTENDS Lexicon

a1 == <<"a'">>
a2 == <<"a^">>
A1 == <<"A'">>
a0 == <<"a">>
a1o1 == <<"a'", " ", "o'">>
o1a1 == <<"o'", " ", "a'">>
eth == <<"eth">>

\* Two files agree on a word; one line is too long, one is no JSON.
Full ==
  [uvd1 |-> <<a1, a2, <<"a", "o", "a", "o", "a">>, <<"@mail">>>>,
   underthesea_merged |-> <<Broken, A1, a1o1, a0>>,
   boy |-> <<A1, a0, o1a1>>]

\* The spell checker's list begins with a count and marks a word's forms.
Other ==
  [aspell_vi |-> <<<<"2">>, <<"a'", "/", "A">>, <<"/">>, <<" ", "o", "%">>>>,
   boy |-> <<A1, eth>>, girl |-> <<<<"--">>, eth>>]

MCFileVersions == {Full, Other}

E(surface, type, kind, freq) ==
  [surface |-> surface, type |-> type, kind |-> kind, freq |-> freq, domain |-> NoDomain]

L(surface, list) == [surface |-> surface, list |-> list]

Old ==
  [words |-> <<E(a1, "common_word", "word", 90), E(a0, "unit_word", "word", 0)>>,
   units |-> <<E(a0, "unit", "word", 70)>>,
   abbreviations |-> <<L(a0, <<a1>>)>>, foreign |-> <<a0>>,
   phrases |-> <<E(a1o1, "phrase", "word", 60)>>,
   ocr |-> <<L(<<"a", "0">>, <<a1>>)>>]

New ==
  [Old EXCEPT !.words = <<E(a2, "common_word", "unit", 40)>>,
              !.units = <<E(a2, "unit", "word", 80), E(a0, "unit", "word", 50)>>,
              !.abbreviations = <<L(a0, <<a2>>)>>]

MCResourceVersions == {Old, New}
=============================================================================
