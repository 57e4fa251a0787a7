--------------------------- MODULE MCPhraseScorer ---------------------------
(***************************************************************************)
(* PhraseScorer with phrases that share parts and keys, and windows in     *)
(* which accents may be restored, words given up for OCR confusions, and   *)
(* one token occurs twice.                                                 *)
(***************************************************************************)
EXTENDS PhraseScorer

a0 == <<"a">>
a1 == <<"a'">>
a2 == <<"a^">>
A0 == <<"A">>
o0 == <<"o">>
o1 == <<"o'">>
d1 == <<"dd">>

P(tokens, score, dom) == [tokens |-> tokens, n |-> Len(tokens), score |-> score, domain |-> dom]

NoFiles == [f \in Origins |-> {}]

\* One phrase in two files and two cases, one inside another, a wrong n.
Shared ==
  [NoFiles EXCEPT
     !.curated = {P(<<a1, o1>>, 90, NoDomain), P(<<A0, o1, a2>>, 40, "food"),
                  [tokens |-> <<d1, d1>>, n |-> 3, score |-> 90, domain |-> NoDomain]},
     !.lexicon_json = {P(<<a1, o1, a1>>, 55, NoDomain), P(<<a0, o1, a2>>, 100, NoDomain)},
     !.domain = {P(<<a1, o1>>, 0, "food"), P(<<a1>>, 0, "food")}]

\* A long phrase, a weak one, and one that is discouraged.
Long ==
  [NoFiles EXCEPT
     !.trusted_sqlite = {P(<<a2, o1, a1, o1, d1>>, 100, "food"), P(<<a1, o0>>, 3, NoDomain),
                         P(<<o1, a2>>, 30, NoDomain)},
     !.negative = {P(<<a2, o1>>, 5, NoDomain), P(<<a2, o0>>, 50, NoDomain)}]

MCPhraseFiles == {NoFiles, Shared, Long}

Word(text, kind) ==
  [surface |-> text, noTone |-> strip_accents(text), kind |-> kind, domain |-> NoDomain]

MCLexicon ==
  LEX!AddWords(LEX!AddSyllables(LEX!EmptyStore, <<Word(a1, "syllable"), Word(o0, "syllable")>>),
               <<Word(a1, "word"), Word(a2, "word"), Word(o1, "word")>>)

Cand(text, ocr, edit) == [text |-> text, ocr |-> ocr, edit |-> edit]

Token(text, others) == [text |-> text, candidates |-> {Cand(text, FALSE, None)} \cup others]

bare == Token(a0, {Cand(a1, FALSE, None), Cand(a2, TRUE, 1)})
capital == Token(A0, {Cand(a1, FALSE, None), Cand(o1, TRUE, 2)})
known == Token(a1, {Cand(a2, TRUE, 1), Cand(d1, FALSE, 1)})
oBare == Token(o0, {Cand(o1, FALSE, None)})
oKnown == Token(o1, {Cand(d1, TRUE, None), Cand(a2, FALSE, 2)})

MCWindows ==
  {<<bare>>, <<known>>} \cup
  {<<x, y>> : x \in {bare, capital, known}, y \in {oBare, oKnown, known}} \cup
  {<<known, oKnown, known>>, <<bare, oBare, known>>, <<oKnown, known, oBare, bare>>}

MCDomains == {NoDomain, "food"}
=============================================================================
