------------------------ MODULE MCPhraseRestoration ------------------------
(* Instances of PhraseRestoration for TLC: every text of at most MaxTokens   *)
(* tokens and every lexicon of at most MaxPhrases phrases.                   *)
EXTENDS PhraseRestoration

CONSTANTS MaxTokens, MaxPhrases, a, b

Word(k, acc, prot) ==
  [kind |-> "word", key |-> k, accented |-> acc, protected |-> prot]
Plain(kind) == [kind |-> kind, key |-> a, accented |-> FALSE, protected |-> FALSE]

\* Words of two spellings, plain, accented or protected, a space, a break.
MCTokens ==
  {Word(a, FALSE, FALSE), Word(b, FALSE, FALSE), Word(a, TRUE, FALSE),
   Word(b, FALSE, TRUE), Plain("space"), Plain("other")}

MCDocuments == UNION {[1 .. n -> MCTokens] : n \in 1 .. MaxTokens}

P(key, conf) ==
  [key |-> key, n |-> Len(key), accented |-> TRUE, conf |-> conf]

\* Phrases at the confidences where the gates turn: a sure short phrase that
\* beats a doubtful long one, two readings of the same letters, one that is
\* too doubtful, one that is entered as shorter than it is, one without
\* accents.
MCPhrases ==
  {P(<<a, b>>, 100), P(<<a, b>>, 85), P(<<a, b>>, 84),
   P(<<b, a>>, 90), P(<<a, b, a>>, 85), P(<<a, b, a>>, 90),
   P(<<a, b, a, b>>, 85),
   [P(<<a, b, a>>, 90) EXCEPT !.n = 2],
   [P(<<a, b>>, 100) EXCEPT !.accented = FALSE]}

\* A phrase listed twice stands for two accentings that are equally likely.
MCLexicons == UNION {[1 .. n -> MCPhrases] : n \in 1 .. MaxPhrases}

=============================================================================
