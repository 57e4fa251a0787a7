------------------------- MODULE MCWindowDecision -------------------------
(* Instances of WindowDecision for TLC: texts of at most MaxTokens tokens,   *)
(* of which at most MaxAmbiguous have a choice.                              *)
EXTENDS WindowDecision

CONSTANTS MaxTokens, MaxAmbiguous, o, x, y, sp

Written(cands) == [text |-> o, cands |-> cands, protected |-> FALSE]
C(text, prior) == [text |-> text, prior |-> prior]

\* The original preferred, the original last and beyond PerToken, a tie.
AmbiguousTokens ==
  {Written(<<C(o, 90), C(x, 60)>>),
   Written(<<C(x, 80), C(y, 80), C(o, 50)>>)}

\* White space and protected words, which keep the text they have.
PlainTokens ==
  {[text |-> sp, cands |-> <<C(sp, 0)>>, protected |-> FALSE],
   [text |-> o, cands |-> <<C(o, 90)>>, protected |-> TRUE]}

MCDocuments ==
  {doc \in UNION {[1 .. n -> AmbiguousTokens \cup PlainTokens] : n \in 1 .. MaxTokens} :
     Cardinality({t \in DOMAIN doc : doc[t] \in AmbiguousTokens}) <= MaxAmbiguous}

\* No bigrams known, and one that speaks for x before x.
MCBigrams ==
  {[pair \in Texts \X Texts |-> 0],
   [pair \in Texts \X Texts |-> IF pair = <<x, x>> THEN 100 ELSE 0]}

\* Around the threshold and the margins, and one below 0, where the default of a
\* missing runner-up is ahead of the best reading.
MCScores == {-8, 216, 220, 224, 228}
=============================================================================
