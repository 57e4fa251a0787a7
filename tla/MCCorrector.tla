---------------------------- MODULE MCCorrector -----------------------------
(* Corrector with texts of at most eight characters.                        *)
EXTENDS Corrector

On == [normalize |-> TRUE, mask |-> TRUE, protect |-> TRUE, phrases |-> TRUE,
       fail_closed |-> TRUE]

MCConfigs == {On, [On EXCEPT !.phrases = FALSE, !.fail_closed = FALSE],
              [On EXCEPT !.mask = FALSE], [On EXCEPT !.normalize = FALSE]}

Say(input, expected, should_change) ==
  [input |-> input, expected |-> expected, allowed |-> {}, should_change |-> should_change,
   protected |-> {}]

\* Mixed case, two words of one island.
Mixed == Say(<<"a", " ", "b", "A">>, <<"a'", " ", "b", "A'">>, "yes")
\* All capitals, decomposed, behind a byte-order mark.
Capitals == Say(<<"bom", "A", "acute", " ", "B">>, <<"A'", " ", "B">>, "no")
\* The pattern TITLE, begun by a digit or by its letter.
Numbered == Say(<<"1", ".", "A", "b">>, <<"1", ".", "A", "b">>, "no")
Title == Say(<<"A", "b", "nbsp", "o">>, <<"A", "b", " ", "o'">>, "yes")
\* A mark that only finds its letter once the joiner between them is gone.
Joined == Say(<<"a", "zw", "acute", "\r", "\n">>, <<"a'", "\n">>, "none")
\* Nothing but a byte-order mark is removed.
Marked == Say(<<"bom", "a", " ", "b">>, <<"a'", " ", "b">>, "yes")
\* Too long, empty, and without letters.
Long == Say([i \in 1 .. 9 |-> "a"], <<"a">>, "yes")
Empty == Say(<<>>, <<>>, "no")
Bare == Say(<<"1", "\r", "\n">>, <<"1", " ", ".">>, "none")

MCExamples ==
  {<<Mixed>>, <<Title, Bare>>, <<Capitals, Numbered>>, <<Joined, Marked>>, <<Empty, Long>>,
   <<Numbered, Mixed>>}

MCDatasets ==
  [examples : MCExamples, default : {TRUE}, config : {On}] \cup
  [examples : MCExamples, default : {FALSE}, config : MCConfigs]

\* At most two spans, at any places.
MCDetected(text) ==
  {{r, s} : r \in Span(Len(text)), s \in Span(Len(text))}

MCReplacements == {<<"a">>, <<"a'">>, <<"o'">>, <<"a'", "b">>, <<"b", "a'">>, <<"b">>}
=============================================================================
