------------------------------- MODULE Spans -------------------------------
(***************************************************************************)
(* Half-open character intervals [start, end): the coordinate system of    *)
(* every token, protected span and change (common/spans.py, TextSpan).     *)
(***************************************************************************)
EXTENDS Integers

\* The intervals that hold at least one character of a text of `len'
\* characters.  Tokens and changes never carry an empty interval.
Span(len) == {s \in [start : 0 .. len, end : 0 .. len] : s.start < s.end}

Overlaps(a, b) == a.start < b.end /\ b.start < a.end

\* Interval `a' covers interval `b' completely.
Covers(a, b) == a.start <= b.start /\ a.end >= b.end

=============================================================================
