----------------------------- MODULE Protection -----------------------------
(***************************************************************************)
(* Stage 3 (stage3_protect/engine.py): the spans of a text that must not   *)
(* be changed.  Every matcher reports its matches; where matches overlap   *)
(* one is kept; mask replaces the kept spans by placeholders and restore   *)
(* puts their values back.                                                 *)
(*                                                                         *)
(* A text is a sequence of symbols, and spans count its positions from 0.  *)
(* What a matcher finds is given by the constant Find: patterns and word   *)
(* lists are configuration, not code of this stage.                        *)
(***************************************************************************)
EXTENDS Spans, Sequences, SequencesExt

CONSTANTS
  Symbols,      \* what texts are made of
  Texts,        \* the texts considered
  Types,        \* the span types; the name of a type is a symbol as well
  Numerals,     \* the decimal numerals of 0, 1, 2, ..., a symbol each
  Left, Right, Underscore,   \* the other parts of a placeholder
  Matchers,     \* the matchers, in order: their span type and priority
  Find(_, _)    \* Find(m, t): the matches in t of the m-th matcher, in order

\* What finditer returns: nonempty matches inside the text, in order.
Matches(t) ==
  {s \in Seq(Span(Len(t))) :
     \A i, j \in DOMAIN s : i < j => s[i].end <= s[j].start}

ASSUME SymbolAssumption ==
  /\ Texts \subseteq Seq(Symbols)
  /\ Types \cup {Left, Right, Underscore} \subseteq Symbols
  /\ Numerals \in Seq(Symbols)
\* The parts of a placeholder can be told from its opening mark, numbers are
\* written differently, and there is a numeral for every span of a text.
ASSUME PlaceholderAssumption ==
  /\ Left \notin Types \cup {Underscore, Right}
  /\ \A i \in DOMAIN Numerals : Numerals[i] # Left
  /\ \A i, j \in DOMAIN Numerals : Numerals[i] = Numerals[j] => i = j
  /\ \A t \in Texts : Len(t) <= Len(Numerals)
ASSUME MatcherAssumption ==
  /\ Matchers \in Seq([type : Types, priority : Int])
  /\ \A t \in Texts : \A m \in DOMAIN Matchers : Find(m, t) \in Matches(t)

VARIABLES
  phase,      \* "find", "resolve", "mask", "restore" or "done"
  text,       \* the text to protect
  at,         \* the matcher, span or placeholder that is next
  found,      \* candidates: the matches so far
  left,       \* resolve: the candidates not looked at, by their place in `found'
  occupied,   \* the positions under a kept span
  spans,      \* the kept spans
  masked,     \* mask: the pieces joined so far; the masked text
  last,       \* mask: where the text not yet copied starts
  values,     \* placeholder_map in insertion order: placeholder, value
  restored    \* restore: the text so far

vars == <<phase, text, at, found, left, occupied, spans, masked, last, values, restored>>

Candidate == [type : Types, priority : Int, start : Nat, end : Nat]

Init ==
  /\ text \in Texts
  /\ phase = "find"
  /\ at = 1
  /\ found = <<>>
  /\ left = {}
  /\ occupied = {}
  /\ spans = <<>>
  /\ masked = <<>>
  /\ last = 0
  /\ values = <<>>
  /\ restored = <<>>

-----------------------------------------------------------------------------
(***************************************************************************)
(* protect: the loop over the matchers                                     *)
(***************************************************************************)
FindMatches ==
  /\ phase = "find"
  /\ at <= Len(Matchers)
  /\ LET matches == Find(at, text) IN
     found' = found \o
       [i \in DOMAIN matches |->
          [type |-> Matchers[at].type, priority |-> Matchers[at].priority,
           start |-> matches[i].start, end |-> matches[i].end]]
  /\ at' = at + 1
  /\ UNCHANGED <<phase, text, left, occupied, spans, masked, last, values, restored>>

FindDone ==
  /\ phase = "find"
  /\ at > Len(Matchers)
  /\ phase' = "resolve"
  /\ left' = DOMAIN found
  /\ UNCHANGED <<text, at, found, occupied, spans, masked, last, values, restored>>

-----------------------------------------------------------------------------
(***************************************************************************)
(* resolve_conflicts                                                       *)
(***************************************************************************)
Length(c) == c.end - c.start

\* Fault: the priority is sorted the wrong way.
BeforeWeak(a, b) ==
  \/ a.start < b.start
  \/ a.start = b.start /\ a.priority < b.priority
  \/ a.start = b.start /\ a.priority = b.priority /\ Length(a) > Length(b)

\* The key of the sort: by start, then priority, then length.
Before(a, b) ==
  \/ a.start < b.start
  \/ a.start = b.start /\ a.priority > b.priority
  \/ a.start = b.start /\ a.priority = b.priority /\ Length(a) > Length(b)

\* Candidates in the order of the sort, which is stable.
IsFirst(i) ==
  /\ i \in left
  /\ \A j \in left \ {i} :
       \/ Before(found[i], found[j])
       \/ ~Before(found[j], found[i]) /\ i < j

\* Fault: the position after the span is taken as well.
PositionsPast(c) == c.start .. c.end

Positions(c) == c.start .. c.end - 1

\* A candidate is kept when it is inside the text and on free positions.
Keeps(c) ==
  /\ 0 <= c.start /\ c.end <= Len(text)
  /\ Positions(c) \cap occupied = {}

Sweep(i) ==
  /\ phase = "resolve"
  /\ IsFirst(i)
  /\ left' = left \ {i}
  /\ IF Keeps(found[i])
     THEN /\ spans' = Append(spans, found[i])
          /\ occupied' = occupied \cup Positions(found[i])
     ELSE UNCHANGED <<spans, occupied>>
  /\ UNCHANGED <<phase, text, at, found, masked, last, values, restored>>

SweepDone ==
  /\ phase = "resolve"
  /\ left = {}
  /\ phase' = "mask"
  /\ at' = 1
  /\ UNCHANGED <<text, found, left, occupied, spans, masked, last, values, restored>>

-----------------------------------------------------------------------------
(***************************************************************************)
(* mask and restore                                                        *)
(***************************************************************************)
\* Fault: the counter of a type is not advanced.
PlaceholderFixed(k) == <<Left, spans[k].type, Underscore, Numerals[1], Right>>

\* make_placeholder: the k-th span is numbered among the spans of its type.
Placeholder(k) ==
  LET earlier == {j \in 1 .. k - 1 : spans[j].type = spans[k].type} IN
  <<Left, spans[k].type, Underscore, Numerals[Cardinality(earlier) + 1], Right>>

MaskSpan ==
  /\ phase = "mask"
  /\ at <= Len(spans)
  /\ LET s == spans[at] IN
     /\ masked' = masked \o SubSeq(text, last + 1, s.start) \o Placeholder(at)
     /\ values' = Append(values, <<Placeholder(at), SubSeq(text, s.start + 1, s.end)>>)
     /\ last' = s.end
  /\ at' = at + 1
  /\ UNCHANGED <<phase, text, found, left, occupied, spans, restored>>

MaskDone ==
  /\ phase = "mask"
  /\ at > Len(spans)
  /\ masked' = masked \o SubSeq(text, last + 1, Len(text))
  /\ restored' = masked'
  /\ phase' = "restore"
  /\ at' = 1
  /\ UNCHANGED <<text, found, left, occupied, spans, last, values>>

\* Where the placeholder occurs in a text.  Occurrences cannot overlap: each
\* has one Left, at its start.
Occurrences(t, placeholder) ==
  {i \in 1 .. Len(t) - Len(placeholder) + 1 :
     SubSeq(t, i, i + Len(placeholder) - 1) = placeholder}

\* str.replace
Replaced(t, placeholder, value) ==
  LET starts == Occurrences(t, placeholder) IN
  FlattenSeq(
    [i \in 1 .. Len(t) |->
       IF i \in starts THEN value
       ELSE IF \E j \in starts : j < i /\ i < j + Len(placeholder) THEN <<>>
       ELSE <<t[i]>>])

RestoreValue ==
  /\ phase = "restore"
  /\ at <= Len(values)
  /\ restored' = Replaced(restored, values[at][1], values[at][2])
  /\ at' = at + 1
  /\ UNCHANGED <<phase, text, found, left, occupied, spans, masked, last, values>>

RestoreDone ==
  /\ phase = "restore"
  /\ at > Len(values)
  /\ phase' = "done"
  /\ UNCHANGED <<text, at, found, left, occupied, spans, masked, last, values, restored>>

Next ==
  \/ FindMatches
  \/ FindDone
  \/ \E i \in left : Sweep(i)
  \/ SweepDone
  \/ MaskSpan
  \/ MaskDone
  \/ RestoreValue
  \/ RestoreDone

Spec == Init /\ [][Next]_vars

-----------------------------------------------------------------------------
(***************************************************************************)
(* Properties.                                                             *)
(***************************************************************************)
Resolved == phase \in {"mask", "restore", "done"}

\* The spans kept follow each other without touching the same position.  mask
\* ("Spans must already be final (non-overlapping, sorted by start)") and the
\* slices of the text it copies rely on it.
SpansApart ==
  \A j, k \in DOMAIN spans : j < k => spans[j].end <= spans[k].start

\* The rules of the docstring (engine.py:39-43): "Higher priority wins", then the
\* longer span, then the one earlier in the text.
Beats(a, b) ==
  \/ a.priority > b.priority
  \/ a.priority = b.priority /\ Length(a) > Length(b)
  \/ a.priority = b.priority /\ Length(a) = Length(b) /\ a.start <= b.start

\* How far the code keeps these rules: a match is given up only for a kept one
\* that shares a position with it and beats it, or else, whatever the docstring
\* says, starts before it: the sort puts the start first (engine.py:48), and a
\* match of any priority gives way to one that starts a position earlier.
GivenUpByRule ==
  Resolved => \A i \in DOMAIN found :
    \E k \in DOMAIN spans :
      \/ spans[k] = found[i]
      \/ /\ Overlaps(spans[k], found[i])
         /\ Beats(spans[k], found[i]) \/ spans[k].start < found[i].start

\* Among matches that start together the one kept has the highest priority
\* and, among those, is the longest.
BestOfItsStart ==
  \A k \in DOMAIN spans : \A i \in DOMAIN found :
    found[i].start = spans[k].start =>
      \/ found[i].priority < spans[k].priority
      \/ /\ found[i].priority = spans[k].priority
         /\ Length(found[i]) <= Length(spans[k])

\* "Invariant: restore(doc.masked_text, doc.placeholder_map) ==
\* doc.original_text" (engine.py:118), for the texts that hold no opening mark
\* of a placeholder.
PlainRoundTrip ==
  phase = "done" /\ (\A i \in DOMAIN text : text[i] # Left) => restored = text
=============================================================================
