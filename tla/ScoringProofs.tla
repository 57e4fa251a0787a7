-------------------------- MODULE ScoringProofs --------------------------
(***************************************************************************)
(* What the windows, the beam and the decisions promise, for texts of any  *)
(* length, any candidates, any outcome of scoring and any thresholds; and  *)
(* what the scorer of the windows promises, for any phrase files, lexicon  *)
(* and windows.                                                            *)
(*                                                                         *)
(* Two facts carry the proof of the decisions.  Windows are laid out from  *)
(* left to right with a gap between them (Apart), so the verdicts given so *)
(* far all lie before the token that is decided next (Past).  And the text *)
(* as written is among the readings that are ranked (OriginalCarried), so  *)
(* a runner-up exists wherever the best reading departs from it, and the   *)
(* margin is measured against it too.                                      *)
(*                                                                         *)
(* That pruning keeps the favourite (Ahead) takes the score of the text as *)
(* written, a sum over its words, which is not ahead of it either.         *)
(*                                                                         *)
(* The scores of the scorer are sums over the tokens of a window, so sums  *)
(* come first: they depend on their terms only and not on the order they   *)
(* are added in, and they move with their terms (SumMoved).  A change more *)
(* takes one term from a sum and puts in another (OneMore); spaces between *)
(* the tokens move the terms apart (Moved) and add the same to every       *)
(* reading (SpaceScore).  The invariant (Kept) is that the readings held  *)
(* are those of a proper window, scored with the loaded store.             *)
(***************************************************************************)
EXTENDS WindowDecision, PhraseScorer, FiniteSetTheorems, FunctionTheorems, TLAPS


\* The larger and the smaller of two numbers.
LEMMA MaxOfTwo ==
  ASSUME NEW a \in Int, NEW b \in Int
  PROVE  /\ Max({a, b}) \in {a, b}
         /\ Max({a, b}) >= a
         /\ Max({a, b}) >= b
<1>1. \E m \in {a, b} : \A n \in {a, b} : m >= n
  <2>1. CASE a >= b
    BY <2>1
  <2>2. CASE b >= a
    BY <2>2
  <2> QED
    BY <2>1, <2>2
<1> QED
  BY <1>1 DEF Max

LEMMA MinOfTwo ==
  ASSUME NEW a \in Int, NEW b \in Int
  PROVE  /\ Min({a, b}) \in {a, b}
         /\ Min({a, b}) <= a
         /\ Min({a, b}) <= b
<1>1. \E m \in {a, b} : \A n \in {a, b} : m <= n
  <2>1. CASE a <= b
    BY <2>1
  <2>2. CASE b <= a
    BY <2>2
  <2> QED
    BY <2>1, <2>2
<1> QED
  BY <1>1 DEF Min

\* Integers that are bounded have a largest one.
LEMMA MaxOfBounded ==
  ASSUME NEW S, S \subseteq Int, S # {}, NEW bound \in Int,
         \A s \in S : s <= bound
  PROVE  Max(S) \in S /\ \A s \in S : Max(S) >= s
<1> DEFINE Gaps == {bound - s : s \in S}
<1>1. Gaps \subseteq Nat /\ Gaps # {}
  <2>1. \A s \in S : bound - s \in Nat
    OBVIOUS
  <2> QED
    BY <2>1
<1>2. PICK g \in Gaps : \A h \in Gaps : ~(<<h, g>> \in OpToRel(<, Nat))
  BY <1>1, NatLessThanWellFounded, WFMin
<1>3. \A h \in Gaps : g <= h
  <2> HIDE DEF Gaps
  <2>1. g \in Nat /\ \A h \in Gaps : h \in Nat
    BY <1>1
  <2>2. SUFFICES ASSUME NEW h \in Gaps, h < g
                 PROVE  FALSE
    BY <2>1
  <2>3. <<h, g>> \in OpToRel(<, Nat)
    BY <2>1, <2>2 DEF OpToRel
  <2> QED
    BY <1>2, <2>3
<1>4. PICK m \in S : g = bound - m
  OBVIOUS
<1>5. \A s \in S : m >= s
  BY <1>3, <1>4
<1> QED
  BY <1>5 DEF Max

-----------------------------------------------------------------------------
\* A window of the text.
Window == [start : Positions, end : 2 .. Len(tokens) + 1]

\* The window of a token holds the token, lies in the text, and starts at the
\* first token or Radius tokens before.
LEMMA AroundFacts ==
  ASSUME tokens \in Seq(Token), NEW t \in Positions
  PROVE  /\ Radius \in Nat
         /\ Around(t) \in Window
         /\ Around(t).start <= t
         /\ t < Around(t).end
         /\ Around(t).start = 1 \/ Around(t).start = t - Radius
<1>1. Radius \in Nat /\ Radius < MaxWindow
  BY LimitAssumption DEF Radius
<1> DEFINE s == Max({1, t - Radius})
           e == Min({Len(tokens) + 1, t + Radius + 1})
<1>2. t \in 1 .. Len(tokens) /\ Len(tokens) \in Nat
  BY DEF Positions
<1>3. s \in {1, t - Radius} /\ s >= 1 /\ s >= t - Radius
  <2>1. 1 \in Int /\ t - Radius \in Int
    BY <1>1, <1>2
  <2> QED
    BY <2>1, MaxOfTwo, Zenon
<1>4. e \in {Len(tokens) + 1, t + Radius + 1} /\ e <= Len(tokens) + 1
  <2>1. Len(tokens) + 1 \in Int /\ t + Radius + 1 \in Int
    BY <1>1, <1>2
  <2> QED
    BY <2>1, MinOfTwo, Zenon
<1>5. s \in Int /\ e \in Int /\ s <= t /\ t < e /\ t < s + MaxWindow
  BY <1>1, <1>2, <1>3, <1>4, LimitAssumption
<1> HIDE DEF s, e
<1>6. Min({e, s + MaxWindow}) \in {e, s + MaxWindow} /\ Min({e, s + MaxWindow}) <= e
  <2>1. s + MaxWindow \in Int
    BY <1>5, LimitAssumption
  <2> QED
    BY <1>5, <2>1, MinOfTwo, Zenon
<1>7. Around(t) = [start |-> s, end |-> Min({e, s + MaxWindow})]
  BY DEF Around, s, e
<1> QED
  BY <1>1, <1>2, <1>3, <1>4, <1>5, <1>6, <1>7, LimitAssumption DEF Positions, Window

\* Windows hold at least one token, and are apart from each other.
Apart ==
  /\ \A k \in DOMAIN windows : windows[k].start < windows[k].end
  /\ \A j, k \in DOMAIN windows : j < k => windows[j].end < windows[k].start

\* The next window does not start before the last one.
LastStart ==
  phase = "place" /\ windows # <<>>
    => LET start == windows[Len(windows)].start
       IN  start = 1 \/ start + Radius <= at

\* Where the loops stand: the token looked at, the position in the window.
Cursor ==
  /\ at \in Nat \ {0}
  /\ win \in 1 .. Len(windows) + 1
  /\ phase \in {"place", "search", "decide", "done"}
  /\ phase = "place" => win = 1
  /\ phase = "search" => at <= (IF win <= Len(windows) THEN Width + 1 ELSE 1)
  /\ phase = "decide" => win <= Len(windows) /\ at <= Width + 1

\* The windows, and where the loops stand in them.
Layout ==
  /\ tokens \in Seq(Token)
  /\ bigram \in [Texts \X Texts -> Int]
  /\ windows \in Seq(Window)
  /\ Apart
  /\ LastStart
  /\ Cursor
  /\ AmbiguousIsPlaced

LEMMA LayoutInit == Init => Layout
<1>1. SUFFICES ASSUME Init
               PROVE  Layout
  OBVIOUS
<1>2. tokens \in Seq(Token) /\ bigram \in [Texts \X Texts -> Int] /\ Len(tokens) \in Nat
  <2>1. Documents \subseteq Seq(Token) /\ Bigrams \subseteq [Texts \X Texts -> Int]
    BY InputAssumption
  <2>2. tokens \in Documents /\ bigram \in Bigrams
    BY <1>1 DEF Init
  <2>3. tokens \in Seq(Token)
    BY <2>1, <2>2, Zenon
  <2>4. bigram \in [Texts \X Texts -> Int]
    BY <2>1, <2>2, Zenon
  <2> QED
    BY <2>3, <2>4
<1>3. windows = <<>> /\ win = 1 /\ at = 1 /\ phase = "place"
  BY <1>1 DEF Init
<1>4. windows \in Seq(Window) /\ Apart /\ LastStart /\ Cursor
  BY <1>3 DEF Apart, LastStart, Cursor
<1>5. AmbiguousIsPlaced
  BY <1>2, <1>3 DEF AmbiguousIsPlaced, Positions
<1> QED
  BY <1>2, <1>4, <1>5 DEF Layout

\* The width of the window in work.
LEMMA WidthFacts ==
  ASSUME Layout, NEW k \in DOMAIN windows
  PROVE  /\ windows[k].start \in Positions
         /\ windows[k].end \in 2 .. Len(tokens) + 1
         /\ windows[k].end - windows[k].start \in Nat \ {0}
         /\ \A pos \in 1 .. windows[k].end - windows[k].start :
              windows[k].start + pos - 1 \in Positions
<1>1. windows[k] \in Window
  BY DEF Layout
<1>2. windows[k].start < windows[k].end
  BY DEF Layout, Apart
<1> QED
  BY <1>1, <1>2 DEF Window, Positions

\* A window that joins the last one widens it.
LEMMA PlaceJoins ==
  ASSUME Layout, PlaceWindow, Joins(Around(at))
  PROVE  Layout'
<1> DEFINE w == Around(at)
           last == Len(windows)
           end == Max({windows[last].end, w.end})
<1>1. at \in Positions /\ phase = "place" /\ at' = at + 1 /\ at \in Nat
  BY DEF Layout, PlaceWindow, Positions, Cursor
<1>2. last \in DOMAIN windows /\ windows \in Seq(Window) /\ windows # <<>>
  BY DEF Joins, Layout
<1>3. /\ windows[last].start \in Positions
      /\ windows[last].end \in 2 .. Len(tokens) + 1
      /\ windows[last].start < windows[last].end
  BY <1>2, WidthFacts DEF Layout, Apart
<1>4. w.end \in 2 .. Len(tokens) + 1 /\ at < w.end /\ Radius \in Nat
  BY <1>1, AroundFacts DEF Layout, Window
<1>5. end \in {windows[last].end, w.end} /\ end >= windows[last].end /\ end >= w.end
  <2>1. windows[last].end \in Int /\ w.end \in Int
    BY <1>3, <1>4
  <2> QED
    BY <2>1, MaxOfTwo, Zenon
<1>6. windows' = [windows EXCEPT ![last].end = end]
  BY DEF PlaceWindow
<1> HIDE DEF end, w
<1>7. /\ windows' \in Seq(Window)
      /\ DOMAIN windows' = DOMAIN windows
      /\ Len(windows') = last
      /\ \A k \in DOMAIN windows : windows'[k].start = windows[k].start
      /\ \A k \in DOMAIN windows : k # last => windows'[k].end = windows[k].end
      /\ windows'[last].end = end
  <2>1. windows[last] \in Window /\ end \in 2 .. Len(tokens) + 1
    BY <1>2, <1>3, <1>4, <1>5
  <2> DEFINE wider == [windows[last] EXCEPT !.end = end]
  <2>2. wider \in Window /\ wider.start = windows[last].start /\ wider.end = end
    BY <2>1 DEF Window
  <2>3. windows' = [windows EXCEPT ![last] = wider]
    BY <1>6
  <2> HIDE DEF wider
  <2> QED
    BY <1>2, <2>2, <2>3
<1>8. UNCHANGED <<phase, tokens, bigram, win>>
  BY DEF PlaceWindow
<1>9. Apart'
  <2>1. \A k \in DOMAIN windows :
          /\ k \in 1 .. last
          /\ windows[k].start \in Int /\ windows[k].end \in Int
          /\ windows[k].start < windows[k].end
    BY <1>2, WidthFacts DEF Layout, Apart, Positions
  <2>2. \A k \in DOMAIN windows : windows'[k].start < windows'[k].end
    BY <2>1, <1>2, <1>3, <1>4, <1>5, <1>7 DEF Positions
  <2>3. \A j, k \in DOMAIN windows : j < k => windows'[j].end < windows'[k].start
    BY <2>1, <1>7 DEF Layout, Apart
  <2> QED
    BY <1>7, <2>2, <2>3 DEF Apart
<1>10. windows[last].start = 1 \/ windows[last].start + Radius <= at
  BY <1>1, <1>2 DEF Layout, LastStart
<1>11. LastStart'
  BY <1>1, <1>2, <1>3, <1>4, <1>7, <1>10 DEF LastStart, Radius, Positions
<1>12. Cursor'
  BY <1>1, <1>7, <1>8 DEF Layout, Cursor
<1>13. AmbiguousIsPlaced'
  <2>1. SUFFICES ASSUME NEW t \in Positions, Ambiguous(t), t < at + 1
                 PROVE  \E k \in DOMAIN windows :
                          windows'[k].start <= t /\ t < windows'[k].end
    BY <1>1, <1>7, <1>8 DEF AmbiguousIsPlaced, Ambiguous, Positions
  <2>2. CASE t = at
    BY <2>2, <1>1, <1>2, <1>3, <1>4, <1>5, <1>7, <1>10 DEF Positions
  <2>3. CASE t < at
    <3>1. PICK k \in DOMAIN windows : windows[k].start <= t /\ t < windows[k].end
      BY <2>1, <2>3 DEF Layout, AmbiguousIsPlaced
    <3> QED
      BY <3>1, <1>2, <1>3, <1>4, <1>5, <1>7 DEF Positions
  <2> QED
    BY <2>1, <2>2, <2>3, <1>1 DEF Positions
<1> QED
  BY <1>7, <1>8, <1>9, <1>11, <1>12, <1>13 DEF Layout, Window, Positions

\* Any other window becomes the last one.
LEMMA PlaceNew ==
  ASSUME Layout, PlaceWindow, ~Joins(Around(at))
  PROVE  Layout'
<1> DEFINE w == Around(at)
           last == Len(windows)
<1>1. at \in Positions /\ phase = "place" /\ at' = at + 1 /\ at \in Nat
  BY DEF Layout, PlaceWindow, Positions, Cursor
<1>2. /\ w \in Window /\ w.start <= at /\ at < w.end /\ Radius \in Nat
      /\ w.start = 1 \/ w.start + Radius <= at
      /\ w.start < w.end
  BY <1>1, AroundFacts DEF Layout, Window, Positions
<1>3. windows # <<>> => windows[last].end < w.start
  <2>1. SUFFICES ASSUME windows # <<>>
                 PROVE  windows[last].end < w.start
    OBVIOUS
  <2>2. last \in DOMAIN windows
    BY <2>1 DEF Layout
  <2>3. windows[last].end \in Nat /\ w.start \in Nat
    BY <1>2, <2>2, WidthFacts DEF Window, Positions
  <2> QED
    BY <2>1, <2>3 DEF Joins
<1>4. windows' = Append(windows, w) /\ UNCHANGED <<phase, tokens, bigram, win>>
  BY DEF PlaceWindow
<1> HIDE DEF w
<1>5. windows \in Seq(Window)
  BY DEF Layout
<1>6. /\ windows' \in Seq(Window)
      /\ Len(windows') = last + 1
      /\ DOMAIN windows' = 1 .. last + 1
      /\ \A k \in 1 .. last : windows'[k] = windows[k]
      /\ windows'[last + 1] = w
  BY <1>2, <1>4, <1>5
<1>7. \A k \in 1 .. last :
        /\ k \in DOMAIN windows
        /\ windows[k].start \in Int /\ windows[k].end \in Int
        /\ windows[k].start < windows[k].end
  BY <1>5, WidthFacts DEF Layout, Apart, Positions
<1>8. \A k \in 1 .. last : windows[k].end < w.start
  <2>1. SUFFICES ASSUME NEW k \in 1 .. last
                 PROVE  windows[k].end < w.start
    OBVIOUS
  <2>2. last \in 1 .. last /\ windows # <<>> /\ w.start \in Int
    BY <1>2, <1>5 DEF Window, Positions
  <2>3. k = last \/ windows[k].end < windows[last].start
    BY <1>7, <2>2 DEF Layout, Apart
  <2> QED
    BY <1>3, <1>7, <2>2, <2>3
<1>9. Apart'
  <2>1. \A k \in 1 .. last + 1 : k \in 1 .. last \/ k = last + 1
    BY <1>5
  <2>2. \A k \in 1 .. last + 1 : windows'[k].start < windows'[k].end
    BY <2>1, <1>2, <1>6, <1>7
  <2>3. \A j, k \in 1 .. last + 1 : j < k => windows'[j].end < windows'[k].start
    <3>1. SUFFICES ASSUME NEW j \in 1 .. last + 1, NEW k \in 1 .. last + 1, j < k
                   PROVE  windows'[j].end < windows'[k].start
      OBVIOUS
    <3>2. j \in 1 .. last
      BY <3>1, <1>5
    <3>3. CASE k = last + 1
      BY <3>2, <3>3, <1>6, <1>8
    <3>4. CASE k \in 1 .. last
      BY <3>1, <3>2, <3>4, <1>6, <1>7 DEF Layout, Apart
    <3> QED
      BY <3>3, <3>4, <2>1
  <2> QED
    BY <1>6, <2>2, <2>3 DEF Apart
<1>10. LastStart'
  BY <1>1, <1>2, <1>4, <1>5, <1>6 DEF LastStart, Radius, Window, Positions
<1>11. Cursor'
  BY <1>1, <1>4, <1>5, <1>6 DEF Layout, Cursor
<1>12. AmbiguousIsPlaced'
  <2>1. SUFFICES ASSUME NEW t \in Positions, Ambiguous(t), t < at + 1
                 PROVE  \E k \in 1 .. last + 1 :
                          windows'[k].start <= t /\ t < windows'[k].end
    BY <1>1, <1>4, <1>6 DEF AmbiguousIsPlaced, Ambiguous, Positions
  <2>2. CASE t = at
    <3>1. last + 1 \in 1 .. last + 1
      BY <1>5
    <3> QED
      BY <3>1, <2>2, <1>2, <1>6
  <2>3. CASE t < at
    <3>1. PICK k \in DOMAIN windows : windows[k].start <= t /\ t < windows[k].end
      BY <2>1, <2>3 DEF Layout, AmbiguousIsPlaced
    <3>2. k \in 1 .. last /\ k \in 1 .. last + 1
      BY <1>5
    <3> QED
      BY <3>1, <3>2, <1>6
  <2> QED
    BY <2>1, <2>2, <2>3, <1>1 DEF Positions
<1> QED
  BY <1>4, <1>6, <1>9, <1>10, <1>11, <1>12 DEF Layout, Window, Positions

\* Outside build_windows the windows stay as they are.
LEMMA LayoutStep ==
  ASSUME Layout, [Next]_vars
  PROVE  Layout'
<1>1. CASE PlaceWindow
  BY <1>1, PlaceJoins, PlaceNew
<1>2. CASE SkipToken
  <2>1. UNCHANGED <<phase, tokens, bigram, windows, win>> /\ at' = at + 1
    BY <1>2 DEF SkipToken
  <2>2. phase = "place" /\ ~Ambiguous(at) /\ at \in Nat
    BY <1>2 DEF SkipToken, Layout, Cursor
  <2>3. Apart' /\ Cursor'
    BY <2>1, <2>2 DEF Layout, Apart, Cursor
  <2>4. LastStart'
    <3>1. windows # <<>> => windows[Len(windows)].start \in Nat
      BY WidthFacts DEF Layout, Positions
    <3>2. Radius \in Nat
      BY LimitAssumption DEF Radius
    <3> QED
      BY <2>1, <2>2, <3>1, <3>2 DEF Layout, LastStart, Radius
  <2>5. AmbiguousIsPlaced'
    <3>1. SUFFICES ASSUME NEW t \in Positions, Ambiguous(t), t < at + 1
                   PROVE  \E k \in DOMAIN windows :
                            windows[k].start <= t /\ t < windows[k].end
      BY <2>1, <2>2 DEF AmbiguousIsPlaced, Ambiguous, Positions
    <3>2. t < at
      BY <3>1, <2>2 DEF Positions
    <3> QED
      BY <3>1, <3>2 DEF Layout, AmbiguousIsPlaced
  <2> QED
    BY <2>1, <2>3, <2>4, <2>5 DEF Layout, Window, Positions
<1>3. CASE PlaceDone
  <2>1. UNCHANGED <<tokens, bigram, windows, win>> /\ at' = 1 /\ phase' = "search"
    BY <1>3 DEF PlaceDone
  <2>2. phase = "place" /\ at > Len(tokens) /\ at \in Nat /\ win = 1
    BY <1>3 DEF PlaceDone, Layout, Cursor
  <2>3. Apart' /\ LastStart'
    BY <2>1 DEF Layout, Apart, LastStart
  <2>4. Cursor'
    <3>1. win <= Len(windows) => 1 <= Width + 1
      <4>1. SUFFICES ASSUME 1 <= Len(windows)
                     PROVE  1 <= Width + 1
        BY <2>2
      <4>2. 1 \in DOMAIN windows
        BY <4>1 DEF Layout
      <4> QED
        BY <4>2, <2>2, WidthFacts DEF Width
    <3> QED
      BY <2>1, <2>2, <3>1 DEF Layout, Cursor, Width
  <2>5. AmbiguousIsPlaced'
    <3>1. \A t \in Positions : t < at
      BY <2>2 DEF Positions, Layout
    <3> QED
      BY <2>1, <2>2, <3>1 DEF Layout, AmbiguousIsPlaced, Ambiguous, Positions
  <2> QED
    BY <2>1, <2>3, <2>4, <2>5 DEF Layout, Window, Positions
<1>4. CASE ExtendBeam \/ Rank \/ WindowsDone \/ DecideToken \/ NextWindow \/ UNCHANGED vars
  <2>1. UNCHANGED <<tokens, bigram, windows>> /\ (phase' = "place" <=> phase = "place")
    BY <1>4 DEF ExtendBeam, Rank, WindowsDone, DecideToken, NextWindow, vars
  <2>2. phase = "place" => at' = at
    BY <1>4 DEF ExtendBeam, Rank, WindowsDone, DecideToken, NextWindow, vars
  <2>3. Apart' /\ LastStart' /\ AmbiguousIsPlaced'
    BY <2>1, <2>2 DEF Layout, Apart, LastStart, Radius, AmbiguousIsPlaced, Ambiguous, Positions
  <2>4. \A k \in DOMAIN windows : windows[k].end - windows[k].start \in Nat
    BY WidthFacts
  <2>5. Len(windows) \in Nat /\ DOMAIN windows = 1 .. Len(windows)
    BY DEF Layout
  <2>6. Cursor'
    BY <1>4, <2>1, <2>4, <2>5
    DEF ExtendBeam, Rank, WindowsDone, DecideToken, NextWindow, vars, Layout, Cursor, Width
  <2> QED
    BY <2>1, <2>3, <2>6 DEF Layout, Window, Positions
<1> QED
  BY <1>1, <1>2, <1>3, <1>4 DEF Next

-----------------------------------------------------------------------------
\* The readings are texts, as long as the part of the window they cover.
Drawn ==
  /\ Readings \subseteq Seq(Texts)
  /\ phase = "place" => beam = EmptyBeam
  /\ phase = "search" => \A r \in Readings : Len(r) = at - 1
  /\ phase = "decide" => \A r \in Readings : Len(r) = Width

\* A token of the window in work and its candidates.
LEMMA InWindowFacts ==
  ASSUME Layout, win \in DOMAIN windows, NEW pos \in 1 .. Width
  PROVE  /\ windows[win].start + pos - 1 \in Positions
         /\ InWindow(pos) \in Token
         /\ InWindow(pos).text \in Texts
         /\ \A c \in Options(InWindow(pos)) : c.text \in Texts
<1>1. windows[win].start + pos - 1 \in Positions
  BY WidthFacts DEF Width
<1>2. InWindow(pos) \in Token
  BY <1>1 DEF InWindow, Layout, Positions
<1> DEFINE token == InWindow(pos)
<1> HIDE DEF token
<1>3. token.cands \in Seq(Candidate) /\ token.text \in Texts
  BY <1>2 DEF Token, token
<1>4. \A c \in Options(token) : c.text \in Texts
  <2>1. SUFFICES ASSUME NEW c \in Options(token)
                 PROVE  c.text \in Texts
    OBVIOUS
  <2>2. PICK k \in DOMAIN token.cands : c = token.cands[k]
    BY <2>1 DEF Options
  <2>3. c \in Candidate
    BY <2>2, <1>3
  <2> QED
    BY <2>3 DEF Candidate
<1> QED
  BY <1>1, <1>2, <1>3, <1>4 DEF token

LEMMA OriginalFacts ==
  ASSUME Layout, win \in DOMAIN windows, NEW n \in 0 .. Width
  PROVE  /\ Original(n) \in Seq(Texts)
         /\ Len(Original(n)) = n
         /\ \A pos \in 1 .. n : Original(n)[pos] = InWindow(pos).text
<1>1. Width \in Nat
  BY WidthFacts DEF Width
<1>2. \A k \in 1 .. n : InWindow(k).text \in Texts
  <2>1. \A k \in 1 .. n : k \in 1 .. Width
    BY <1>1
  <2> QED
    BY <2>1, InWindowFacts
<1>3. Original(n) \in [1 .. n -> Texts]
  BY <1>2 DEF Original
<1> QED
  BY <1>1, <1>3 DEF Original

LEMMA ExtendedFacts ==
  ASSUME Layout, Drawn, phase = "search", win \in DOMAIN windows, at <= Width,
         NEW e \in Extended
  PROVE  e.texts \in Seq(Texts) /\ Len(e.texts) = at
<1>1. PICK b \in beam, c \in Options(InWindow(at)) : e.texts = Append(b.texts, c.text)
  BY DEF Extended
<1>2. at \in 1 .. Width /\ at \in Nat
  BY WidthFacts DEF Layout, Cursor, Width
<1>3. c.text \in Texts
  BY <1>2, InWindowFacts
<1>4. b.texts \in Seq(Texts) /\ Len(b.texts) = at - 1
  BY DEF Drawn, Readings
<1> QED
  BY <1>1, <1>2, <1>3, <1>4

\* What the beam is extended to: extended readings, and the original.
LEMMA ExtendFacts ==
  ASSUME Layout, Drawn, ExtendBeam
  PROVE  /\ win \in DOMAIN windows /\ at \in 1 .. Width
         /\ Original(at) \in Readings'
         /\ \A r \in Readings' : r \in Seq(Texts) /\ Len(r) = at
<1>1. phase = "search" /\ win \in DOMAIN windows /\ at <= Width /\ at \in 1 .. Width
  BY WidthFacts DEF ExtendBeam, Layout, Cursor, Width
<1>2. beam' = WithOriginal(Trimmed(Extended))
  BY DEF ExtendBeam
<1> DEFINE kept == Trimmed(Extended)
           own == [texts |-> Original(at), score |-> OriginalScore(at)]
<1>3. kept \subseteq Extended
  BY DEF Trimmed
<1>4. own.texts = Original(at)
  OBVIOUS
<1> HIDE DEF kept, own
<1>5. beam' = kept \/ beam' = kept \cup {own}
  BY <1>2 DEF WithOriginal, kept, own
<1>6. \E e \in beam' : e.texts = Original(at)
  BY <1>2, <1>4 DEF WithOriginal, kept, own
<1>7. \A e \in beam' : e.texts \in Seq(Texts) /\ Len(e.texts) = at
  <2>1. \A e \in kept : e.texts \in Seq(Texts) /\ Len(e.texts) = at
    BY <1>1, <1>3, ExtendedFacts
  <2>2. own.texts \in Seq(Texts) /\ Len(own.texts) = at
    BY <1>1, <1>4, OriginalFacts
  <2> QED
    BY <1>5, <2>1, <2>2
<1> QED
  BY <1>1, <1>6, <1>7 DEF Readings

LEMMA DrawnStep ==
  ASSUME Layout, Drawn, [Next]_vars
  PROVE  Drawn'
<1>1. EmptyBeam = {[texts |-> <<>>, score |-> 0]} /\ <<>> \in Seq(Texts) /\ Len(<<>>) = 0
  BY DEF EmptyBeam
<1>2. beam = EmptyBeam => \A r \in Readings : r = <<>>
  BY <1>1 DEF Readings
<1>3. CASE PlaceWindow \/ SkipToken
  BY <1>3 DEF PlaceWindow, SkipToken, Drawn, Readings
<1>4. CASE PlaceDone
  BY <1>1, <1>2, <1>4 DEF PlaceDone, Drawn, Readings
<1>5. CASE ExtendBeam
  <2>1. phase = "search" /\ phase' = phase /\ at' = at + 1 /\ at \in Nat
    BY <1>5 DEF ExtendBeam, Layout, Cursor
  <2> QED
    BY <1>5, <2>1, ExtendFacts DEF Drawn
<1>6. CASE Rank
  <2>1. UNCHANGED <<windows, win, beam>> /\ phase = "search" /\ phase' = "decide"
    BY <1>6 DEF Rank
  <2>2. at = Width + 1 /\ Width \in Nat
    <3>1. win \in DOMAIN windows
      BY <1>6 DEF Rank, Layout, Cursor
    <3>2. Width \in Nat
      BY <3>1, WidthFacts DEF Width
    <3> QED
      BY <1>6, <3>2 DEF Rank, Layout, Cursor
  <2> QED
    BY <2>1, <2>2 DEF Drawn, Readings, Width
<1>7. CASE NextWindow
  <2>1. beam' = EmptyBeam /\ phase' = "search" /\ at' = 1
    BY <1>7 DEF NextWindow
  <2>2. \A r \in Readings' : r = <<>>
    BY <1>1, <2>1 DEF Readings
  <2>3. \A r \in Readings' : r \in Seq(Texts) /\ Len(r) = 0
    BY <1>1, <2>2
  <2> QED
    BY <2>1, <2>3 DEF Drawn
<1>8. CASE WindowsDone \/ DecideToken \/ UNCHANGED vars
  BY <1>8 DEF WindowsDone, DecideToken, vars, Drawn, Readings, Width
<1> QED
  BY <1>3, <1>4, <1>5, <1>6, <1>7, <1>8 DEF Next

\* Steps that leave the window in work and its beam alone keep the original.
LEMMA CarriedStep ==
  ASSUME Layout, Drawn, OriginalCarried, [Next]_vars
  PROVE  OriginalCarried'
<1>1. CASE PlaceWindow \/ SkipToken \/ WindowsDone
  BY <1>1 DEF PlaceWindow, SkipToken, WindowsDone, Layout, OriginalCarried
<1>2. CASE PlaceDone \/ NextWindow
  <2>1. at' = 1 /\ phase' = "search" /\ beam' = EmptyBeam
    BY <1>2 DEF PlaceDone, NextWindow, Drawn
  <2>2. <<>> \in Readings'
    BY <2>1 DEF EmptyBeam, Readings
  <2>3. Original(0)' = <<>>
    BY DEF Original
  <2> QED
    BY <2>1, <2>2, <2>3 DEF OriginalCarried
<1>3. CASE ExtendBeam
  <2>1. /\ phase' = "search" /\ at' = at + 1 /\ at \in Nat
        /\ UNCHANGED <<tokens, windows, win>>
    BY <1>3 DEF ExtendBeam, Layout, Cursor
  <2>2. Original(at) \in Readings'
    BY <1>3, ExtendFacts
  <2>3. \A n : Original(n)' = Original(n)
    BY <2>1 DEF Original, InWindow
  <2>4. (at + 1) - 1 = at
    BY <2>1
  <2> QED
    BY <2>1, <2>2, <2>3, <2>4 DEF OriginalCarried
<1>4. CASE Rank
  <2>1. /\ phase = "search" /\ phase' = "decide" /\ win <= Len(windows)
        /\ UNCHANGED <<tokens, windows, win, beam>>
    BY <1>4 DEF Rank
  <2>2. at - 1 = Width
    <3>1. win \in DOMAIN windows
      BY <2>1 DEF Layout, Cursor
    <3>2. Width \in Nat
      BY <3>1, WidthFacts DEF Width
    <3> QED
      BY <1>4, <3>2 DEF Rank, Layout, Cursor
  <2>3. Original(Width) \in Readings
    BY <2>1, <2>2 DEF OriginalCarried
  <2> QED
    BY <2>1, <2>3 DEF OriginalCarried, Original, InWindow, Readings, Width
<1>5. CASE DecideToken \/ UNCHANGED vars
  BY <1>5 DEF DecideToken, vars, OriginalCarried, Original, InWindow, Readings, Width
<1> QED
  BY <1>1, <1>2, <1>3, <1>4, <1>5 DEF Next

-----------------------------------------------------------------------------
\* While a window is decided its readings have scores, and the best is first.
Ranked ==
  phase = "decide" =>
    /\ total \in [Readings -> Scores]
    /\ best \in Readings
    /\ RanksFirst(total, best)

\* Scores are kept while a window is decided; the best reading is a text.
Scored ==
  /\ best \in Seq(Texts)
  /\ phase # "decide" => total = NoReadings

LEMMA RankedStep ==
  ASSUME Ranked, [Next]_vars
  PROVE  Ranked'
<1>1. CASE Rank
  BY <1>1 DEF Rank, Ranked, RanksFirst, Readings
<1>2. CASE DecideToken \/ UNCHANGED vars
  BY <1>2 DEF DecideToken, vars, Ranked, RanksFirst, Readings
<1>3. CASE \/ PlaceWindow \/ SkipToken \/ PlaceDone \/ ExtendBeam
           \/ WindowsDone \/ NextWindow
  BY <1>3 DEF PlaceWindow, SkipToken, PlaceDone, ExtendBeam, WindowsDone, NextWindow, Ranked
<1> QED
  BY <1>1, <1>2, <1>3 DEF Next

\* An accepted word is clear of every rival reading, the original among them.
LEMMA AcceptFacts ==
  ASSUME Layout, OriginalCarried, Ranked, phase = "decide",
         NEW pos \in 1 .. Width, Decision(pos) = "accept"
  PROVE  /\ Confidence(total[best]) >= ReplaceThreshold
         /\ total[best] - total[Original(Width)] >= MinMargin
         /\ \A r \in Readings : r[pos] # best[pos] => total[best] - total[r] >= MinMargin
<1>1. /\ best[pos] # InWindow(pos).text
      /\ ~(Confidence(total[best]) < ReplaceThreshold)
      /\ ~(Margin(pos) < MinMargin)
  BY DEF Decision
<1>2. /\ win \in DOMAIN windows /\ Width \in Nat
      /\ Original(Width) \in Readings
      /\ Original(Width)[pos] = InWindow(pos).text
  <2>1. win \in DOMAIN windows /\ win <= Len(windows)
    BY DEF Layout, Cursor
  <2>2. Width \in Nat
    BY <2>1, WidthFacts DEF Width
  <2>3. Original(Width)[pos] = InWindow(pos).text
    BY <2>1, <2>2, OriginalFacts
  <2> QED
    BY <2>1, <2>2, <2>3 DEF OriginalCarried
<1>3. Original(Width) \in Rivals(pos)
  BY <1>1, <1>2 DEF Rivals
<1>4. /\ \A r \in Readings : total[r] \in Int /\ total[best] >= total[r]
      /\ total[best] \in Int
  BY InputAssumption DEF Ranked, RanksFirst
<1> DEFINE S == {total[r] : r \in Rivals(pos)}
<1>5. Second(pos) = Max(S) /\ Max(S) \in Int /\ \A r \in Rivals(pos) : Max(S) >= total[r]
  <2>1. Rivals(pos) \subseteq Readings
    BY DEF Rivals
  <2>2. S \subseteq Int /\ S # {} /\ \A x \in S : x <= total[best]
    BY <1>3, <1>4, <2>1
  <2>3. Max(S) \in S /\ \A x \in S : Max(S) >= x
    <3> HIDE DEF S
    <3> QED
      BY <1>4, <2>2, MaxOfBounded
  <2>4. Second(pos) = Max(S)
    BY <1>3 DEF Second
  <2> QED
    BY <2>2, <2>3, <2>4
<1> HIDE DEF S
<1>6. Margin(pos) = total[best] - Second(pos)
  BY <1>3, <1>4, <1>5 DEF Margin
<1>7. MinMargin \in Int
  BY ThresholdAssumption
<1>8. \A r \in Rivals(pos) : total[best] - total[r] >= MinMargin
  BY <1>1, <1>4, <1>5, <1>6, <1>7 DEF Rivals
<1>9. Confidence(total[best]) \in Int
  <2>1. total[best] + 500 \in Int /\ 1000 \in Int /\ 0 \in Int
    BY <1>4
  <2> DEFINE m == Min({1000, total[best] + 500})
  <2>2. \A x \in Int : Min({1000, x}) \in {1000, x}
    <3>1. \A x, y \in Int : Min({y, x}) \in {y, x}
      BY MinOfTwo
    <3> QED
      BY <3>1, SMT
  <2>3. m \in Int /\ Confidence(total[best]) = Max({0, m})
    BY <2>1, <2>2 DEF Confidence
  <2> HIDE DEF m
  <2>4. Max({0, m}) \in {0, m}
    BY <2>1, <2>3, MaxOfTwo, Zenon
  <2> QED
    BY <2>1, <2>3, <2>4
<1> QED
  BY <1>1, <1>2, <1>3, <1>8, <1>9, ThresholdAssumption DEF Rivals

-----------------------------------------------------------------------------
Typed ==
  /\ changes \subseteq Verdict
  /\ flags \subseteq Verdict

\* The verdicts given so far lie in earlier windows, or in this one before
\* the token that is decided next.
Past ==
  \A v \in changes \cup flags :
    \E k \in DOMAIN windows :
      /\ k <= win
      /\ windows[k].start <= v.token
      /\ v.token < windows[k].end
      /\ k = win => phase = "decide" /\ v.token < Here

\* Changes in this window come from accepting a word of its best reading.
Clear ==
  phase = "decide" =>
    \A pos \in 1 .. Width : ChangedHere(pos) => pos < at /\ Decision(pos) = "accept"

Verdicts ==
  /\ Typed
  /\ Past
  /\ OneVerdictPerToken
  /\ Clear
  /\ DepartureIsReported

\* Before the first window is decided there are no verdicts.
LEMMA NoVerdictYet ==
  ASSUME Layout, Past, phase = "place"
  PROVE  changes = {} /\ flags = {}
BY DEF Layout, Cursor, Past

\* A verdict of this window is at a position that has been decided.
LEMMA VerdictHere ==
  ASSUME Layout, Typed, Past, win \in DOMAIN windows,
         NEW v \in changes \cup flags, NEW pos \in 1 .. Width,
         v.token = windows[win].start + pos - 1
  PROVE  phase = "decide" /\ pos < at
<1>1. PICK k \in DOMAIN windows :
        /\ k <= win
        /\ windows[k].start <= v.token
        /\ v.token < windows[k].end
        /\ k = win => phase = "decide" /\ v.token < Here
  BY DEF Past
<1>2. /\ windows[win].start \in Int /\ windows[k].end \in Int
      /\ k \in Int /\ win \in Int /\ pos \in Int /\ pos >= 1 /\ at \in Int
  BY WidthFacts DEF Layout, Cursor, Positions
<1>3. k = win
  <2>1. SUFFICES ASSUME k < win
                 PROVE  FALSE
    BY <1>1, <1>2
  <2>2. windows[k].end < windows[win].start
    BY <2>1 DEF Layout, Apart
  <2> QED
    BY <2>2, <1>1, <1>2
<1> QED
  BY <1>1, <1>2, <1>3 DEF Here

LEMMA DecideFacts ==
  ASSUME Layout, Drawn, Ranked, DecideToken
  PROVE  /\ win \in DOMAIN windows /\ at \in 1 .. Width /\ at \in Nat
         /\ Here \in Positions
         /\ windows[win].start \in Nat
         /\ Here < windows[win].end
         /\ best[at] \in Texts
<1>1. win \in DOMAIN windows /\ at \in Nat \ {0} /\ at <= Width /\ phase = "decide"
  BY DEF DecideToken, Layout, Cursor
<1>2. /\ windows[win].start \in Positions
      /\ windows[win].end \in Nat
      /\ Width \in Nat /\ Width = windows[win].end - windows[win].start
      /\ \A pos \in 1 .. Width : windows[win].start + pos - 1 \in Positions
  <2>1. win \in DOMAIN windows
    BY <1>1
  <2>2. /\ windows[win].start \in Positions
        /\ windows[win].end \in 2 .. Len(tokens) + 1
        /\ windows[win].end - windows[win].start \in Nat \ {0}
        /\ \A pos \in 1 .. windows[win].end - windows[win].start :
             windows[win].start + pos - 1 \in Positions
    BY <2>1, WidthFacts
  <2>3. windows[win].end \in Nat
    BY <2>2
  <2> QED
    BY <2>2, <2>3 DEF Width
<1>3. at \in 1 .. Width
  BY <1>1, <1>2
<1>4. best \in Seq(Texts) /\ Len(best) = Width
  BY <1>1 DEF Drawn, Ranked
<1> QED
  BY <1>1, <1>2, <1>3, <1>4 DEF Here, Positions

\* One verdict more, at a token that had none.
LEMMA VerdictsDecide ==
  ASSUME Layout, Drawn, Ranked, Verdicts, DecideToken
  PROVE  Verdicts'
<1> DEFINE v == [token |-> Here, text |-> best[at]]
<1>1. /\ win \in DOMAIN windows /\ at \in 1 .. Width /\ at \in Nat
      /\ Here \in Positions /\ windows[win].start \in Nat
      /\ windows[win].start <= Here /\ Here < windows[win].end
      /\ v \in Verdict /\ v.token = Here
  BY DecideFacts DEF Verdict, Here
<1>2. /\ UNCHANGED <<phase, tokens, bigram, windows, win, beam, total, best>>
      /\ phase = "decide" /\ at' = at + 1
  BY DEF DecideToken
<1>3. \/ changes' = changes \cup {v} /\ flags' = flags /\ Decision(at) = "accept"
      \/ changes' = changes /\ flags' = flags \cup {v} /\ Decision(at) # "accept"
      \/ changes' = changes /\ flags' = flags /\ Decision(at) = "reject"
  <2>1. Decision(at) \in {"accept", "flag", "need_context", "reject"}
    BY DEF Decision
  <2> QED
    BY <2>1 DEF DecideToken
<1>4. \A u \in changes \cup flags : u.token # v.token
  <2>1. SUFFICES ASSUME NEW u \in changes \cup flags, u.token = Here
                 PROVE  FALSE
    BY <1>1
  <2>2. u.token = windows[win].start + at - 1
    BY <2>1 DEF Here
  <2>3. at < at
    BY <1>1, <2>2, VerdictHere DEF Verdicts
  <2> QED
    BY <1>1, <2>3
<1> HIDE DEF v
<1>5. Typed'
  BY <1>1, <1>2, <1>3 DEF Verdicts, Typed, Verdict, Positions
<1>6. Past'
  <2>1. SUFFICES ASSUME NEW u \in (changes \cup flags)'
                 PROVE  \E k \in DOMAIN windows :
                          /\ k <= win
                          /\ windows[k].start <= u.token
                          /\ u.token < windows[k].end
                          /\ k = win => u.token < Here + 1
    BY <1>1, <1>2 DEF Past, Here
  <2>2. CASE u = v
    <3>1. win <= win
      BY DEF Layout, Cursor
    <3> QED
      BY <1>1, <2>2, <3>1 DEF Positions
  <2>3. CASE u \in changes \cup flags
    <3>1. u.token \in Int /\ Here \in Int
      BY <1>1, <2>3 DEF Verdicts, Typed, Verdict, Positions
    <3>2. PICK k \in DOMAIN windows :
            /\ k <= win
            /\ windows[k].start <= u.token
            /\ u.token < windows[k].end
            /\ k = win => u.token < Here
      BY <2>3 DEF Verdicts, Past
    <3> QED
      BY <3>1, <3>2
  <2> QED
    BY <1>3, <2>1, <2>2, <2>3
<1>7. OneVerdictPerToken'
  BY <1>3, <1>4 DEF Verdicts, OneVerdictPerToken
<1>8. /\ \A pos : Decision(pos)' = Decision(pos)
      /\ Width' = Width
  BY <1>2 DEF Decision, Margin, Second, Rivals, Readings, InWindow, Width
<1>9. Clear'
  <2>1. SUFFICES ASSUME NEW pos \in 1 .. Width, ChangedHere(pos)'
                 PROVE  pos < at + 1 /\ Decision(pos) = "accept"
    BY <1>2, <1>8 DEF Clear
  <2>2. PICK c \in changes' : c.token = windows[win].start + pos - 1
    BY <1>2, <2>1 DEF ChangedHere
  <2>3. CASE c \in changes
    <3>1. ChangedHere(pos)
      BY <2>2, <2>3 DEF ChangedHere
    <3> QED
      BY <1>1, <1>2, <3>1 DEF Verdicts, Clear
  <2>4. CASE c \notin changes
    <3>1. c = v /\ Decision(at) = "accept"
      BY <1>3, <2>4
    <3>2. pos = at
      BY <1>1, <2>2, <3>1 DEF Here
    <3> QED
      BY <1>1, <3>1, <3>2
  <2> QED
    BY <2>3, <2>4
<1>10. DepartureIsReported'
  <2>1. SUFFICES ASSUME NEW pos \in 1 .. at, best[pos] # InWindow(pos).text,
                        ~InWindow(pos).protected
                 PROVE  \E u \in (changes \cup flags)' :
                          u.token = windows[win].start + pos - 1
    BY <1>1, <1>2 DEF DepartureIsReported, InWindow
  <2>2. CASE pos = at
    <3>1. Decision(at) # "reject"
      BY <2>1, <2>2 DEF Decision
    <3>2. v \in (changes \cup flags)'
      BY <1>3, <3>1
    <3> QED
      BY <1>1, <2>2, <3>2 DEF Here
  <2>3. CASE pos \in 1 .. at - 1
    <3>1. PICK u \in changes \cup flags : u.token = windows[win].start + pos - 1
      BY <1>2, <2>1, <2>3 DEF Verdicts, DepartureIsReported
    <3>2. u \in (changes \cup flags)'
      BY <1>3
    <3> QED
      BY <3>1, <3>2
  <2> QED
    BY <1>1, <2>2, <2>3
<1> QED
  BY <1>5, <1>6, <1>7, <1>9, <1>10 DEF Verdicts

LEMMA VerdictsStep ==
  ASSUME Layout, Drawn, Ranked, Verdicts, [Next]_vars
  PROVE  Verdicts'
<1>1. CASE DecideToken
  BY <1>1, VerdictsDecide
<1>2. CASE PlaceWindow \/ SkipToken \/ PlaceDone
  <2>1. changes' = {} /\ flags' = {} /\ phase' # "decide"
    BY <1>2, NoVerdictYet DEF PlaceWindow, SkipToken, PlaceDone, Verdicts
  <2> QED
    BY <2>1 DEF Verdicts, Typed, Past, OneVerdictPerToken, Clear, DepartureIsReported
<1>3. CASE ExtendBeam \/ WindowsDone \/ Rank \/ NextWindow
  <2>1. UNCHANGED <<tokens, windows, changes, flags>>
    BY <1>3 DEF ExtendBeam, WindowsDone, Rank, NextWindow
  <2>2. Typed' /\ OneVerdictPerToken'
    BY <2>1 DEF Verdicts, Typed, OneVerdictPerToken, Verdict, Positions
  <2>3. /\ win \in Nat /\ win' \in Nat /\ win <= win'
        /\ win' # win => phase = "decide"
        /\ win' = win => phase # "decide"
    BY <1>3 DEF ExtendBeam, WindowsDone, Rank, NextWindow, Layout, Cursor
  <2>4. Past'
    <3>1. SUFFICES ASSUME NEW v \in changes \cup flags
                   PROVE  \E k \in DOMAIN windows :
                            /\ k <= win'
                            /\ windows[k].start <= v.token
                            /\ v.token < windows[k].end
                            /\ k # win'
      BY <2>1 DEF Past
    <3>2. PICK k \in DOMAIN windows :
            /\ k <= win
            /\ windows[k].start <= v.token
            /\ v.token < windows[k].end
            /\ k = win => phase = "decide"
      BY DEF Verdicts, Past
    <3>3. k \in Nat
      BY DEF Layout
    <3> QED
      BY <2>3, <3>2, <3>3
  <2>5. phase' = "decide" => Rank
    BY <1>3 DEF ExtendBeam, WindowsDone, NextWindow
  <2>6. Clear'
    <3>1. SUFFICES ASSUME Rank, NEW pos \in 1 .. Width, ChangedHere(pos)
                   PROVE  FALSE
      BY <2>1, <2>5 DEF Rank, Clear, Width, ChangedHere
    <3>2. win \in DOMAIN windows /\ phase = "search"
      BY <3>1 DEF Rank, Layout, Cursor
    <3> QED
      BY <3>1, <3>2, VerdictHere DEF Verdicts, ChangedHere
  <2>7. DepartureIsReported'
    <3>1. phase' = "decide" => at' = 1
      BY <2>5 DEF Rank
    <3> QED
      BY <3>1 DEF DepartureIsReported
  <2> QED
    BY <2>2, <2>4, <2>6, <2>7 DEF Verdicts
<1>4. CASE UNCHANGED vars
  <2>1. UNCHANGED <<phase, tokens, bigram, windows, win, at, beam, total, best, changes, flags>>
    BY <1>4 DEF vars
  <2>2. Typed' /\ Past' /\ OneVerdictPerToken'
    BY <2>1 DEF Verdicts, Typed, Past, OneVerdictPerToken, Verdict, Positions, Here
  <2>3. \A pos : Decision(pos)' = Decision(pos) /\ ChangedHere(pos)' = ChangedHere(pos)
    BY <2>1 DEF ChangedHere, Decision, Margin, Second, Rivals, Readings, InWindow
  <2>4. Clear' /\ DepartureIsReported'
    BY <2>1, <2>3 DEF Verdicts, Clear, DepartureIsReported, InWindow, Width
  <2> QED
    BY <2>2, <2>4 DEF Verdicts
<1> QED
  BY <1>1, <1>2, <1>3, <1>4 DEF Next

-----------------------------------------------------------------------------
IInv ==
  /\ Layout
  /\ Drawn
  /\ OriginalCarried
  /\ Ranked
  /\ Scored
  /\ Verdicts

LEMMA IInvInit == Init => IInv
<1>1. SUFFICES ASSUME Init
               PROVE  IInv
  OBVIOUS
<1>2. Layout
  BY <1>1, LayoutInit
<1>3. phase = "place" /\ beam = EmptyBeam /\ changes = {} /\ flags = {} /\ best = <<>>
  BY <1>1 DEF Init
<1>4. Drawn
  <2>1. \A r \in Readings : r = <<>>
    BY <1>3 DEF Readings, EmptyBeam
  <2>2. <<>> \in Seq(Texts)
    OBVIOUS
  <2>3. \A r \in Readings : r \in Seq(Texts)
    BY <2>1, <2>2
  <2> QED
    BY <1>3, <2>3 DEF Drawn
<1>5. OriginalCarried /\ Ranked
  BY <1>3 DEF OriginalCarried, Ranked
<1>6. Scored
  BY <1>1 DEF Init, Scored
<1>7. Verdicts
  BY <1>3 DEF Verdicts, Typed, Past, OneVerdictPerToken, Clear, DepartureIsReported
<1> QED
  BY <1>2, <1>4, <1>5, <1>6, <1>7 DEF IInv

LEMMA IInvStep == IInv /\ [Next]_vars => IInv'
<1>1. SUFFICES ASSUME IInv, [Next]_vars
               PROVE  IInv'
  OBVIOUS
<1>2. Layout'
  BY <1>1, LayoutStep DEF IInv
<1>3. Drawn'
  BY <1>1, DrawnStep DEF IInv
<1>4. OriginalCarried'
  BY <1>1, CarriedStep DEF IInv
<1>5. Ranked'
  BY <1>1, RankedStep DEF IInv
<1>6. Verdicts'
  BY <1>1, VerdictsStep DEF IInv
<1>7. Scored'
  <2>1. CASE Rank
    <3>1. best' \in Readings /\ phase' = "decide"
      BY <2>1 DEF Rank
    <3> QED
      BY <1>1, <3>1 DEF IInv, Drawn, Scored
  <2>2. CASE NextWindow
    BY <2>2 DEF NextWindow, Scored
  <2>3. CASE \/ PlaceWindow \/ SkipToken \/ PlaceDone \/ ExtendBeam \/ WindowsDone
             \/ DecideToken \/ UNCHANGED vars
    BY <1>1, <2>3
    DEF PlaceWindow, SkipToken, PlaceDone, ExtendBeam, WindowsDone, DecideToken, vars, IInv, Scored
  <2> QED
    BY <1>1, <2>1, <2>2, <2>3 DEF Next
<1> QED
  BY <1>2, <1>3, <1>4, <1>5, <1>6, <1>7 DEF IInv

LEMMA Invariance == Spec => []IInv
BY IInvInit, IInvStep, PTL DEF Spec

\* Type correctness, for every text and every configuration.
THEOREM TypeCorrect == Spec => []TypeOK
<1>1. IInv => TypeOK
  <2>1. SUFFICES ASSUME IInv
                 PROVE  TypeOK
    OBVIOUS
  <2>2. DOMAIN total \subseteq Readings
    BY <2>1 DEF IInv, Ranked, Scored, NoReadings
  <2> QED
    BY <2>1, <2>2 DEF IInv, Layout, Cursor, Window, Drawn, Scored, Verdicts, Typed, TypeOK
<1> QED
  BY <1>1, Invariance, PTL

\* build_windows loses no ambiguous token, whatever max_tokens_per_window is.
THEOREM AmbiguousIsPlacedCorrect == Spec => []AmbiguousIsPlaced
<1>1. IInv => AmbiguousIsPlaced
  BY DEF IInv, Layout
<1> QED
  BY <1>1, Invariance, PTL

\* No token is decided twice, however windows overlapped before they were merged.
THEOREM OneVerdictPerTokenCorrect == Spec => []OneVerdictPerToken
<1>1. IInv => OneVerdictPerToken
  BY DEF IInv, Verdicts
<1> QED
  BY <1>1, Invariance, PTL

\* The beam carries the text as written, whatever beam_size and the scores are.
THEOREM OriginalCarriedCorrect == Spec => []OriginalCarried
<1>1. IInv => OriginalCarried
  BY DEF IInv
<1> QED
  BY <1>1, Invariance, PTL

\* An accepted word is clear of the original and of every rival by min_margin,
\* for every scoring and all thresholds.
THEOREM AcceptedIsClearCorrect == Spec => []AcceptedIsClear
<1>1. IInv => AcceptedIsClear
  <2>1. SUFFICES ASSUME IInv, phase = "decide", NEW pos \in 1 .. Width, ChangedHere(pos)
                 PROVE  /\ Confidence(total[best]) >= ReplaceThreshold
                        /\ total[best] - total[Original(Width)] >= MinMargin
                        /\ \A r \in Readings :
                             r[pos] # best[pos] => total[best] - total[r] >= MinMargin
    BY DEF AcceptedIsClear
  <2>2. Decision(pos) = "accept"
    BY <2>1 DEF IInv, Verdicts, Clear
  <2> QED
    BY <2>1, <2>2, AcceptFacts DEF IInv
<1> QED
  BY <1>1, Invariance, PTL

\* A departure of the best reading from the text is changed or reported.
THEOREM DepartureIsReportedCorrect == Spec => []DepartureIsReported
<1>1. IInv => DepartureIsReported
  BY DEF IInv, Verdicts
<1> QED
  BY <1>1, Invariance, PTL

-----------------------------------------------------------------------------
(***************************************************************************)
(* Sums over finite sets, as MapThenSumSet adds them up.                   *)
(***************************************************************************)
\* What a fold takes out of a set first.
Some(s) == CHOOSE x \in s : TRUE

\* `g' adds up `f' over the subsets of `S' the way MapThenSumSet does.
Adds(f, S, g) ==
  g = [s \in SUBSET S |-> IF s = {} THEN 0 ELSE f[Some(s)] + g[s \ {Some(s)}]]

Sum(f, S) == (CHOOSE g : Adds(f, S, g))[S]

\* Of some finite sets one contains no other.
LEMMA LeastSet ==
  ASSUME NEW S, IsFiniteSet(S), NEW T, T \subseteq SUBSET S, T # {}
  PROVE  \E x \in T : \A y \in T : ~(y \subseteq x /\ y # x)
<1>1. T \subseteq FiniteSubsetsOf(S)
  BY FS_Subset DEF FiniteSubsetsOf
<1>2. PICK x \in T : \A y \in T : ~(<<y, x>> \in StrictSubsetOrdering(S))
  BY <1>1, FS_StrictSubsetOrderingWellFounded, WFMin
<1> QED
  BY <1>2 DEF StrictSubsetOrdering

\* Two ways to add up agree wherever both are defined.
LEMMA AddsUnique ==
  ASSUME NEW f, NEW S, IsFiniteSet(S), NEW R,
         NEW g, Adds(f, S, g), NEW h, Adds(f, R, h), NEW t \in SUBSET S, t \subseteq R
  PROVE  g[t] = h[t]
<1> DEFINE Bad == {u \in SUBSET t : g[u] # h[u]}
<1>1. SUFFICES ASSUME Bad # {} PROVE FALSE
  OBVIOUS
<1>2. IsFiniteSet(t)
  BY FS_Subset
<1>3. PICK u \in Bad : \A v \in Bad : ~(v \subseteq u /\ v # u)
  <2> HIDE DEF Bad
  <2>1. Bad \subseteq SUBSET t
    BY DEF Bad
  <2> QED
    BY <1>1, <1>2, <2>1, LeastSet
<1>4. /\ g[u] = IF u = {} THEN 0 ELSE f[Some(u)] + g[u \ {Some(u)}]
      /\ h[u] = IF u = {} THEN 0 ELSE f[Some(u)] + h[u \ {Some(u)}]
  <2>1. u \in SUBSET S /\ u \in SUBSET R
    OBVIOUS
  <2> QED
    BY <2>1 DEF Adds
<1>5. u # {}
  BY <1>4
<1>6. Some(u) \in u
  BY <1>5 DEF Some
<1>7. g[u \ {Some(u)}] = h[u \ {Some(u)}]
  <2> DEFINE v == u \ {Some(u)}
  <2>1. v \in SUBSET t /\ v \subseteq u /\ v # u
    BY <1>6
  <2>2. v \notin Bad
    BY <1>3, <2>1
  <2> QED
    BY <2>1, <2>2
<1> QED
  BY <1>4, <1>5, <1>7

\* There is a way to add up over every finite set.
LEMMA AddsExists ==
  ASSUME NEW f, NEW S, IsFiniteSet(S)
  PROVE  \E g : Adds(f, S, g)
<1> DEFINE Bad == {t \in SUBSET S : ~(\E g : Adds(f, t, g))}
<1>1. SUFFICES ASSUME Bad # {} PROVE FALSE
  OBVIOUS
<1>2. PICK t \in Bad : \A v \in Bad : ~(v \subseteq t /\ v # t)
  <2> HIDE DEF Bad
  <2>1. Bad \subseteq SUBSET S
    BY DEF Bad
  <2> QED
    BY <1>1, <2>1, LeastSet
<1> DEFINE G(u) == CHOOSE g : Adds(f, u, g)
<1>3. \A u \in SUBSET t : u # t => Adds(f, u, G(u))
  <2>1. SUFFICES ASSUME NEW u \in SUBSET t, u # t PROVE Adds(f, u, G(u))
    OBVIOUS
  <2>2. u \notin Bad
    BY <1>2, <2>1
  <2>3. \E g : Adds(f, u, g)
    BY <2>1, <2>2
  <2> QED
    BY <2>3
<1> DEFINE v == t \ {Some(t)}
           g == [u \in SUBSET t |->
                   IF u # t THEN G(u)[u]
                   ELSE IF t = {} THEN 0 ELSE f[Some(t)] + G(v)[v]]
<1> HIDE DEF G
<1>4. ASSUME NEW u \in SUBSET t
      PROVE  g[u] = IF u = {} THEN 0 ELSE f[Some(u)] + g[u \ {Some(u)}]
  <2> DEFINE w == u \ {Some(u)}
  <2>1. CASE u = {}
    <3>1. CASE t = {}
      BY <2>1, <3>1
    <3>2. CASE t # {}
      <4>1. Adds(f, u, G(u)) /\ u \in SUBSET u
        BY <1>3, <2>1, <3>2
      <4>2. G(u)[u] = 0
        BY <2>1, <4>1 DEF Adds
      <4> QED
        BY <2>1, <3>2, <4>2
    <3> QED
      BY <3>1, <3>2
  <2>2. CASE u # {}
    <3>1. Some(u) \in u /\ w \in SUBSET t /\ w # t /\ w \in SUBSET u
      BY <2>2 DEF Some
    <3>2. g[w] = G(w)[w]
      BY <3>1
    <3>3. CASE u = t
      BY <2>2, <3>1, <3>2, <3>3
    <3>4. CASE u # t
      <4>1. Adds(f, u, G(u)) /\ Adds(f, w, G(w))
        BY <1>3, <3>1, <3>4
      <4>2. g[u] = G(u)[u]
        BY <3>4
      <4>3. G(u)[u] = f[Some(u)] + G(u)[w]
        BY <2>2, <4>1 DEF Adds
      <4>4. G(u)[w] = G(w)[w]
        <5>1. IsFiniteSet(u)
          BY FS_Subset
        <5> HIDE DEF w
        <5> QED
          BY <3>1, <4>1, <5>1, AddsUnique
      <4> QED
        BY <2>2, <3>2, <4>2, <4>3, <4>4
    <3> QED
      BY <3>3, <3>4
  <2> QED
    BY <2>1, <2>2
<1>5. g = [u \in SUBSET t |-> IF u = {} THEN 0 ELSE f[Some(u)] + g[u \ {Some(u)}]]
  <2> HIDE DEF g
  <2>1. g = [u \in SUBSET t |-> g[u]]
    BY DEF g
  <2> QED
    BY <1>4, <2>1
<1>6. Adds(f, t, g)
  BY <1>5 DEF Adds
<1> QED
  BY <1>2, <1>6

\* The sum does not depend on the way that is taken.
LEMMA SumIs ==
  ASSUME NEW f, NEW S, IsFiniteSet(S), NEW g, Adds(f, S, g)
  PROVE  g[S] = Sum(f, S)
<1> DEFINE h == CHOOSE h : Adds(f, S, h)
<1>1. Adds(f, S, h)
  OBVIOUS
<1>2. Sum(f, S) = h[S] /\ S \in SUBSET S
  BY DEF Sum
<1> HIDE DEF h
<1> QED
  BY <1>1, <1>2, AddsUnique

\* The sum over nothing is 0; the sum over more is its first element and the
\* sum over the others.
LEMMA SumStep ==
  ASSUME NEW f, NEW S, IsFiniteSet(S)
  PROVE  Sum(f, S) = IF S = {} THEN 0 ELSE f[Some(S)] + Sum(f, S \ {Some(S)})
<1> DEFINE g == CHOOSE g : Adds(f, S, g)
           T == S \ {Some(S)}
           h == CHOOSE h : Adds(f, T, h)
<1>1. IsFiniteSet(T)
  BY FS_Subset
<1>2. Adds(f, S, g)
  BY AddsExists
<1>3. Adds(f, T, h)
  BY <1>1, AddsExists
<1>4. Sum(f, S) = g[S] /\ Sum(f, T) = h[T]
  BY DEF Sum
<1> HIDE DEF g, h
<1>5. S \in SUBSET S /\ T \in SUBSET S
  OBVIOUS
<1>6. g[T] = h[T]
  BY <1>2, <1>3, <1>5, AddsUnique
<1>7. g[S] = IF S = {} THEN 0 ELSE f[Some(S)] + g[T]
  BY <1>2, <1>5 DEF Adds
<1> QED
  BY <1>4, <1>6, <1>7

\* A sum of integers is one.
LEMMA SumType ==
  ASSUME NEW f, NEW S, IsFiniteSet(S), \A x \in S : f[x] \in Int
  PROVE  Sum(f, S) \in Int
<1> DEFINE Bad == {t \in SUBSET S : Sum(f, t) \notin Int}
<1>1. SUFFICES ASSUME Bad # {} PROVE FALSE
  OBVIOUS
<1>2. PICK t \in Bad : \A v \in Bad : ~(v \subseteq t /\ v # t)
  <2> HIDE DEF Bad
  <2>1. Bad \subseteq SUBSET S
    BY DEF Bad
  <2> QED
    BY <1>1, <2>1, LeastSet
<1> DEFINE v == t \ {Some(t)}
<1>3. IsFiniteSet(t)
  BY FS_Subset
<1>4. Sum(f, t) = IF t = {} THEN 0 ELSE f[Some(t)] + Sum(f, v)
  BY <1>3, SumStep
<1>5. t # {}
  BY <1>4
<1>6. Some(t) \in t
  BY <1>5 DEF Some
<1>7. Sum(f, v) \in Int
  BY <1>2, <1>6
<1> QED
  BY <1>4, <1>5, <1>6, <1>7

\* Whichever element is taken out.
LEMMA SumRemove ==
  ASSUME NEW f, NEW S, IsFiniteSet(S), \A x \in S : f[x] \in Int, NEW a \in S
  PROVE  Sum(f, S) = f[a] + Sum(f, S \ {a})
<1> DEFINE Bad == {t \in SUBSET S : \E x \in t : Sum(f, t) # f[x] + Sum(f, t \ {x})}
<1>1. SUFFICES ASSUME Bad # {} PROVE FALSE
  OBVIOUS
<1>2. PICK t \in Bad : \A v \in Bad : ~(v \subseteq t /\ v # t)
  <2> HIDE DEF Bad
  <2>1. Bad \subseteq SUBSET S
    BY DEF Bad
  <2> QED
    BY <1>1, <2>1, LeastSet
<1>3. PICK x \in t : Sum(f, t) # f[x] + Sum(f, t \ {x})
  BY <1>2
<1> DEFINE y == Some(t)
<1>4. IsFiniteSet(t) /\ IsFiniteSet(t \ {x}) /\ IsFiniteSet(t \ {y}) /\ IsFiniteSet((t \ {x}) \ {y})
  BY FS_Subset
<1>5. Sum(f, t) = f[y] + Sum(f, t \ {y})
  BY <1>3, <1>4, SumStep
<1>6. y \in t /\ y # x
  BY <1>3, <1>5 DEF Some
<1> HIDE DEF y
<1>7. t \ {x} \notin Bad /\ t \ {y} \notin Bad /\ t \ {x} \in SUBSET S /\ t \ {y} \in SUBSET S
  BY <1>2, <1>6
<1>8. Sum(f, t \ {x}) = f[y] + Sum(f, (t \ {x}) \ {y})
  BY <1>6, <1>7
<1>9. Sum(f, t \ {y}) = f[x] + Sum(f, (t \ {y}) \ {x})
  BY <1>6, <1>7
<1>10. (t \ {y}) \ {x} = (t \ {x}) \ {y}
  OBVIOUS
<1>11. Sum(f, (t \ {x}) \ {y}) \in Int
  BY <1>4, SumType
<1>12. f[x] \in Int /\ f[y] \in Int
  BY <1>6
<1>13. Sum(f, t \ {y}) = f[x] + Sum(f, (t \ {x}) \ {y})
  BY <1>9, <1>10
<1> QED
  <2> DEFINE a1 == Sum(f, t)
             a2 == Sum(f, t \ {x})
             a3 == Sum(f, t \ {y})
             a4 == Sum(f, (t \ {x}) \ {y})
  <2>1. /\ a1 # f[x] + a2 /\ a1 = f[y] + a3 /\ a2 = f[y] + a4
        /\ a3 = f[x] + a4 /\ a4 \in Int
    BY <1>3, <1>5, <1>8, <1>11, <1>13
  <2> HIDE DEF a1, a2, a3, a4, Bad
  <2> QED
    BY <1>12, <2>1

\* A finite set of numbers has a largest one.
LEMMA MaxExists ==
  ASSUME NEW S, IsFiniteSet(S), \A s \in S : s \in Int, S # {}
  PROVE  \E m \in S : \A s \in S : s <= m
<1> DEFINE Bad == {t \in SUBSET S : t # {} /\ ~(\E m \in t : \A s \in t : s <= m)}
<1>1. SUFFICES ASSUME Bad # {} PROVE FALSE
  OBVIOUS
<1>2. PICK t \in Bad : \A v \in Bad : ~(v \subseteq t /\ v # t)
  <2> HIDE DEF Bad
  <2>1. Bad \subseteq SUBSET S
    BY DEF Bad
  <2> QED
    BY <1>1, <2>1, LeastSet
<1>3. PICK x \in t : TRUE
  OBVIOUS
<1> DEFINE r == t \ {x}
<1>4. CASE r = {}
  <2>1. \A s \in t : s <= x
    BY <1>4
  <2> QED
    BY <1>2, <2>1
<1>5. CASE r # {}
  <2>1. r \in SUBSET S /\ r \subseteq t /\ r # t
    BY <1>3
  <2>2. PICK m \in r : \A s \in r : s <= m
    BY <1>2, <1>5, <2>1
  <2>3. CASE m <= x
    <3>1. \A s \in t : s \in Int /\ (s = x \/ s <= m)
      BY <2>2
    <3>2. \A s \in t : s <= x
      BY <2>2, <2>3, <3>1
    <3> QED
      BY <1>2, <3>2
  <2>4. CASE x <= m
    <3>1. \A s \in t : s <= m
      BY <2>2, <2>4
    <3> QED
      BY <1>2, <2>2, <3>1
  <2> QED
    BY <2>3, <2>4
<1> QED
  BY <1>4, <1>5

-----------------------------------------------------------------------------
\* The n-gram store rewards no pair.
NoBigrams == \A pair \in Texts \X Texts : bigram[pair] = 0

\* The tokens are those of a document the corrector is called with.
Given == tokens \in Documents

\* `o' is among the best candidates of the token at position `k'.
Favoured(o, k) == \A c \in Options(InWindow(k)) : c.prior <= o.prior

\* Every word of the reading is one of the best candidates of its token.
Favourite(texts) ==
  \A k \in DOMAIN texts :
    \E o \in Options(InWindow(k)) : o.text = texts[k] /\ Favoured(o, k)

\* Without bigrams the best candidates together lead the beam, and the text as
\* written is not ahead of them.
Ahead ==
  phase = "search" /\ NoBigrams =>
    /\ \A b \in beam : b.score \in Int
    /\ \E b \in beam :
         /\ Favourite(b.texts)
         /\ \A d \in beam : d.score <= b.score
         /\ IF at = 1 THEN b.score = 0
            ELSE win \in DOMAIN windows /\ OriginalScore(at - 1) <= b.score

\* The candidates of a token: finitely many, the token's own text among them.
LEMMA OptionsFacts ==
  ASSUME Layout, Given, win \in DOMAIN windows, NEW k \in 1 .. Width
  PROVE  /\ \A c \in Options(InWindow(k)) : c.prior \in Int
         /\ \E c \in Options(InWindow(k)) : c.text = InWindow(k).text
         /\ \E o \in Options(InWindow(k)) : Favoured(o, k)
<1> DEFINE token == InWindow(k)
           own == CHOOSE j \in DOMAIN token.cands : token.cands[j].text = token.text
<1>1. token \in Token /\ windows[win].start + k - 1 \in DOMAIN tokens
  BY InWindowFacts DEF Layout, Positions
<1>2. token.cands \in Seq(Candidate)
  BY <1>1 DEF Token
<1>3. \E j \in DOMAIN token.cands : token.cands[j].text = token.text
  BY <1>1, InputAssumption DEF Given, InWindow
<1>4. own \in DOMAIN token.cands /\ token.cands[own].text = token.text
  <2> HIDE DEF token
  <2> QED
    BY <1>3
<1> HIDE DEF own
<1>5. Options(token) = {token.cands[j] : j \in {n \in DOMAIN token.cands : n <= PerToken \/ n <= own}}
  BY DEF Options, own
<1> HIDE DEF token
<1>6. own \in {n \in DOMAIN token.cands : n <= PerToken \/ n <= own}
  BY <1>2, <1>4
<1>7. token.cands[own] \in Options(token)
  BY <1>5, <1>6
<1>8. \A c \in Options(token) : c.prior \in Int
  <2>1. SUFFICES ASSUME NEW c \in Options(token) PROVE c.prior \in Int
    OBVIOUS
  <2>2. PICK j \in DOMAIN token.cands : c = token.cands[j]
    BY <1>5
  <2>3. c \in Candidate
    BY <1>2, <2>2
  <2> QED
    BY <2>3 DEF Candidate
<1>9. IsFiniteSet({c.prior : c \in Options(token)})
  <2>1. IsFiniteSet(DOMAIN token.cands)
    BY <1>2, FS_Interval
  <2> DEFINE I == {n \in DOMAIN token.cands : n <= PerToken \/ n <= own}
  <2>2. IsFiniteSet(I)
    BY <2>1, FS_Subset
  <2> HIDE DEF I
  <2> DEFINE f == [j \in I |-> token.cands[j].prior]
             P == {f[j] : j \in I}
  <2>3. IsFiniteSet({token.cands[j].prior : j \in I})
    <3>1. P = {token.cands[j].prior : j \in I}
      OBVIOUS
    <3>2. f \in [I -> P] /\ \A p \in P : \E j \in I : f[j] = p
      OBVIOUS
    <3> HIDE DEF f, P
    <3>3. f \in Surjection(I, P)
      BY <3>2 DEF Surjection
    <3>4. IsFiniteSet(P)
      BY <2>2, <3>3, FS_Surjection
    <3> QED
      BY <3>1, <3>4
  <2>4. {c.prior : c \in Options(token)} = {token.cands[j].prior : j \in I}
    BY <1>5 DEF I
  <2> QED
    BY <2>3, <2>4
<1>10. \E o \in Options(token) : \A c \in Options(token) : c.prior <= o.prior
  <2> DEFINE P == {c.prior : c \in Options(token)}
  <2>1. P \subseteq Int /\ P # {} /\ IsFiniteSet(P)
    BY <1>7, <1>8, <1>9
  <2> HIDE DEF P
  <2>2. PICK m \in P : \A s \in P : s <= m
    BY <2>1, MaxExists
  <2> QED
    BY <2>2 DEF P
<1> QED
  BY <1>4, <1>7, <1>8, <1>10 DEF token, Favoured

\* Without bigrams there is no reward.
LEMMA NoReward ==
  ASSUME NoBigrams, NEW prefix \in Seq(Texts), NEW text \in Texts
  PROVE  Reward(prefix, text) = 0
<1> DEFINE content == {k \in DOMAIN prefix : prefix[k] # Blank}
<1>1. CASE content = {}
  BY <1>1 DEF Reward
<1>2. CASE content # {}
  <2>1. content \subseteq Int /\ Len(prefix) \in Int /\ \A s \in content : s <= Len(prefix)
    OBVIOUS
  <2> DEFINE last == Max(content)
  <2>2. last \in content
    <3> HIDE DEF content
    <3> QED
      BY <1>2, <2>1, MaxOfBounded
  <2>3. Reward(prefix, text) = bigram[prefix[last], text]
    BY <1>2 DEF Reward
  <2> HIDE DEF last
  <2>4. prefix[last] \in Texts
    BY <2>2
  <2>5. <<prefix[last], text>> \in Texts \X Texts
    BY <2>4
  <2> QED
    BY <2>3, <2>5 DEF NoBigrams
<1> QED
  BY <1>1, <1>2

\* What the text as written gets for the word at each position.
OwnScore ==
  [k \in 1 .. Width |->
     (CHOOSE c \in Options(InWindow(k)) : c.text = InWindow(k).text).prior
       + Reward(Original(k - 1), InWindow(k).text)]

\* OriginalScore adds these up.
LEMMA OriginalScoreIsSum ==
  ASSUME Width \in Nat, NEW n \in 0 .. Width
  PROVE  OriginalScore(n) = Sum(OwnScore, 1 .. n)
<1> DEFINE S == 1 .. n
           own(k) == (CHOOSE c \in Options(InWindow(k)) : c.text = InWindow(k).text).prior
                       + Reward(Original(k - 1), InWindow(k).text)
           G(g) == g = [s \in SUBSET S |-> IF s = {} THEN 0 ELSE own(Some(s)) + g[s \ {Some(s)}]]
<1>1. OriginalScore(n) = (CHOOSE g : G(g))[S]
  BY DEF OriginalScore, MapThenSumSet, MapThenFoldSet, Some
<1>2. IsFiniteSet(S)
  BY FS_Interval
<1>3. \A s \in SUBSET S : s # {} => OwnScore[Some(s)] = own(Some(s))
  <2>1. \A k \in S : OwnScore[k] = own(k)
    BY DEF OwnScore
  <2> HIDE DEF own, S
  <2> QED
    BY <2>1 DEF Some
<1> HIDE DEF own, S
<1>4. \A g : G(g) <=> Adds(OwnScore, S, g)
  BY <1>3 DEF Adds
<1> HIDE DEF G
<1>5. \E g : Adds(OwnScore, S, g)
  BY <1>2, AddsExists
<1>6. Adds(OwnScore, S, CHOOSE g : G(g))
  BY <1>4, <1>5
<1> QED
  BY <1>1, <1>2, <1>6, SumIs DEF S

\* The score of the text as written grows with each word by its prior.
LEMMA OriginalScoreStep ==
  ASSUME Layout, Given, NoBigrams, win \in DOMAIN windows
  PROVE  /\ OriginalScore(0) = 0
         /\ \A n \in 1 .. Width :
              /\ OriginalScore(n - 1) \in Int
              /\ \E c \in Options(InWindow(n)) : OriginalScore(n) = OriginalScore(n - 1) + c.prior
<1>1. Width \in Nat
  BY WidthFacts DEF Width
<1>2. OriginalScore(0) = 0
  <2>1. 1 .. 0 = {} /\ IsFiniteSet({})
    BY FS_EmptySet
  <2>2. Sum(OwnScore, {}) = 0
    BY <2>1, SumStep
  <2> QED
    BY <1>1, <2>1, <2>2, OriginalScoreIsSum
<1>3. ASSUME NEW k \in 1 .. Width
      PROVE  \E c \in Options(InWindow(k)) : OwnScore[k] = c.prior /\ c.prior \in Int
  <2> DEFINE c == CHOOSE c \in Options(InWindow(k)) : c.text = InWindow(k).text
  <2>1. c \in Options(InWindow(k)) /\ c.prior \in Int
    BY OptionsFacts
  <2>2. Original(k - 1) \in Seq(Texts) /\ InWindow(k).text \in Texts
    BY <1>1, InWindowFacts, OriginalFacts
  <2>3. Reward(Original(k - 1), InWindow(k).text) = 0
    BY <2>2, NoReward
  <2>4. OwnScore[k] = c.prior + Reward(Original(k - 1), InWindow(k).text)
    BY DEF OwnScore
  <2> HIDE DEF c
  <2> QED
    BY <2>1, <2>3, <2>4
<1>4. ASSUME NEW n \in 1 .. Width
      PROVE  /\ OriginalScore(n - 1) \in Int
             /\ \E c \in Options(InWindow(n)) : OriginalScore(n) = OriginalScore(n - 1) + c.prior
  <2>1. n - 1 \in 0 .. Width /\ n \in 0 .. Width /\ n \in 1 .. n /\ (1 .. n) \ {n} = 1 .. n - 1
    BY <1>1
  <2>2. IsFiniteSet(1 .. n) /\ IsFiniteSet(1 .. n - 1)
    BY <2>1, FS_Interval
  <2>3. /\ \A k \in 1 .. n : OwnScore[k] \in Int
        /\ \A k \in 1 .. n - 1 : OwnScore[k] \in Int
    <3>1. \A k \in 1 .. n : k \in 1 .. Width
      BY <1>1
    <3> QED
      BY <1>3, <3>1
  <2>4. Sum(OwnScore, 1 .. n) = OwnScore[n] + Sum(OwnScore, (1 .. n) \ {n})
    BY <2>1, <2>2, <2>3, SumRemove
  <2>5. Sum(OwnScore, 1 .. n - 1) \in Int
    BY <2>2, <2>3, SumType
  <2>6. /\ OriginalScore(n) = Sum(OwnScore, 1 .. n)
        /\ OriginalScore(n - 1) = Sum(OwnScore, 1 .. n - 1)
    BY <1>1, <2>1, OriginalScoreIsSum
  <2>7. PICK c \in Options(InWindow(n)) : OwnScore[n] = c.prior /\ c.prior \in Int
    BY <1>3
  <2>8. OriginalScore(n) = c.prior + OriginalScore(n - 1)
    BY <2>1, <2>4, <2>6, <2>7
  <2>9. OriginalScore(n - 1) \in Int
    BY <2>5, <2>6
  <2>10. OriginalScore(n) = OriginalScore(n - 1) + c.prior
    BY <2>7, <2>8, <2>9
  <2> QED
    BY <2>9, <2>10
<1> QED
  BY <1>2, <1>4

-----------------------------------------------------------------------------
\* The beam is extended by a favourite of the token, and nothing overtakes it.
LEMMA AheadExtend ==
  ASSUME Layout, Drawn, Given, Ahead, ExtendBeam, NoBigrams
  PROVE  /\ \A b \in beam' : b.score \in Int
         /\ \E b \in beam' :
              /\ Favourite(b.texts)
              /\ \A d \in beam' : d.score <= b.score
              /\ OriginalScore(at) <= b.score
<1>1. phase = "search" /\ win \in DOMAIN windows /\ at \in 1 .. Width /\ at \in Nat
  BY WidthFacts DEF ExtendBeam, Layout, Cursor, Width
<1>2. PICK b \in beam : /\ Favourite(b.texts)
                        /\ \A d \in beam : d.score <= b.score
                        /\ OriginalScore(at - 1) <= b.score
  <2>1. OriginalScore(0) = 0 /\ 0 <= 0
    BY <1>1, OriginalScoreStep
  <2>2. at = 1 => at - 1 = 0
    OBVIOUS
  <2> QED
    BY <1>1, <2>1, <2>2 DEF Ahead
<1>3. \A d \in beam : d.score \in Int
  BY <1>1 DEF Ahead
<1>4. PICK o \in Options(InWindow(at)) : Favoured(o, at)
  BY <1>1, OptionsFacts
<1>5. \A c \in Options(InWindow(at)) : c.prior \in Int /\ c.text \in Texts
  BY <1>1, OptionsFacts, InWindowFacts
<1>6. \A d \in beam : d.texts \in Seq(Texts) /\ Len(d.texts) = at - 1
  BY <1>1 DEF Drawn, Readings
<1> DEFINE Score(d, c) == d.score + c.prior
                            + (IF c.text = Blank THEN 0 ELSE Reward(d.texts, c.text))
           Entry(d, c) == [texts |-> Append(d.texts, c.text), score |-> Score(d, c)]
<1>7. \A d \in beam : \A c \in Options(InWindow(at)) :
        Score(d, c) = d.score + c.prior /\ Score(d, c) \in Int
  <2>1. SUFFICES ASSUME NEW d \in beam, NEW c \in Options(InWindow(at))
                 PROVE  Score(d, c) = d.score + c.prior /\ Score(d, c) \in Int
    OBVIOUS
  <2>2. Reward(d.texts, c.text) = 0
    BY <1>5, <1>6, NoReward
  <2> QED
    BY <1>3, <1>5, <2>2
<1>8. Extended = {Entry(d, c) : d \in beam, c \in Options(InWindow(at))}
  BY DEF Extended
<1> DEFINE e == Entry(b, o)
<1>9. e \in Extended
  <2> HIDE DEF Entry
  <2> QED
    BY <1>8
<1>10. /\ \A x \in Extended : x.score \in Int /\ x.score <= e.score
       /\ e.score \in Int /\ e.score = b.score + o.prior
  <2>1. SUFFICES ASSUME NEW x \in Extended PROVE x.score \in Int /\ x.score <= e.score
    BY <1>7
  <2>2. PICK d \in beam, c \in Options(InWindow(at)) : x = Entry(d, c)
    BY <1>8
  <2>3. x.score = d.score + c.prior /\ e.score = b.score + o.prior
    BY <1>7, <2>2
  <2>4. /\ d.score <= b.score /\ c.prior <= o.prior
        /\ d.score \in Int /\ b.score \in Int /\ c.prior \in Int /\ o.prior \in Int
    BY <1>2, <1>3, <1>4, <1>5 DEF Favoured
  <2> QED
    BY <2>3, <2>4
<1>11. e.texts = Append(b.texts, o.text)
  OBVIOUS
<1> HIDE DEF Score, Entry, e
<1>12. e \in Trimmed(Extended)
  <2>1. {d \in Extended : d.score > e.score} = {}
    BY <1>10
  <2>2. Cardinality({}) = 0
    BY FS_EmptySet
  <2>3. 0 < BeamSize
    BY LimitAssumption
  <2> QED
    BY <1>9, <2>1, <2>2, <2>3 DEF Trimmed
<1>13. OriginalScore(at) \in Int /\ OriginalScore(at) <= e.score
  <2>1. OriginalScore(at - 1) \in Int
    BY <1>1, OriginalScoreStep
  <2>2. PICK c \in Options(InWindow(at)) : OriginalScore(at) = OriginalScore(at - 1) + c.prior
    BY <1>1, OriginalScoreStep
  <2>3. /\ c.prior \in Int /\ o.prior \in Int /\ c.prior <= o.prior
        /\ b.score \in Int /\ OriginalScore(at - 1) <= b.score
    BY <1>2, <1>3, <1>4, <1>5 DEF Favoured
  <2> DEFINE s == OriginalScore(at - 1)
  <2> HIDE DEF s
  <2>4. s \in Int /\ OriginalScore(at) = s + c.prior /\ s <= b.score
    BY <2>1, <2>2, <2>3 DEF s
  <2> QED
    BY <1>10, <2>3, <2>4
<1> DEFINE own == [texts |-> Original(at), score |-> OriginalScore(at)]
<1>14. own.score = OriginalScore(at)
  OBVIOUS
<1>15. beam' = Trimmed(Extended) \/ beam' = Trimmed(Extended) \cup {own}
  BY DEF ExtendBeam, WithOriginal
<1> HIDE DEF own
<1>16. Trimmed(Extended) \subseteq Extended
  BY DEF Trimmed
<1>17. \A x \in beam' : x.score \in Int /\ x.score <= e.score
  BY <1>10, <1>13, <1>14, <1>15, <1>16
<1>18. Favourite(e.texts)
  <2>1. SUFFICES ASSUME NEW k \in DOMAIN e.texts
                 PROVE  \E x \in Options(InWindow(k)) : x.text = e.texts[k] /\ Favoured(x, k)
    BY DEF Favourite
  <2>2. b.texts \in Seq(Texts) /\ Len(b.texts) = at - 1 /\ o.text \in Texts
    BY <1>5, <1>6
  <2>3. /\ DOMAIN e.texts = 1 .. at /\ e.texts[at] = o.text
        /\ \A j \in 1 .. at - 1 : e.texts[j] = b.texts[j]
    BY <1>1, <1>11, <2>2
  <2>4. CASE k = at
    BY <1>4, <2>3, <2>4
  <2>5. CASE k # at
    <3>1. k \in DOMAIN b.texts /\ e.texts[k] = b.texts[k]
      BY <1>1, <2>1, <2>2, <2>3, <2>5
    <3> QED
      BY <1>2, <3>1 DEF Favourite
  <2> QED
    BY <2>4, <2>5
<1>19. e \in beam'
  BY <1>12, <1>15
<1> QED
  BY <1>13, <1>17, <1>18, <1>19

\* No other step touches the beam of a window being searched.
LEMMA AheadStep ==
  ASSUME Layout, Drawn, Given, Ahead, [Next]_vars
  PROVE  Ahead'
<1>1. SUFFICES ASSUME phase' = "search", NoBigrams' PROVE Ahead'
  BY DEF Ahead
<1>2. CASE PlaceDone \/ NextWindow
  <2>1. at' = 1 /\ beam' = EmptyBeam
    BY <1>2 DEF PlaceDone, NextWindow, Drawn
  <2>2. \A b \in beam' : b.texts = <<>> /\ b.score = 0
    BY <2>1 DEF EmptyBeam
  <2>3. PICK b \in beam' : TRUE
    BY <2>1 DEF EmptyBeam
  <2>4. \A t : t = <<>> => Favourite(t)'
    BY DEF Favourite
  <2>5. \A x \in beam' : x.score \in Int /\ x.score <= b.score
    BY <2>2
  <2> QED
    BY <2>1, <2>2, <2>3, <2>4, <2>5 DEF Ahead
<1>3. CASE ExtendBeam
  <2>1. /\ UNCHANGED <<tokens, bigram, windows, win>> /\ phase = "search" /\ at' = at + 1
        /\ at \in Nat \ {0}
    BY <1>3 DEF ExtendBeam, Layout, Cursor
  <2>2. NoBigrams
    BY <1>1, <2>1 DEF NoBigrams
  <2>3. \A t : Favourite(t)' = Favourite(t)
    BY <2>1 DEF Favourite, Favoured, InWindow
  <2>4. \A n : OriginalScore(n)' = OriginalScore(n)
    BY <2>1 DEF OriginalScore, MapThenSumSet, MapThenFoldSet, InWindow, Reward, Original
  <2>5. at' - 1 = at /\ at' # 1 /\ (win \in DOMAIN windows)'
    <3>1. win \in DOMAIN windows
      BY <1>3, ExtendFacts
    <3>2. (win \in DOMAIN windows)'
      BY <2>1, <3>1
    <3> QED
      BY <2>1, <3>2
  <2>6. /\ \A b \in beam' : b.score \in Int
        /\ \E b \in beam' :
             /\ Favourite(b.texts)
             /\ \A d \in beam' : d.score <= b.score
             /\ OriginalScore(at) <= b.score
    BY <1>3, <2>2, AheadExtend
  <2> QED
    BY <2>3, <2>4, <2>5, <2>6 DEF Ahead
<1>4. CASE UNCHANGED vars
  <2>1. /\ UNCHANGED <<phase, tokens, bigram, windows, win, at, beam>>
    BY <1>4 DEF vars
  <2>2. /\ NoBigrams' = NoBigrams
        /\ \A t : Favourite(t)' = Favourite(t)
    BY <2>1 DEF NoBigrams, Favourite, Favoured, InWindow
  <2>3. \A n : OriginalScore(n)' = OriginalScore(n)
    BY <2>1 DEF OriginalScore, MapThenSumSet, MapThenFoldSet, InWindow, Reward, Original
  <2> QED
    BY <2>1, <2>2, <2>3 DEF Ahead
<1> QED
  BY <1>1, <1>2, <1>3, <1>4
  DEF Next, PlaceWindow, SkipToken, Rank, WindowsDone, DecideToken

\* Every reachable state satisfies the invariant with the lead of the favourite.
LEMMA AheadInvariance == Spec => [](IInv /\ Given /\ Ahead)
<1>1. Init => IInv /\ Given /\ Ahead
  BY IInvInit DEF Init, Given, Ahead
<1>2. IInv /\ Given /\ Ahead /\ [Next]_vars => (IInv /\ Given /\ Ahead)'
  <2>1. Given /\ [Next]_vars => Given'
    BY DEF Given, Next, PlaceWindow, SkipToken, PlaceDone, ExtendBeam, Rank,
           WindowsDone, DecideToken, NextWindow, vars
  <2>2. IInv /\ Given /\ Ahead /\ [Next]_vars => Ahead'
    BY AheadStep DEF IInv
  <2> QED
    BY <2>1, <2>2, IInvStep
<1> QED
  BY <1>1, <1>2, PTL DEF Spec

\* Where no bigram speaks, pruning the beam never loses the best candidates
\* together, whatever beam_size, max_candidates_per_token and the priors are.
THEOREM FavouriteSurvivesCorrect == Spec => []FavouriteSurvives
<1>1. Ahead => FavouriteSurvives
  BY DEF Ahead, NoBigrams, Favourite, Favoured, FavouriteSurvives
<1> QED
  BY <1>1, AheadInvariance, PTL
-----------------------------------------------------------------------------
(***************************************************************************)
(* The scorer: how the scores of two readings compare.                     *)
(***************************************************************************)
\* Sums over sets that nothing has in common.
LEMMA SumUnion ==
  ASSUME NEW f, NEW S, IsFiniteSet(S), \A x \in S : f[x] \in Int,
         NEW A \in SUBSET S, NEW B \in SUBSET S, A \cap B = {}
  PROVE  Sum(f, A \cup B) = Sum(f, A) + Sum(f, B)
<1> DEFINE Bad == {t \in SUBSET A : Sum(f, t \cup B) # Sum(f, t) + Sum(f, B)}
<1>1. SUFFICES ASSUME Bad # {} PROVE FALSE
  OBVIOUS
<1>2. IsFiniteSet(A) /\ IsFiniteSet(B)
  BY FS_Subset
<1>3. PICK t \in Bad : \A v \in Bad : ~(v \subseteq t /\ v # t)
  <2> HIDE DEF Bad
  <2>1. Bad \subseteq SUBSET A
    BY DEF Bad
  <2> QED
    BY <1>1, <1>2, <2>1, LeastSet
<1>4. IsFiniteSet(t) /\ IsFiniteSet(t \cup B)
  BY FS_Subset
<1>5. Sum(f, B) \in Int
  BY <1>2, SumType
<1>6. CASE t = {}
  <2>1. Sum(f, t) = 0 /\ t \cup B = B
    BY <1>4, <1>6, SumStep
  <2> QED
    BY <1>5, <2>1
<1>7. CASE t # {}
  <2>1. PICK x \in t : TRUE
    BY <1>7
  <2> DEFINE v == t \ {x}
  <2>2. v \in SUBSET A /\ v \subseteq t /\ v # t
    BY <2>1
  <2>3. Sum(f, v \cup B) = Sum(f, v) + Sum(f, B)
    BY <1>3, <2>2
  <2>4. Sum(f, t) = f[x] + Sum(f, v)
    BY <1>4, SumRemove
  <2>5. Sum(f, t \cup B) = f[x] + Sum(f, v \cup B)
    <3>1. (t \cup B) \ {x} = v \cup B
      OBVIOUS
    <3>2. \A y \in t \cup B : f[y] \in Int
      OBVIOUS
    <3> HIDE DEF Bad, v
    <3> QED
      BY <1>4, <3>1, <3>2, SumRemove
  <2>6. Sum(f, v) \in Int /\ f[x] \in Int
    <3>1. IsFiniteSet(v) /\ \A y \in v : f[y] \in Int
      BY <1>4, FS_Subset
    <3> QED
      BY <3>1, SumType
  <2> HIDE DEF v
  <2>7. Sum(f, t \cup B) = Sum(f, t) + Sum(f, B)
    BY <1>5, <2>3, <2>4, <2>5, <2>6
  <2> QED
    BY <2>7
<1> QED
  BY <1>6, <1>7

\* A sum goes with its terms to other places.
LEMMA SumMoved ==
  ASSUME NEW f, NEW S, IsFiniteSet(S), \A x \in S : f[x] \in Int,
         NEW g, NEW h, \A x \in S : \A y \in S : h[x] = h[y] => x = y,
         \A x \in S : g[h[x]] = f[x]
  PROVE  Sum(g, {h[x] : x \in S}) = Sum(f, S)
<1> DEFINE Image(t) == {h[x] : x \in t}
           Bad == {t \in SUBSET S : Sum(g, Image(t)) # Sum(f, t)}
<1>1. SUFFICES ASSUME Bad # {} PROVE FALSE
  OBVIOUS
<1>2. PICK t \in Bad : \A v \in Bad : ~(v \subseteq t /\ v # t)
  <2> HIDE DEF Bad
  <2>1. Bad \subseteq SUBSET S
    BY DEF Bad
  <2> QED
    BY <1>1, <2>1, LeastSet
<1>3. IsFiniteSet(t)
  BY FS_Subset
<1>4. IsFiniteSet(Image(t))
  <2> DEFINE H == [x \in t |-> h[x]]
  <2>1. H \in Surjection(t, Image(t))
    BY DEF Surjection
  <2> QED
    BY <1>3, <2>1, FS_Surjection
<1>5. CASE t = {}
  <2>1. Image(t) = {}
    BY <1>5
  <2> QED
    BY <1>3, <1>4, <1>5, <2>1, SumStep
<1>6. CASE t # {}
  <2>1. PICK x \in t : TRUE
    BY <1>6
  <2> DEFINE v == t \ {x}
  <2>2. Sum(g, Image(v)) = Sum(f, v)
    <3>1. v \in SUBSET S /\ v \subseteq t /\ v # t
      OBVIOUS
    <3> QED
      BY <1>2, <3>1
  <2>3. Sum(f, t) = f[x] + Sum(f, v)
    BY <1>3, SumRemove
  <2>4. Image(t) \ {h[x]} = Image(v)
    OBVIOUS
  <2>5. Sum(g, Image(t)) = g[h[x]] + Sum(g, Image(v))
    <3> DEFINE T == Image(t)
               y == h[x]
    <3>1. \A z \in T : g[z] \in Int
      OBVIOUS
    <3>2. y \in T /\ T \ {y} = Image(v) /\ IsFiniteSet(T)
      BY <1>4, <2>4
    <3> HIDE DEF T, y
    <3>3. Sum(g, T) = g[y] + Sum(g, T \ {y})
      BY <3>1, <3>2, SumRemove
    <3> QED
      BY <3>2, <3>3 DEF T, y
  <2>6. x \in S /\ g[h[x]] = f[x]
    OBVIOUS
  <2> HIDE DEF Image, v
  <2>7. Sum(g, Image(t)) = Sum(f, t)
    BY <2>2, <2>3, <2>5, <2>6
  <2> QED
    BY <2>7
<1> QED
  BY <1>5, <1>6

\* A sum is as good as its terms.
LEMMA SumEqual ==
  ASSUME NEW f, NEW g, NEW S, IsFiniteSet(S), \A x \in S : f[x] \in Int,
         \A x \in S : g[x] = f[x]
  PROVE  Sum(g, S) = Sum(f, S)
<1> DEFINE h == [x \in S |-> x]
<1>1. {h[x] : x \in S} = S
  OBVIOUS
<1>2. /\ \A x \in S : \A y \in S : h[x] = h[y] => x = y
      /\ \A x \in S : g[h[x]] = f[x]
  OBVIOUS
<1>3. Sum(g, {h[x] : x \in S}) = Sum(f, S)
  <2> HIDE DEF h
  <2> QED
    BY <1>2, SumMoved
<1> QED
  BY <1>1, <1>3

\* What is never negative adds up to no less than 0.
LEMMA SumNat ==
  ASSUME NEW f, NEW S, IsFiniteSet(S), \A x \in S : f[x] \in Nat
  PROVE  Sum(f, S) \in Nat
<1> DEFINE Bad == {t \in SUBSET S : Sum(f, t) \notin Nat}
<1>1. SUFFICES ASSUME Bad # {} PROVE FALSE
  OBVIOUS
<1>2. PICK t \in Bad : \A v \in Bad : ~(v \subseteq t /\ v # t)
  <2> HIDE DEF Bad
  <2>1. Bad \subseteq SUBSET S
    BY DEF Bad
  <2> QED
    BY <1>1, <2>1, LeastSet
<1> DEFINE v == t \ {Some(t)}
<1>3. IsFiniteSet(t)
  BY FS_Subset
<1>4. Sum(f, t) = IF t = {} THEN 0 ELSE f[Some(t)] + Sum(f, v)
  BY <1>3, SumStep
<1>5. t # {}
  BY <1>4
<1>6. Some(t) \in t
  BY <1>5 DEF Some
<1>7. Sum(f, v) \in Nat
  BY <1>2, <1>6
<1> QED
  BY <1>4, <1>5, <1>6, <1>7

\* What the scorer adds up.
LEMMA AddedIsSum ==
  ASSUME NEW f, IsFiniteSet(DOMAIN f)
  PROVE  Added(f) = Sum(f, DOMAIN f)
<1> DEFINE S == DOMAIN f
           G(g) == g = [s \in SUBSET S |-> IF s = {} THEN 0 ELSE f[Some(s)] + g[s \ {Some(s)}]]
<1>1. Added(f) = (CHOOSE g : G(g))[S]
  BY DEF Added, FoldFunction, FoldFunctionOnSet, MapThenFoldSet, Some
<1> HIDE DEF S
<1>2. \A g : G(g) <=> Adds(f, S, g)
  BY DEF Adds
<1> HIDE DEF G
<1>3. \E g : Adds(f, S, g)
  BY AddsExists DEF S
<1>4. Adds(f, S, CHOOSE g : G(g))
  BY <1>2, <1>3
<1> QED
  BY <1>1, <1>4, SumIs DEF S

-----------------------------------------------------------------------------
LEMMA FiniteImage ==
  ASSUME NEW S, IsFiniteSet(S), NEW h, NEW T, T = {h[x] : x \in S}
  PROVE  IsFiniteSet(T)
<1> DEFINE H == [x \in S |-> h[x]]
<1>1. H \in Surjection(S, T)
  BY DEF Surjection
<1> QED
  BY <1>1, FS_Surjection

\* The largest of finitely many integers.
LEMMA MaxFacts ==
  ASSUME NEW S, IsFiniteSet(S), \A s \in S : s \in Int, S # {}
  PROVE  Max(S) \in S /\ \A s \in S : Max(S) >= s
<1>1. PICK m \in S : \A s \in S : s <= m
  BY MaxExists
<1>2. \A s \in S : m >= s
  BY <1>1
<1> QED
  BY <1>1, <1>2 DEF Max

\* A record that the build may meet.
Fit(record) ==
  /\ IsList(record.tokens) /\ record.score \in Nat
  /\ record.source \in DOMAIN SOURCE_WEIGHTS

LEMMA ClaimedFacts ==
  ASSUME NEW E, IsFiniteSet(E), \A e \in E : IsList(e.tokens) /\ e.score \in Nat
  PROVE  IsFiniteSet(Claimed(E)) /\ \A r \in Claimed(E) : Fit(r)
<1> DEFINE T == {e \in E : e.n >= 2 /\ e.n = Len(e.tokens)}
           h == [e \in T |-> PhraseRecord(e.tokens, e.score, "curated", e.domain)]
<1>1. Claimed(E) = {h[e] : e \in T}
  BY DEF Claimed
<1>2. IsFiniteSet(T)
  BY FS_Subset
<1>3. \A e \in T : Fit(h[e])
  BY DEF Fit, PhraseRecord, SOURCE_WEIGHTS
<1> HIDE DEF T, h
<1> QED
  BY <1>1, <1>2, <1>3, FiniteImage

LEMMA LowerAllFacts ==
  ASSUME NEW s, IsList(s)
  PROVE  IsList(LowerAll(s)) /\ Len(LowerAll(s)) = Len(s)
<1>1. s \in Seq(Range(s)) /\ DOMAIN s = 1 .. Len(s) /\ Len(s) \in Nat
  BY DEF IsList
<1>2. LowerAll(s) = [i \in 1 .. Len(s) |-> Lower(s[i])]
  BY <1>1 DEF LowerAll
<1> QED
  BY <1>1, <1>2 DEF IsList, Range

LEMMA CountedFacts ==
  ASSUME NEW E, IsFiniteSet(E), \A e \in E : IsList(e.tokens) /\ e.score \in Nat,
         NEW source \in DOMAIN SOURCE_WEIGHTS
  PROVE  IsFiniteSet(Counted(E, source)) /\ \A r \in Counted(E, source) : Fit(r)
<1> DEFINE T == {e \in E : Len(e.tokens) >= 2}
           h == [e \in T |-> PhraseRecord(LowerAll(e.tokens), e.score, source, e.domain)]
<1>1. Counted(E, source) = {h[e] : e \in T}
  BY DEF Counted
<1>2. IsFiniteSet(T)
  BY FS_Subset
<1>3. \A e \in T : Fit(h[e])
  BY LowerAllFacts DEF Fit, PhraseRecord
<1> HIDE DEF T, h
<1> QED
  BY <1>1, <1>2, <1>3, FiniteImage

LEMMA OfDomainFacts ==
  ASSUME NEW E, IsFiniteSet(E), \A e \in E : IsList(e.tokens) /\ e.score \in Nat
  PROVE  IsFiniteSet(OfDomain(E)) /\ \A r \in OfDomain(E) : Fit(r)
<1> DEFINE h == [e \in E |-> PhraseRecord(e.tokens, SOURCE_WEIGHTS.domain, "domain", e.domain)]
<1>1. OfDomain(E) = {h[e] : e \in E}
  BY DEF OfDomain
<1>2. \A e \in E : Fit(h[e])
  BY DEF Fit, PhraseRecord, SOURCE_WEIGHTS
<1> HIDE DEF h
<1> QED
  BY <1>1, <1>2, FiniteImage

\* The records of the phrase files.
LEMMA RecordsFacts ==
  ASSUME NEW files \in PhraseFiles
  PROVE  /\ IsFiniteSet(Records(files)) /\ \A r \in Records(files) : Fit(r)
         /\ IsFiniteSet(Claimed(files.negative)) /\ \A r \in Claimed(files.negative) : Fit(r)
<1>1. \A f \in Origins : IsFiniteSet(files[f]) /\ \A e \in files[f] : IsList(e.tokens) /\ e.score \in Nat
  BY PhraseFilesAssumption
<1> DEFINE A == Claimed(files.curated)
           B == Counted(files.lexicon_json, "lexicon_json")
           C == Counted(files.trusted_sqlite, "trusted_sqlite")
           D == OfDomain(files.domain)
<1>2. IsFiniteSet(A) /\ \A r \in A : Fit(r)
  BY <1>1, ClaimedFacts DEF Origins
<1>3. IsFiniteSet(B) /\ \A r \in B : Fit(r)
  BY <1>1, CountedFacts DEF Origins, SOURCE_WEIGHTS
<1>4. IsFiniteSet(C) /\ \A r \in C : Fit(r)
  BY <1>1, CountedFacts DEF Origins, SOURCE_WEIGHTS
<1>5. IsFiniteSet(D) /\ \A r \in D : Fit(r)
  BY <1>1, OfDomainFacts DEF Origins
<1>6. IsFiniteSet(Claimed(files.negative)) /\ \A r \in Claimed(files.negative) : Fit(r)
  BY <1>1, ClaimedFacts DEF Origins
<1>7. Records(files) = A \cup B \cup C \cup D
  BY DEF Records
<1> HIDE DEF A, B, C, D
<1> QED
  BY <1>2, <1>3, <1>4, <1>5, <1>6, <1>7, FS_Union

\* Only records are kept.
LEMMA DeduplicateFacts ==
  ASSUME NEW records, IsFiniteSet(records), \A r \in records : Fit(r)
  PROVE  deduplicate(records) \subseteq records
<1>1. SUFFICES ASSUME NEW key \in {dedup_key(s) : s \in records}
               PROVE  \E x \in {r \in records : dedup_key(r) = key} :
                         \A r \in {r \in records : dedup_key(r) = key} :
                            effective_score(r) <= effective_score(x)
  <2> DEFINE Group(key) == {r \in records : dedup_key(r) = key}
             First(group) == CHOOSE x \in group : \A r \in group : effective_score(r) <= effective_score(x)
  <2>1. deduplicate(records) = {First(group) : group \in {Group(key) : key \in {dedup_key(s) : s \in records}}}
    BY DEF deduplicate
  <2>2. \A key \in {dedup_key(s) : s \in records} : First(Group(key)) \in records
    BY <1>1
  <2> QED
    BY <2>1, <2>2
<1> DEFINE group == {r \in records : dedup_key(r) = key}
           h == [r \in group |-> effective_score(r)]
           S == {h[r] : r \in group}
<1>2. IsFiniteSet(group) /\ group # {}
  BY FS_Subset
<1>3. \A r \in group : h[r] \in Int
  BY DEF Fit, effective_score, SOURCE_WEIGHTS
<1>4. IsFiniteSet(S) /\ S # {} /\ \A s \in S : s \in Int
  <2> HIDE DEF group, h
  <2> QED
    BY <1>2, <1>3, FiniteImage
<1>5. PICK m \in S : \A s \in S : s <= m
  <2> HIDE DEF S
  <2> QED
    BY <1>4, MaxExists
<1>6. PICK x \in group : m = h[x]
  BY <1>5
<1>7. \A r \in group : h[r] <= h[x]
  BY <1>5, <1>6
<1> QED
  BY <1>7

\* The n-grams of a phrase that are kept.
ShortGrams(r) == {g \in _generate_ngrams(r.tokens) : Len(g) <= 4}

\* The scores that the phrases give an n-gram.
GivenBy(positive, g) == {ScoreFrom(r, g) : r \in {s \in positive : g \in ShortGrams(s)}}

LEMMA BuildFacts ==
  ASSUME NEW files \in PhraseFiles, NEW positive, positive = deduplicate(Records(files))
  PROVE  build(files).ngrams = [g \in UNION {ShortGrams(r) : r \in positive} |-> Max(GivenBy(positive, g))]
BY DEF build, BestOf, ShortGrams, GivenBy, Combined

\* A score of the file is a number from 500 to 10000, and smaller for less.
LEMMA ClampedFacts ==
  /\ \A x \in Int : Clamped(x) \in Int
  /\ \A x \in Int : \A y \in Int : x <= y => Clamped(x) <= Clamped(y)
<1> DEFINE Up(x) == Max({x, 500})
<1>1. \A x \in Int : Up(x) = IF x >= 500 THEN x ELSE 500
  <2>1. SUFFICES ASSUME NEW x \in Int PROVE Up(x) = IF x >= 500 THEN x ELSE 500
    OBVIOUS
  <2>2. Up(x) \in {x, 500} /\ Up(x) >= x /\ Up(x) >= 500
    BY MaxOfTwo
  <2> HIDE DEF Up
  <2> QED
    BY <2>2
<1>2. \A x \in Int : Clamped(x) = IF Up(x) <= 10000 THEN Up(x) ELSE 10000
  <2>1. SUFFICES ASSUME NEW x \in Int PROVE Clamped(x) = IF Up(x) <= 10000 THEN Up(x) ELSE 10000
    OBVIOUS
  <2> DEFINE u == Up(x)
  <2>2. u \in Int /\ Clamped(x) = Min({u, 10000})
    BY <1>1 DEF Clamped
  <2> HIDE DEF u
  <2>3. Clamped(x) \in {u, 10000} /\ Clamped(x) <= u /\ Clamped(x) <= 10000
    BY <2>2, MinOfTwo
  <2>4. Clamped(x) = IF u <= 10000 THEN u ELSE 10000
    BY <2>2, <2>3
  <2> QED
    BY <2>4 DEF u
<1> HIDE DEF Up
<1> QED
  BY <1>1, <1>2

\* No part of a phrase scores more than the phrase.
LEMMA ScoreFromFacts ==
  ASSUME NEW r, Fit(r), NEW g
  PROVE  /\ ScoreFrom(r, g) \in Int
         /\ ScoreFrom(r, g) <= Clamped(100 * r.score)
         /\ g = r.tokens => ScoreFrom(r, g) = Clamped(100 * r.score)
<1>1. r.score \in Nat
  BY DEF Fit
<1> DEFINE p == _score_for_phrase_tokens(Len(r.tokens), Len(g), r.score)
<1>2. p \in {100 * r.score, 85 * r.score, 70 * r.score} /\ (g = r.tokens => p = 100 * r.score)
  BY DEF _score_for_phrase_tokens
<1>3. p \in Int /\ p <= 100 * r.score
  <2> HIDE DEF p
  <2> QED
    BY <1>1, <1>2
<1>4. ScoreFrom(r, g) = Clamped(p)
  BY DEF ScoreFrom
<1> HIDE DEF p
<1> QED
  BY <1>1, <1>2, <1>3, <1>4, ClampedFacts

\* An n-gram scores the most that one of its phrases gives it.
LEMMA GivenFacts ==
  ASSUME NEW positive, IsFiniteSet(positive), \A r \in positive : Fit(r),
         NEW g \in UNION {ShortGrams(r) : r \in positive}
  PROVE  /\ Max(GivenBy(positive, g)) \in Int
         /\ \E r \in positive : g \in ShortGrams(r) /\ Max(GivenBy(positive, g)) = ScoreFrom(r, g)
         /\ \A r \in positive : g \in ShortGrams(r) => Max(GivenBy(positive, g)) >= ScoreFrom(r, g)
<1> DEFINE T == {s \in positive : g \in ShortGrams(s)}
           h == [r \in T |-> ScoreFrom(r, g)]
           S == GivenBy(positive, g)
<1>1. S = {h[r] : r \in T}
  BY DEF GivenBy
<1>2. IsFiniteSet(T) /\ T # {}
  BY FS_Subset
<1>3. \A r \in T : h[r] \in Int /\ h[r] = ScoreFrom(r, g)
  BY ScoreFromFacts
<1>4. T = {s \in positive : g \in ShortGrams(s)}
  OBVIOUS
<1> HIDE DEF T, h, S
<1>5. IsFiniteSet(S) /\ S # {} /\ \A s \in S : s \in Int
  BY <1>1, <1>2, <1>3, FiniteImage
<1>6. Max(S) \in S /\ \A s \in S : Max(S) >= s
  BY <1>5, MaxFacts
<1>7. \E r \in T : Max(S) = ScoreFrom(r, g)
  BY <1>1, <1>3, <1>6
<1>8. \A r \in T : Max(S) >= ScoreFrom(r, g)
  BY <1>1, <1>3, <1>6
<1> QED
  BY <1>4, <1>5, <1>6, <1>7, <1>8 DEF S

\* The whole phrase is one of its n-grams.
LEMMA WholeGram ==
  ASSUME NEW s, IsList(s), Len(s) >= 2
  PROVE  s \in _generate_ngrams(s)
<1>1. s \in Seq(Range(s)) /\ Len(s) \in Nat
  BY DEF IsList
<1>2. SubSeq(s, 1, Len(s)) = s
  BY <1>1
<1> DEFINE Runs(n) == {SubSeq(s, i, i + n - 1) : i \in 1 .. Len(s) - n + 1}
<1>3. \A n \in Nat : n = Len(s) => s \in Runs(n)
  <2>1. SUFFICES ASSUME NEW n \in Nat, n = Len(s) PROVE s \in Runs(n)
    OBVIOUS
  <2>2. 1 \in 1 .. Len(s) - n + 1 /\ SubSeq(s, 1, 1 + n - 1) = s
    BY <1>1, <1>2, <2>1
  <2> QED
    BY <2>2
<1>4. _generate_ngrams(s) = UNION {Runs(n) : n \in 2 .. Len(s)}
  BY DEF _generate_ngrams
<1>5. Len(s) \in 2 .. Len(s)
  BY <1>1
<1> HIDE DEF Runs
<1> QED
  BY <1>1, <1>3, <1>4, <1>5

\* What a build writes keeps the score of every phrase.
LEMMA BuildKeeps ==
  ASSUME NEW files \in PhraseFiles
  PROVE  LET kept == deduplicate(Records(files))
             ngrams == build(files).ngrams
         IN  /\ \A r \in kept : Len(r.tokens) \in 2 .. 4 =>
                   ScoreOr0(ngrams, r.tokens) >= Clamped(100 * r.score)
             /\ \A g \in DOMAIN ngrams : ngrams[g] \in Int
             /\ \A g \in DOMAIN ngrams :
                   \E r \in Records(files) :
                      g \in _generate_ngrams(r.tokens) /\ ngrams[g] <= Clamped(100 * r.score)
<1> DEFINE kept == deduplicate(Records(files))
           ngrams == build(files).ngrams
<1>1. ngrams = [g \in UNION {ShortGrams(r) : r \in kept} |-> Max(GivenBy(kept, g))]
  BY BuildFacts
<1>2. kept \subseteq Records(files) /\ IsFiniteSet(kept) /\ \A r \in kept : Fit(r)
  BY RecordsFacts, DeduplicateFacts, FS_Subset
<1> HIDE DEF kept, ngrams
<1>3. ASSUME NEW r \in kept, Len(r.tokens) \in 2 .. 4
      PROVE  ScoreOr0(ngrams, r.tokens) >= Clamped(100 * r.score)
  <2> DEFINE g == r.tokens
  <2>1. Fit(r) /\ IsList(g)
    BY <1>2 DEF Fit
  <2>2. g \in ShortGrams(r)
    <3>1. g \in _generate_ngrams(g) /\ Len(g) <= 4
      <4>1. Len(g) \in 2 .. 4
        BY <1>3
      <4> HIDE DEF g
      <4>2. Len(g) >= 2 /\ Len(g) <= 4
        <5> DEFINE n == Len(g)
        <5>1. n \in 2 .. 4
          BY <4>1
        <5> HIDE DEF n
        <5>2. n >= 2 /\ n <= 4
          BY <5>1
        <5> QED
          BY <5>2 DEF n
      <4> QED
        BY <2>1, <4>2, WholeGram
    <3> QED
      BY <3>1 DEF ShortGrams
  <2> HIDE DEF g
  <2>3. g \in UNION {ShortGrams(s) : s \in kept}
    BY <2>2
  <2>4. Max(GivenBy(kept, g)) >= ScoreFrom(r, g)
    BY <1>2, <2>2, <2>3, GivenFacts
  <2>5. ScoreOr0(ngrams, g) = Max(GivenBy(kept, g))
    BY <1>1, <2>3 DEF ScoreOr0
  <2>6. ScoreFrom(r, g) = Clamped(100 * r.score)
    BY <2>1, ScoreFromFacts DEF g
  <2> QED
    BY <2>4, <2>5, <2>6 DEF g
<1>4. ASSUME NEW g \in DOMAIN ngrams
      PROVE  /\ ngrams[g] \in Int
             /\ \E r \in Records(files) :
                   g \in _generate_ngrams(r.tokens) /\ ngrams[g] <= Clamped(100 * r.score)
  <2>1. g \in UNION {ShortGrams(r) : r \in kept} /\ ngrams[g] = Max(GivenBy(kept, g))
    BY <1>1
  <2>2. PICK r \in kept : g \in ShortGrams(r) /\ ngrams[g] = ScoreFrom(r, g)
    BY <1>2, <2>1, GivenFacts
  <2>3. r \in Records(files) /\ Fit(r)
    BY <1>2
  <2>4. ScoreFrom(r, g) \in Int /\ ScoreFrom(r, g) <= Clamped(100 * r.score)
    BY <2>3, ScoreFromFacts
  <2> QED
    BY <2>2, <2>3, <2>4 DEF ShortGrams
<1> QED
  BY <1>3, <1>4 DEF kept, ngrams

\* The scores of a store are integers.
Numbers(ngrams) ==
  /\ \A g \in DOMAIN ngrams.ngrams : ngrams.ngrams[g] \in Int
  /\ \A d \in DOMAIN ngrams.domains :
       \A g \in DOMAIN ngrams.domains[d] : ngrams.domains[d][g] \in Int
  /\ \A g \in DOMAIN ngrams.negative : ngrams.negative[g] \in Int

\* The best score of the phrases with the same tokens.
LEMMA WholeScores ==
  ASSUME NEW R, IsFiniteSet(R), \A r \in R : Fit(r), NEW key \in UNION {{r.tokens} : r \in R}
  PROVE  Max({100 * r.score : r \in {s \in R : key \in {s.tokens}}}) \in Int
<1> DEFINE T == {s \in R : key \in {s.tokens}}
           h == [r \in T |-> 100 * r.score]
           S == {100 * r.score : r \in T}
<1>1. S = {h[r] : r \in T}
  OBVIOUS
<1>2. IsFiniteSet(T) /\ T # {}
  BY FS_Subset
<1>3. \A r \in T : h[r] \in Int
  BY DEF Fit
<1> HIDE DEF T, h
<1>4. IsFiniteSet(S) /\ S # {} /\ \A s \in S : s \in Int
  <2> HIDE DEF S
  <2> QED
    BY <1>1, <1>2, <1>3, FiniteImage
<1> HIDE DEF S
<1>5. Max(S) \in Int
  BY <1>4, MaxFacts
<1> QED
  BY <1>5 DEF S, T

LEMMA BuildNumbers ==
  ASSUME NEW files \in PhraseFiles
  PROVE  Numbers(build(files))
<1> DEFINE kept == deduplicate(Records(files))
           Of(d) == {r \in kept : r.domain = d}
           Whole(R) == [key \in UNION {{r.tokens} : r \in R} |->
                          Max({100 * r.score : r \in {s \in R : key \in {s.tokens}}})]
<1>1. kept \subseteq Records(files) /\ IsFiniteSet(kept) /\ \A r \in kept : Fit(r)
  BY RecordsFacts, DeduplicateFacts, FS_Subset
<1>2. /\ build(files).domains = [d \in {r.domain : r \in kept} \ {NoDomain} |-> Whole(Of(d))]
      /\ build(files).negative = Whole(Claimed(files.negative))
  BY DEF build, BestOf, Combined
<1>3. ASSUME NEW R, IsFiniteSet(R), \A r \in R : Fit(r)
      PROVE  \A key \in DOMAIN Whole(R) : Whole(R)[key] \in Int
  BY <1>3, WholeScores
<1>4. \A d : IsFiniteSet(Of(d)) /\ \A r \in Of(d) : Fit(r)
  BY <1>1, FS_Subset
<1>5. IsFiniteSet(Claimed(files.negative)) /\ \A r \in Claimed(files.negative) : Fit(r)
  BY RecordsFacts
<1>6. \A g \in DOMAIN build(files).ngrams : build(files).ngrams[g] \in Int
  BY BuildKeeps
<1> HIDE DEF kept, Of, Whole
<1> QED
  BY <1>2, <1>3, <1>4, <1>5, <1>6 DEF Numbers

\* A quotient is no more than its dividend, and no less for a smaller divisor.
LEMMA QuotientFacts ==
  /\ \A a \in Nat : \A d \in Nat \ {0} : a \div d \in Nat /\ a \div d <= a
  /\ \A a \in Nat : \A d \in Nat \ {0} : a \div (d + 1) <= a \div d
<1>1. ASSUME NEW a \in Nat, NEW d \in Nat \ {0}
      PROVE  /\ a \div d \in Int
             /\ d * (a \div d) <= a
             /\ a < d * (a \div d) + d
  OBVIOUS
<1>2. ASSUME NEW a \in Nat, NEW d \in Nat \ {0}
      PROVE  a \div d \in Nat /\ a \div d <= a
  <2> DEFINE q == a \div d
  <2>1. q \in Int /\ d * q <= a /\ a < d * q + d
    BY <1>1
  <2> HIDE DEF q
  <2>2. q >= 0
    BY <2>1
  <2>3. q <= d * q
    BY <2>1, <2>2
  <2> QED
    BY <2>1, <2>2, <2>3 DEF q
<1>3. ASSUME NEW a \in Nat, NEW d \in Nat \ {0}
      PROVE  a \div (d + 1) <= a \div d
  <2> DEFINE e == d + 1
             q == a \div d
             p == a \div e
  <2>1. q \in Int /\ d * q <= a /\ a < d * q + d
    BY <1>1
  <2>2. p \in Nat /\ e * p <= a
    <3>1. e \in Nat \ {0}
      OBVIOUS
    <3> HIDE DEF e
    <3> QED
      BY <1>1, <1>2, <3>1
  <2> HIDE DEF p, q
  <2>3. d * p <= a
    BY <2>2
  <2>4. p <= q
    <3>1. SUFFICES ASSUME p >= q + 1 PROVE FALSE
      BY <2>1, <2>2
    <3>2. d * p >= d * (q + 1)
      BY <2>1, <2>2, <3>1
    <3> QED
      BY <2>1, <2>2, <2>3, <3>2
  <2> QED
    BY <2>4 DEF p, q
<1> QED
  BY <1>2, <1>3

-----------------------------------------------------------------------------
\* A window as the generator gives it.
Proper(w) ==
  /\ IsList(w)
  /\ \A i \in DOMAIN w :
       /\ IsFiniteSet(w[i].candidates)
       /\ \E c \in w[i].candidates : c.text = w[i].text
       /\ \A c \in w[i].candidates :
            /\ c.edit \in Nat \cup {None}
            /\ \A d \in w[i].candidates : d.text = c.text => d = c

LEMMA WindowsProper == \A w \in Windows \cup {<<>>} : Proper(w)
<1>1. Proper(<<>>)
  BY DEF Proper, IsList, Range
<1> QED
  BY <1>1, WindowsAssumption DEF Proper

LEMMA PlacesFacts ==
  ASSUME NEW w, Proper(w)
  PROVE  DOMAIN w = 1 .. Len(w) /\ Len(w) \in Nat /\ IsFiniteSet(DOMAIN w)
<1>1. w \in Seq(Range(w))
  BY DEF Proper, IsList
<1>2. DOMAIN w = 1 .. Len(w) /\ Len(w) \in Nat
  BY <1>1
<1> QED
  BY <1>2, FS_Interval

\* A reading has a text for each place; the text as written is one.
LEMMA ReadingFacts ==
  ASSUME NEW w, Proper(w), NEW r \in Combinations(w)
  PROVE  /\ DOMAIN r = DOMAIN w /\ r = [i \in DOMAIN w |-> r[i]]
         /\ Changed(r, original_tokens(w)) = {i \in DOMAIN w : r[i] # w[i].text}
         /\ IsFiniteSet(Changed(r, original_tokens(w)))
<1>1. DOMAIN r = DOMAIN w /\ r = [i \in DOMAIN w |-> r[i]]
  BY DEF Combinations
<1>2. Changed(r, original_tokens(w)) = {i \in DOMAIN w : r[i] # w[i].text}
  BY <1>1 DEF Changed, original_tokens
<1>3. IsFiniteSet(Changed(r, original_tokens(w)))
  BY <1>2, PlacesFacts, FS_Subset
<1> QED
  BY <1>1, <1>2, <1>3

LEMMA WrittenIsReading ==
  ASSUME NEW w, Proper(w)
  PROVE  original_tokens(w) \in Combinations(w)
<1> DEFINE all == UNION {{c.text : c \in w[i].candidates} : i \in DOMAIN w}
<1>1. \A i \in DOMAIN w : \E c \in w[i].candidates : c.text = w[i].text
  BY DEF Proper
<1>2. \A i \in DOMAIN w : w[i].text \in all
  BY <1>1
<1>3. original_tokens(w) \in [DOMAIN w -> all]
  BY <1>2 DEF original_tokens
<1> QED
  BY <1>1, <1>3 DEF Combinations, original_tokens

\* The candidates with a text that have a distance, and what they add.
Near(w, k, text) == {d \in w[k].candidates : d.text = text /\ d.edit # None}

Distances(w, k, text) == Added([c \in Near(w, k, text) |-> 60000 \div (1 + c.edit)])

\* What a text at a place is credited for its distance, and for confusions.
EditOf(w, i, text) ==
  IF text = w[i].text THEN 60000
  ELSE Added([k \in Same(w, i) |-> Distances(w, k, text)])

Confused(w, i, text) == {k \in Same(w, i) : \E c \in w[k].candidates : c.text = text /\ c.ocr}

EditTerms(w, r) == [i \in DOMAIN w |-> EditOf(w, i, r[i])]
ConfusionTerms(w, r) == [i \in DOMAIN w |-> Cardinality(Confused(w, i, r[i]))]

LEMMA DistancesFacts ==
  ASSUME NEW w, Proper(w), NEW k \in DOMAIN w, NEW text
  PROVE  Distances(w, k, text) \in Nat /\ Distances(w, k, text) <= 60000
<1> DEFINE S == Near(w, k, text)
           f == [c \in S |-> 60000 \div (1 + c.edit)]
<1>1. IsFiniteSet(S)
  BY FS_Subset DEF Near, Proper
<1>2. Distances(w, k, text) = Sum(f, S)
  BY <1>1, AddedIsSum DEF Distances
<1>3. \A c \in S : f[c] \in Nat /\ f[c] <= 60000
  <2>1. SUFFICES ASSUME NEW c \in S PROVE 60000 \div (1 + c.edit) \in Nat /\ 60000 \div (1 + c.edit) <= 60000
    OBVIOUS
  <2>2. c.edit \in Nat
    BY DEF Near, Proper
  <2> DEFINE d == 1 + c.edit
  <2>3. d \in Nat \ {0}
    BY <2>2
  <2> HIDE DEF d
  <2>4. 60000 \div d \in Nat /\ 60000 \div d <= 60000
    BY <2>3, QuotientFacts
  <2> QED
    BY <2>4 DEF d
<1>4. \A c \in S : \A d \in S : c = d
  BY DEF Near, Proper
<1> HIDE DEF S, f
<1>5. CASE S = {}
  BY <1>1, <1>2, <1>5, SumStep
<1>6. CASE S # {}
  <2>1. PICK c \in S : TRUE
    BY <1>6
  <2>2. S \ {c} = {} /\ IsFiniteSet({})
    BY <1>4, FS_EmptySet
  <2>3. Sum(f, S) = f[c] + Sum(f, S \ {c})
    BY <1>1, <1>3, SumRemove
  <2>4. Sum(f, {}) = 0
    BY <2>2, SumStep
  <2>5. f[c] \in Nat /\ f[c] <= 60000
    BY <1>3
  <2> QED
    BY <1>2, <2>2, <2>3, <2>4, <2>5
<1> QED
  BY <1>5, <1>6

LEMMA TermsFacts ==
  ASSUME NEW w, Proper(w), NEW i \in DOMAIN w, NEW text
  PROVE  /\ IsFiniteSet(Same(w, i)) /\ i \in Same(w, i)
         /\ EditOf(w, i, text) \in Nat
         /\ Cardinality(Confused(w, i, text)) \in Nat
<1>1. IsFiniteSet(Same(w, i)) /\ i \in Same(w, i) /\ Same(w, i) \subseteq DOMAIN w
  BY PlacesFacts, FS_Subset DEF Same
<1>2. Cardinality(Confused(w, i, text)) \in Nat
  <2>1. IsFiniteSet(Confused(w, i, text))
    BY <1>1, FS_Subset DEF Confused
  <2> QED
    BY <2>1, FS_CardinalityType
<1>3. EditOf(w, i, text) \in Nat
  <2> DEFINE f == [k \in Same(w, i) |-> Distances(w, k, text)]
  <2>1. \A k \in Same(w, i) : f[k] \in Nat
    <3>1. \A k \in Same(w, i) : Distances(w, k, text) \in Nat
      BY <1>1, DistancesFacts
    <3> QED
      BY <3>1
  <2>2. Added(f) = Sum(f, Same(w, i))
    BY <1>1, AddedIsSum
  <2>3. Sum(f, Same(w, i)) \in Nat
    <3> HIDE DEF f
    <3> QED
      BY <1>1, <2>1, SumNat
  <2> QED
    BY <2>2, <2>3 DEF EditOf
<1> QED
  BY <1>1, <1>2, <1>3

\* The two signals that the places of a window add up to.
LEMMA SignalSums ==
  ASSUME NEW w, Proper(w), NEW r \in Combinations(w)
  PROVE  /\ _score_edit_distance(w, r) = Sum(EditTerms(w, r), DOMAIN w)
         /\ _score_ocr_confusion(w, r) = Sum(ConfusionTerms(w, r), Changed(r, original_tokens(w)))
         /\ \A i \in DOMAIN w : EditTerms(w, r)[i] \in Nat /\ ConfusionTerms(w, r)[i] \in Nat
<1> DEFINE C == Changed(r, original_tokens(w))
           f == [i \in C |-> Cardinality(Confused(w, i, r[i]))]
<1>1. IsFiniteSet(DOMAIN w) /\ IsFiniteSet(C) /\ C \subseteq DOMAIN w
  BY PlacesFacts, ReadingFacts
<1>2. \A i \in DOMAIN w : EditTerms(w, r)[i] \in Nat /\ ConfusionTerms(w, r)[i] \in Nat
  BY TermsFacts DEF EditTerms, ConfusionTerms
<1>3. _score_edit_distance(w, r) = Sum(EditTerms(w, r), DOMAIN w)
  <2>1. _score_edit_distance(w, r) = Added(EditTerms(w, r))
    BY DEF _score_edit_distance, EditTerms, EditOf, Distances, Near
  <2>2. DOMAIN EditTerms(w, r) = DOMAIN w
    BY DEF EditTerms
  <2> QED
    BY <1>1, <2>1, <2>2, AddedIsSum
<1>4. _score_ocr_confusion(w, r) = Sum(f, C)
  <2>1. _score_ocr_confusion(w, r) = Added(f)
    BY DEF _score_ocr_confusion, Confused
  <2>2. DOMAIN f = C
    OBVIOUS
  <2> HIDE DEF f, C
  <2> QED
    BY <1>1, <2>1, <2>2, AddedIsSum
<1>5. Sum(ConfusionTerms(w, r), C) = Sum(f, C)
  <2>1. \A i \in C : f[i] \in Int /\ ConfusionTerms(w, r)[i] = f[i]
    BY <1>1, <1>2 DEF ConfusionTerms
  <2> HIDE DEF f, C
  <2> QED
    BY <1>1, <2>1, SumEqual
<1> QED
  BY <1>2, <1>3, <1>4, <1>5

\* An n-gram score is an integer.
LEMMA ScoreOr0Type ==
  ASSUME NEW dict, \A g \in DOMAIN dict : dict[g] \in Int, NEW key
  PROVE  ScoreOr0(dict, key) \in Int
BY DEF ScoreOr0

\* The n-grams of one length add up to an integer.
LEMMA GramSumType ==
  ASSUME NEW ngrams, Numbers(ngrams), NEW content, NEW m \in Int, NEW n
  PROVE  Added([i \in 1 .. m |-> phrase_score(ngrams, SubSeq(content, i, i + n - 1))]) \in Int
<1> DEFINE f == [i \in 1 .. m |-> phrase_score(ngrams, SubSeq(content, i, i + n - 1))]
           S == 1 .. m
<1>1. \A i \in S : f[i] \in Int
  BY ScoreOr0Type DEF phrase_score, Numbers
<1>2. IsFiniteSet(S) /\ DOMAIN f = S
  BY FS_Interval
<1> HIDE DEF f, S
<1>3. Added(f) = Sum(f, S) /\ Sum(f, S) \in Int
  BY <1>1, <1>2, AddedIsSum, SumType
<1> QED
  BY <1>3 DEF f

\* The counts of a reading.
LEMMA CountsType ==
  ASSUME NEW w, Proper(w), NEW r \in Combinations(w), NEW ngrams
  PROVE  /\ _score_word_validity(r) \in Nat
         /\ _score_syllable_freq(r) \in Nat
         /\ Cardinality(Changed(r, original_tokens(w))) \in Nat
         /\ Cardinality(Penalized(ngrams, r, original_tokens(w))) \in Nat
         /\ IsFiniteSet(Penalized(ngrams, r, original_tokens(w)))
<1>1. IsFiniteSet(DOMAIN r) /\ IsFiniteSet(Changed(r, original_tokens(w)))
  BY PlacesFacts, ReadingFacts
<1>2. IsFiniteSet(Penalized(ngrams, r, original_tokens(w)))
  BY <1>1, FS_Subset DEF Penalized
<1>3. \A S \in SUBSET DOMAIN r : Cardinality(S) \in Nat
  BY <1>1, FS_Subset, FS_CardinalityType
<1>4. _score_word_validity(r) \in Nat /\ _score_syllable_freq(r) \in Nat
  BY <1>3 DEF _score_word_validity, _score_syllable_freq
<1> QED
  BY <1>1, <1>2, <1>4, FS_CardinalityType

\* A content has as many words as it has places.
LEMMA ContentLength ==
  ASSUME NEW w, Proper(w), NEW r \in Combinations(w)
  PROVE  Len(Content(r)) \in Nat
<1> DEFINE I == {i \in DOMAIN r : ~IsSpace(r[i])}
           m == Cardinality(I)
<1>1. m \in Nat
  BY PlacesFacts, ReadingFacts, FS_Subset, FS_CardinalityType
<1>2. DOMAIN Content(r) = 1 .. m
  BY DEF Content, Pick
<1> HIDE DEF m
<1> QED
  BY <1>1, <1>2

\* The scores of a reading are integers.
LEMMA ScoreTypes ==
  ASSUME NEW w, Proper(w), NEW r \in Combinations(w), NEW ngrams, Numbers(ngrams), NEW dom
  PROVE  /\ _score_phrase_ngram(ngrams, r) \in Int
         /\ _score_domain_context(ngrams, r, dom) \in Int
         /\ negative_phrase_score(ngrams, Content(r)) \in Int
         /\ _score_ocr_confusion(w, r) \in Int
         /\ _score_edit_distance(w, r) \in Int
         /\ _score_overcorrection_penalty(ngrams, r, original_tokens(w)) \in Int
<1>1. _score_phrase_ngram(ngrams, r) \in Int
  <2> DEFINE content == Content(r)
             At(n) == Added([i \in 1 .. Len(content) - n + 1 |->
                               phrase_score(ngrams, SubSeq(content, i, i + n - 1))])
  <2>1. Len(content) \in Nat
    BY ContentLength
  <2> HIDE DEF content
  <2>2. At(2) \in Int /\ At(3) \in Int /\ At(4) \in Int
    <3>1. \A n \in Nat : At(n) \in Int
      <4>1. SUFFICES ASSUME NEW n \in Nat PROVE At(n) \in Int
        OBVIOUS
      <4> DEFINE m == Len(content) - n + 1
      <4>2. m \in Int
        BY <2>1
      <4> HIDE DEF m
      <4>3. Added([i \in 1 .. m |-> phrase_score(ngrams, SubSeq(content, i, i + n - 1))]) \in Int
        BY <4>2, GramSumType
      <4> QED
        BY <4>3 DEF m
    <3> HIDE DEF At
    <3> QED
      BY <3>1
  <2>3. _score_phrase_ngram(ngrams, r) = At(2) + At(3) + At(4)
    BY DEF _score_phrase_ngram, content
  <2> HIDE DEF At
  <2> QED
    BY <2>2, <2>3
<1>2. _score_domain_context(ngrams, r, dom) \in Int
  BY ScoreOr0Type DEF _score_domain_context, domain_phrase_score, Numbers
<1>3. negative_phrase_score(ngrams, Content(r)) \in Int
  BY ScoreOr0Type DEF negative_phrase_score, Numbers
<1>4. _score_ocr_confusion(w, r) \in Int
  <2>1. /\ IsFiniteSet(Changed(r, original_tokens(w))) /\ Changed(r, original_tokens(w)) \subseteq DOMAIN w
        /\ \A i \in DOMAIN w : ConfusionTerms(w, r)[i] \in Int
    BY ReadingFacts, SignalSums
  <2>2. Sum(ConfusionTerms(w, r), Changed(r, original_tokens(w))) \in Int
    BY <2>1, SumType
  <2> QED
    BY <2>2, SignalSums
<1>5. _score_edit_distance(w, r) \in Int
  <2>1. /\ IsFiniteSet(DOMAIN w)
        /\ \A i \in DOMAIN w : EditTerms(w, r)[i] \in Int
    BY PlacesFacts, SignalSums
  <2>2. Sum(EditTerms(w, r), DOMAIN w) \in Int
    BY <2>1, SumType
  <2> QED
    BY <2>2, SignalSums
<1>6. _score_overcorrection_penalty(ngrams, r, original_tokens(w)) \in Int
  <2> DEFINE t == Cardinality(Changed(r, original_tokens(w)))
             p == Cardinality(Penalized(ngrams, r, original_tokens(w)))
  <2>1. t \in Nat /\ p \in Nat
    BY CountsType
  <2>2. _score_overcorrection_penalty(ngrams, r, original_tokens(w)) = IF t = 0 THEN 0 ELSE (130000 * p) \div t
    BY DEF _score_overcorrection_penalty
  <2> HIDE DEF t, p
  <2>3. t # 0 => (130000 * p) \div t \in Nat
    BY <2>1, QuotientFacts
  <2> QED
    BY <2>2, <2>3
<1> QED
  BY <1>1, <1>2, <1>3, <1>4, <1>5, <1>6

-----------------------------------------------------------------------------
(***************************************************************************)
(* Two readings that differ in one place.                                  *)
(***************************************************************************)
\* One place counts for one.
LEMMA CountOne ==
  ASSUME NEW S, IsFiniteSet(S), NEW P, P \subseteq S, NEW i
  PROVE  /\ Cardinality(P \ {i}) \in Nat
         /\ Cardinality(P) = Cardinality(P \ {i}) + (IF i \in P THEN 1 ELSE 0)
<1>1. IsFiniteSet(P) /\ IsFiniteSet(P \ {i})
  BY FS_Subset
<1>2. Cardinality(P \ {i}) \in Nat
  BY <1>1, FS_CardinalityType
<1>3. CASE i \in P
  <2>1. P = (P \ {i}) \cup {i} /\ i \notin P \ {i}
    BY <1>3
  <2>2. Cardinality((P \ {i}) \cup {i}) = Cardinality(P \ {i}) + 1
    BY <1>1, <2>1, FS_AddElement
  <2> QED
    BY <1>2, <1>3, <2>1, <2>2
<1>4. CASE i \notin P
  <2>1. P \ {i} = P
    BY <1>4
  <2> DEFINE n == Cardinality(P \ {i})
  <2>2. n = Cardinality(P)
    BY <2>1
  <2>3. n \in Nat
    BY <1>2
  <2> HIDE DEF n
  <2>4. Cardinality(P) = n + (IF i \in P THEN 1 ELSE 0)
    BY <1>4, <2>2, <2>3
  <2> QED
    BY <1>2, <2>4 DEF n
<1> QED
  BY <1>2, <1>3, <1>4

\* The readings of a window agree but at one place, where q is as written.
OneMore(w, r, q, i) ==
  /\ Proper(w) /\ r \in Combinations(w) /\ q \in Combinations(w)
  /\ i \in DOMAIN w /\ q[i] = w[i].text
  /\ Changed(r, q) = {i}

LEMMA OneMoreFacts ==
  ASSUME NEW w, NEW r, NEW q, NEW i, OneMore(w, r, q, i)
  PROVE  /\ r[i] # q[i] /\ \A j \in DOMAIN w : j # i => r[j] = q[j]
         /\ Changed(r, original_tokens(w)) = Changed(q, original_tokens(w)) \cup {i}
         /\ i \notin Changed(q, original_tokens(w))
<1>1. DOMAIN r = DOMAIN w /\ DOMAIN q = DOMAIN w
  BY ReadingFacts DEF OneMore
<1>2. r[i] # q[i] /\ \A j \in DOMAIN w : j # i => r[j] = q[j]
  BY <1>1 DEF OneMore, Changed
<1>3. /\ Changed(r, original_tokens(w)) = {j \in DOMAIN w : r[j] # w[j].text}
      /\ Changed(q, original_tokens(w)) = {j \in DOMAIN w : q[j] # w[j].text}
  BY ReadingFacts DEF OneMore
<1> QED
  BY <1>2, <1>3 DEF OneMore

\* How the counts of words and syllables differ.
LEMMA CountsOneMore ==
  ASSUME NEW w, NEW r, NEW q, NEW i, OneMore(w, r, q, i)
  PROVE  /\ _score_word_validity(q) \in Nat
         /\ _score_word_validity(r) =
              _score_word_validity(q) + (IF contains_word(r[i]) THEN 1 ELSE 0)
                - (IF contains_word(q[i]) THEN 1 ELSE 0)
         /\ _score_syllable_freq(q) \in Nat
         /\ _score_syllable_freq(r) =
              _score_syllable_freq(q) + (IF contains_syllable(r[i]) THEN 1 ELSE 0)
                - (IF contains_syllable(q[i]) THEN 1 ELSE 0)
<1>1. /\ DOMAIN r = DOMAIN w /\ DOMAIN q = DOMAIN w /\ i \in DOMAIN w
      /\ IsFiniteSet(DOMAIN w)
  BY ReadingFacts, PlacesFacts DEF OneMore
<1>2. \A j \in DOMAIN w : j # i => r[j] = q[j]
  BY OneMoreFacts
<1> DEFINE D == DOMAIN w
           WR == {j \in D : contains_word(r[j])}
           WQ == {j \in D : contains_word(q[j])}
           SR == {j \in D : contains_syllable(r[j])}
           SQ == {j \in D : contains_syllable(q[j])}
<1>3. /\ _score_word_validity(r) = Cardinality(WR) /\ _score_word_validity(q) = Cardinality(WQ)
      /\ _score_syllable_freq(r) = Cardinality(SR) /\ _score_syllable_freq(q) = Cardinality(SQ)
  BY <1>1 DEF _score_word_validity, _score_syllable_freq
<1>4. /\ WR \ {i} = WQ \ {i} /\ WR \subseteq D /\ WQ \subseteq D
      /\ i \in WR <=> contains_word(r[i])
      /\ i \in WQ <=> contains_word(q[i])
  BY <1>1, <1>2
<1>5. /\ SR \ {i} = SQ \ {i} /\ SR \subseteq D /\ SQ \subseteq D
      /\ i \in SR <=> contains_syllable(r[i])
      /\ i \in SQ <=> contains_syllable(q[i])
  BY <1>1, <1>2
<1> HIDE DEF WR, WQ, SR, SQ
<1>6. /\ Cardinality(WR) = Cardinality(WR \ {i}) + (IF i \in WR THEN 1 ELSE 0)
      /\ Cardinality(WQ) = Cardinality(WQ \ {i}) + (IF i \in WQ THEN 1 ELSE 0)
      /\ Cardinality(WQ \ {i}) \in Nat
  BY <1>1, <1>4, CountOne
<1>7. /\ Cardinality(SR) = Cardinality(SR \ {i}) + (IF i \in SR THEN 1 ELSE 0)
      /\ Cardinality(SQ) = Cardinality(SQ \ {i}) + (IF i \in SQ THEN 1 ELSE 0)
      /\ Cardinality(SQ \ {i}) \in Nat
  BY <1>1, <1>5, CountOne
<1>8. /\ Cardinality(WQ) \in Nat
      /\ Cardinality(WR) = Cardinality(WQ) + (IF i \in WR THEN 1 ELSE 0) - (IF i \in WQ THEN 1 ELSE 0)
  <2> DEFINE n == Cardinality(WQ \ {i})
  <2>1. /\ Cardinality(WR) = n + (IF i \in WR THEN 1 ELSE 0)
        /\ Cardinality(WQ) = n + (IF i \in WQ THEN 1 ELSE 0)
        /\ n \in Nat
    BY <1>4, <1>6
  <2> HIDE DEF n
  <2> QED
    BY <2>1
<1>9. /\ Cardinality(SQ) \in Nat
      /\ Cardinality(SR) = Cardinality(SQ) + (IF i \in SR THEN 1 ELSE 0) - (IF i \in SQ THEN 1 ELSE 0)
  <2> DEFINE n == Cardinality(SQ \ {i})
  <2>1. /\ Cardinality(SR) = n + (IF i \in SR THEN 1 ELSE 0)
        /\ Cardinality(SQ) = n + (IF i \in SQ THEN 1 ELSE 0)
        /\ n \in Nat
    BY <1>5, <1>7
  <2> HIDE DEF n
  <2> QED
    BY <2>1
<1> QED
  BY <1>3, <1>4, <1>5, <1>8, <1>9

\* How the credit for distances and for confusions differs.
LEMMA SignalsOneMore ==
  ASSUME NEW w, NEW r, NEW q, NEW i, OneMore(w, r, q, i)
  PROVE  /\ _score_edit_distance(w, r) = _score_edit_distance(w, q) - 60000 + EditOf(w, i, r[i])
         /\ _score_ocr_confusion(w, r) =
              _score_ocr_confusion(w, q) + Cardinality(Confused(w, i, r[i]))
<1> DEFINE D == DOMAIN w
           er == EditTerms(w, r)
           eq == EditTerms(w, q)
           cr == ConfusionTerms(w, r)
           cq == ConfusionTerms(w, q)
           B == Changed(q, original_tokens(w))
<1>1. IsFiniteSet(D) /\ i \in D /\ IsFiniteSet(D \ {i}) /\ B \subseteq D /\ IsFiniteSet(B)
  BY PlacesFacts, ReadingFacts, FS_Subset DEF OneMore
<1>2. \A j \in D : er[j] \in Nat /\ eq[j] \in Nat /\ cr[j] \in Nat /\ cq[j] \in Nat
  BY SignalSums DEF OneMore
<1>3. \A j \in D : j # i => er[j] = eq[j] /\ cr[j] = cq[j]
  BY OneMoreFacts DEF EditTerms, ConfusionTerms
<1>4. eq[i] = 60000 /\ er[i] = EditOf(w, i, r[i]) /\ cr[i] = Cardinality(Confused(w, i, r[i]))
  BY <1>1 DEF EditTerms, ConfusionTerms, EditOf, OneMore
<1>5. i \notin B /\ Changed(r, original_tokens(w)) = B \cup {i}
  BY OneMoreFacts
<1>6. /\ _score_edit_distance(w, r) = Sum(er, D) /\ _score_edit_distance(w, q) = Sum(eq, D)
      /\ _score_ocr_confusion(w, r) = Sum(cr, B \cup {i}) /\ _score_ocr_confusion(w, q) = Sum(cq, B)
  BY <1>5, SignalSums DEF OneMore
<1> HIDE DEF D, er, eq, cr, cq, B
<1>7. Sum(er, D) = er[i] + Sum(er, D \ {i}) /\ Sum(eq, D) = eq[i] + Sum(eq, D \ {i})
  <2>1. \A j \in D : er[j] \in Int /\ eq[j] \in Int
    BY <1>2
  <2> QED
    BY <1>1, <2>1, SumRemove
<1>8. Sum(er, D \ {i}) = Sum(eq, D \ {i}) /\ Sum(eq, D \ {i}) \in Int
  <2>1. \A j \in D \ {i} : eq[j] \in Int /\ er[j] = eq[j]
    BY <1>2, <1>3
  <2> QED
    BY <1>1, <2>1, SumEqual, SumType
<1>9. Sum(cr, B \cup {i}) = cr[i] + Sum(cr, B)
  <2>1. \A j \in B \cup {i} : cr[j] \in Int
    BY <1>1, <1>2
  <2>2. IsFiniteSet(B \cup {i}) /\ (B \cup {i}) \ {i} = B /\ i \in B \cup {i}
    BY <1>1, <1>5, FS_AddElement
  <2> DEFINE T == B \cup {i}
  <2> HIDE DEF T
  <2>3. Sum(cr, T) = cr[i] + Sum(cr, T \ {i})
    BY <2>1, <2>2, SumRemove DEF T
  <2> QED
    BY <2>2, <2>3 DEF T
<1>10. Sum(cr, B) = Sum(cq, B) /\ Sum(cq, B) \in Int
  <2>1. \A j \in B : cq[j] \in Int /\ cr[j] = cq[j]
    BY <1>1, <1>2, <1>3, <1>5
  <2> QED
    BY <1>1, <2>1, SumEqual, SumType
<1>11. cr[i] \in Int /\ er[i] \in Int
  BY <1>1, <1>2
<1>12. _score_edit_distance(w, r) = _score_edit_distance(w, q) - 60000 + EditOf(w, i, r[i])
  BY <1>4, <1>6, <1>7, <1>8, <1>11
<1>13. _score_ocr_confusion(w, r) = _score_ocr_confusion(w, q) + Cardinality(Confused(w, i, r[i]))
  BY <1>4, <1>6, <1>9, <1>10, <1>11
<1> QED
  BY <1>12, <1>13

\* The score of a reading by its signals.
LEMMA TotalIs ==
  ASSUME NEW ngrams, NEW w, NEW dom, NEW r
  PROVE  LET b == _score_sequence(ngrams, w, dom, r)
         IN  /\ Total(b) = 100000 * _score_word_validity(r) + 12000 * _score_syllable_freq(r)
                             + b.phrase_ngram + b.domain_context
                             + 100000 * _score_ocr_confusion(w, r) + _score_edit_distance(w, r)
                             - _score_overcorrection_penalty(ngrams, r, original_tokens(w))
                             - b.negative_phrase
             /\ b.phrase_ngram = 14 * _score_phrase_ngram(ngrams, r)
             /\ b.domain_context = 12 * _score_domain_context(ngrams, r, dom)
             /\ b.negative_phrase = 15 * negative_phrase_score(ngrams, Content(r))
BY DEF Total, _score_sequence

\* A change of what is no word does not raise the penalty.
LEMMA PenaltyOneMore ==
  ASSUME NEW w, NEW r, NEW q, NEW i, OneMore(w, r, q, i), NEW ngrams, ~contains_word(q[i])
  PROVE  _score_overcorrection_penalty(ngrams, r, original_tokens(w))
           <= _score_overcorrection_penalty(ngrams, q, original_tokens(w))
<1> DEFINE o == original_tokens(w)
           p == Cardinality(Penalized(ngrams, q, o))
           t == Cardinality(Changed(q, o))
           u == t + 1
<1>1. /\ Changed(r, o) = Changed(q, o) \cup {i} /\ i \notin Changed(q, o)
      /\ \A j \in DOMAIN w : j # i => r[j] = q[j]
  BY OneMoreFacts
<1>2. Penalized(ngrams, r, o) = Penalized(ngrams, q, o)
  <2>1. o[i] = q[i] /\ Changed(q, o) \subseteq DOMAIN w
    BY ReadingFacts DEF OneMore, original_tokens
  <2>2. ~contains_word(o[i])
    BY <2>1
  <2> HIDE DEF o
  <2> QED
    BY <1>1, <2>1, <2>2 DEF Penalized
<1>3. t \in Nat /\ p \in Nat /\ IsFiniteSet(Changed(q, o))
  BY CountsType, ReadingFacts DEF OneMore
<1>4. Cardinality(Changed(r, o)) = u
  BY <1>1, <1>3, FS_AddElement
<1>5. /\ _score_overcorrection_penalty(ngrams, r, o) = IF u = 0 THEN 0 ELSE (130000 * p) \div u
      /\ _score_overcorrection_penalty(ngrams, q, o) = IF t = 0 THEN 0 ELSE (130000 * p) \div t
  BY <1>2, <1>4 DEF _score_overcorrection_penalty
<1>6. t = 0 => p = 0
  <2>1. Penalized(ngrams, q, o) \subseteq Changed(q, o)
    BY DEF Penalized
  <2>2. p <= t
    BY <1>3, <2>1, FS_Subset
  <2> HIDE DEF p, t
  <2> QED
    BY <1>3, <2>2
<1> HIDE DEF o, p, t
<1>7. CASE t = 0
  <2>1. u = 1 /\ p = 0
    BY <1>6, <1>7
  <2>2. (130000 * p) \div u = 0
    BY <2>1
  <2> QED
    BY <1>5, <1>7, <2>1, <2>2 DEF o
<1>8. CASE t # 0
  <2> DEFINE a == 130000 * p
  <2>1. a \in Nat /\ t \in Nat \ {0}
    BY <1>3, <1>8
  <2> HIDE DEF a
  <2>2. a \div (t + 1) <= a \div t
    BY <2>1, QuotientFacts
  <2> QED
    BY <1>3, <1>5, <1>8, <2>2 DEF o, a
<1> QED
  BY <1>7, <1>8

\* Restoring an unknown token pays.
LEMMA RestoredPays ==
  ASSUME NEW w, NEW r, NEW q, NEW i, OneMore(w, r, q, i),
         NEW ngrams, Numbers(ngrams), NEW dom,
         ~contains_word(q[i]), contains_word(r[i]),
         ContextNoWorse(_score_sequence(ngrams, w, dom, r), _score_sequence(ngrams, w, dom, q))
  PROVE  Total(_score_sequence(ngrams, w, dom, r)) > Total(_score_sequence(ngrams, w, dom, q))
<1> DEFINE b == _score_sequence(ngrams, w, dom, r)
           c == _score_sequence(ngrams, w, dom, q)
           wr == _score_word_validity(r)
           wq == _score_word_validity(q)
           sr == _score_syllable_freq(r)
           sq == _score_syllable_freq(q)
           kr == _score_ocr_confusion(w, r)
           kq == _score_ocr_confusion(w, q)
           er == _score_edit_distance(w, r)
           eq == _score_edit_distance(w, q)
           pr == _score_overcorrection_penalty(ngrams, r, original_tokens(w))
           pq == _score_overcorrection_penalty(ngrams, q, original_tokens(w))
           e == EditOf(w, i, r[i])
           k == Cardinality(Confused(w, i, r[i]))
<1>1. /\ Proper(w) /\ r \in Combinations(w) /\ q \in Combinations(w) /\ i \in DOMAIN w
  BY DEF OneMore
<1>2. wq \in Nat /\ wr = wq + 1 /\ sq \in Nat /\ sr \in Int /\ sr >= sq - 1
  <2>1. wq \in Nat /\ wr = wq + 1 - 0 /\ sq \in Nat
        /\ sr = sq + (IF contains_syllable(r[i]) THEN 1 ELSE 0) - (IF contains_syllable(q[i]) THEN 1 ELSE 0)
    BY CountsOneMore
  <2> HIDE DEF wr, wq, sr, sq
  <2> QED
    BY <2>1
<1>3. er = eq - 60000 + e /\ kr = kq + k
  BY SignalsOneMore
<1>4. e \in Nat /\ k \in Nat
  BY <1>1, TermsFacts
<1>5. pr <= pq
  BY PenaltyOneMore
<1>6. /\ eq \in Int /\ kq \in Int /\ pr \in Int /\ pq \in Int
      /\ _score_phrase_ngram(ngrams, r) \in Int /\ _score_phrase_ngram(ngrams, q) \in Int
      /\ _score_domain_context(ngrams, r, dom) \in Int /\ _score_domain_context(ngrams, q, dom) \in Int
      /\ negative_phrase_score(ngrams, Content(r)) \in Int /\ negative_phrase_score(ngrams, Content(q)) \in Int
  BY <1>1, ScoreTypes
<1>7. /\ Total(b) = 100000 * wr + 12000 * sr + b.phrase_ngram + b.domain_context
                      + 100000 * kr + er - pr - b.negative_phrase
      /\ Total(c) = 100000 * wq + 12000 * sq + c.phrase_ngram + c.domain_context
                      + 100000 * kq + eq - pq - c.negative_phrase
      /\ b.phrase_ngram \in Int /\ b.domain_context \in Int /\ b.negative_phrase \in Int
      /\ c.phrase_ngram \in Int /\ c.domain_context \in Int /\ c.negative_phrase \in Int
  BY <1>6, TotalIs
<1>8. /\ b.phrase_ngram >= c.phrase_ngram /\ b.domain_context >= c.domain_context
      /\ b.negative_phrase <= c.negative_phrase
  BY DEF ContextNoWorse
<1> HIDE DEF b, c, wr, wq, sr, sq, kr, kq, er, eq, pr, pq, e, k
<1>9. Total(b) > Total(c)
  <2> DEFINE b1 == b.phrase_ngram
             b2 == b.domain_context
             b3 == b.negative_phrase
             c1 == c.phrase_ngram
             c2 == c.domain_context
             c3 == c.negative_phrase
  <2>1. /\ b1 \in Int /\ b2 \in Int /\ b3 \in Int /\ c1 \in Int /\ c2 \in Int /\ c3 \in Int
        /\ b1 >= c1 /\ b2 >= c2 /\ b3 <= c3
        /\ Total(b) = 100000 * wr + 12000 * sr + b1 + b2 + 100000 * kr + er - pr - b3
        /\ Total(c) = 100000 * wq + 12000 * sq + c1 + c2 + 100000 * kq + eq - pq - c3
    BY <1>7, <1>8
  <2> HIDE DEF b1, b2, b3, c1, c2, c3
  <2> QED
    BY <1>2, <1>3, <1>4, <1>5, <1>6, <2>1
<1> QED
  BY <1>9 DEF b, c

\* The only change of a known word that nothing speaks for is charged in full.
LEMMA FullPenalty ==
  ASSUME NEW w, NEW r, NEW i, OneMore(w, r, original_tokens(w), i), NEW ngrams,
         contains_word(w[i].text),
         ~_is_accentless_variant_correction(w[i].text, r[i]),
         ~_candidate_improves_ngram(ngrams, r[i], w[i].text, original_tokens(w), i)
  PROVE  /\ _score_overcorrection_penalty(ngrams, r, original_tokens(w)) = 130000
         /\ _score_overcorrection_penalty(ngrams, original_tokens(w), original_tokens(w)) = 0
<1> DEFINE o == original_tokens(w)
<1>1. o[i] = w[i].text
  BY DEF OneMore, original_tokens
<1>2. Changed(r, o) = {i} /\ Changed(o, o) = {}
  BY DEF OneMore, Changed
<1>3. Penalized(ngrams, r, o) = {i}
  <2>1. /\ contains_word(o[i]) /\ ~_is_accentless_variant_correction(o[i], r[i])
        /\ ~_candidate_improves_ngram(ngrams, r[i], o[i], o, i)
    BY <1>1
  <2> HIDE DEF o
  <2> QED
    BY <1>2, <2>1 DEF Penalized
<1> HIDE DEF o
<1>4. Cardinality({i}) = 1 /\ Cardinality({}) = 0
  BY FS_Singleton, FS_EmptySet
<1>5. /\ _score_overcorrection_penalty(ngrams, r, o) = (130000 * 1) \div 1
      /\ _score_overcorrection_penalty(ngrams, o, o) = 0
  BY <1>2, <1>3, <1>4 DEF _score_overcorrection_penalty
<1> QED
  BY <1>5 DEF o

\* A token that occurs once is credited once.
LEMMA CreditedOnce ==
  ASSUME NEW w, Proper(w), NEW i \in DOMAIN w, NEW text,
         \A j \in DOMAIN w : w[j].text = w[i].text => j = i
  PROVE  EditOf(w, i, text) <= 60000 /\ Cardinality(Confused(w, i, text)) <= 1
<1>1. Same(w, i) = {i}
  BY DEF Same
<1>2. Cardinality({i}) = 1 /\ IsFiniteSet({i})
  BY FS_Singleton
<1>3. Cardinality(Confused(w, i, text)) <= 1
  <2>1. Confused(w, i, text) \subseteq {i}
    BY <1>1 DEF Confused
  <2> QED
    BY <1>2, <2>1, FS_Subset
<1>4. EditOf(w, i, text) <= 60000
  <2> DEFINE f == [k \in {i} |-> Distances(w, k, text)]
             S == {i}
             d == Distances(w, i, text)
  <2>1. d \in Nat /\ d <= 60000
    BY DistancesFacts
  <2>2. f[i] = d /\ S \ {i} = {} /\ i \in S /\ IsFiniteSet(S) /\ DOMAIN f = S
    BY <1>2
  <2>3. \A k \in S : f[k] \in Int
    BY <2>1
  <2>4. EditOf(w, i, text) = IF text = w[i].text THEN 60000 ELSE Added(f)
    BY <1>1 DEF EditOf
  <2> HIDE DEF f, S, d
  <2>5. Added(f) = Sum(f, S)
    BY <2>2, AddedIsSum
  <2>6. Sum(f, S) = f[i] + Sum(f, S \ {i})
    BY <2>2, <2>3, SumRemove
  <2>7. Sum(f, {}) = 0
    BY SumStep, FS_EmptySet
  <2>8. Added(f) = d
    BY <2>1, <2>2, <2>5, <2>6, <2>7
  <2> QED
    BY <2>1, <2>4, <2>8
<1> QED
  BY <1>3, <1>4

\* Giving up a known word for a confusion costs.
LEMMA GivingUpCosts ==
  ASSUME NEW w, NEW r, NEW i, OneMore(w, r, original_tokens(w), i),
         NEW ngrams, Numbers(ngrams), NEW dom,
         \A j \in DOMAIN w : w[j].text = w[i].text => j = i,
         contains_word(w[i].text),
         ~_is_accentless_variant_correction(w[i].text, r[i]),
         ~_candidate_improves_ngram(ngrams, r[i], w[i].text, original_tokens(w), i),
         ContextNoBetter(_score_sequence(ngrams, w, dom, r),
                         _score_sequence(ngrams, w, dom, original_tokens(w)))
  PROVE  Total(_score_sequence(ngrams, w, dom, r))
           < Total(_score_sequence(ngrams, w, dom, original_tokens(w)))
<1> DEFINE q == original_tokens(w)
           b == _score_sequence(ngrams, w, dom, r)
           c == _score_sequence(ngrams, w, dom, q)
           wr == _score_word_validity(r)
           wq == _score_word_validity(q)
           sr == _score_syllable_freq(r)
           sq == _score_syllable_freq(q)
           kr == _score_ocr_confusion(w, r)
           kq == _score_ocr_confusion(w, q)
           er == _score_edit_distance(w, r)
           eq == _score_edit_distance(w, q)
           pr == _score_overcorrection_penalty(ngrams, r, q)
           pq == _score_overcorrection_penalty(ngrams, q, q)
           e == EditOf(w, i, r[i])
           k == Cardinality(Confused(w, i, r[i]))
<1>1. /\ Proper(w) /\ r \in Combinations(w) /\ q \in Combinations(w) /\ i \in DOMAIN w
      /\ q[i] = w[i].text
  BY DEF OneMore
<1>2. wq \in Nat /\ wr \in Int /\ wr <= wq /\ sq \in Nat /\ sr \in Int /\ sr <= sq + 1
  <2> HIDE DEF q
  <2>1. OneMore(w, r, q, i) /\ contains_word(q[i])
    BY <1>1 DEF q
  <2>2. /\ wq \in Nat /\ wr = wq + (IF contains_word(r[i]) THEN 1 ELSE 0) - 1 /\ sq \in Nat
        /\ sr = sq + (IF contains_syllable(r[i]) THEN 1 ELSE 0) - (IF contains_syllable(q[i]) THEN 1 ELSE 0)
    BY <2>1, CountsOneMore
  <2> HIDE DEF wr, wq, sr, sq
  <2> QED
    BY <2>2
<1>3. er = eq - 60000 + e /\ kr = kq + k
  BY SignalsOneMore
<1>4. e \in Nat /\ k \in Nat /\ e <= 60000 /\ k <= 1
  BY <1>1, TermsFacts, CreditedOnce
<1>5. pr = 130000 /\ pq = 0
  BY FullPenalty
<1>6. /\ eq \in Int /\ kq \in Int
      /\ _score_phrase_ngram(ngrams, r) \in Int /\ _score_phrase_ngram(ngrams, q) \in Int
      /\ _score_domain_context(ngrams, r, dom) \in Int /\ _score_domain_context(ngrams, q, dom) \in Int
      /\ negative_phrase_score(ngrams, Content(r)) \in Int /\ negative_phrase_score(ngrams, Content(q)) \in Int
  BY <1>1, ScoreTypes
<1>7. /\ Total(b) = 100000 * wr + 12000 * sr + b.phrase_ngram + b.domain_context
                      + 100000 * kr + er - pr - b.negative_phrase
      /\ Total(c) = 100000 * wq + 12000 * sq + c.phrase_ngram + c.domain_context
                      + 100000 * kq + eq - pq - c.negative_phrase
      /\ b.phrase_ngram \in Int /\ b.domain_context \in Int /\ b.negative_phrase \in Int
      /\ c.phrase_ngram \in Int /\ c.domain_context \in Int /\ c.negative_phrase \in Int
  BY <1>6, TotalIs
<1>8. /\ b.phrase_ngram <= c.phrase_ngram /\ b.domain_context <= c.domain_context
      /\ b.negative_phrase >= c.negative_phrase
  BY DEF ContextNoBetter
<1> HIDE DEF b, c, wr, wq, sr, sq, kr, kq, er, eq, pr, pq, e, k
<1>9. Total(b) < Total(c)
  <2> DEFINE b1 == b.phrase_ngram
             b2 == b.domain_context
             b3 == b.negative_phrase
             c1 == c.phrase_ngram
             c2 == c.domain_context
             c3 == c.negative_phrase
  <2>1. /\ b1 \in Int /\ b2 \in Int /\ b3 \in Int /\ c1 \in Int /\ c2 \in Int /\ c3 \in Int
        /\ b1 <= c1 /\ b2 <= c2 /\ b3 >= c3
        /\ Total(b) = 100000 * wr + 12000 * sr + b1 + b2 + 100000 * kr + er - pr - b3
        /\ Total(c) = 100000 * wq + 12000 * sq + c1 + c2 + 100000 * kq + eq - pq - c3
    BY <1>7, <1>8
  <2> HIDE DEF b1, b2, b3, c1, c2, c3
  <2> QED
    BY <1>2, <1>3, <1>4, <1>5, <1>6, <2>1
<1> QED
  BY <1>9 DEF b, c

-----------------------------------------------------------------------------
(***************************************************************************)
(* The invariant of the scorer.                                            *)
(***************************************************************************)
\* What is scored are the readings of a proper window, with the loaded store.
Kept ==
  /\ sources \in PhraseFiles
  /\ Numbers(file.content) /\ Numbers(store.content)
  /\ window \in Windows \cup {<<>>}
  /\ \/ scored = <<>>
     \/ scored = [r \in Combinations(window) |->
                    _score_sequence(store.content, window, domain, r)]

LEMMA KeptInit == ScorerInit => Kept
<1>1. Numbers(EmptyNgrams)
  BY DEF Numbers, EmptyNgrams
<1> QED
  BY <1>1 DEF ScorerInit, Kept

LEMMA KeptStep == Kept /\ [ScorerNext]_scorerVars => Kept'
<1> SUFFICES ASSUME Kept, [ScorerNext]_scorerVars PROVE Kept'
  OBVIOUS
<1>1. CASE \E files \in PhraseFiles : ChangeSources(files)
  BY <1>1 DEF Kept, ChangeSources
<1>2. CASE Build
  <2>1. Numbers(EmptyNgrams)
    BY DEF Numbers, EmptyNgrams
  <2>2. Numbers(build(sources))
    BY BuildNumbers DEF Kept
  <2>3. Numbers(file'.content)
    BY <1>2, <2>1, <2>2 DEF Build
  <2> QED
    BY <1>2, <2>3 DEF Kept, Build
<1>3. CASE Load
  <2>1. store'.content = file.content /\ file' = file /\ sources' = sources
        /\ window' = <<>> /\ scored' = <<>>
    BY <1>3 DEF Load
  <2> QED
    BY <2>1 DEF Kept
<1>4. CASE \E w \in Windows, dom \in Domains : ScoreWindow(w, dom)
  <2>1. PICK w \in Windows : \E dom \in Domains : ScoreWindow(w, dom)
    BY <1>4
  <2>2. PICK dom \in Domains : ScoreWindow(w, dom)
    BY <2>1
  <2> QED
    BY <2>2 DEF Kept, ScoreWindow
<1>5. CASE UNCHANGED scorerVars
  BY <1>5 DEF Kept, scorerVars
<1> QED
  BY <1>1, <1>2, <1>3, <1>4, <1>5 DEF ScorerNext

LEMMA KeptAlways == ScorerSpec => []Kept
BY KeptInit, KeptStep, PTL DEF ScorerSpec

\* A reading in hand, with its score.
LEMMA ScoredFacts ==
  ASSUME Kept, NEW r \in DOMAIN scored
  PROVE  /\ Proper(window) /\ Numbers(store.content)
         /\ DOMAIN scored = Combinations(window)
         /\ \A q \in DOMAIN scored : scored[q] = _score_sequence(store.content, window, domain, q)
  BY WindowsProper DEF Kept

\* A bare unknown token gives way to an accented word, whatever else changes.
THEOREM RestoredUnknownWinsCorrect == ScorerSpec => []RestoredUnknownWins
<1>1. Kept => RestoredUnknownWins
  <2>1. SUFFICES ASSUME Kept, NEW q \in DOMAIN scored,
                        NEW i \in DOMAIN window \ Changed(q, original_tokens(window)),
                        NEW r \in DOMAIN scored, Changed(r, q) = {i},
                        ~contains_word(q[i]), contains_word(r[i]),
                        ContextNoWorse(scored[r], scored[q])
                 PROVE  Total(scored[r]) > Total(scored[q])
    BY DEF RestoredUnknownWins
  <2>2. /\ Proper(window) /\ Numbers(store.content)
        /\ r \in Combinations(window) /\ q \in Combinations(window)
        /\ scored[q] = _score_sequence(store.content, window, domain, q)
        /\ scored[r] = _score_sequence(store.content, window, domain, r)
    BY <2>1, ScoredFacts
  <2>3. q[i] = window[i].text
    BY <2>2, ReadingFacts
  <2>4. OneMore(window, r, q, i)
    BY <2>1, <2>2, <2>3 DEF OneMore
  <2> QED
    BY <2>1, <2>2, <2>4, RestoredPays
<1> QED
  BY <1>1, KeptAlways, PTL

\* A known word is not given up for an OCR confusion without support.
THEOREM KnownWordKeptCorrect == ScorerSpec => []KnownWordKept
<1>1. Kept => KnownWordKept
  <2> DEFINE o == original_tokens(window)
  <2>1. SUFFICES ASSUME Kept, DistinctTexts, NEW r \in OneChange, NEW i \in Changed(r, o),
                        contains_word(window[i].text),
                        ~_is_accentless_variant_correction(window[i].text, r[i]),
                        ~_candidate_improves_ngram(store.content, r[i], window[i].text, o, i),
                        ContextNoBetter(scored[r], scored[o])
                 PROVE  Total(scored[r]) < Total(scored[o])
    BY DEF KnownWordKept
  <2>2. r \in DOMAIN scored /\ Cardinality(Changed(r, o)) = 1
    BY DEF OneChange
  <2>3. /\ Proper(window) /\ Numbers(store.content) /\ DOMAIN scored = Combinations(window)
        /\ \A q \in DOMAIN scored : scored[q] = _score_sequence(store.content, window, domain, q)
    BY <2>1, <2>2, ScoredFacts
  <2>4. r \in Combinations(window) /\ o \in Combinations(window)
    BY <2>2, <2>3, WrittenIsReading
  <2>5. i \in DOMAIN window /\ o[i] = window[i].text
    BY <2>3, <2>4, ReadingFacts DEF original_tokens
  <2>6. Changed(r, o) = {i}
    <3>1. IsFiniteSet(Changed(r, o))
      BY <2>3, <2>4, ReadingFacts
    <3>2. \E x : Changed(r, o) = {x}
      BY <2>2, <3>1, FS_Singleton
    <3> QED
      BY <2>1, <3>2
  <2>7. OneMore(window, r, o, i)
    BY <2>3, <2>4, <2>5, <2>6 DEF OneMore
  <2>8. \A j \in DOMAIN window : window[j].text = window[i].text => j = i
    BY <2>1, <2>5 DEF DistinctTexts
  <2> QED
    BY <2>1, <2>3, <2>4, <2>7, <2>8, GivingUpCosts
<1> QED
  BY <1>1, KeptAlways, PTL

\* A build keeps the score of a phrase and invents no n-gram.
THEOREM PhraseKeepsItsScoreCorrect == ScorerSpec => PhraseKeepsItsScore
<1> DEFINE Faithful ==
             file'.state = "written" =>
               LET kept == deduplicate(Records(sources))
                   ngrams == file'.content.ngrams
               IN  /\ \A r \in kept : Len(r.tokens) \in 2 .. 4 =>
                         ScoreOr0(ngrams, r.tokens) >= Clamped(100 * r.score)
                   /\ \A g \in DOMAIN ngrams :
                         \E r \in Records(sources) :
                            g \in _generate_ngrams(r.tokens) /\ ngrams[g] <= Clamped(100 * r.score)
<1>1. Kept /\ [ScorerNext]_scorerVars => [Faithful]_file
  <2>1. SUFFICES ASSUME Kept, [ScorerNext]_scorerVars, file' # file PROVE Faithful
    OBVIOUS
  <2>2. Build
    BY <2>1 DEF ScorerNext, scorerVars, ChangeSources, Load, ScoreWindow
  <2>3. SUFFICES ASSUME file'.state = "written" PROVE Faithful
    OBVIOUS
  <2>4. file'.content = build(sources)
    BY <2>2, <2>3 DEF Build
  <2>5. sources \in PhraseFiles
    BY <2>1 DEF Kept
  <2> QED
    BY <2>4, <2>5, BuildKeeps
<1> QED
  BY <1>1, KeptAlways, PTL DEF ScorerSpec, PhraseKeepsItsScore

-----------------------------------------------------------------------------
(***************************************************************************)
(* Spaces between the tokens.                                              *)
(***************************************************************************)
\* A set goes with its elements to other places.
LEMMA CountMoved ==
  ASSUME NEW S, IsFiniteSet(S), NEW h, \A x \in S : \A y \in S : h[x] = h[y] => x = y
  PROVE  IsFiniteSet({h[x] : x \in S}) /\ Cardinality({h[x] : x \in S}) = Cardinality(S)
<1> DEFINE H == [x \in S |-> h[x]]
           T == {h[x] : x \in S}
<1>1. H \in Bijection(S, T)
  BY DEF Bijection, Injection, Surjection, IsInjective
<1> QED
  BY <1>1, FS_Bijection DEF ExistsBijection

\* The places of the tokens when there are spaces between them, and of the spaces.
Moved(I) == {2 * i - 1 : i \in I}

Gaps(n) == {2 * i : i \in 1 .. n - 1}

LEMMA MovedFacts ==
  ASSUME NEW n \in Nat \ {0}
  PROVE  /\ 1 .. 2 * n - 1 = Moved(1 .. n) \cup Gaps(n)
         /\ Moved(1 .. n) \cap Gaps(n) = {}
         /\ IsFiniteSet(Gaps(n)) /\ IsFiniteSet(1 .. 2 * n - 1)
         /\ \A I \in SUBSET (1 .. n) :
              IsFiniteSet(Moved(I)) /\ Cardinality(Moved(I)) = Cardinality(I)
<1>1. ASSUME NEW j \in 1 .. 2 * n - 1
      PROVE  j \in Moved(1 .. n) \cup Gaps(n)
  <2>1. CASE j % 2 = 1
    <3>1. (j + 1) \div 2 \in 1 .. n /\ j = 2 * ((j + 1) \div 2) - 1
      BY <2>1
    <3> QED
      BY <3>1 DEF Moved
  <2>2. CASE j % 2 # 1
    <3>1. j \div 2 \in 1 .. n - 1 /\ j = 2 * (j \div 2)
      BY <2>2
    <3> QED
      BY <3>1 DEF Gaps
  <2> QED
    BY <2>1, <2>2
<1>2. Moved(1 .. n) \subseteq 1 .. 2 * n - 1 /\ Gaps(n) \subseteq 1 .. 2 * n - 1
  BY DEF Moved, Gaps
<1>3. Moved(1 .. n) \cap Gaps(n) = {}
  <2>1. \A i \in 1 .. n : \A k \in 1 .. n - 1 : 2 * i - 1 # 2 * k
    OBVIOUS
  <2> QED
    BY <2>1 DEF Moved, Gaps
<1>4. IsFiniteSet(1 .. 2 * n - 1)
  BY FS_Interval
<1>5. ASSUME NEW I \in SUBSET (1 .. n)
      PROVE  IsFiniteSet(Moved(I)) /\ Cardinality(Moved(I)) = Cardinality(I)
  <2> DEFINE h == [i \in I |-> 2 * i - 1]
  <2>1. IsFiniteSet(I)
    <3>1. IsFiniteSet(1 .. n)
      BY FS_Interval
    <3> QED
      BY <3>1, FS_Subset
  <2>2. Moved(I) = {h[i] : i \in I}
    BY DEF Moved
  <2>3. \A x \in I : \A y \in I : h[x] = h[y] => x = y
    OBVIOUS
  <2> HIDE DEF h
  <2>4. IsFiniteSet({h[i] : i \in I}) /\ Cardinality({h[i] : i \in I}) = Cardinality(I)
    BY <2>1, <2>3, CountMoved
  <2> QED
    BY <2>2, <2>4
<1> QED
  BY <1>1, <1>2, <1>3, <1>4, <1>5, FS_Subset

\* A count of tokens and of spaces.
LEMMA CountApart ==
  ASSUME NEW n \in Nat \ {0}, NEW I \in SUBSET (1 .. n), NEW E \in SUBSET Gaps(n)
  PROVE  /\ Cardinality(Moved(I) \cup E) = Cardinality(I) + Cardinality(E)
         /\ Cardinality(I) \in Nat /\ Cardinality(E) \in Nat
<1>1. IsFiniteSet(Moved(I)) /\ Cardinality(Moved(I)) = Cardinality(I) /\ IsFiniteSet(E)
  BY MovedFacts, FS_Subset
<1>2. Moved(I) \cap E = {}
  <2>1. Moved(I) \subseteq Moved(1 .. n)
    BY DEF Moved
  <2> QED
    BY <2>1, MovedFacts
<1>3. Cardinality({}) = 0
  BY FS_EmptySet
<1>4. Cardinality(Moved(I)) \in Nat /\ Cardinality(E) \in Nat
  BY <1>1, FS_CardinalityType
<1>5. Cardinality(Moved(I) \cup E) = Cardinality(Moved(I)) + Cardinality(E) - Cardinality(Moved(I) \cap E)
  BY <1>1, FS_Union
<1> DEFINE a == Cardinality(Moved(I))
           e == Cardinality(E)
<1>6. Cardinality(Moved(I) \cup E) = a + e - 0
  BY <1>2, <1>3, <1>5
<1>7. a \in Nat /\ e \in Nat /\ a = Cardinality(I)
  BY <1>1, <1>4
<1> HIDE DEF a, e
<1>8. Cardinality(Moved(I) \cup E) = a + e
  BY <1>6, <1>7
<1> QED
  BY <1>7, <1>8 DEF e

\* The elements of I to the left of i.
Left(I, i) == {j \in I : <<j, i>> \in Ascending(I)}

\* Each element has its own number of elements to the left of it, and each
\* number below the size of the set is the number of one.
LEMMA LeftFacts ==
  ASSUME NEW n \in Nat, NEW I \in SUBSET (1 .. n)
  PROVE  /\ Cardinality(I) \in Nat
         /\ \A i \in I : \A j \in I : Cardinality(Left(I, i)) = Cardinality(Left(I, j)) => i = j
         /\ \A k \in 1 .. Cardinality(I) : \E i \in I : Cardinality(Left(I, i)) = k - 1
<1> DEFINE m == Cardinality(I)
           c == [i \in I |-> Cardinality(Left(I, i))]
<1>1. IsFiniteSet(I) /\ m \in Nat
  <2>1. IsFiniteSet(1 .. n)
    BY FS_Interval
  <2> QED
    BY <2>1, FS_Subset, FS_CardinalityType
<1>2. \A i \in I : Left(I, i) = {j \in I : j < i}
  BY DEF Left, Ascending
<1>3. ASSUME NEW i \in I PROVE c[i] \in 0 .. m - 1
  <2>1. Left(I, i) \in SUBSET I /\ i \notin Left(I, i)
    BY <1>2
  <2>2. /\ IsFiniteSet(Left(I, i))
        /\ Cardinality(Left(I, i)) \in Nat
        /\ Cardinality(Left(I, i)) <= m /\ Cardinality(Left(I, i)) # m
    BY <1>1, <2>1, FS_Subset, FS_CardinalityType
  <2> QED
    BY <1>1, <2>2
<1>4. ASSUME NEW i \in I, NEW j \in I, i < j PROVE c[i] < c[j]
  <2>1. Left(I, i) \in SUBSET Left(I, j) /\ i \in Left(I, j) /\ i \notin Left(I, i)
    <3>1. i \in Nat /\ j \in Nat /\ \A x \in I : x \in Nat
      OBVIOUS
    <3>2. \A x \in I : x < i => x < j
      BY <1>4, <3>1
    <3>3. ~(i < i)
      BY <3>1
    <3> QED
      BY <1>2, <1>4, <3>2, <3>3
  <2>2. Left(I, j) \in SUBSET I
    BY <1>2
  <2>3. IsFiniteSet(Left(I, j))
    BY <1>1, <2>2, FS_Subset
  <2>4. /\ Cardinality(Left(I, i)) <= Cardinality(Left(I, j))
        /\ Cardinality(Left(I, i)) # Cardinality(Left(I, j))
    BY <2>1, <2>3, FS_Subset
  <2>5. c[i] \in Int /\ c[j] \in Int
    BY <1>1, <1>3
  <2> QED
    BY <2>4, <2>5
<1>5. \A i \in I : \A j \in I : c[i] = c[j] => i = j
  <2>1. SUFFICES ASSUME NEW i \in I, NEW j \in I, c[i] = c[j], i # j PROVE FALSE
    OBVIOUS
  <2>2. i \in Nat /\ j \in Nat
    OBVIOUS
  <2>3. i < j \/ j < i
    BY <2>1, <2>2
  <2>4. c[i] < c[j] \/ c[j] < c[i]
    BY <1>4, <2>3
  <2>5. c[i] \in Int /\ c[j] \in Int
    BY <1>1, <1>3
  <2> HIDE DEF c
  <2> QED
    BY <2>1, <2>4, <2>5
<1>6. \A k \in 1 .. m : \E i \in I : c[i] = k - 1
  <2> DEFINE f == [i \in I |-> c[i] + 1]
  <2>1. f \in [I -> 1 .. m]
    <3>1. \A i \in I : c[i] + 1 \in 1 .. m
      <4> HIDE DEF c
      <4> QED
        BY <1>1, <1>3
    <3> QED
      BY <3>1
  <2>2. \A i, j \in I : f[i] = f[j] => i = j
    <3>1. \A i \in I : c[i] \in Int
      BY <1>1, <1>3
    <3> HIDE DEF c
    <3> QED
      BY <1>5, <3>1
  <2>3. IsFiniteSet(1 .. m) /\ Cardinality(1 .. m) = m
    BY <1>1, FS_Interval
  <2> HIDE DEF f
  <2>4. f \in Injection(I, 1 .. m)
    BY <2>1, <2>2, Fun_IsInj
  <2>5. f \in Surjection(I, 1 .. m)
    BY <2>3, <2>4, FS_Injection
  <2>6. \A k \in 1 .. m : \E i \in I : f[i] = k
    BY <2>5, Fun_SurjectionProperties
  <2>7. \A i \in I : f[i] = c[i] + 1 /\ c[i] \in Int
    BY <1>1, <1>3 DEF f
  <2> HIDE DEF c
  <2> QED
    BY <2>6, <2>7
<1> QED
  BY <1>1, <1>5, <1>6

\* A filter keeps the same elements in their order when they are moved apart.
LEMMA PickMoved ==
  ASSUME NEW n \in Nat \ {0}, NEW I \in SUBSET (1 .. n), NEW s, NEW t,
         \A i \in I : t[2 * i - 1] = s[i]
  PROVE  Pick(t, Moved(I)) = Pick(s, I)
<1> DEFINE J == Moved(I)
           m == Cardinality(I)
<1>1. m \in Nat /\ Cardinality(J) = m /\ J \in SUBSET (1 .. 2 * n - 1) /\ 2 * n - 1 \in Nat
  <2>1. m \in Nat /\ Cardinality(J) = m
    BY MovedFacts, LeftFacts
  <2>2. \A i \in 1 .. n : 2 * i - 1 \in 1 .. 2 * n - 1
    OBVIOUS
  <2>3. J \in SUBSET (1 .. 2 * n - 1)
    BY <2>2 DEF Moved
  <2> QED
    BY <2>1, <2>3
<1>2. ASSUME NEW i \in I
      PROVE  Cardinality(Left(J, 2 * i - 1)) = Cardinality(Left(I, i))
  <2> DEFINE L == Left(I, i)
  <2>1. Left(J, 2 * i - 1) = Moved(L)
    <3>1. \A k \in I : 2 * k - 1 < 2 * i - 1 <=> k < i
      OBVIOUS
    <3>2. L = {k \in I : k < i}
      BY DEF Left, Ascending
    <3>3. 2 * i - 1 \in J
      BY DEF Moved
    <3>4. Left(J, 2 * i - 1) = {j \in J : j < 2 * i - 1}
      BY <3>3 DEF Left, Ascending
    <3> HIDE DEF L
    <3> QED
      BY <3>1, <3>2, <3>4 DEF Moved
  <2>2. L \in SUBSET (1 .. n)
    BY DEF Left
  <2> HIDE DEF L, J
  <2> QED
    BY <2>1, <2>2, MovedFacts DEF L
<1> DEFINE From(k) == CHOOSE i \in I : Cardinality(Left(I, i)) = k - 1
           To(k) == CHOOSE j \in J : Cardinality(Left(J, j)) = k - 1
<1>3. Pick(s, I) = [k \in 1 .. m |-> s[From(k)]] /\ Pick(t, J) = [k \in 1 .. m |-> t[To(k)]]
  <2>1. InOrder(I, Ascending(I)) = [k \in 1 .. m |-> From(k)]
    BY DEF InOrder, Left
  <2>2. InOrder(J, Ascending(J)) = [k \in 1 .. m |-> To(k)]
    BY <1>1 DEF InOrder, Left
  <2> HIDE DEF From, To, J
  <2> QED
    BY <1>1, <2>1, <2>2 DEF Pick
<1>4. ASSUME NEW k \in 1 .. m
      PROVE  t[To(k)] = s[From(k)]
  <2>1. From(k) \in I /\ Cardinality(Left(I, From(k))) = k - 1
    <3>1. \E i \in I : Cardinality(Left(I, i)) = k - 1
      BY LeftFacts
    <3> QED
      BY <3>1
  <2> DEFINE j == 2 * From(k) - 1
  <2>2. j \in J /\ Cardinality(Left(J, j)) = k - 1
    BY <1>2, <2>1 DEF Moved
  <2>3. To(k) \in J /\ Cardinality(Left(J, To(k))) = k - 1
    BY <2>2
  <2>4. To(k) = j
    <3> HIDE DEF j, To, J
    <3> QED
      BY <1>1, <2>2, <2>3, LeftFacts
  <2>5. t[j] = s[From(k)]
    BY <2>1
  <2> QED
    BY <2>4, <2>5
<1> HIDE DEF From, To, J
<1> QED
  BY <1>3, <1>4 DEF J

\* What stands where when there are spaces between the elements of s.
LEMMA SpacedFacts ==
  ASSUME NEW n \in Nat \ {0}, NEW s, IsList(s), Len(s) = n, NEW x
  PROVE  /\ DOMAIN Spaced(s, x) = 1 .. 2 * n - 1
         /\ \A i \in 1 .. n : Spaced(s, x)[2 * i - 1] = s[i]
         /\ \A j \in Gaps(n) : Spaced(s, x)[j] = x
         /\ Spaced(s, x) = [j \in 1 .. 2 * n - 1 |-> Spaced(s, x)[j]]
         /\ Spaced(s, x) \in Seq(Range(Spaced(s, x)))
<1>1. DOMAIN s = 1 .. n
  BY DEF IsList
<1>2. Len(s) = n
  OBVIOUS
<1>3. s # <<>>
  BY <1>1
<1>4. Spaced(s, x) = [j \in 1 .. 2 * n - 1 |-> IF j % 2 = 1 THEN s[(j + 1) \div 2] ELSE x]
  BY <1>2, <1>3 DEF Spaced
<1>5. ASSUME NEW i \in 1 .. n PROVE Spaced(s, x)[2 * i - 1] = s[i]
  <2> DEFINE j == 2 * i - 1
  <2>1. j \in 1 .. 2 * n - 1 /\ j % 2 = 1 /\ (j + 1) \div 2 = i
    OBVIOUS
  <2> HIDE DEF j
  <2>2. Spaced(s, x)[j] = s[i]
    BY <1>4, <2>1
  <2> QED
    BY <2>2 DEF j
<1>6. ASSUME NEW i \in 1 .. n - 1 PROVE Spaced(s, x)[2 * i] = x
  <2> DEFINE j == 2 * i
  <2>1. j \in 1 .. 2 * n - 1 /\ j % 2 # 1
    OBVIOUS
  <2> HIDE DEF j
  <2>2. Spaced(s, x)[j] = x
    BY <1>4, <2>1
  <2> QED
    BY <2>2 DEF j
<1>7. \A j \in Gaps(n) : Spaced(s, x)[j] = x
  BY <1>6 DEF Gaps
<1> DEFINE p == Spaced(s, x)
           d == 2 * n - 1
<1>8. p = [j \in 1 .. d |-> p[j]] /\ DOMAIN p = 1 .. d /\ d \in Nat
  <2> DEFINE G(j) == IF j % 2 = 1 THEN s[(j + 1) \div 2] ELSE x
  <2>1. p = [j \in 1 .. d |-> G(j)] /\ d \in Nat
    BY <1>4
  <2> HIDE DEF p, d, G
  <2> QED
    BY <2>1
<1>9. p \in Seq(Range(p))
  <2> HIDE DEF p, d
  <2>1. p \in [1 .. d -> Range(p)]
    BY <1>8 DEF Range
  <2> QED
    BY <1>8, <2>1
<1> QED
  BY <1>5, <1>7, <1>8, <1>9

LEMMA SpaceIsSpace == IsSpace(<<" ">>)
<1>1. {i \in DOMAIN <<" ">> : <<" ">>[i] \notin Whitespace} = {}
  <2>1. <<" ">> \in Seq({" "}) /\ Len(<<" ">>) = 1
    OBVIOUS
  <2>2. DOMAIN <<" ">> = 1 .. 1 /\ <<" ">>[1] = " "
    BY <2>1
  <2>3. \A i \in 1 .. 1 : i = 1
    OBVIOUS
  <2> QED
    BY <2>2, <2>3 DEF Whitespace
<1> QED
  BY <1>1 DEF IsSpace, Strip

SpaceText == <<" ">>

\* A window with a token, a reading of it, and both with spaces.
SpacedApart(n, w, r, v, q) ==
  /\ n \in Nat \ {0} /\ Len(w) = n
  /\ Proper(w) /\ r \in Combinations(w)
  /\ v = Spaced(w, SpaceToken) /\ q = Spaced(r, <<" ">>)

LEMMA SpacedWindow ==
  ASSUME NEW n, NEW w, NEW r, NEW v, NEW q, SpacedApart(n, w, r, v, q)
  PROVE  /\ n \in Nat \ {0} /\ Proper(w) /\ r \in Combinations(w)
         /\ DOMAIN w = 1 .. n /\ DOMAIN r = 1 .. n
         /\ DOMAIN v = 1 .. 2 * n - 1 /\ DOMAIN q = 1 .. 2 * n - 1
         /\ \A i \in 1 .. n : v[2 * i - 1] = w[i] /\ q[2 * i - 1] = r[i]
         /\ \A j \in Gaps(n) : v[j] = SpaceToken /\ q[j] = SpaceText
         /\ Proper(v) /\ q \in Combinations(v)
<1>1. n \in Nat \ {0} /\ Len(w) = n /\ Proper(w) /\ r \in Combinations(w)
  BY DEF SpacedApart
<1>2. DOMAIN w = 1 .. n /\ DOMAIN r = 1 .. n /\ r = [i \in 1 .. n |-> r[i]]
  BY <1>1, PlacesFacts, ReadingFacts
<1>3. IsList(w) /\ IsList(r) /\ Len(r) = n
  <2>1. IsList(w)
    BY <1>1 DEF Proper
  <2>2. r \in [1 .. n -> Range(r)] /\ n \in Nat
    BY <1>1, <1>2 DEF Range
  <2>3. r \in Seq(Range(r)) /\ Len(r) = n
    BY <1>2, <2>2
  <2> QED
    BY <2>1, <2>3 DEF IsList
<1>4. /\ DOMAIN v = 1 .. 2 * n - 1 /\ DOMAIN q = 1 .. 2 * n - 1
      /\ \A i \in 1 .. n : v[2 * i - 1] = w[i] /\ q[2 * i - 1] = r[i]
      /\ \A j \in Gaps(n) : v[j] = SpaceToken /\ q[j] = <<" ">>
      /\ v \in Seq(Range(v)) /\ q = [j \in 1 .. 2 * n - 1 |-> q[j]]
  <2>1. n \in Nat \ {0} /\ v = Spaced(w, SpaceToken) /\ q = Spaced(r, <<" ">>)
    BY DEF SpacedApart
  <2>2. /\ DOMAIN v = 1 .. 2 * n - 1
        /\ \A i \in 1 .. n : v[2 * i - 1] = w[i]
        /\ \A j \in Gaps(n) : v[j] = SpaceToken
        /\ v \in Seq(Range(v))
    <3> DEFINE x == SpaceToken
               p == Spaced(w, x)
    <3>1. v = p
      BY <2>1
    <3> HIDE DEF x
    <3>2. /\ DOMAIN p = 1 .. 2 * n - 1
          /\ \A i \in 1 .. n : p[2 * i - 1] = w[i]
          /\ \A j \in Gaps(n) : p[j] = x
          /\ p \in Seq(Range(p))
      BY <1>1, <1>3, SpacedFacts
    <3> HIDE DEF p
    <3> QED
      BY <3>1, <3>2 DEF x
  <2>3. /\ DOMAIN q = 1 .. 2 * n - 1
        /\ \A i \in 1 .. n : q[2 * i - 1] = r[i]
        /\ \A j \in Gaps(n) : q[j] = <<" ">>
        /\ q = [j \in 1 .. 2 * n - 1 |-> q[j]]
    <3> DEFINE x == <<" ">>
               p == Spaced(r, x)
    <3>1. q = p
      BY <2>1
    <3> HIDE DEF x
    <3>2. /\ DOMAIN p = 1 .. 2 * n - 1
          /\ \A i \in 1 .. n : p[2 * i - 1] = r[i]
          /\ \A j \in Gaps(n) : p[j] = x
          /\ p = [j \in 1 .. 2 * n - 1 |-> p[j]]
      BY <1>1, <1>3, SpacedFacts
    <3> HIDE DEF p
    <3> QED
      BY <3>1, <3>2 DEF x
  <2> QED
    BY <2>2, <2>3
<1>5. \A j \in 1 .. 2 * n - 1 : (\E i \in 1 .. n : j = 2 * i - 1) \/ j \in Gaps(n)
  BY <1>1, MovedFacts DEF Moved
<1>6. \A j \in DOMAIN v : (\E i \in DOMAIN w : v[j] = w[i]) \/ v[j] = SpaceToken
  <2>1. SUFFICES ASSUME NEW j \in DOMAIN v PROVE (\E i \in DOMAIN w : v[j] = w[i]) \/ v[j] = SpaceToken
    OBVIOUS
  <2>2. CASE j \in Gaps(n)
    BY <1>4, <2>2
  <2>3. CASE \E i \in 1 .. n : j = 2 * i - 1
    BY <1>2, <1>4, <2>3
  <2> QED
    BY <1>4, <1>5, <2>2, <2>3
<1>7. Proper(v)
  <2> DEFINE Good(t) ==
               /\ IsFiniteSet(t.candidates)
               /\ \E c \in t.candidates : c.text = t.text
               /\ \A c \in t.candidates :
                    /\ c.edit \in Nat \cup {None}
                    /\ \A d \in t.candidates : d.text = c.text => d = c
  <2>1. Good(SpaceToken)
    <3>1. SpaceToken.candidates = {[text |-> <<" ">>, ocr |-> FALSE, edit |-> None]}
      BY DEF SpaceToken
    <3>2. IsFiniteSet(SpaceToken.candidates)
      BY <3>1, FS_Singleton
    <3>3. SpaceToken.text = <<" ">>
      BY DEF SpaceToken
    <3>4. \A c \in SpaceToken.candidates : c.text = <<" ">> /\ c.edit = None
      <4> DEFINE c == [text |-> <<" ">>, ocr |-> FALSE, edit |-> None]
      <4>1. c.text = <<" ">> /\ c.edit = None
        OBVIOUS
      <4> HIDE DEF c
      <4> QED
        BY <3>1, <4>1 DEF c
    <3>5. \E c \in SpaceToken.candidates : TRUE
      BY <3>1
    <3>6. \A c \in SpaceToken.candidates : \A d \in SpaceToken.candidates : d = c
      BY <3>1
    <3> QED
      BY <3>2, <3>3, <3>4, <3>5, <3>6
  <2>2. \A i \in DOMAIN w : Good(w[i])
    BY <1>1 DEF Proper
  <2>3. \A j \in DOMAIN v : Good(v[j])
    <3> HIDE DEF Good
    <3> QED
      BY <1>6, <2>1, <2>2
  <2> QED
    BY <1>4, <2>3 DEF Proper, IsList
<1>8. q \in Combinations(v)
  <2> DEFINE all == UNION {{c.text : c \in v[j].candidates} : j \in DOMAIN v}
  <2>1. \A i \in DOMAIN w : \E c \in w[i].candidates : c.text = r[i]
    BY <1>1 DEF Combinations
  <2>2. \E c \in SpaceToken.candidates : c.text = <<" ">>
    BY DEF SpaceToken
  <2>3. \A j \in DOMAIN v : \E c \in v[j].candidates : c.text = q[j]
    <3>1. SUFFICES ASSUME NEW j \in DOMAIN v PROVE \E c \in v[j].candidates : c.text = q[j]
      OBVIOUS
    <3>2. CASE j \in Gaps(n)
      BY <1>4, <2>2, <3>2
    <3>3. CASE \E i \in 1 .. n : j = 2 * i - 1
      <4>1. PICK i \in 1 .. n : j = 2 * i - 1
        BY <3>3
      <4>2. v[j] = w[i] /\ q[j] = r[i] /\ i \in DOMAIN w
        BY <1>2, <1>4, <4>1
      <4> QED
        BY <2>1, <4>2
    <3> QED
      BY <1>4, <1>5, <3>2, <3>3
  <2>4. \A j \in DOMAIN v : q[j] \in all
    BY <2>3
  <2>5. q \in [DOMAIN v -> all]
    <3> HIDE DEF all
    <3> QED
      BY <1>4, <2>4
  <2> QED
    BY <2>3, <2>5 DEF Combinations
<1>9. \A j \in Gaps(n) : v[j] = SpaceToken /\ q[j] = SpaceText
  BY <1>4 DEF SpaceText
<1>10. /\ DOMAIN v = 1 .. 2 * n - 1 /\ DOMAIN q = 1 .. 2 * n - 1
       /\ \A i \in 1 .. n : v[2 * i - 1] = w[i] /\ q[2 * i - 1] = r[i]
  BY <1>4
<1> QED
  BY <1>1, <1>2, <1>7, <1>8, <1>9, <1>10

\* The terms of f are among those of F, at the places of the tokens.
Carries(F, f, I) == \A i \in I : f[i] \in Int /\ F[2 * i - 1] = f[i]

\* A sum over tokens and spaces.
LEMMA SumApart ==
  ASSUME NEW n \in Nat \ {0}, NEW I \in SUBSET (1 .. n), NEW G \in SUBSET Gaps(n), NEW F, NEW f,
         \A j \in G : F[j] \in Int, Carries(F, f, I)
  PROVE  /\ Sum(F, Moved(I) \cup G) = Sum(f, I) + Sum(F, G)
         /\ Sum(f, I) \in Int /\ Sum(F, G) \in Int
<1> DEFINE K == I
           T == Moved(I)
           h == [i \in I |-> 2 * i - 1]
<1>1. IsFiniteSet(T) /\ IsFiniteSet(G) /\ IsFiniteSet(K)
  <2>1. IsFiniteSet(1 .. n)
    BY FS_Interval
  <2> QED
    BY <2>1, MovedFacts, FS_Subset
<1>2. T \cap G = {}
  <2>1. T \subseteq Moved(1 .. n)
    BY DEF Moved
  <2> QED
    BY <2>1, MovedFacts
<1>3. T = {h[i] : i \in K}
  BY DEF Moved
<1>4. /\ \A x \in K : \A y \in K : h[x] = h[y] => x = y
      /\ \A i \in K : F[h[i]] = f[i]
      /\ \A i \in K : f[i] \in Int
  BY DEF Carries
<1> HIDE DEF T, h, K
<1>5. \A j \in T : F[j] \in Int
  BY <1>3, <1>4
<1>6. Sum(F, {h[i] : i \in K}) = Sum(f, K)
  BY <1>1, <1>4, SumMoved
<1>7. Sum(F, T \cup G) = Sum(F, T) + Sum(F, G)
  <2> DEFINE U == T \cup G
  <2>1. IsFiniteSet(U) /\ T \in SUBSET U /\ G \in SUBSET U /\ \A j \in U : F[j] \in Int
    BY <1>1, <1>5, FS_Union
  <2> HIDE DEF U
  <2> QED
    BY <1>2, <2>1, SumUnion
<1>8. Sum(f, K) \in Int /\ Sum(F, G) \in Int
  BY <1>1, <1>4, SumType
<1>9. Sum(F, T \cup G) = Sum(f, K) + Sum(F, G)
  BY <1>3, <1>6, <1>7
<1> QED
  BY <1>8, <1>9 DEF T, K

\* Nothing adds up to nothing.
LEMMA SumZero ==
  ASSUME NEW f, NEW S, IsFiniteSet(S), \A x \in S : f[x] = 0
  PROVE  Sum(f, S) = 0
<1> DEFINE Bad == {t \in SUBSET S : Sum(f, t) # 0}
<1>1. SUFFICES ASSUME Bad # {} PROVE FALSE
  OBVIOUS
<1>2. PICK t \in Bad : \A v \in Bad : ~(v \subseteq t /\ v # t)
  <2> HIDE DEF Bad
  <2>1. Bad \subseteq SUBSET S
    BY DEF Bad
  <2> QED
    BY <1>1, <2>1, LeastSet
<1> DEFINE v == t \ {Some(t)}
<1>3. IsFiniteSet(t)
  BY FS_Subset
<1>4. Sum(f, t) = IF t = {} THEN 0 ELSE f[Some(t)] + Sum(f, v)
  BY <1>3, SumStep
<1>5. t # {}
  BY <1>4
<1>6. Some(t) \in t
  BY <1>5 DEF Some
<1>7. Sum(f, v) = 0
  BY <1>2, <1>6
<1> QED
  BY <1>4, <1>5, <1>6, <1>7

\* Spaces stand at no distance from anything.
LEMMA SpaceDistance ==
  ASSUME NEW v, NEW j, v[j] = SpaceToken, NEW text
  PROVE  Distances(v, j, text) = 0
<1> DEFINE f == [c \in Near(v, j, text) |-> 60000 \div (1 + c.edit)]
<1>1. \A c \in SpaceToken.candidates : c.edit = None
  <2> DEFINE c == [text |-> <<" ">>, ocr |-> FALSE, edit |-> None]
  <2>1. SpaceToken.candidates = {c} /\ c.edit = None
    BY DEF SpaceToken
  <2> HIDE DEF c
  <2> QED
    BY <2>1
<1>2. Near(v, j, text) = {}
  BY <1>1 DEF Near
<1>3. DOMAIN f = {} /\ IsFiniteSet({})
  BY <1>2, FS_EmptySet
<1>4. Distances(v, j, text) = Added(f)
  BY DEF Distances
<1> HIDE DEF f
<1>5. Added(f) = Sum(f, {}) /\ Sum(f, {}) = 0
  BY <1>3, AddedIsSum, SumZero
<1> QED
  BY <1>4, <1>5

\* The tokens with one text, and spaces if the text is one.
LEMMA SameApart ==
  ASSUME NEW n, NEW w, NEW r, NEW v, NEW q, SpacedApart(n, w, r, v, q), NEW i \in 1 .. n
  PROVE  /\ Same(v, 2 * i - 1) = Moved(Same(w, i)) \cup (Same(v, 2 * i - 1) \cap Gaps(n))
         /\ Same(w, i) \in SUBSET (1 .. n)
<1>1. /\ DOMAIN w = 1 .. n /\ DOMAIN v = 1 .. 2 * n - 1
      /\ \A k \in 1 .. n : v[2 * k - 1] = w[k]
      /\ n \in Nat \ {0}
  BY SpacedWindow
<1>2. 1 .. 2 * n - 1 = Moved(1 .. n) \cup Gaps(n)
  BY <1>1, MovedFacts
<1>3. \A k \in 1 .. n : 2 * k - 1 \in Same(v, 2 * i - 1) <=> k \in Same(w, i)
  <2>1. \A k \in 1 .. n : 2 * k - 1 \in DOMAIN v
    BY <1>1
  <2> QED
    BY <1>1, <2>1 DEF Same
<1>4. Same(w, i) \in SUBSET (1 .. n) /\ Same(v, 2 * i - 1) \subseteq 1 .. 2 * n - 1
  BY <1>1 DEF Same
<1> DEFINE S == Same(v, 2 * i - 1)
<1>5. \A j \in S : j \in Gaps(n) \/ \E k \in Same(w, i) : j = 2 * k - 1
  BY <1>2, <1>3, <1>4 DEF Moved
<1>6. \A k \in Same(w, i) : 2 * k - 1 \in S
  BY <1>3, <1>4
<1> HIDE DEF S
<1>7. S = Moved(Same(w, i)) \cup (S \cap Gaps(n))
  BY <1>5, <1>6 DEF Moved
<1> QED
  BY <1>4, <1>7 DEF S

\* Spaces take nothing from the credit of a token, and add nothing to it.
LEMMA CreditApart ==
  ASSUME NEW n, NEW w, NEW r, NEW v, NEW q, SpacedApart(n, w, r, v, q),
         NEW i \in 1 .. n, NEW text
  PROVE  EditOf(v, 2 * i - 1, text) = EditOf(w, i, text)
<1>1. /\ DOMAIN w = 1 .. n
      /\ \A k \in 1 .. n : v[2 * k - 1] = w[k]
      /\ \A j \in Gaps(n) : v[j] = SpaceToken
      /\ n \in Nat \ {0} /\ Proper(w)
  BY SpacedWindow
<1> DEFINE S == Same(w, i)
           p == 2 * i - 1
           T == Same(v, p)
           G == T \cap Gaps(n)
           f == [k \in S |-> Distances(w, k, text)]
           F == [j \in T |-> Distances(v, j, text)]
<1>2. T = Moved(S) \cup G /\ S \in SUBSET (1 .. n)
  BY SameApart
<1>3. \A k \in 1 .. n : Distances(v, 2 * k - 1, text) = Distances(w, k, text)
  <2>1. SUFFICES ASSUME NEW k \in 1 .. n PROVE Distances(v, 2 * k - 1, text) = Distances(w, k, text)
    OBVIOUS
  <2> DEFINE j == 2 * k - 1
  <2>2. v[j] = w[k]
    BY <1>1
  <2> HIDE DEF j
  <2>3. Near(v, j, text) = Near(w, k, text)
    BY <2>2 DEF Near
  <2>4. Distances(v, j, text) = Distances(w, k, text)
    BY <2>3 DEF Distances
  <2> QED
    BY <2>4 DEF j
<1>4. Carries(F, f, S)
  <2>1. \A k \in S : Distances(w, k, text) \in Nat
    <3>1. \A k \in DOMAIN w : Distances(w, k, text) \in Nat
      <4>1. Proper(w)
        BY <1>1
      <4> QED
        BY <4>1, DistancesFacts
    <3> HIDE DEF S
    <3> QED
      BY <1>1, <1>2, <3>1
  <2>2. \A k \in S : k \in 1 .. n /\ 2 * k - 1 \in T
    BY <1>2 DEF Moved
  <2> HIDE DEF S, T
  <2> QED
    BY <1>3, <2>1, <2>2 DEF Carries
<1>5. \A j \in G : F[j] = 0
  BY <1>1, SpaceDistance
<1>6. IsFiniteSet(T) /\ IsFiniteSet(G) /\ IsFiniteSet(S)
  <2>1. IsFiniteSet(1 .. n)
    <3>1. n \in Int /\ 1 \in Int
      BY <1>1
    <3> HIDE DEF S, T, G, F, f, p
    <3> QED
      BY <3>1, FS_Interval
  <2>2. IsFiniteSet(S)
    BY <1>2, <2>1, FS_Subset
  <2>3. IsFiniteSet(Gaps(n)) /\ IsFiniteSet(Moved(S))
    BY <1>1, <1>2, MovedFacts
  <2>4. IsFiniteSet(G)
    BY <2>3, FS_Subset
  <2>5. IsFiniteSet(Moved(S) \cup G)
    <3> HIDE DEF S, G
    <3> QED
      BY <2>3, <2>4, FS_Union
  <2> QED
    BY <1>2, <2>2, <2>4, <2>5
<1>7. Added(F) = Sum(F, T) /\ Added(f) = Sum(f, S)
  <2>1. DOMAIN F = T /\ DOMAIN f = S
    OBVIOUS
  <2> HIDE DEF F, f, S, T
  <2> QED
    BY <1>6, <2>1, AddedIsSum
<1>8. G \in SUBSET Gaps(n)
  OBVIOUS
<1>9. v[p] = w[i]
  BY <1>1
<1>10. /\ EditOf(v, p, text) = IF text = v[p].text THEN 60000 ELSE Added(F)
       /\ EditOf(w, i, text) = IF text = w[i].text THEN 60000 ELSE Added(f)
  BY DEF EditOf
<1> HIDE DEF S, T, G, F, f, p
<1>11. Sum(F, Moved(S) \cup G) = Sum(f, S) + Sum(F, G) /\ Sum(f, S) \in Int
  <2>1. \A j \in G : F[j] \in Int
    BY <1>5
  <2>2. n \in Nat \ {0} /\ S \in SUBSET (1 .. n)
    BY <1>1, <1>2
  <2> QED
    BY <1>4, <1>8, <2>1, <2>2, SumApart
<1>12. Sum(F, G) = 0
  BY <1>5, <1>6, SumZero
<1>13. Added(F) = Added(f)
  BY <1>2, <1>7, <1>11, <1>12
<1> QED
  BY <1>9, <1>10, <1>13 DEF p

\* What is counted among the tokens is counted with the spaces.
LEMMA CountsApart ==
  ASSUME NEW n, NEW w, NEW r, NEW v, NEW q, SpacedApart(n, w, r, v, q)
  PROVE  /\ _score_word_validity(q) =
              _score_word_validity(r) + Cardinality({j \in Gaps(n) : contains_word(SpaceText)})
         /\ _score_syllable_freq(q) =
              _score_syllable_freq(r) + Cardinality({j \in Gaps(n) : contains_syllable(SpaceText)})
         /\ _score_word_validity(r) \in Nat /\ _score_syllable_freq(r) \in Nat
         /\ Cardinality({j \in Gaps(n) : contains_word(SpaceText)}) \in Nat
         /\ Cardinality({j \in Gaps(n) : contains_syllable(SpaceText)}) \in Nat
<1>1. /\ n \in Nat \ {0} /\ DOMAIN r = 1 .. n /\ DOMAIN q = 1 .. 2 * n - 1
      /\ \A i \in 1 .. n : q[2 * i - 1] = r[i]
      /\ \A j \in Gaps(n) : q[j] = SpaceText
  BY SpacedWindow
<1>2. 1 .. 2 * n - 1 = Moved(1 .. n) \cup Gaps(n)
  BY <1>1, MovedFacts
<1> DEFINE WI == {i \in 1 .. n : contains_word(r[i])}
           WE == {j \in Gaps(n) : contains_word(SpaceText)}
           SI == {i \in 1 .. n : contains_syllable(r[i])}
           SE == {j \in Gaps(n) : contains_syllable(SpaceText)}
<1>3. {j \in DOMAIN q : contains_word(q[j])} = Moved(WI) \cup WE
  BY <1>1, <1>2 DEF Moved
<1>4. {j \in DOMAIN q : contains_syllable(q[j])} = Moved(SI) \cup SE
  BY <1>1, <1>2 DEF Moved
<1>5. /\ _score_word_validity(q) = Cardinality(Moved(WI) \cup WE)
      /\ _score_word_validity(r) = Cardinality(WI)
  BY <1>1, <1>3 DEF _score_word_validity
<1>6. /\ _score_syllable_freq(q) = Cardinality(Moved(SI) \cup SE)
      /\ _score_syllable_freq(r) = Cardinality(SI)
  BY <1>1, <1>4 DEF _score_syllable_freq
<1>7. /\ WI \in SUBSET (1 .. n) /\ WE \in SUBSET Gaps(n)
      /\ SI \in SUBSET (1 .. n) /\ SE \in SUBSET Gaps(n)
  OBVIOUS
<1> HIDE DEF WI, WE, SI, SE
<1>8. /\ Cardinality(Moved(WI) \cup WE) = Cardinality(WI) + Cardinality(WE)
      /\ Cardinality(WI) \in Nat /\ Cardinality(WE) \in Nat
  BY <1>1, <1>7, CountApart
<1>9. /\ Cardinality(Moved(SI) \cup SE) = Cardinality(SI) + Cardinality(SE)
      /\ Cardinality(SI) \in Nat /\ Cardinality(SE) \in Nat
  BY <1>1, <1>7, CountApart
<1> QED
  BY <1>5, <1>6, <1>8, <1>9 DEF WE, SE

LEMMA SpaceTokenFacts ==
  /\ SpaceToken.text = SpaceText
  /\ \A c \in SpaceToken.candidates : c.ocr = FALSE
<1> DEFINE c == [text |-> <<" ">>, ocr |-> FALSE, edit |-> None]
<1>1. SpaceToken.candidates = {c} /\ c.ocr = FALSE
  BY DEF SpaceToken
<1>2. SpaceToken.text = SpaceText
  BY DEF SpaceToken, SpaceText
<1> HIDE DEF c
<1> QED
  BY <1>1, <1>2

\* The same tokens are changed.
LEMMA ChangedApart ==
  ASSUME NEW n, NEW w, NEW r, NEW v, NEW q, SpacedApart(n, w, r, v, q)
  PROVE  /\ Changed(q, original_tokens(v)) = Moved(Changed(r, original_tokens(w)))
         /\ Changed(r, original_tokens(w)) \in SUBSET (1 .. n)
<1>1. /\ n \in Nat \ {0} /\ DOMAIN w = 1 .. n /\ DOMAIN v = 1 .. 2 * n - 1
      /\ \A i \in 1 .. n : v[2 * i - 1] = w[i] /\ q[2 * i - 1] = r[i]
      /\ \A j \in Gaps(n) : v[j] = SpaceToken /\ q[j] = SpaceText
      /\ Proper(w) /\ r \in Combinations(w) /\ Proper(v) /\ q \in Combinations(v)
  BY SpacedWindow
<1>2. 1 .. 2 * n - 1 = Moved(1 .. n) \cup Gaps(n)
  BY <1>1, MovedFacts
<1>3. /\ Changed(q, original_tokens(v)) = {j \in 1 .. 2 * n - 1 : q[j] # v[j].text}
      /\ Changed(r, original_tokens(w)) = {i \in 1 .. n : r[i] # w[i].text}
  BY <1>1, ReadingFacts
<1>4. \A j \in Gaps(n) : q[j] = v[j].text
  BY <1>1, SpaceTokenFacts
<1> DEFINE A == Changed(q, original_tokens(v))
           B == Changed(r, original_tokens(w))
<1>5. A \subseteq 1 .. 2 * n - 1 /\ B \in SUBSET (1 .. n)
  BY <1>3
<1>6. \A i \in 1 .. n : 2 * i - 1 \in A <=> i \in B
  <2>1. SUFFICES ASSUME NEW i \in 1 .. n PROVE 2 * i - 1 \in A <=> i \in B
    OBVIOUS
  <2> DEFINE p == 2 * i - 1
  <2>2. p \in 1 .. 2 * n - 1 /\ v[p] = w[i] /\ q[p] = r[i]
    BY <1>1
  <2> HIDE DEF p
  <2>3. p \in A <=> i \in B
    BY <1>3, <2>2
  <2> QED
    BY <2>3 DEF p
<1>7. \A j \in Gaps(n) : j \notin A
  BY <1>3, <1>4
<1> HIDE DEF A, B
<1>8. \A j \in A : \E i \in B : j = 2 * i - 1
  <2>1. \A j \in A : j \in Moved(1 .. n)
    BY <1>2, <1>5, <1>7
  <2> QED
    BY <1>6, <2>1 DEF Moved
<1>9. \A i \in B : 2 * i - 1 \in A
  BY <1>5, <1>6
<1>10. A = Moved(B)
  BY <1>8, <1>9 DEF Moved
<1> QED
  BY <1>5, <1>10 DEF A, B

\* The same tokens are confused with a text.
LEMMA ConfusedApart ==
  ASSUME NEW n, NEW w, NEW r, NEW v, NEW q, SpacedApart(n, w, r, v, q), NEW i \in 1 .. n, NEW text
  PROVE  Cardinality(Confused(v, 2 * i - 1, text)) = Cardinality(Confused(w, i, text))
<1>1. /\ n \in Nat \ {0}
      /\ \A k \in 1 .. n : v[2 * k - 1] = w[k]
      /\ \A j \in Gaps(n) : v[j] = SpaceToken
  BY SpacedWindow
<1> DEFINE S == Same(w, i)
           p == 2 * i - 1
           T == Same(v, p)
           G == T \cap Gaps(n)
           Takes(t) == \E c \in t.candidates : c.text = text /\ c.ocr
           C == {k \in S : Takes(w[k])}
<1>2. T = Moved(S) \cup G /\ S \in SUBSET (1 .. n)
  BY SameApart
<1>3. Confused(v, p, text) = {j \in T : Takes(v[j])} /\ Confused(w, i, text) = C
  BY DEF Confused
<1>4. ~Takes(SpaceToken)
  BY SpaceTokenFacts
<1>5. \A j \in G : ~Takes(v[j])
  <2> HIDE DEF Takes
  <2> QED
    BY <1>1, <1>4
<1>6. \A k \in S : Takes(v[2 * k - 1]) <=> Takes(w[k])
  <2> HIDE DEF Takes
  <2> QED
    BY <1>1, <1>2
<1>7. C \in SUBSET (1 .. n)
  BY <1>2
<1> HIDE DEF S, T, G, Takes, p
<1>8. {j \in T : Takes(v[j])} = Moved(C)
  <2>1. \A j \in T : Takes(v[j]) => \E k \in C : j = 2 * k - 1
    <3>1. SUFFICES ASSUME NEW j \in T, Takes(v[j]) PROVE \E k \in C : j = 2 * k - 1
      OBVIOUS
    <3>2. j \notin G
      BY <1>5, <3>1
    <3>3. PICK k \in S : j = 2 * k - 1
      BY <1>2, <3>2 DEF Moved
    <3>4. k \in C
      BY <1>6, <3>1, <3>3 DEF C
    <3> QED
      BY <3>3, <3>4
  <2>2. \A k \in C : 2 * k - 1 \in T /\ Takes(v[2 * k - 1])
    <3>1. \A k \in S : 2 * k - 1 \in T
      BY <1>2 DEF Moved
    <3> QED
      BY <1>6, <3>1 DEF C
  <2> HIDE DEF C
  <2> QED
    BY <2>1, <2>2 DEF Moved
<1> HIDE DEF C
<1>9. Cardinality(Moved(C)) = Cardinality(C)
  BY <1>1, <1>7, MovedFacts
<1> QED
  BY <1>3, <1>8, <1>9 DEF p

SpaceCredit(n) == Sum([j \in Gaps(n) |-> 60000], Gaps(n))

\* Spaces add the same credit to every reading.
LEMMA SignalsApart ==
  ASSUME NEW n, NEW w, NEW r, NEW v, NEW q, SpacedApart(n, w, r, v, q)
  PROVE  /\ _score_edit_distance(v, q) = _score_edit_distance(w, r) + SpaceCredit(n)
         /\ _score_ocr_confusion(v, q) = _score_ocr_confusion(w, r)
         /\ SpaceCredit(n) \in Int
<1>1. /\ n \in Nat \ {0} /\ DOMAIN w = 1 .. n /\ DOMAIN v = 1 .. 2 * n - 1
      /\ \A i \in 1 .. n : v[2 * i - 1] = w[i] /\ q[2 * i - 1] = r[i]
      /\ \A j \in Gaps(n) : v[j] = SpaceToken /\ q[j] = SpaceText
      /\ Proper(w) /\ r \in Combinations(w) /\ Proper(v) /\ q \in Combinations(v)
  BY SpacedWindow
<1>2. /\ 1 .. 2 * n - 1 = Moved(1 .. n) \cup Gaps(n)
      /\ IsFiniteSet(Gaps(n))
      /\ \A i \in 1 .. n : 2 * i - 1 \in 1 .. 2 * n - 1
      /\ Gaps(n) \subseteq 1 .. 2 * n - 1
  BY <1>1, MovedFacts
<1> DEFINE E == EditTerms(v, q)
           e == EditTerms(w, r)
           F == ConfusionTerms(v, q)
           f == ConfusionTerms(w, r)
           C == Changed(r, original_tokens(w))
<1>3. /\ _score_edit_distance(v, q) = Sum(E, 1 .. 2 * n - 1)
      /\ _score_edit_distance(w, r) = Sum(e, 1 .. n)
      /\ _score_ocr_confusion(v, q) = Sum(F, Moved(C))
      /\ _score_ocr_confusion(w, r) = Sum(f, C)
      /\ C \in SUBSET (1 .. n)
      /\ \A i \in 1 .. n : e[i] \in Nat /\ f[i] \in Nat
  BY <1>1, SignalSums, ChangedApart
<1>4. \A i \in 1 .. n : E[2 * i - 1] = e[i]
  <2>1. SUFFICES ASSUME NEW i \in 1 .. n PROVE E[2 * i - 1] = e[i]
    OBVIOUS
  <2> DEFINE p == 2 * i - 1
  <2>2. p \in DOMAIN v /\ q[p] = r[i] /\ i \in DOMAIN w
    BY <1>1, <1>2
  <2>3. EditOf(v, p, r[i]) = EditOf(w, i, r[i])
    BY CreditApart
  <2> HIDE DEF p
  <2>4. E[p] = e[i]
    BY <2>2, <2>3 DEF EditTerms
  <2> QED
    BY <2>4 DEF p
<1>5. \A i \in 1 .. n : F[2 * i - 1] = f[i]
  <2>1. SUFFICES ASSUME NEW i \in 1 .. n PROVE F[2 * i - 1] = f[i]
    OBVIOUS
  <2> DEFINE p == 2 * i - 1
  <2>2. p \in DOMAIN v /\ q[p] = r[i] /\ i \in DOMAIN w
    BY <1>1, <1>2
  <2>3. Cardinality(Confused(v, p, r[i])) = Cardinality(Confused(w, i, r[i]))
    BY ConfusedApart
  <2> HIDE DEF p
  <2>4. F[p] = f[i]
    BY <2>2, <2>3 DEF ConfusionTerms
  <2> QED
    BY <2>4 DEF p
<1>6. \A j \in Gaps(n) : E[j] = 60000
  <2>1. SUFFICES ASSUME NEW j \in Gaps(n) PROVE E[j] = 60000
    OBVIOUS
  <2>2. j \in DOMAIN v /\ q[j] = v[j].text
    BY <1>1, <1>2, SpaceTokenFacts
  <2> QED
    BY <2>2 DEF EditTerms, EditOf
<1> HIDE DEF E, e, F, f, C
<1>7. Carries(E, e, 1 .. n) /\ Carries(F, f, C)
  BY <1>3, <1>4, <1>5 DEF Carries
<1>8. Sum(E, Gaps(n)) = SpaceCredit(n) /\ SpaceCredit(n) \in Int
  <2> DEFINE g == [j \in Gaps(n) |-> 60000]
             G == Gaps(n)
  <2>1. \A j \in G : g[j] \in Int /\ E[j] = g[j]
    BY <1>6
  <2> HIDE DEF g, G
  <2>2. Sum(E, G) = Sum(g, G) /\ Sum(g, G) \in Int
    BY <1>2, <2>1, SumEqual, SumType DEF G
  <2> QED
    BY <2>2 DEF SpaceCredit, g, G
<1>9. /\ Sum(E, Moved(1 .. n) \cup Gaps(n)) = Sum(e, 1 .. n) + Sum(E, Gaps(n))
  <2> DEFINE I == 1 .. n
             G == Gaps(n)
  <2>1. I \in SUBSET (1 .. n) /\ G \in SUBSET Gaps(n) /\ \A j \in G : E[j] \in Int
    BY <1>6
  <2>2. Carries(E, e, I)
    BY <1>7
  <2> HIDE DEF I, G
  <2>3. n \in Nat \ {0}
    BY <1>1
  <2>4. I \in SUBSET (1 .. n) /\ G \in SUBSET Gaps(n) /\ \A j \in G : E[j] \in Int
    BY <2>1
  <2>5. Sum(E, Moved(I) \cup G) = Sum(e, I) + Sum(E, G)
    BY <2>2, <2>3, <2>4, SumApart
  <2> QED
    BY <2>5 DEF I, G
<1>10. Sum(F, Moved(C)) = Sum(f, C)
  <2> DEFINE G == {}
  <2>1. G \in SUBSET Gaps(n) /\ \A j \in G : F[j] \in Int
    OBVIOUS
  <2>2. Sum(F, G) = 0
    BY FS_EmptySet, SumStep
  <2>3. Moved(C) \cup G = Moved(C)
    OBVIOUS
  <2> HIDE DEF G
  <2>4. n \in Nat \ {0}
    BY <1>1
  <2>5. C \in SUBSET (1 .. n)
    BY <1>3
  <2>6. Carries(F, f, C)
    BY <1>7
  <2>7. Sum(F, Moved(C) \cup G) = Sum(f, C) + Sum(F, G) /\ Sum(f, C) \in Int
    BY <2>1, <2>4, <2>5, <2>6, SumApart
  <2> DEFINE a == Sum(F, Moved(C))
             b == Sum(f, C)
             c == Sum(F, G)
  <2>8. a = b + c /\ b \in Int /\ c = 0
    BY <2>2, <2>3, <2>7
  <2> HIDE DEF a, b, c
  <2>9. a = b
    BY <2>8
  <2> QED
    BY <2>9 DEF a, b
<1> QED
  BY <1>2, <1>3, <1>8, <1>9, <1>10

\* The texts that are no spaces stay where they are among each other.
SolidOf(t) == {k \in DOMAIN t : ~IsSpace(t[k])}

LEMMA SolidApart ==
  ASSUME NEW n \in Nat \ {0}, NEW s, NEW t, DOMAIN s = 1 .. n, DOMAIN t = 1 .. 2 * n - 1,
         \A i \in 1 .. n : t[2 * i - 1] = s[i], \A j \in Gaps(n) : t[j] = SpaceText
  PROVE  SolidOf(t) = Moved(SolidOf(s)) /\ SolidOf(s) \in SUBSET (1 .. n)
<1> DEFINE A == SolidOf(t)
           B == SolidOf(s)
<1>1. A \subseteq 1 .. 2 * n - 1 /\ B \in SUBSET (1 .. n)
  BY DEF SolidOf
<1>2. \A i \in 1 .. n : 2 * i - 1 \in A <=> i \in B
  <2>1. SUFFICES ASSUME NEW i \in 1 .. n PROVE 2 * i - 1 \in A <=> i \in B
    OBVIOUS
  <2> DEFINE p == 2 * i - 1
  <2>2. p \in 1 .. 2 * n - 1 /\ t[p] = s[i]
    OBVIOUS
  <2> HIDE DEF p
  <2>3. p \in A <=> i \in B
    BY <2>2 DEF SolidOf
  <2> QED
    BY <2>3 DEF p
<1>3. \A j \in Gaps(n) : j \notin A
  <2>1. IsSpace(SpaceText)
    BY SpaceIsSpace DEF SpaceText
  <2> QED
    BY <2>1 DEF SolidOf
<1> HIDE DEF A, B
<1>4. \A j \in A : \E i \in B : j = 2 * i - 1
  <2>1. \A j \in A : j \in Moved(1 .. n)
    BY <1>1, <1>3, MovedFacts
  <2> QED
    BY <1>2, <2>1 DEF Moved
<1>5. \A i \in B : 2 * i - 1 \in A
  BY <1>1, <1>2
<1>6. A = Moved(B)
  BY <1>4, <1>5 DEF Moved
<1> QED
  BY <1>1, <1>6 DEF A, B

\* N-grams do not see the spaces.
LEMMA ContentApart ==
  ASSUME NEW n, NEW w, NEW r, NEW v, NEW q, SpacedApart(n, w, r, v, q)
  PROVE  Content(q) = Content(r)
<1>1. /\ n \in Nat \ {0} /\ DOMAIN r = 1 .. n /\ DOMAIN q = 1 .. 2 * n - 1
      /\ \A i \in 1 .. n : q[2 * i - 1] = r[i]
      /\ \A j \in Gaps(n) : q[j] = SpaceText
  BY SpacedWindow
<1> DEFINE I == SolidOf(r)
<1>2. SolidOf(q) = Moved(I) /\ I \in SUBSET (1 .. n)
  BY <1>1, SolidApart
<1>3. Content(q) = Pick(q, SolidOf(q)) /\ Content(r) = Pick(r, I)
  BY DEF Content, SolidOf
<1> HIDE DEF I
<1>4. n \in Nat \ {0} /\ \A i \in I : q[2 * i - 1] = r[i]
  BY <1>1, <1>2
<1>5. Pick(q, Moved(I)) = Pick(r, I)
  BY <1>2, <1>4, PickMoved
<1> QED
  BY <1>2, <1>3, <1>5

\* The nearest places stay the nearest.
LEMMA EndsApart ==
  ASSUME NEW n \in Nat \ {0}, NEW I \in SUBSET (1 .. n), I # {}
  PROVE  /\ Max(I) \in I /\ Max(Moved(I)) = 2 * Max(I) - 1
         /\ Min(I) \in I /\ Min(Moved(I)) = 2 * Min(I) - 1
<1>1. I \subseteq Int
  OBVIOUS
<1>2. IsFiniteSet(I)
  <2>1. IsFiniteSet(1 .. n)
    BY FS_Interval
  <2> QED
    BY <2>1, FS_Subset
<1>3. Max(I) \in I /\ \A i \in I : i <= Max(I)
  <2>1. \A i \in I : i <= n
    OBVIOUS
  <2>2. n \in Int
    OBVIOUS
  <2>3. Max(I) \in I /\ \A i \in I : Max(I) >= i
    BY <1>1, <2>1, <2>2, MaxOfBounded
  <2> QED
    BY <1>1, <2>3
<1>4. Min(I) \in I /\ \A i \in I : Min(I) <= i
  <2>1. \E m \in I : \A i \in I : m <= i
    <3> DEFINE h == [i \in I |-> n - i]
               K == {h[i] : i \in I}
    <3>1. IsFiniteSet(K) /\ K # {} /\ \A k \in K : k \in Int
      <4> DEFINE G == I
      <4>1. \A x \in G : \A y \in G : h[x] = h[y] => x = y
        BY <1>1
      <4>2. \A i \in I : h[i] \in Int
        BY <1>1
      <4>3. IsFiniteSet(G)
        BY <1>2
      <4> HIDE DEF h, G
      <4>4. IsFiniteSet({h[i] : i \in G})
        BY <4>3, <4>1, CountMoved
      <4> QED
        BY <4>2, <4>4 DEF G
    <3>2. PICK k \in K : \A s \in K : s <= k
      <4> HIDE DEF K
      <4> QED
        BY <3>1, MaxExists
    <3>3. PICK m \in I : k = n - m
      OBVIOUS
    <3>4. \A i \in I : n - i <= n - m
      BY <3>2, <3>3
    <3>5. \A i \in I : m <= i
      BY <1>1, <3>4
    <3> QED
      BY <3>5
  <2> QED
    BY <2>1 DEF Min
<1>5. Max(Moved(I)) = 2 * Max(I) - 1
  <2> DEFINE m == Max(I)
  <2>1. m \in Int /\ m \in I /\ \A i \in I : i \in Int /\ i <= m
    BY <1>1, <1>3
  <2> HIDE DEF m
  <2>2. 2 * m - 1 \in Moved(I) /\ \A j \in Moved(I) : j \in Int /\ 2 * m - 1 >= j
    BY <2>1 DEF Moved
  <2>3. \A x \in Moved(I) : (\A y \in Moved(I) : x >= y) => x = 2 * m - 1
    BY <2>1, <2>2
  <2>4. Max(Moved(I)) = 2 * m - 1
    BY <2>2, <2>3 DEF Max
  <2> QED
    BY <2>4 DEF m
<1>6. Min(Moved(I)) = 2 * Min(I) - 1
  <2> DEFINE m == Min(I)
  <2>1. m \in Int /\ m \in I /\ \A i \in I : i \in Int /\ m <= i
    BY <1>1, <1>4
  <2> HIDE DEF m
  <2>2. 2 * m - 1 \in Moved(I) /\ \A j \in Moved(I) : j \in Int /\ 2 * m - 1 <= j
    BY <2>1 DEF Moved
  <2>3. \A x \in Moved(I) : (\A y \in Moved(I) : x <= y) => x = 2 * m - 1
    BY <2>1, <2>2
  <2>4. Min(Moved(I)) = 2 * m - 1
    BY <2>2, <2>3 DEF Min
  <2> QED
    BY <2>4 DEF m
<1> QED
  BY <1>3, <1>4, <1>5, <1>6

\* What the neighbours say for a candidate: the nearest of L to the left and
\* the nearest of R to the right.
Enough(found, before) == found >= 5000 /\ found >= before + 2000

Beside(ng, c, o, t, L, R) ==
  \/ /\ L # {}
     /\ Enough(bigram_score(ng, t[Max(L)], c), bigram_score(ng, t[Max(L)], o))
  \/ /\ R # {}
     /\ Enough(bigram_score(ng, c, t[Min(R)]), bigram_score(ng, o, t[Min(R)]))

LEMMA ImprovesIs ==
  ASSUME NEW ng, NEW c, NEW o, NEW t, NEW i
  PROVE  _candidate_improves_ngram(ng, c, o, t, i) <=>
           /\ i \in SolidOf(t)
           /\ Beside(ng, c, o, t, {k \in SolidOf(t) : k < i}, {k \in SolidOf(t) : k > i})
BY DEF _candidate_improves_ngram, SolidOf, Beside, Enough

LEMMA BesideApart ==
  ASSUME NEW n \in Nat \ {0}, NEW s, NEW t, \A i \in 1 .. n : t[2 * i - 1] = s[i],
         NEW L \in SUBSET (1 .. n), NEW R \in SUBSET (1 .. n), NEW ng, NEW c, NEW o
  PROVE  Beside(ng, c, o, t, Moved(L), Moved(R)) <=> Beside(ng, c, o, s, L, R)
<1>1. (Moved(L) # {} <=> L # {}) /\ (Moved(R) # {} <=> R # {})
  BY DEF Moved
<1>2. L # {} => t[Max(Moved(L))] = s[Max(L)]
  <2>1. SUFFICES ASSUME L # {} PROVE t[Max(Moved(L))] = s[Max(L)]
    OBVIOUS
  <2> DEFINE m == Max(L)
  <2>2. m \in L /\ Max(Moved(L)) = 2 * m - 1
    BY <2>1, EndsApart
  <2> HIDE DEF m
  <2>3. t[2 * m - 1] = s[m]
    BY <2>2
  <2> QED
    BY <2>2, <2>3 DEF m
<1>3. R # {} => t[Min(Moved(R))] = s[Min(R)]
  <2>1. SUFFICES ASSUME R # {} PROVE t[Min(Moved(R))] = s[Min(R)]
    OBVIOUS
  <2> DEFINE m == Min(R)
  <2>2. m \in R /\ Min(Moved(R)) = 2 * m - 1
    BY <2>1, EndsApart
  <2> HIDE DEF m
  <2>3. t[2 * m - 1] = s[m]
    BY <2>2
  <2> QED
    BY <2>2, <2>3 DEF m
<1> QED
  <2> DEFINE A == Moved(L)
             B == Moved(R)
             a == t[Max(A)]
             b == t[Min(B)]
  <2>1. Beside(ng, c, o, t, A, B) <=>
          \/ A # {} /\ Enough(bigram_score(ng, a, c), bigram_score(ng, a, o))
          \/ B # {} /\ Enough(bigram_score(ng, c, b), bigram_score(ng, o, b))
    BY DEF Beside
  <2> HIDE DEF A, B
  <2>2. /\ (A # {} <=> L # {}) /\ (B # {} <=> R # {})
        /\ L # {} => a = s[Max(L)]
        /\ R # {} => b = s[Min(R)]
    BY <1>1, <1>2, <1>3 DEF A, B
  <2> HIDE DEF a, b
  <2>3. Beside(ng, c, o, t, A, B) <=> Beside(ng, c, o, s, L, R)
    BY <2>1, <2>2 DEF Beside
  <2> QED
    BY <2>3 DEF A, B

\* The check of the neighbours does not see the spaces.
LEMMA ImprovesApart ==
  ASSUME NEW n \in Nat \ {0}, NEW s, NEW t, DOMAIN s = 1 .. n, DOMAIN t = 1 .. 2 * n - 1,
         \A k \in 1 .. n : t[2 * k - 1] = s[k], \A j \in Gaps(n) : t[j] = SpaceText,
         NEW i \in 1 .. n, NEW ng, NEW c, NEW o
  PROVE  _candidate_improves_ngram(ng, c, o, t, 2 * i - 1) <=> _candidate_improves_ngram(ng, c, o, s, i)
<1> DEFINE S == SolidOf(s)
           T == SolidOf(t)
           p == 2 * i - 1
           L == {k \in S : k < i}
           R == {k \in S : k > i}
           LL == {k \in T : k < p}
           RR == {k \in T : k > p}
<1>1. T = Moved(S) /\ S \in SUBSET (1 .. n)
  BY SolidApart
<1>2. /\ _candidate_improves_ngram(ng, c, o, t, p) <=> p \in T /\ Beside(ng, c, o, t, LL, RR)
      /\ _candidate_improves_ngram(ng, c, o, s, i) <=> i \in S /\ Beside(ng, c, o, s, L, R)
  BY ImprovesIs
<1> HIDE DEF S, T
<1>3. \A k \in 1 .. n : 2 * k - 1 \in T <=> k \in S
  <2>1. SUFFICES ASSUME NEW k \in 1 .. n, 2 * k - 1 \in T PROVE k \in S
    BY <1>1 DEF Moved
  <2>2. PICK m \in S : 2 * k - 1 = 2 * m - 1
    BY <1>1, <2>1 DEF Moved
  <2>3. m = k
    BY <1>1, <2>2
  <2> QED
    BY <2>3
<1>4. LL = Moved(L)
  <2>1. \A k \in S : 2 * k - 1 < p <=> k < i
    BY <1>1
  <2> QED
    BY <1>1, <2>1 DEF Moved
<1>5. RR = Moved(R)
  <2>1. \A k \in S : 2 * k - 1 > p <=> k > i
    BY <1>1
  <2> QED
    BY <1>1, <2>1 DEF Moved
<1>6. L \in SUBSET (1 .. n) /\ R \in SUBSET (1 .. n)
  BY <1>1
<1> HIDE DEF L, R, LL, RR
<1>7. Beside(ng, c, o, t, Moved(L), Moved(R)) <=> Beside(ng, c, o, s, L, R)
  BY <1>6, BesideApart
<1>8. p \in T <=> i \in S
  BY <1>3
<1> HIDE DEF p
<1>9. _candidate_improves_ngram(ng, c, o, t, p) <=> _candidate_improves_ngram(ng, c, o, s, i)
  BY <1>2, <1>4, <1>5, <1>7, <1>8
<1> QED
  BY <1>9 DEF p

\* The same changes are penalized.
LEMMA PenalizedApart ==
  ASSUME NEW n, NEW w, NEW r, NEW v, NEW q, SpacedApart(n, w, r, v, q), NEW ng
  PROVE  _score_overcorrection_penalty(ng, q, original_tokens(v)) =
           _score_overcorrection_penalty(ng, r, original_tokens(w))
<1> DEFINE s == original_tokens(w)
           t == original_tokens(v)
           C == Changed(r, s)
           D == Changed(q, t)
           P == Penalized(ng, r, s)
           Q == Penalized(ng, q, t)
<1>1. /\ n \in Nat \ {0} /\ DOMAIN w = 1 .. n /\ DOMAIN v = 1 .. 2 * n - 1
      /\ \A i \in 1 .. n : v[2 * i - 1] = w[i] /\ q[2 * i - 1] = r[i]
      /\ \A j \in Gaps(n) : v[j] = SpaceToken
  BY SpacedWindow
<1>2. D = Moved(C) /\ C \in SUBSET (1 .. n)
  BY ChangedApart
<1>3. DOMAIN s = 1 .. n /\ DOMAIN t = 1 .. 2 * n - 1
  BY <1>1 DEF original_tokens
<1>4. \A i \in 1 .. n : t[2 * i - 1] = s[i]
  <2>1. SUFFICES ASSUME NEW i \in 1 .. n PROVE t[2 * i - 1] = s[i]
    OBVIOUS
  <2> DEFINE p == 2 * i - 1
  <2>2. p \in DOMAIN v /\ i \in DOMAIN w /\ v[p] = w[i]
    BY <1>1
  <2> HIDE DEF p
  <2>3. t[p] = s[i]
    BY <2>2 DEF original_tokens
  <2> QED
    BY <2>3 DEF p
<1>5. \A j \in Gaps(n) : t[j] = SpaceText
  <2>1. Gaps(n) \subseteq DOMAIN v
    BY <1>1, MovedFacts
  <2> QED
    BY <1>1, <2>1, SpaceTokenFacts DEF original_tokens
<1>6. \A i \in 1 .. n : q[2 * i - 1] = r[i]
  BY <1>1
<1> DEFINE Bad(x, y, z, k) == /\ contains_word(z[k])
                              /\ ~_is_accentless_variant_correction(z[k], x[k])
                              /\ ~_candidate_improves_ngram(ng, x[k], z[k], y, k)
<1>7. P = {i \in C : Bad(r, s, s, i)} /\ Q = {j \in D : Bad(q, t, t, j)}
  BY DEF Penalized
<1> HIDE DEF s, t, C, D, P, Q
<1>8. \A i \in 1 .. n : Bad(q, t, t, 2 * i - 1) <=> Bad(r, s, s, i)
  <2>1. SUFFICES ASSUME NEW i \in 1 .. n PROVE Bad(q, t, t, 2 * i - 1) <=> Bad(r, s, s, i)
    OBVIOUS
  <2> DEFINE p == 2 * i - 1
  <2>2. t[p] = s[i] /\ q[p] = r[i]
    BY <1>4, <1>6
  <2>3. n \in Nat \ {0}
    BY <1>1
  <2>4. \A c, o : _candidate_improves_ngram(ng, c, o, t, p) <=> _candidate_improves_ngram(ng, c, o, s, i)
    BY <1>3, <1>4, <1>5, <2>3, ImprovesApart
  <2> HIDE DEF p
  <2>5. Bad(q, t, t, p) <=> Bad(r, s, s, i)
    BY <2>2, <2>4
  <2> HIDE DEF Bad
  <2> QED
    BY <2>5 DEF p
<1> HIDE DEF Bad
<1>9. Q = Moved(P)
  <2>1. \A j \in Q : \E i \in P : j = 2 * i - 1
    BY <1>2, <1>7, <1>8 DEF Moved
  <2>2. \A i \in P : 2 * i - 1 \in Q
    BY <1>2, <1>7, <1>8 DEF Moved
  <2> QED
    BY <2>1, <2>2 DEF Moved
<1>10. P \in SUBSET (1 .. n)
  BY <1>2, <1>7
<1>11. Cardinality(D) = Cardinality(C) /\ Cardinality(Q) = Cardinality(P)
  <2>1. n \in Nat \ {0}
    BY <1>1
  <2> QED
    BY <1>2, <1>9, <1>10, <2>1, MovedFacts
<1>12. /\ _score_overcorrection_penalty(ng, q, t) =
            IF Cardinality(D) = 0 THEN 0 ELSE (130000 * Cardinality(Q)) \div Cardinality(D)
       /\ _score_overcorrection_penalty(ng, r, s) =
            IF Cardinality(C) = 0 THEN 0 ELSE (130000 * Cardinality(P)) \div Cardinality(C)
  BY DEF _score_overcorrection_penalty, C, D, P, Q
<1>13. _score_overcorrection_penalty(ng, q, t) = _score_overcorrection_penalty(ng, r, s)
  <2> DEFINE c == Cardinality(C)
             d == Cardinality(D)
             a == Cardinality(P)
             b == Cardinality(Q)
  <2>1. d = c /\ b = a
    BY <1>11
  <2>2. /\ _score_overcorrection_penalty(ng, q, t) = IF d = 0 THEN 0 ELSE (130000 * b) \div d
        /\ _score_overcorrection_penalty(ng, r, s) = IF c = 0 THEN 0 ELSE (130000 * a) \div c
    BY <1>12
  <2> HIDE DEF a, b, c, d
  <2> QED
    BY <2>1, <2>2
<1> QED
  BY <1>13 DEF s, t

\* What the spaces add to the score of a reading.
SpaceScore(n) ==
  100000 * Cardinality({j \in Gaps(n) : contains_word(SpaceText)})
    + 12000 * Cardinality({j \in Gaps(n) : contains_syllable(SpaceText)}) + SpaceCredit(n)

\* With the spaces every reading scores as much more.
LEMMA TotalApart ==
  ASSUME NEW n, NEW w, NEW r, NEW v, NEW q, SpacedApart(n, w, r, v, q), NEW ng, Numbers(ng), NEW dom
  PROVE  Total(_score_sequence(ng, v, dom, q)) - Total(_score_sequence(ng, w, dom, r)) = SpaceScore(n)
<1>1. Proper(w) /\ r \in Combinations(w)
  BY SpacedWindow
<1>2. /\ _score_word_validity(q) =
            _score_word_validity(r) + Cardinality({j \in Gaps(n) : contains_word(SpaceText)})
      /\ _score_syllable_freq(q) =
            _score_syllable_freq(r) + Cardinality({j \in Gaps(n) : contains_syllable(SpaceText)})
      /\ _score_word_validity(r) \in Nat /\ _score_syllable_freq(r) \in Nat
      /\ Cardinality({j \in Gaps(n) : contains_word(SpaceText)}) \in Nat
      /\ Cardinality({j \in Gaps(n) : contains_syllable(SpaceText)}) \in Nat
  BY CountsApart
<1> DEFINE C1 == Cardinality({j \in Gaps(n) : contains_word(SpaceText)})
           C2 == Cardinality({j \in Gaps(n) : contains_syllable(SpaceText)})
           S == SpaceCredit(n)
           a == _score_word_validity(r)
           b == _score_syllable_freq(r)
           c == 14 * _score_phrase_ngram(ng, r)
           d == 12 * _score_domain_context(ng, r, dom)
           e == _score_ocr_confusion(w, r)
           f == _score_edit_distance(w, r)
           g == _score_overcorrection_penalty(ng, r, original_tokens(w))
           h == 15 * negative_phrase_score(ng, Content(r))
           x == Total(_score_sequence(ng, v, dom, q))
           y == Total(_score_sequence(ng, w, dom, r))
<1>3. /\ c \in Int /\ d \in Int /\ e \in Int /\ f \in Int /\ g \in Int /\ h \in Int
  BY <1>1, ScoreTypes
<1>4. /\ a \in Nat /\ b \in Nat /\ C1 \in Nat /\ C2 \in Nat
      /\ _score_word_validity(q) = a + C1 /\ _score_syllable_freq(q) = b + C2
  BY <1>2
<1>5. S \in Int /\ _score_edit_distance(v, q) = f + S /\ _score_ocr_confusion(v, q) = e
  BY SignalsApart
<1>6. _score_overcorrection_penalty(ng, q, original_tokens(v)) = g
  BY PenalizedApart
<1>7. /\ 14 * _score_phrase_ngram(ng, q) = c
      /\ 12 * _score_domain_context(ng, q, dom) = d
      /\ 15 * negative_phrase_score(ng, Content(q)) = h
  <2>1. Content(q) = Content(r)
    BY ContentApart
  <2> QED
    BY <2>1 DEF _score_phrase_ngram, _score_domain_context
<1>8. y = 100000 * a + 12000 * b + c + d + 100000 * e + f - g - h
  BY TotalIs
<1>9. x = 100000 * (a + C1) + 12000 * (b + C2) + c + d + 100000 * e + (f + S) - g - h
  BY <1>4, <1>5, <1>6, <1>7, TotalIs
<1>10. SpaceScore(n) = 100000 * C1 + 12000 * C2 + S
  BY DEF SpaceScore
<1> HIDE DEF C1, C2, S, a, b, c, d, e, f, g, h, x, y
<1>11. x - y = SpaceScore(n)
  BY <1>3, <1>4, <1>5, <1>8, <1>9, <1>10
<1> QED
  BY <1>11 DEF x, y

\* How well a reading does against another does not depend on the spaces:
\* with the invariant each total grows by the same SpaceScore.
THEOREM SpacesDontMatterCorrect == ScorerSpec => []SpacesDontMatter
<1>1. Kept => SpacesDontMatter
  <2> SUFFICES ASSUME Kept PROVE SpacesDontMatter
    OBVIOUS
  <2> DEFINE v == Spaced(window, SpaceToken)
             ng == store.content
             Aside(r) == Spaced(r, <<" ">>)
             Difference(r) == Total(_score_sequence(ng, v, domain, Aside(r))) - Total(scored[r])
  <2>1. SUFFICES ASSUME NEW r \in DOMAIN scored, NEW q \in DOMAIN scored
                 PROVE  Difference(r) = Difference(q)
    BY DEF SpacesDontMatter
  <2>2. /\ Proper(window) /\ Numbers(ng) /\ DOMAIN scored = Combinations(window)
        /\ \A p \in DOMAIN scored : scored[p] = _score_sequence(ng, window, domain, p)
    BY ScoredFacts
  <2>3. DOMAIN window = 1 .. Len(window) /\ Len(window) \in Nat
    BY <2>2, PlacesFacts
  <2>4. CASE Len(window) = 0
    <3>1. DOMAIN window = {}
      BY <2>3, <2>4
    <3>2. r = [i \in DOMAIN window |-> r[i]] /\ q = [i \in DOMAIN window |-> q[i]]
      BY <2>2, ReadingFacts
    <3>3. r = q
      BY <3>1, <3>2
    <3> QED
      BY <3>3
  <2>5. CASE Len(window) # 0
    <3> DEFINE n == Len(window)
    <3>1. n \in Nat \ {0}
      BY <2>3, <2>5
    <3>2. \A p \in DOMAIN scored : SpacedApart(n, window, p, v, Aside(p))
      BY <2>2, <3>1 DEF SpacedApart
    <3> HIDE DEF n, v, ng, Aside
    <3>3. \A p \in DOMAIN scored :
            Total(_score_sequence(ng, v, domain, Aside(p)))
              - Total(_score_sequence(ng, window, domain, p)) = SpaceScore(n)
      BY <2>2, <3>2, TotalApart
    <3>4. \A p \in DOMAIN scored : Difference(p) = SpaceScore(n)
      BY <2>2, <3>3
    <3> HIDE DEF Difference
    <3> QED
      BY <3>4
  <2> QED
    BY <2>4, <2>5
<1> QED
  BY <1>1, KeptAlways, PTL
=============================================================================
