-------------------------- MODULE WindowDecision --------------------------
(***************************************************************************)
(* Steps 6 to 8 of TextCorrector._run_pipeline: windows are built around   *)
(* the ambiguous tokens, a beam search lists readings of each window, the  *)
(* scorer ranks them, and the decision engine turns the best reading into  *)
(* changes and flags, one decision per token.                              *)
(*                                                                         *)
(* A token has the text it was written with and its candidates.  What the  *)
(* scorer's features add up to is left open: any score may come out.       *)
(* Scores and priors are in units of 0.01, confidences of 0.001.           *)
(***************************************************************************)
EXTENDS Integers, Sequences, FiniteSets, FiniteSetsExt

CONSTANTS
  Texts,            \* the texts of tokens and candidates
  Blank,            \* the text of a token that is white space
  Documents,        \* the lists of token candidates considered
  Bigrams,          \* the contents of the n-gram store considered
  Scores,           \* the totals the scorer may come to
  MaxWindow,        \* max_tokens_per_window
  BeamSize,         \* beam_size
  PerToken,         \* max_candidates_per_token
  ReplaceThreshold, \* replace_threshold, in units of 0.001
  AmbiguousMargin,  \* ambiguous_margin
  MinMargin         \* min_margin

Candidate == [text : Texts, prior : Int]

\* TokenCandidates, with the candidates by descending prior score.
Token == [text : Texts, cands : Seq(Candidate), protected : BOOLEAN]

ASSUME InputAssumption ==
  /\ Blank \in Texts
  /\ Documents \subseteq Seq(Token)
  /\ \A doc \in Documents : \A t \in DOMAIN doc :
       \E k \in DOMAIN doc[t].cands : doc[t].cands[k].text = doc[t].text
  /\ Bigrams \subseteq [Texts \X Texts -> Int]
  /\ Scores \subseteq Int
ASSUME LimitAssumption ==
  MaxWindow \in Nat \ {0} /\ BeamSize \in Nat \ {0} /\ PerToken \in Nat \ {0}
ASSUME ThresholdAssumption ==
  /\ ReplaceThreshold \in 0 .. 1000
  /\ AmbiguousMargin \in Nat /\ MinMargin \in Nat
  /\ AmbiguousMargin <= MinMargin

VARIABLES
  phase,    \* "place", "search", "decide" or "done"
  tokens,   \* the token candidates of the text
  bigram,   \* the n-gram store
  windows,  \* the windows, from left to right
  win,      \* the window in work
  at,       \* place: the token looked at; search, decide: the position in the window
  beam,     \* the readings of the window so far, with their beam scores
  total,    \* ScoredSequence.score of the ranked readings
  best,     \* the reading ranked first
  changes,  \* all_changes: accepted replacements
  flags     \* all_flags: uncertain tokens reported

vars == <<phase, tokens, bigram, windows, win, at, beam, total, best, changes, flags>>

NoReadings == [r \in {} |-> 0]
EmptyBeam == {[texts |-> <<>>, score |-> 0]}

Init ==
  /\ tokens \in Documents
  /\ bigram \in Bigrams
  /\ phase = "place"
  /\ windows = <<>>
  /\ win = 1
  /\ at = 1
  /\ beam = EmptyBeam
  /\ total = NoReadings
  /\ best = <<>>
  /\ changes = {}
  /\ flags = {}

-----------------------------------------------------------------------------
(***************************************************************************)
(* build_windows                                                           *)
(***************************************************************************)
Ambiguous(t) == ~tokens[t].protected /\ Len(tokens[t].cands) > 1

Radius == MaxWindow \div 2

\* Fault: the clamp cuts one token too many.
AroundShort(t) ==
  LET start == Max({1, t - Radius})
      end == Min({Len(tokens) + 1, t + Radius + 1})
  IN  [start |-> start, end |-> Min({end, start + MaxWindow - 1})]

\* The window of token `t': at most MaxWindow tokens, [start, end).
Around(t) ==
  LET start == Max({1, t - Radius})
      end == Min({Len(tokens) + 1, t + Radius + 1})
  IN  [start |-> start, end |-> Min({end, start + MaxWindow})]

\* Fault: windows that share one token are kept apart.
JoinsLate(w) == windows # <<>> /\ w.start < windows[Len(windows)].end - 1

\* Windows that overlap or touch are merged.
Joins(w) == windows # <<>> /\ w.start <= windows[Len(windows)].end

\* Starts and ends grow with the token, so sorting the windows changes
\* nothing and each is merged into the last one or follows it.
PlaceWindow ==
  /\ phase = "place"
  /\ at <= Len(tokens)
  /\ Ambiguous(at)
  /\ LET w == Around(at)
         last == Len(windows)
     IN  windows' = IF Joins(w)
                    THEN [windows EXCEPT ![last].end = Max({@, w.end})]
                    ELSE Append(windows, w)
  /\ at' = at + 1
  /\ UNCHANGED <<phase, tokens, bigram, win, beam, total, best, changes, flags>>

SkipToken ==
  /\ phase = "place"
  /\ at <= Len(tokens)
  /\ ~Ambiguous(at)
  /\ at' = at + 1
  /\ UNCHANGED <<phase, tokens, bigram, windows, win, beam, total, best, changes, flags>>

PlaceDone ==
  /\ phase = "place"
  /\ at > Len(tokens)
  /\ phase' = "search"
  /\ at' = 1
  /\ UNCHANGED <<tokens, bigram, windows, win, beam, total, best, changes, flags>>

-----------------------------------------------------------------------------
(***************************************************************************)
(* beam_search_sequences                                                   *)
(***************************************************************************)
Width == windows[win].end - windows[win].start

\* The token at position `pos' of the window.
InWindow(pos) == tokens[windows[win].start + pos - 1]

\* The text as written, its first `pos' tokens.
Original(pos) == [k \in 1 .. pos |-> InWindow(k).text]

\* _per_pos_candidate_lists: the best PerToken candidates, and as many more
\* as it takes to have the original among them.
Options(token) ==
  LET own == CHOOSE k \in DOMAIN token.cands : token.cands[k].text = token.text
  IN  {token.cands[k] : k \in {j \in DOMAIN token.cands : j <= PerToken \/ j <= own}}

\* _last_content_token, paired with what follows it: the bigram reward.
Reward(prefix, text) ==
  LET content == {k \in DOMAIN prefix : prefix[k] # Blank}
  IN  IF content = {} THEN 0 ELSE bigram[prefix[Max(content)], text]

\* Every prefix of the beam continued by every candidate.
Extended ==
  {[texts |-> Append(b.texts, c.text),
    score |-> b.score + c.prior
                + (IF c.text = Blank THEN 0 ELSE Reward(b.texts, c.text))] :
     b \in beam, c \in Options(InWindow(at))}

\* Fault: the lowest scores are kept.
TrimmedLow(entries) ==
  {e \in entries : Cardinality({d \in entries : d.score < e.score}) < BeamSize}

\* _stable_trim: the best BeamSize entries and all that tie with the last.
Trimmed(entries) ==
  {e \in entries : Cardinality({d \in entries : d.score > e.score}) < BeamSize}

\* The beam score of the text as written.
OriginalScore(pos) ==
  MapThenSumSet(
    LAMBDA k : (CHOOSE c \in Options(InWindow(k)) : c.text = InWindow(k).text).prior
                 + Reward(Original(k - 1), InWindow(k).text),
    1 .. pos)

\* Fault: the text as written takes its chance in the beam.
WithOriginalDropped(entries) == entries

\* The text as written is always carried through the beam.
WithOriginal(entries) ==
  IF \E e \in entries : e.texts = Original(at) THEN entries
  ELSE entries \cup {[texts |-> Original(at), score |-> OriginalScore(at)]}

ExtendBeam ==
  /\ phase = "search"
  /\ win <= Len(windows)
  /\ at <= Width
  /\ beam' = WithOriginal(Trimmed(Extended))
  /\ at' = at + 1
  /\ UNCHANGED <<phase, tokens, bigram, windows, win, total, best, changes, flags>>

Readings == {b.texts : b \in beam}

\* The first of the readings sorted by descending score; which of several
\* with the same score comes first depends on the beam.
RanksFirst(scores, r) == \A s \in Readings : scores[r] >= scores[s]

\* PhraseScorer.score_window
Rank ==
  /\ phase = "search"
  /\ win <= Len(windows)
  /\ at > Width
  /\ total' \in [Readings -> Scores]
  /\ \E r \in Readings : RanksFirst(total', r) /\ best' = r
  /\ phase' = "decide"
  /\ at' = 1
  /\ UNCHANGED <<tokens, bigram, windows, win, beam, changes, flags>>

WindowsDone ==
  /\ phase = "search"
  /\ win > Len(windows)
  /\ phase' = "done"
  /\ UNCHANGED <<tokens, bigram, windows, win, at, beam, total, best, changes, flags>>

-----------------------------------------------------------------------------
(***************************************************************************)
(* decide_window and decide_scored_window                                  *)
(***************************************************************************)
\* _compute_confidence
Confidence(raw) == Max({0, Min({1000, raw + 500})})

\* The readings with another text at position `pos' than the best one has.
Rivals(pos) == {r \in Readings : r[pos] # best[pos]}

\* Fault: the reading ranked second counts, whatever it says of the token.
SecondAnywhere(pos) ==
  LET others == Readings \ {best}
  IN  IF Rivals(pos) = {} THEN 0 ELSE Min({total[r] : r \in others})

\* _find_second_raw_score_for_position
Second(pos) ==
  IF Rivals(pos) = {} THEN 0 ELSE Max({total[r] : r \in Rivals(pos)})

\* The margin of raw scores, in units of 0.01; that of confidences if the
\* raw scores are zero.
Margin(pos) ==
  IF total[best] # 0 \/ Second(pos) # 0 THEN total[best] - Second(pos)
  ELSE IF Rivals(pos) = {} THEN Confidence(0) \div 10
  ELSE 0

\* Fault: what needs context is turned down like an identity.
DecisionSilent(pos) ==
  IF InWindow(pos).protected \/ best[pos] = InWindow(pos).text THEN "reject"
  ELSE IF Confidence(total[best]) < ReplaceThreshold THEN "flag"
  ELSE IF Margin(pos) < AmbiguousMargin THEN "flag"
  ELSE IF Margin(pos) < MinMargin THEN "reject"
  ELSE "accept"

\* decide_token
Decision(pos) ==
  IF InWindow(pos).protected \/ best[pos] = InWindow(pos).text THEN "reject"
  ELSE IF Confidence(total[best]) < ReplaceThreshold THEN "flag"
  ELSE IF Margin(pos) < AmbiguousMargin THEN "flag"
  ELSE IF Margin(pos) < MinMargin THEN "need_context"
  ELSE "accept"

Here == windows[win].start + at - 1

DecideToken ==
  /\ phase = "decide"
  /\ at <= Width
  /\ changes' = IF Decision(at) = "accept"
                THEN changes \cup {[token |-> Here, text |-> best[at]]} ELSE changes
  /\ flags' = IF Decision(at) \in {"flag", "need_context"}
              THEN flags \cup {[token |-> Here, text |-> best[at]]} ELSE flags
  /\ at' = at + 1
  /\ UNCHANGED <<phase, tokens, bigram, windows, win, beam, total, best>>

NextWindow ==
  /\ phase = "decide"
  /\ at > Width
  /\ phase' = "search"
  /\ win' = win + 1
  /\ at' = 1
  /\ beam' = EmptyBeam
  /\ total' = NoReadings
  /\ best' = <<>>
  /\ UNCHANGED <<tokens, bigram, windows, changes, flags>>

Next ==
  \/ PlaceWindow
  \/ SkipToken
  \/ PlaceDone
  \/ ExtendBeam
  \/ Rank
  \/ WindowsDone
  \/ DecideToken
  \/ NextWindow

Spec == Init /\ [][Next]_vars

-----------------------------------------------------------------------------
(***************************************************************************)
(* Properties.                                                             *)
(***************************************************************************)
Positions == 1 .. Len(tokens)
Verdict == [token : Positions, text : Texts]

\* Every variable has its type.  (Beam scores are sums over candidates; that
\* they are integers is left to TLC.)
TypeOK ==
  /\ phase \in {"place", "search", "decide", "done"}
  /\ tokens \in Seq(Token)
  /\ bigram \in [Texts \X Texts -> Int]
  /\ windows \in Seq([start : Positions, end : 2 .. Len(tokens) + 1])
  /\ win \in 1 .. Len(windows) + 1
  /\ at \in Nat \ {0}
  /\ Readings \subseteq Seq(Texts)
  /\ DOMAIN total \subseteq Readings
  /\ best \in Seq(Texts)
  /\ changes \subseteq Verdict
  /\ flags \subseteq Verdict

\* A token is in at most one window and gets at most one verdict: it is never
\* changed twice, and never both changed and flagged.
OneVerdictPerToken ==
  /\ \A c, d \in changes \cup flags : c.token = d.token => c = d
  /\ \A c \in changes : c \notin flags

\* Clamping and merging lose no ambiguous token: each comes up for a decision.
AmbiguousIsPlaced ==
  \A t \in Positions :
    Ambiguous(t) /\ (phase = "place" => t < at)
      => \E k \in DOMAIN windows : windows[k].start <= t /\ t < windows[k].end

\* "The identity (all-original) path is always carried through the beam"
\* (combinations.py:92), however small the beam and wherever the candidate
\* list was cut.
OriginalCarried ==
  phase \in {"search", "decide"} /\ win <= Len(windows)
    => LET pos == IF phase = "search" THEN at - 1 ELSE Width
       IN  Original(pos) \in Readings

\* Without bigrams to look at, pruning the beam step by step loses nothing:
\* the best candidate of every token stays together in one reading.
FavouriteSurvives ==
  phase = "search" /\ (\A pair \in Texts \X Texts : bigram[pair] = 0)
    => \E b \in beam : \A k \in DOMAIN b.texts :
         \E o \in Options(InWindow(k)) :
           o.text = b.texts[k] /\ \A c \in Options(InWindow(k)) : c.prior <= o.prior

\* The change of the token at position `pos' of the window, if there is one.
ChangedHere(pos) ==
  \E c \in changes : c.token = windows[win].start + pos - 1

\* "The engine should compare the best candidate with the original and
\* second-best candidate" (PROJECT.md:703): an accepted change is sure enough,
\* and its reading is clear of the original text and of every reading that has
\* another word there by the margin.
AcceptedIsClear ==
  phase = "decide" =>
    \A pos \in 1 .. Width : ChangedHere(pos) =>
      /\ Confidence(total[best]) >= ReplaceThreshold
      /\ total[best] - total[Original(Width)] >= MinMargin
      /\ \A r \in Readings :
           r[pos] # best[pos] => total[best] - total[r] >= MinMargin

\* "When uncertain, keep original and flag ambiguity" (PROJECT.md:72): when the
\* best reading departs from the text, the token is changed or reported.
DepartureIsReported ==
  phase = "decide" =>
    \A pos \in 1 .. at - 1 :
      best[pos] # InWindow(pos).text /\ ~InWindow(pos).protected
        => \E v \in changes \cup flags : v.token = windows[win].start + pos - 1

=============================================================================
