--------------------------- MODULE Reconstruction ---------------------------
(***************************************************************************)
(* Steps 9 and 10 of TextCorrector._run_pipeline: from the changes the     *)
(* stages propose to the corrected text.                                   *)
(*                                                                         *)
(*   resolve  resolve_overlapping_changes: keep the most confident of the  *)
(*            token-level changes that overlap;                            *)
(*   merge    _merge_phrase_changes: let each phrase-level change replace  *)
(*            the changes it covers, or drop it;                           *)
(*   apply    apply_changes: walk the kept changes from left to right and  *)
(*            splice their replacements into the text.                     *)
(*                                                                         *)
(* A change is abstracted to its interval and its confidence.  It is named *)
(* by its position in `changes', so two equal changes stay distinct.  The  *)
(* text is its length; what is written is a sequence of pieces, each with  *)
(* the stretch of the input text it stands for.                            *)
(***************************************************************************)
EXTENDS Spans, Sequences, FiniteSets

CONSTANTS
  TextLen,      \* number of characters of the normalized text
  Confidences,  \* the confidences a change may carry (scaled to integers)
  ChangeLists   \* the lists of proposed changes considered

Change ==
  {c \in [start : 0 .. TextLen, end : 0 .. TextLen, conf : Confidences] :
      c.start < c.end}

ASSUME TextLenAssumption == TextLen \in Nat
ASSUME ConfidencesAssumption == Confidences \subseteq Int
ASSUME ChangeListsAssumption == ChangeLists \subseteq Seq(Change)

VARIABLES
  pc,        \* the loop being run: "resolve", "merge", "apply" or "done"
  changes,   \* every change proposed: all_changes, then phrase_changes
  split,     \* changes[1..split] is all_changes, the rest phrase_changes
  pending,   \* indices of the changes the current loop has not looked at
  accepted,  \* indices of the changes kept so far
  cursor,    \* apply: how much of the input text has been consumed
  pieces     \* apply: what has been written

vars == <<pc, changes, split, pending, accepted, cursor, pieces>>

TokenChanges == 1 .. split
PhraseChanges == (split + 1) .. Len(changes)

Clash(c, d) == Overlaps(changes[c], changes[d])

Init ==
  /\ changes \in ChangeLists
  /\ split \in 0 .. Len(changes)
  /\ pc = "resolve"
  /\ pending = TokenChanges
  /\ accepted = {}
  /\ cursor = 0
  /\ pieces = <<>>

-----------------------------------------------------------------------------
\* Fault: the sort lost its reverse = True.
LessConfident(c, d) ==
  \/ changes[c].conf < changes[d].conf
  \/ changes[c].conf = changes[d].conf /\ c <= d

\* The stable descending sort by confidence puts `c' no later than `d'.
MoreConfident(c, d) ==
  \/ changes[c].conf > changes[d].conf
  \/ changes[c].conf = changes[d].conf /\ c <= d

\* Fault: only the change accepted at the same start counts as used.
FitsStart(c) == \A a \in accepted : changes[a].start # changes[c].start

\* Change `c' overlaps none of used_spans.
Fits(c) == \A a \in accepted : ~Clash(c, a)

\* One turn of the loop over sorted_changes.
ResolveChange(c) ==
  /\ pc = "resolve"
  /\ c \in pending
  /\ \A d \in pending : MoreConfident(c, d)
  /\ accepted' = IF Fits(c) THEN accepted \cup {c} ELSE accepted
  /\ pending' = pending \ {c}
  /\ UNCHANGED <<pc, changes, split, cursor, pieces>>

ResolveDone ==
  /\ pc = "resolve"
  /\ pending = {}
  /\ pc' = "merge"
  /\ pending' = PhraseChanges
  /\ UNCHANGED <<changes, split, accepted, cursor, pieces>>

\* The kept changes that overlap phrase `p'.
Clashing(p) == {a \in accepted : Clash(a, p)}

\* Fault: the phrase is appended, the changes it covers stay.
MergedOnTop(p) ==
  IF \A a \in Clashing(p) : Covers(changes[p], changes[a])
  THEN accepted \cup {p}
  ELSE accepted

\* The kept changes once phrase `p' has been looked at.
Merged(p) ==
  IF \A a \in Clashing(p) : Covers(changes[p], changes[a])
  THEN (accepted \ Clashing(p)) \cup {p}
  ELSE accepted

\* One turn of the loop over phrase_changes, in list order.
MergeChange(p) ==
  /\ pc = "merge"
  /\ p \in pending
  /\ \A q \in pending : p <= q
  /\ accepted' = Merged(p)
  /\ pending' = pending \ {p}
  /\ UNCHANGED <<pc, changes, split, cursor, pieces>>

MergeDone ==
  /\ pc = "merge"
  /\ pending = {}
  /\ pc' = "apply"
  /\ pending' = accepted
  /\ UNCHANGED <<changes, split, accepted, cursor, pieces>>

\* The sort by (start, end) puts `c' no later than `d'.
Leftmost(c, d) ==
  \/ changes[c].start < changes[d].start
  \/ /\ changes[c].start = changes[d].start
     /\ \/ changes[c].end < changes[d].end
        \/ changes[c].end = changes[d].end /\ c <= d

\* A piece of output that stands for text[lo..hi), written by change `by';
\* 0 is the input text itself.
Piece(lo, hi, by) == [lo |-> lo, hi |-> hi, by |-> by]

\* How far the input text is consumed once change `c' is written.
Consumed(c) == changes[c].end

\* One turn of the loop of apply_changes.  A change that starts before the
\* cursor is skipped without a trace.
ApplyChange(c) ==
  /\ pc = "apply"
  /\ c \in pending
  /\ \A d \in pending : Leftmost(c, d)
  /\ IF changes[c].start < cursor
     THEN UNCHANGED <<cursor, pieces>>
     ELSE /\ pieces' = Append(Append(pieces,
                                     Piece(cursor, changes[c].start, 0)),
                              Piece(changes[c].start, changes[c].end, c))
          /\ cursor' = Consumed(c)
  /\ pending' = pending \ {c}
  /\ UNCHANGED <<pc, changes, split, accepted>>

ApplyDone ==
  /\ pc = "apply"
  /\ pending = {}
  /\ pieces' = Append(pieces, Piece(cursor, TextLen, 0))
  /\ cursor' = TextLen
  /\ pc' = "done"
  /\ UNCHANGED <<changes, split, pending, accepted>>

Next ==
  \/ \E c \in TokenChanges : ResolveChange(c)
  \/ ResolveDone
  \/ \E p \in PhraseChanges : MergeChange(p)
  \/ MergeDone
  \/ \E c \in 1 .. Len(changes) : ApplyChange(c)
  \/ ApplyDone

Spec == Init /\ [][Next]_vars

-----------------------------------------------------------------------------
(***************************************************************************)
(* Properties.                                                             *)
(***************************************************************************)

\* Every variable has its type.
TypeOK ==
  /\ pc \in {"resolve", "merge", "apply", "done"}
  /\ changes \in Seq(Change)
  /\ split \in 0 .. Len(changes)
  /\ pending \subseteq 1 .. Len(changes)
  /\ accepted \subseteq 1 .. Len(changes)
  /\ cursor \in 0 .. TextLen
  /\ pieces \in Seq([lo : 0 .. TextLen, hi : 0 .. TextLen, by : Nat])

\* "This prevents double-editing the same token region"
\* (reconstruction.py:29): at no point, through greedy resolution and through
\* the replacement of small changes by phrases, are two changes kept that
\* touch a common character.
NoDoubleEdit ==
  \A c, d \in accepted : c # d => ~Clash(c, d)

\* Resolution is not wasteful: a token-level change that the loop turned down
\* loses to a kept change that overlaps it and is at least as confident.
RejectedIsDominated ==
  pc = "resolve" =>
    \A c \in TokenChanges \ (pending \cup accepted) :
      \E a \in accepted :
        Clash(c, a) /\ changes[a].conf >= changes[c].conf

\* No correction is lost in the merge: a change leaves the kept set only in
\* favour of a phrase that covers all of it.
OnlyCoveringPhraseReplaces ==
  [][\A c \in accepted \ accepted' :
        \E p \in accepted' \ accepted :
           p \in PhraseChanges /\ Covers(changes[p], changes[c])]_vars

\* No proposal is lost on the way either: once the loops are over, a change
\* that was proposed and is not applied overlaps one that is, even where that
\* one came after the change that beat it was itself replaced.
NothingLost ==
  pc \in {"apply", "done"} =>
    \A c \in 1 .. Len(changes) \ accepted : \E a \in accepted : Clash(c, a)

\* CorrectionResult.changes is `accepted'; the corrected text contains the
\* replacement of every one of them, exactly once, so the change log and the
\* text never disagree (apply_changes has a branch that would drop one).
LogMatchesText ==
  pc = "done" =>
    /\ {pieces[k].by : k \in DOMAIN pieces} \ {0} = accepted
    /\ \A j, k \in DOMAIN pieces :
         pieces[j].by = pieces[k].by /\ pieces[j].by # 0 => j = k

\* The output stands for the whole input, in order and without gap or
\* repetition: a character outside every applied change is copied once.
TextTiled ==
  pc = "done" =>
    /\ pieces[1].lo = 0
    /\ pieces[Len(pieces)].hi = TextLen
    /\ \A k \in 1 .. Len(pieces) - 1 : pieces[k].hi = pieces[k + 1].lo

(***************************************************************************)
(* Refinement: seen from outside, the three loops commit a maximal set of  *)
(* non-overlapping changes in one step.                                    *)
(***************************************************************************)
PieceAt(i) ==
  pieces[CHOOSE k \in DOMAIN pieces : pieces[k].lo <= i /\ i < pieces[k].hi]

Abstract == INSTANCE TextEdit WITH
  log <- IF pc = "done" THEN accepted ELSE {},
  owner <- [i \in 0 .. TextLen - 1 |-> IF pc = "done" THEN PieceAt(i).by ELSE 0]

\* Every behaviour of the loops is one of TextEdit.
CommitsAtOnce == Abstract!Spec

=============================================================================
