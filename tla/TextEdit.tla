------------------------------ MODULE TextEdit ------------------------------
(***************************************************************************)
(* What steps 9 and 10 of the pipeline promise, whatever loops they are    *)
(* made of: of the changes proposed, a set is committed at once, and every *)
(* character of the text ends up under the one committed change that       *)
(* touches it, or under none (0) and is then copied.                       *)
(***************************************************************************)
EXTENDS Spans, Sequences

CONSTANT TextLen

VARIABLES
  changes,  \* the changes proposed, never altered
  log,      \* CorrectionResult.changes, as indices of `changes'
  owner     \* for every character of the text the change that rewrote it

vars == <<changes, log, owner>>

Untouched == [i \in 0 .. TextLen - 1 |-> 0]

\* The characters that change `c' rewrites.
Touches(c, i) == changes[c].start <= i /\ i < changes[c].end

\* No two of the changes in `S' overlap, and none can be added to it.
Committable(S) ==
  \A c \in 1 .. Len(changes) :
    c \in S <=> \A d \in S : c = d \/ ~Overlaps(changes[c], changes[d])

Init ==
  /\ log = {}
  /\ owner = Untouched

Commit(S) ==
  /\ Committable(S)
  /\ log' = S
  /\ owner' \in [0 .. TextLen - 1 -> S \cup {0}]
  /\ \A i \in 0 .. TextLen - 1 :
       IF \E c \in S : Touches(c, i)
       THEN Touches(owner'[i], i)
       ELSE owner'[i] = 0
  /\ UNCHANGED changes

Next == log = {} /\ \E S \in SUBSET (1 .. Len(changes)) : Commit(S)

Spec == Init /\ [][Next]_vars

=============================================================================
