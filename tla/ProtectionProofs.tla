-------------------------- MODULE ProtectionProofs --------------------------
(***************************************************************************)
(* What resolve_conflicts keeps, for every list of matchers and whatever   *)
(* they find.                                                              *)
(*                                                                         *)
(* Candidates are swept in order of their start, so that a kept span ends  *)
(* where the next may begin (SpansApart), a rejected one runs into a span  *)
(* kept before it (Settled), and a second one with the start of a kept one *)
(* is always rejected (BestOfItsStart).                                    *)
(*                                                                         *)
(* Masking and restoring (PlainRoundTrip): what mask has not reached yet   *)
(* is the masked text from the next span on (Rests), and what restore has  *)
(* passed is the text up to the next span again.  A placeholder is         *)
(* replaced in one place only, because the text has no opening mark and    *)
(* no two spans have one placeholder.                                      *)
(***************************************************************************)
EXTENDS Protection, TLAPS, SequenceTheorems, FiniteSetTheorems

Typed ==
  /\ text \in Texts
  /\ at \in Nat \ {0}
  /\ found \in Seq(Candidate)
  /\ \A i \in DOMAIN found :
       found[i].start < found[i].end /\ found[i].end <= Len(text)
  /\ left \subseteq DOMAIN found
  /\ spans \in Seq(Candidate)
  /\ \A k \in DOMAIN spans :
       spans[k].start < spans[k].end /\ spans[k].end <= Len(text)

\* The occupied positions are those of the kept spans.
Occupied ==
  /\ \A k \in DOMAIN spans : Positions(spans[k]) \subseteq occupied
  /\ \A p \in occupied : \E k \in DOMAIN spans : p \in Positions(spans[k])

\* What is left to sweep starts no earlier than what was kept.
Ordered ==
  \A i \in left : \A k \in DOMAIN spans : spans[k].start <= found[i].start

\* A candidate that was looked at is kept or runs into a kept span.
CoveredBy(c, s) == s.start <= c.start /\ (s = c \/ Overlaps(s, c))
Settled ==
  phase # "find" => \A i \in DOMAIN found \ left :
    \E k \in DOMAIN spans : CoveredBy(found[i], spans[k])

IInv ==
  /\ Typed
  /\ phase = "find" => spans = <<>> /\ occupied = {} /\ left = {}
  /\ Resolved => left = {}
  /\ Occupied
  /\ Ordered
  /\ Settled
  /\ SpansApart
  /\ BestOfItsStart

-----------------------------------------------------------------------------
LEMMA TextLength == ASSUME NEW t \in Texts
                    PROVE  t \in Seq(Symbols) /\ Len(t) \in Nat
BY SymbolAssumption

LEMMA IInvInit == Init => IInv
<1>1. SUFFICES ASSUME Init
               PROVE  IInv
  OBVIOUS
<1>2. /\ text \in Texts /\ phase = "find" /\ at = 1
      /\ found = <<>> /\ left = {} /\ occupied = {} /\ spans = <<>>
  BY <1>1 DEF Init
<1>3. <<>> \in Seq(Candidate)
  OBVIOUS
<1>4. Typed
  BY <1>2, <1>3 DEF Typed
<1>5. Occupied /\ Ordered /\ Settled
  BY <1>2 DEF Occupied, Ordered, Settled
<1>6. SpansApart /\ BestOfItsStart
  BY <1>2 DEF SpansApart, BestOfItsStart
<1> QED
  BY <1>2, <1>4, <1>5, <1>6 DEF IInv, Resolved

\* The matches of one matcher are candidates inside the text.
LEMMA FindFacts ==
  ASSUME NEW t \in Texts, NEW m \in DOMAIN Matchers, NEW new,
         new = [i \in DOMAIN Find(m, t) |->
                  [type |-> Matchers[m].type, priority |-> Matchers[m].priority,
                   start |-> Find(m, t)[i].start, end |-> Find(m, t)[i].end]]
  PROVE  /\ new \in Seq(Candidate)
         /\ \A i \in DOMAIN new : new[i].start < new[i].end /\ new[i].end <= Len(t)
<1> DEFINE matches == Find(m, t)
<1>1. matches \in Seq(Span(Len(t)))
  BY MatcherAssumption DEF Matches
<1>2. Matchers[m].type \in Types /\ Matchers[m].priority \in Int
  <2>1. Matchers \in Seq([type : Types, priority : Int])
    BY MatcherAssumption
  <2>2. \A M : Matchers \in Seq(M) => Matchers[m] \in M
    OBVIOUS
  <2>3. Matchers[m] \in [type : Types, priority : Int]
    BY <2>1, <2>2
  <2> QED
    BY <2>3
<1>3. Len(t) \in Nat
  BY TextLength
<1> HIDE DEF matches
<1>4. \A i \in DOMAIN matches :
        /\ matches[i].start \in Nat /\ matches[i].end \in Nat
        /\ matches[i].start < matches[i].end /\ matches[i].end <= Len(t)
  <2>1. SUFFICES ASSUME NEW i \in DOMAIN matches
                 PROVE  /\ matches[i].start \in Nat /\ matches[i].end \in Nat
                        /\ matches[i].start < matches[i].end /\ matches[i].end <= Len(t)
    OBVIOUS
  <2>2. matches[i] \in Span(Len(t))
    BY <1>1
  <2> QED
    BY <1>3, <2>2 DEF Span
<1>5. DOMAIN matches = 1 .. Len(matches) /\ Len(matches) \in Nat
  BY <1>1
<1>6. new = [i \in 1 .. Len(matches) |->
               [type |-> Matchers[m].type, priority |-> Matchers[m].priority,
                start |-> matches[i].start, end |-> matches[i].end]]
  BY <1>5 DEF matches
<1>7. \A i \in 1 .. Len(matches) : new[i] \in Candidate
  BY <1>2, <1>4, <1>5, <1>6 DEF Candidate
<1> QED
  BY <1>4, <1>5, <1>6, <1>7

LEMMA FindStep ==
  ASSUME IInv, FindMatches
  PROVE  IInv'
<1>1. /\ phase = "find" /\ at \in Nat \ {0} /\ text \in Texts /\ at <= Len(Matchers)
      /\ spans = <<>> /\ occupied = {} /\ left = {}
      /\ found \in Seq(Candidate)
      /\ \A i \in DOMAIN found :
           found[i].start < found[i].end /\ found[i].end <= Len(text)
  BY DEF IInv, Typed, FindMatches
<1>2. at \in DOMAIN Matchers
  BY <1>1, MatcherAssumption
<1>3. /\ UNCHANGED <<phase, text, left, occupied, spans>> /\ at' = at + 1
  BY DEF FindMatches
<1>4. PICK new : /\ new \in Seq(Candidate)
                 /\ \A i \in DOMAIN new : new[i].start < new[i].end /\ new[i].end <= Len(text)
                 /\ found' = found \o new
  BY <1>1, <1>2, FindFacts DEF FindMatches
<1>5. /\ found' \in Seq(Candidate)
      /\ \A i \in DOMAIN found' : found'[i].start < found'[i].end /\ found'[i].end <= Len(text)
  BY <1>1, <1>4
<1>6. at' \in Nat \ {0}
  BY <1>1, <1>3
<1>7. Typed'
  BY <1>1, <1>3, <1>5, <1>6 DEF Typed, IInv
<1>8. Occupied' /\ Ordered' /\ Settled' /\ SpansApart' /\ BestOfItsStart'
  BY <1>1, <1>3 DEF Occupied, Ordered, Settled, SpansApart, BestOfItsStart
<1> QED
  BY <1>1, <1>3, <1>7, <1>8 DEF IInv, Resolved

-----------------------------------------------------------------------------
\* A candidate that is kept: nothing before it had its start.
LEMMA KeepFacts ==
  ASSUME IInv, phase = "resolve", NEW i \in left, IsFirst(i), Keeps(found[i]),
         NEW j \in DOMAIN found \ left
  PROVE  found[j].start # found[i].start
<1>1. SUFFICES ASSUME found[j].start = found[i].start
               PROVE  FALSE
  OBVIOUS
<1>2. PICK k \in DOMAIN spans : CoveredBy(found[j], spans[k])
  BY DEF IInv, Settled
<1>3. /\ found[i] \in Candidate /\ found[j] \in Candidate /\ spans[k] \in Candidate
      /\ found[i].start < found[i].end /\ found[j].start < found[j].end
  BY DEF IInv, Typed
<1>4. /\ found[i].start \in Int /\ found[i].end \in Int /\ found[j].end \in Int
      /\ spans[k].start \in Int /\ spans[k].end \in Int
  BY <1>3 DEF Candidate
<1>5. spans[k].start <= found[i].start /\ found[i].start < spans[k].end
  BY <1>1, <1>2, <1>3, <1>4 DEF CoveredBy, Overlaps
<1>6. found[i].start \in Positions(spans[k]) /\ found[i].start \in Positions(found[i])
  BY <1>3, <1>4, <1>5 DEF Positions
<1> QED
  BY <1>6 DEF IInv, Occupied, Keeps

\* The first of those left starts no later than the others.
LEMMA FirstFacts ==
  ASSUME Typed, NEW i \in left, IsFirst(i), NEW j \in left
  PROVE  /\ found[i].start <= found[j].start
         /\ found[j].start = found[i].start =>
              \/ found[j].priority < found[i].priority
              \/ /\ found[j].priority = found[i].priority
                 /\ Length(found[j]) <= Length(found[i])
<1>1. found[i] \in Candidate /\ found[j] \in Candidate
  BY DEF Typed
<1>2. /\ found[i].start \in Int /\ found[i].priority \in Int /\ Length(found[i]) \in Int
      /\ found[j].start \in Int /\ found[j].priority \in Int /\ Length(found[j]) \in Int
  BY <1>1 DEF Candidate, Length
<1>3. i = j \/ Before(found[i], found[j]) \/ ~Before(found[j], found[i])
  BY DEF IsFirst
<1> QED
  BY <1>2, <1>3 DEF Before

\* A candidate that is not kept runs into a span that starts no later.
LEMMA RejectFacts ==
  ASSUME IInv, NEW i \in left, ~Keeps(found[i])
  PROVE  \E k \in DOMAIN spans : CoveredBy(found[i], spans[k])
<1>1. /\ found[i] \in Candidate /\ found[i].end <= Len(text)
  BY DEF IInv, Typed
<1>2. found[i].start \in Nat /\ found[i].end \in Nat
  BY <1>1 DEF Candidate
<1>3. PICK p \in occupied : p \in Positions(found[i])
  BY <1>1, <1>2 DEF Keeps
<1>4. PICK k \in DOMAIN spans : p \in Positions(spans[k])
  BY <1>3 DEF IInv, Occupied
<1>5. spans[k] \in Candidate /\ spans[k].start <= found[i].start
  BY DEF IInv, Typed, Ordered
<1>6. spans[k].start \in Nat /\ spans[k].end \in Nat
  BY <1>5 DEF Candidate
<1>7. Overlaps(spans[k], found[i])
  BY <1>2, <1>3, <1>4, <1>6 DEF Positions, Overlaps
<1> QED
  BY <1>5, <1>7 DEF CoveredBy

\* A candidate is swept and kept.
LEMMA KeepStep ==
  ASSUME IInv, NEW i \in left, Sweep(i), Keeps(found[i])
  PROVE  IInv'
<1>1. /\ phase = "resolve" /\ IsFirst(i)
      /\ left' = left \ {i}
      /\ spans' = Append(spans, found[i])
      /\ occupied' = occupied \cup Positions(found[i])
      /\ UNCHANGED <<phase, text, at, found>>
  BY DEF Sweep
<1>2. Typed
  BY DEF IInv
<1>3. /\ i \in DOMAIN found /\ found[i] \in Candidate
      /\ found[i].start < found[i].end /\ found[i].end <= Len(text)
      /\ found \in Seq(Candidate) /\ spans \in Seq(Candidate)
  BY <1>2 DEF Typed
<1> DEFINE new == Len(spans) + 1
<1>4. /\ DOMAIN spans' = DOMAIN spans \cup {new}
      /\ new \notin DOMAIN spans /\ new \in Nat
      /\ \A k \in DOMAIN spans : spans'[k] = spans[k] /\ k < new /\ k \in Nat
      /\ spans'[new] = found[i]
  BY <1>1, <1>3
<1> HIDE DEF new
<1>5. Typed'
  <2>1. spans' \in Seq(Candidate)
    BY <1>1, <1>3
  <2>2. \A k \in DOMAIN spans' : spans'[k].start < spans'[k].end /\ spans'[k].end <= Len(text)
    BY <1>2, <1>3, <1>4 DEF Typed
  <2> QED
    BY <1>1, <1>2, <2>1, <2>2 DEF Typed
<1>6. Occupied'
  <2>1. \A k \in DOMAIN spans' : Positions(spans'[k]) \subseteq occupied'
    BY <1>1, <1>4 DEF IInv, Occupied
  <2>2. \A p \in occupied' : \E k \in DOMAIN spans' : p \in Positions(spans'[k])
    <3>1. SUFFICES ASSUME NEW p \in occupied'
                   PROVE  \E k \in DOMAIN spans' : p \in Positions(spans'[k])
      OBVIOUS
    <3>2. CASE p \in occupied
      <4>1. PICK k \in DOMAIN spans : p \in Positions(spans[k])
        BY <3>2 DEF IInv, Occupied
      <4> QED
        BY <1>4, <4>1
    <3>3. CASE p \in Positions(found[i])
      BY <1>4, <3>3
    <3> QED
      BY <1>1, <3>2, <3>3
  <2> QED
    BY <2>1, <2>2 DEF Occupied, Positions
<1>7. Ordered'
  <2>1. \A j \in left \ {i} : found[i].start <= found[j].start
    BY <1>1, <1>2, FirstFacts
  <2>2. \A j \in left \ {i} : \A k \in DOMAIN spans' : spans'[k].start <= found[j].start
    BY <1>4, <2>1 DEF IInv, Ordered
  <2> QED
    BY <1>1, <2>2 DEF Ordered
<1>8. Settled'
  <2>1. \A j \in DOMAIN found \ left : \E k \in DOMAIN spans' : CoveredBy(found[j], spans'[k])
    BY <1>1, <1>4 DEF IInv, Settled
  <2>2. CoveredBy(found[i], spans'[new])
    BY <1>3, <1>4 DEF CoveredBy, Candidate
  <2>3. \A j \in DOMAIN found \ left' : \E k \in DOMAIN spans' : CoveredBy(found[j], spans'[k])
    BY <1>1, <1>4, <2>1, <2>2
  <2> QED
    BY <1>1, <2>3 DEF Settled, CoveredBy, Overlaps
<1>9. SpansApart'
  <2>1. \A k \in DOMAIN spans : spans[k].end <= found[i].start
    <3>1. SUFFICES ASSUME NEW k \in DOMAIN spans
                   PROVE  spans[k].end <= found[i].start
      OBVIOUS
    <3>2. /\ spans[k] \in Candidate
          /\ spans[k].start < spans[k].end
          /\ spans[k].start <= found[i].start
      BY <1>2 DEF Typed, IInv, Ordered
    <3>3. /\ spans[k].start \in Nat /\ spans[k].end \in Nat
          /\ found[i].start \in Nat /\ found[i].end \in Nat
      BY <1>3, <3>2 DEF Candidate
    <3>4. found[i].start \in Positions(found[i])
      BY <1>3, <3>3 DEF Positions
    <3>5. found[i].start \notin Positions(spans[k])
      BY <3>4 DEF IInv, Occupied, Keeps
    <3> QED
      BY <3>2, <3>3, <3>5 DEF Positions
  <2>2. \A j, k \in DOMAIN spans' : j < k => spans'[j].end <= spans'[k].start
    <3>1. SUFFICES ASSUME NEW j \in DOMAIN spans', NEW k \in DOMAIN spans', j < k
                   PROVE  spans'[j].end <= spans'[k].start
      OBVIOUS
    <3>2. j \in DOMAIN spans
      BY <1>4, <3>1
    <3>3. CASE k = new
      BY <1>4, <2>1, <3>2, <3>3
    <3>4. CASE k \in DOMAIN spans
      BY <1>4, <3>1, <3>2, <3>4 DEF IInv, SpansApart
    <3> QED
      BY <1>4, <3>3, <3>4
  <2> QED
    BY <2>2 DEF SpansApart
<1>10. BestOfItsStart'
  <2>1. \A j \in DOMAIN found : found[j].start = found[i].start =>
          \/ found[j].priority < found[i].priority
          \/ /\ found[j].priority = found[i].priority
             /\ Length(found[j]) <= Length(found[i])
    <3>1. SUFFICES ASSUME NEW j \in DOMAIN found, found[j].start = found[i].start
                   PROVE  j \in left
      BY <1>1, <1>2, FirstFacts
    <3> QED
      BY <1>1, <3>1, KeepFacts
  <2>2. \A k \in DOMAIN spans' : \A j \in DOMAIN found : found[j].start = spans'[k].start =>
          \/ found[j].priority < spans'[k].priority
          \/ /\ found[j].priority = spans'[k].priority
             /\ Length(found[j]) <= Length(spans'[k])
    BY <1>4, <2>1 DEF IInv, BestOfItsStart
  <2> QED
    BY <1>1, <2>2 DEF BestOfItsStart, Length
<1> QED
  BY <1>1, <1>5, <1>6, <1>7, <1>8, <1>9, <1>10 DEF IInv, Resolved

\* A candidate is swept and not kept.
LEMMA RejectStep ==
  ASSUME IInv, NEW i \in left, Sweep(i), ~Keeps(found[i])
  PROVE  IInv'
<1>1. /\ phase = "resolve" /\ left' = left \ {i}
      /\ UNCHANGED <<phase, text, at, found, spans, occupied>>
  BY DEF Sweep
<1>2. Typed'
  BY <1>1 DEF IInv, Typed
<1>3. Occupied' /\ SpansApart' /\ BestOfItsStart'
  BY <1>1 DEF IInv, Occupied, SpansApart, BestOfItsStart
<1>4. Ordered'
  BY <1>1 DEF IInv, Ordered
<1>5. Settled'
  <2>1. \A j \in DOMAIN found \ left : \E k \in DOMAIN spans : CoveredBy(found[j], spans[k])
    BY <1>1 DEF IInv, Settled
  <2>2. \A j \in DOMAIN found \ left' : \E k \in DOMAIN spans : CoveredBy(found[j], spans[k])
    BY <1>1, <2>1, RejectFacts
  <2> QED
    BY <1>1, <2>2 DEF Settled
<1> QED
  BY <1>1, <1>2, <1>3, <1>4, <1>5 DEF IInv, Resolved

-----------------------------------------------------------------------------
\* The other steps leave the candidates and the spans alone.
LEMMA OtherStep ==
  ASSUME IInv, FindDone \/ SweepDone \/ MaskSpan \/ MaskDone \/ RestoreValue
               \/ RestoreDone \/ UNCHANGED vars
  PROVE  IInv'
<1>1. /\ UNCHANGED <<text, found, spans, occupied>>
      /\ at' \in Nat \ {0}
      /\ left' = left \/ (phase = "find" /\ left' = DOMAIN found /\ phase' = "resolve")
  BY DEF IInv, Typed, FindDone, SweepDone, MaskSpan, MaskDone, RestoreValue, RestoreDone, vars
<1>2. /\ phase' = "find" => phase = "find" /\ left' = left
      /\ Resolved' => left' = {}
      /\ phase = "find" => phase' = "find" \/ left' = DOMAIN found
  BY DEF IInv, Resolved, FindDone, SweepDone, MaskSpan, MaskDone, RestoreValue, RestoreDone, vars
<1>3. Typed'
  BY <1>1 DEF IInv, Typed
<1>4. Occupied' /\ SpansApart' /\ BestOfItsStart'
  BY <1>1 DEF IInv, Occupied, SpansApart, BestOfItsStart
<1>5. Ordered'
  BY <1>1 DEF IInv, Ordered
<1>6. Settled'
  <2>1. CASE phase = "find"
    BY <1>1, <1>2, <2>1 DEF Settled
  <2>2. CASE phase # "find"
    BY <1>1, <2>2 DEF IInv, Settled
  <2> QED
    BY <2>1, <2>2
<1> QED
  BY <1>1, <1>2, <1>3, <1>4, <1>5, <1>6 DEF IInv

LEMMA IInvStep == IInv /\ [Next]_vars => IInv'
<1>1. SUFFICES ASSUME IInv, [Next]_vars
               PROVE  IInv'
  OBVIOUS
<1>2. CASE FindMatches
  BY <1>1, <1>2, FindStep
<1>3. ASSUME NEW i \in left, Sweep(i)
      PROVE  IInv'
  BY <1>1, <1>3, KeepStep, RejectStep
<1>4. CASE FindDone \/ SweepDone \/ MaskSpan \/ MaskDone \/ RestoreValue
           \/ RestoreDone \/ UNCHANGED vars
  BY <1>1, <1>4, OtherStep
<1> QED
  BY <1>1, <1>2, <1>3, <1>4 DEF Next

LEMMA Invariance == Spec => []IInv
BY IInvInit, IInvStep, PTL DEF Spec

\* The kept spans are disjoint and in order: mask can slice the text by them.
THEOREM SpansApartCorrect == Spec => []SpansApart
<1>1. IInv => SpansApart
  BY DEF IInv
<1> QED
  BY <1>1, Invariance, PTL

\* A match is given up only for an overlapping one that beats it by priority and
\* length or that starts before it.
THEOREM GivenUpByRuleCorrect == Spec => []GivenUpByRule
<1>1. IInv => GivenUpByRule
  <2>1. SUFFICES ASSUME IInv, Resolved, NEW i \in DOMAIN found
                 PROVE  \E k \in DOMAIN spans :
                          \/ spans[k] = found[i]
                          \/ /\ Overlaps(spans[k], found[i])
                             /\ \/ Beats(spans[k], found[i])
                                \/ spans[k].start < found[i].start
    BY DEF GivenUpByRule
  <2>2. left = {} /\ phase # "find"
    BY <2>1 DEF IInv, Resolved
  <2>3. PICK k \in DOMAIN spans : CoveredBy(found[i], spans[k])
    BY <2>1, <2>2 DEF IInv, Settled
  <2>4. /\ found[i] \in Candidate /\ spans[k] \in Candidate
    BY <2>1, <2>3 DEF IInv, Typed
  <2>5. CASE spans[k].start = found[i].start
    <3>1. \/ found[i].priority < spans[k].priority
          \/ /\ found[i].priority = spans[k].priority
             /\ Length(found[i]) <= Length(spans[k])
      BY <2>1, <2>3, <2>5 DEF IInv, BestOfItsStart
    <3>2. Beats(spans[k], found[i])
      BY <2>4, <2>5, <3>1 DEF Beats, Candidate, Length
    <3> QED
      BY <2>3, <3>2 DEF CoveredBy
  <2>6. CASE spans[k].start # found[i].start
    BY <2>3, <2>4, <2>6 DEF CoveredBy, Candidate
  <2> QED
    BY <2>5, <2>6
<1> QED
  BY <1>1, Invariance, PTL

\* Of the matches with one start the first by priority and length is kept.
THEOREM BestOfItsStartCorrect == Spec => []BestOfItsStart
<1>1. IInv => BestOfItsStart
  BY DEF IInv
<1> QED
  BY <1>1, Invariance, PTL

-----------------------------------------------------------------------------
(***************************************************************************)
(* Induction by the least counterexample, FlattenSeq and str.replace.      *)
(***************************************************************************)
\* Of some finite sets one contains no other.
LEMMA LeastSet ==
  ASSUME NEW S, IsFiniteSet(S), NEW T, T \subseteq SUBSET S, T # {}
  PROVE  \E x \in T : \A y \in T : ~(y \subseteq x /\ y # x)
<1>1. T \subseteq FiniteSubsetsOf(S)
  BY FS_Subset DEF FiniteSubsetsOf
<1>2. PICK x \in T : \A y \in T : ~(<<y, x>> \in StrictSubsetOrdering(S))
  BY <1>1, FS_StrictSubsetOrderingWellFounded, WFMin
<1> QED
  BY <1>2 DEF StrictSubsetOrdering

\* Of some numbers one is the least.
LEMMA LeastNumber ==
  ASSUME NEW T, T \subseteq Nat, T # {}
  PROVE  \E x \in T : \A y \in T : x <= y
<1>1. PICK t \in T : TRUE
  OBVIOUS
<1>2. IsFiniteSet(0 .. t)
  BY <1>1, FS_Interval
<1> DEFINE R == 0 .. t
           Below == {x \in SUBSET R : \E y \in T : y <= t /\ x = 0 .. y}
<1>3. R \in Below
  BY <1>1
<1>4. PICK x \in Below : \A y \in Below : ~(y \subseteq x /\ y # x)
  <2> HIDE DEF Below, R
  <2>1. IsFiniteSet(R) /\ Below \subseteq SUBSET R /\ Below # {}
    BY <1>2, <1>3 DEF Below, R
  <2> QED
    BY <2>1, LeastSet
<1>5. PICK m \in T : m <= t /\ x = 0 .. m
  BY <1>4
<1>6. ASSUME NEW y \in T, ~(m <= y) PROVE FALSE
  <2>1. y \in Nat /\ m \in Nat /\ t \in Nat
    BY <1>1
  <2>2. y < m /\ y <= t
    BY <1>5, <1>6, <2>1
  <2>3. 0 .. y \in Below
    BY <2>1, <2>2
  <2>4. 0 .. y \subseteq x /\ 0 .. y # x
    <3>1. m \in x /\ m \notin 0 .. y
      BY <1>5, <2>1, <2>2
    <3> QED
      BY <1>5, <2>1, <2>2, <3>1
  <2> QED
    BY <1>4, <2>3, <2>4
<1> QED
  BY <1>6

\* What FlattenSeq builds up from the left: the first m pieces joined.
Joins(pieces, G, m) ==
  G = [i \in 1 .. m |-> IF i = 1 THEN pieces[i] ELSE G[i - 1] \o pieces[i]]

LEMMA JoinsExists ==
  ASSUME NEW pieces, NEW n \in Nat
  PROVE  \E G : Joins(pieces, G, n)
<1> DEFINE Bad == {m \in Nat : ~(\E G : Joins(pieces, G, m))}
<1>1. SUFFICES ASSUME Bad # {} PROVE FALSE
  OBVIOUS
<1>2. PICK m \in Bad : \A k \in Bad : m <= k
  <2> HIDE DEF Bad
  <2>1. Bad \subseteq Nat
    BY DEF Bad
  <2> QED
    BY <1>1, <2>1, LeastNumber
<1>3. m \in Nat /\ ~(\E G : Joins(pieces, G, m))
  OBVIOUS
<1>4. m # 0
  <2>1. Joins(pieces, <<>>, 0)
    BY DEF Joins
  <2> QED
    BY <1>3, <2>1
<1>5. m - 1 \in Nat /\ m - 1 \notin Bad
  BY <1>2, <1>3, <1>4
<1>6. PICK G : Joins(pieces, G, m - 1)
  BY <1>5
<1> DEFINE h(i) == IF i = m THEN (IF m = 1 THEN pieces[m] ELSE G[m - 1] \o pieces[m])
                   ELSE G[i]
           H == [i \in 1 .. m |-> h(i)]
<1>7. \A i \in 1 .. m : H[i] = h(i)
  OBVIOUS
<1>8. \A i \in 1 .. m : h(i) = IF i = 1 THEN pieces[i] ELSE H[i - 1] \o pieces[i]
  <2>1. SUFFICES ASSUME NEW i \in 1 .. m
                 PROVE  h(i) = IF i = 1 THEN pieces[i] ELSE H[i - 1] \o pieces[i]
    OBVIOUS
  <2>2. i = 1 \/ (i - 1 \in 1 .. m /\ i - 1 # m /\ i # 1)
    BY <1>3, <1>4
  <2>3. i # 1 => H[i - 1] = G[i - 1]
    BY <1>7, <2>2
  <2> HIDE DEF H
  <2>4. CASE i = m
    BY <2>2, <2>3, <2>4
  <2>5. CASE i # m
    <3>1. i \in 1 .. m - 1
      BY <1>3, <2>5
    <3>2. G[i] = IF i = 1 THEN pieces[i] ELSE G[i - 1] \o pieces[i]
      BY <1>6, <3>1 DEF Joins
    <3> QED
      BY <2>2, <2>3, <2>5, <3>2
  <2> QED
    BY <2>4, <2>5
<1>9. Joins(pieces, H, m)
  <2> DEFINE r(i) == IF i = 1 THEN pieces[i] ELSE H[i - 1] \o pieces[i]
  <2>1. \A i \in 1 .. m : h(i) = r(i)
    BY <1>8
  <2>2. H = [i \in 1 .. m |-> h(i)]
    OBVIOUS
  <2> HIDE DEF H, h
  <2>3. H = [i \in 1 .. m |-> r(i)]
    BY <2>1, <2>2
  <2> QED
    BY <2>3 DEF Joins
<1> QED
  BY <1>3, <1>9

LEMMA FlattenFacts ==
  ASSUME NEW pieces, NEW n \in Nat \ {0}, n = Len(pieces)
  PROVE  \E G : /\ G[1] = pieces[1]
                /\ \A i \in 2 .. n : G[i] = G[i - 1] \o pieces[i]
                /\ FlattenSeq(pieces) = G[n]
<1> DEFINE G == CHOOSE G : Joins(pieces, G, n)
<1>1. Joins(pieces, G, n)
  BY JoinsExists
<1>2. FlattenSeq(pieces) = G[n]
  BY DEF FlattenSeq, Joins
<1> HIDE DEF G
<1>3. \A i \in 1 .. n : G[i] = IF i = 1 THEN pieces[i] ELSE G[i - 1] \o pieces[i]
  BY <1>1 DEF Joins
<1>4. G[1] = pieces[1]
  <2>1. 1 \in 1 .. n
    OBVIOUS
  <2> QED
    BY <1>3, <2>1
<1>5. \A i \in 2 .. n : G[i] = G[i - 1] \o pieces[i]
  <2>1. SUFFICES ASSUME NEW i \in 2 .. n PROVE G[i] = G[i - 1] \o pieces[i]
    OBVIOUS
  <2>2. i \in 1 .. n /\ i # 1
    OBVIOUS
  <2> QED
    BY <1>3, <2>2
<1> QED
  BY <1>2, <1>4, <1>5

LEMMA ConcatThree ==
  ASSUME NEW S, NEW x \in Seq(S), NEW y \in Seq(S), NEW z \in Seq(S)
  PROVE  x \o (y \o z) = (x \o y) \o z
BY ConcatAssociative

\* A piece of a sequence, one element longer.
LEMMA OneMore ==
  ASSUME NEW S, NEW t \in Seq(S), NEW m \in Nat, NEW i \in Nat,
         1 <= m, m <= i, i <= Len(t)
  PROVE  /\ SubSeq(t, m, i) = SubSeq(t, m, i - 1) \o <<t[i]>>
         /\ SubSeq(t, m, i - 1) \in Seq(S)
         /\ <<t[i]>> \in Seq(S)
<1>1. m \in 1 .. Len(t) /\ i \in m .. Len(t)
  OBVIOUS
<1>2. \A j \in m .. i - 1 : t[j] \in S
  OBVIOUS
<1>3. m \in Int /\ i - 1 \in Int
  OBVIOUS
<1>4. SubSeq(t, m, i - 1) \in Seq(S)
  <2> DEFINE k == i - 1
  <2>1. k \in Int /\ \A j \in m .. k : t[j] \in S
    BY <1>2, <1>3
  <2> HIDE DEF k
  <2>2. SubSeq(t, m, k) \in Seq(S)
    BY <1>3, <2>1, SubSeqProperties
  <2> QED
    BY <2>2 DEF k
<1>5. SubSeq(t, m, i) = SubSeq(t, m, i - 1) \o <<t[i]>>
  BY <1>1, SubSeqRecursiveSecond
<1> QED
  BY <1>1, <1>4, <1>5

\* A placeholder of which a text has one occurrence is replaced there, and
\* nothing else is touched.
LEMMA ReplacedHere ==
  ASSUME NEW S, NEW t \in Seq(S), NEW P, NEW value \in Seq(S),
         NEW a \in Nat, Len(P) \in Nat \ {0}, a + Len(P) <= Len(t),
         Occurrences(t, P) = {a + 1}
  PROVE  Replaced(t, P, value)
           = (SubSeq(t, 1, a) \o value) \o SubSeq(t, a + Len(P) + 1, Len(t))
<1> DEFINE p == Len(P)
           n == Len(t)
<1>0. p \in Nat \ {0} /\ n \in Nat /\ p = Len(P) /\ n = Len(t) /\ a + p <= n
  OBVIOUS
<1> HIDE DEF p, n
<1> USE <1>0
<1> DEFINE part(i) == IF i = a + 1 THEN value
                      ELSE IF a + 1 < i /\ i < a + 1 + p THEN <<>>
                      ELSE <<t[i]>>
           piece == [i \in 1 .. n |-> part(i)]
           X == SubSeq(t, 1, a) \o value
           upto(i) == IF i <= a THEN SubSeq(t, 1, i) ELSE X \o SubSeq(t, a + p + 1, i)
<1>1. Replaced(t, P, value) = FlattenSeq(piece)
  BY DEF Replaced
<1>2. Len(piece) = n /\ n # 0
  OBVIOUS
<1>3. \A i \in 1 .. n : piece[i] = part(i)
  OBVIOUS
<1> HIDE DEF piece
<1>4. PICK G : /\ G[1] = piece[1]
               /\ \A i \in 2 .. n : G[i] = G[i - 1] \o piece[i]
               /\ FlattenSeq(piece) = G[n]
  BY <1>2, FlattenFacts
<1>5. SubSeq(t, 1, a) \in Seq(S) /\ SubSeq(t, 1, 0) = <<>>
  <2>1. \A i \in 1 .. a : t[i] \in S
    OBVIOUS
  <2>2. 1 \in Int /\ a \in Int /\ 0 \in Int /\ 0 < 1
    OBVIOUS
  <2>3. SubSeq(t, 1, a) \in Seq(S)
    BY <2>1, <2>2, SubSeqProperties
  <2>4. SubSeq(t, 1, 0) = <<>>
    BY <2>2, SubSeqEmpty
  <2> QED
    BY <2>3, <2>4
<1>6. X \in Seq(S)
  BY <1>5, ConcatProperties
<1>7. upto(0) = <<>>
  BY <1>5
<1>8. \A i \in 1 .. n : upto(i) = upto(i - 1) \o piece[i]
  <2>1. SUFFICES ASSUME NEW i \in 1 .. n PROVE upto(i) = upto(i - 1) \o piece[i]
    OBVIOUS
  <2>2. CASE i <= a
    <3>1. piece[i] = <<t[i]>>
      <4>1. ~(i = a + 1) /\ ~(a + 1 < i /\ i < a + 1 + p)
        BY <2>1, <2>2
      <4> QED
        BY <1>3, <2>1, <4>1, Zenon
    <3>2. SubSeq(t, 1, i) = SubSeq(t, 1, i - 1) \o <<t[i]>>
      <4>1. 1 \in Nat /\ i \in Nat /\ 1 <= 1 /\ 1 <= i /\ i <= Len(t)
        BY <2>1
      <4> DEFINE m == 1
      <4> HIDE DEF m
      <4>2. m \in Nat /\ 1 <= m /\ m <= i
        BY <4>1 DEF m
      <4>3. SubSeq(t, m, i) = SubSeq(t, m, i - 1) \o <<t[i]>>
        BY <4>1, <4>2, OneMore
      <4> QED
        BY <4>3 DEF m
    <3>3. i - 1 <= a
      BY <2>1, <2>2
    <3> HIDE DEF X
    <3> QED
      BY <2>2, <3>1, <3>2, <3>3, Zenon
  <2>3. CASE i = a + 1
    <3>1. piece[i] = value
      BY <1>3, <2>1, <2>3
    <3>2. SubSeq(t, a + p + 1, i) = <<>>
      <4> DEFINE m == a + p + 1
      <4>1. m \in Int /\ i \in Int /\ i < m
        BY <2>1, <2>3
      <4> HIDE DEF m
      <4>2. SubSeq(t, m, i) = <<>>
        BY <4>1, SubSeqEmpty
      <4> QED
        BY <4>2 DEF m
    <3>3. X \o <<>> = X
      BY <1>6, ConcatEmptySeq
    <3>4. ~(i <= a) /\ i - 1 = a
      BY <2>1, <2>3
    <3> QED
      <4>1. a <= a
        OBVIOUS
      <4>2. upto(i) = X
        BY <3>2, <3>3, <3>4, Zenon
      <4>3. upto(a) = SubSeq(t, 1, a)
        BY <4>1, Zenon
      <4>4. upto(i - 1) \o piece[i] = X
        <5> HIDE DEF upto
        <5> QED
          BY <3>1, <3>4, <4>3, Zenon
      <4> QED
        BY <4>2, <4>4, Zenon
  <2>4. CASE a + 1 < i /\ i < a + 1 + p
    <3>1. piece[i] = <<>>
      <4>1. ~(i = a + 1)
        BY <2>1, <2>4
      <4> QED
        BY <1>3, <2>1, <2>4, <4>1, Zenon
    <3>2. SubSeq(t, a + p + 1, i) = <<>> /\ SubSeq(t, a + p + 1, i - 1) = <<>>
      <4> DEFINE m == a + p + 1
                 k == i - 1
      <4>1. m \in Int /\ i \in Int /\ i < m /\ k \in Int /\ k < m
        BY <2>1, <2>4
      <4> HIDE DEF m, k
      <4>2. SubSeq(t, m, i) = <<>> /\ SubSeq(t, m, k) = <<>>
        BY <4>1, SubSeqEmpty
      <4> QED
        BY <4>2 DEF m, k
    <3>3. X \o <<>> = X
      BY <1>6, ConcatEmptySeq
    <3>4. ~(i <= a) /\ ~(i - 1 <= a)
      BY <2>1, <2>4
    <3> QED
      BY <3>1, <3>2, <3>3, <3>4
  <2>5. CASE a + p < i
    <3>1. piece[i] = <<t[i]>>
      <4>1. ~(i = a + 1) /\ ~(a + 1 < i /\ i < a + 1 + p)
        BY <2>1, <2>5
      <4> QED
        BY <1>3, <2>1, <4>1, Zenon
    <3>2. /\ SubSeq(t, a + p + 1, i) = SubSeq(t, a + p + 1, i - 1) \o <<t[i]>>
          /\ SubSeq(t, a + p + 1, i - 1) \in Seq(S)
          /\ <<t[i]>> \in Seq(S)
      <4> DEFINE m == a + p + 1
      <4>1. m \in Nat /\ 1 <= m /\ m <= i /\ i \in Nat /\ i <= Len(t)
        BY <2>1, <2>5
      <4> HIDE DEF m
      <4>2. /\ SubSeq(t, m, i) = SubSeq(t, m, i - 1) \o <<t[i]>>
            /\ SubSeq(t, m, i - 1) \in Seq(S)
            /\ <<t[i]>> \in Seq(S)
        BY <4>1, OneMore
      <4> QED
        BY <4>2 DEF m
    <3>3. X \o (SubSeq(t, a + p + 1, i - 1) \o <<t[i]>>)
            = (X \o SubSeq(t, a + p + 1, i - 1)) \o <<t[i]>>
      <4> DEFINE Y == SubSeq(t, a + p + 1, i - 1)
                 Z == <<t[i]>>
      <4>1. Y \in Seq(S) /\ Z \in Seq(S)
        BY <3>2
      <4>3. X \in Seq(S)
        BY <1>6
      <4> HIDE DEF X, Y, Z, upto
      <4>2. X \o (Y \o Z) = (X \o Y) \o Z
        BY <4>1, <4>3, ConcatThree
      <4> QED
        BY <4>2 DEF Y, Z
    <3>4. ~(i <= a) /\ ~(i - 1 <= a)
      BY <2>1, <2>5
    <3> QED
      BY <3>1, <3>2, <3>3, <3>4
  <2>6. i <= a \/ i = a + 1 \/ (a + 1 < i /\ i < a + 1 + p) \/ a + p < i
    BY <2>1
  <2> HIDE DEF upto
  <2> QED
    BY <2>6, <2>2, <2>3, <2>4, <2>5, Zenon
<1>9. \A i \in 1 .. n : G[i] = upto(i)
  <2> DEFINE Bad == {i \in 1 .. n : G[i] # upto(i)}
  <2>1. SUFFICES ASSUME Bad # {} PROVE FALSE
    OBVIOUS
  <2>2. PICK i \in Bad : \A j \in Bad : i <= j
    <3> HIDE DEF Bad
    <3>1. Bad \subseteq Nat
      BY DEF Bad
    <3> QED
      BY <2>1, <3>1, LeastNumber
  <2>3. i \in 1 .. n /\ G[i] # upto(i)
    OBVIOUS
  <2>4. upto(i) = upto(i - 1) \o piece[i]
    BY <1>8, <2>3
  <2>5. CASE i = 1
    <3>1. piece[1] \in Seq(S)
      <4>1. 1 \in 1 .. n
        BY <1>2
      <4>2. t[1] \in S
        BY <4>1
      <4>3. piece[1] = value \/ piece[1] = <<>> \/ piece[1] = <<t[1]>>
        BY <1>3, <4>1, Zenon
      <4>4. <<>> \in Seq(S) /\ <<t[1]>> \in Seq(S)
        BY <4>2
      <4> QED
        BY <4>3, <4>4, Zenon
    <3>2. <<>> \o piece[1] = piece[1]
      BY <3>1, ConcatEmptySeq
    <3>3. upto(i - 1) = <<>>
      BY <1>7, <2>5
    <3> HIDE DEF upto
    <3> QED
      BY <1>4, <2>3, <2>4, <2>5, <3>2, <3>3
  <2>6. CASE i # 1
    <3>1. i - 1 \in 1 .. n /\ i - 1 \notin Bad /\ i \in 2 .. n
      BY <2>2, <2>3, <2>6
    <3>2. G[i - 1] = upto(i - 1)
      BY <3>1
    <3> HIDE DEF upto
    <3> QED
      BY <1>4, <2>3, <2>4, <3>1, <3>2
  <2> QED
    BY <2>5, <2>6
<1>10. upto(n) = X \o SubSeq(t, a + p + 1, n)
  <2>1. ~(n <= a)
    OBVIOUS
  <2> QED
    BY <2>1, Zenon
<1>11. n \in 1 .. n
  BY <1>2
<1> HIDE DEF upto, X
<1>12. Replaced(t, P, value) = (SubSeq(t, 1, a) \o value) \o SubSeq(t, a + p + 1, n)
  BY <1>1, <1>4, <1>9, <1>10, <1>11 DEF X
<1> QED
  BY <1>12 DEF p, n

\* Of some numbers up to n one is the greatest.
LEMMA GreatestNumber ==
  ASSUME NEW n \in Nat, NEW T, T \subseteq 0 .. n, T # {}
  PROVE  \E x \in T : \A y \in T : y <= x
<1> DEFINE U == {n - y : y \in T}
<1>1. U \subseteq Nat /\ U # {}
  <2>1. \A y \in T : y \in 0 .. n
    OBVIOUS
  <2>2. \A y \in 0 .. n : n - y \in Nat
    OBVIOUS
  <2>3. \A y \in T : n - y \in Nat
    BY <2>1, <2>2
  <2> QED
    BY <2>3
<1>2. PICK u \in U : \A v \in U : u <= v
  <2> HIDE DEF U
  <2> QED
    BY <1>1, LeastNumber
<1>3. PICK x \in T : u = n - x
  OBVIOUS
<1>4. \A y \in T : n - y \in U
  OBVIOUS
<1>5. \A y \in T : y <= x
  <2>1. SUFFICES ASSUME NEW y \in T PROVE y <= x
    OBVIOUS
  <2>2. n - x <= n - y
    BY <1>2, <1>3, <1>4
  <2>3. x \in Int /\ y \in Int
    OBVIOUS
  <2> QED
    BY <2>2, <2>3
<1> QED
  BY <1>5

-----------------------------------------------------------------------------
(***************************************************************************)
(* The masked text and its placeholders.                                   *)
(***************************************************************************)
\* Where the text after the spans before the k-th starts.
Past(k) == IF k = 1 THEN 0 ELSE spans[k - 1].end

\* What mask writes for the k-th span, and what follows it: the masked text
\* from the k-th span on.
Lead(k) == SubSeq(text, Past(k) + 1, spans[k].start) \o Placeholder(k)
Rests(R) ==
  R = [k \in 1 .. Len(spans) + 1 |->
         IF k = Len(spans) + 1 THEN SubSeq(text, Past(k) + 1, Len(text))
         ELSE Lead(k) \o R[k + 1]]

LEMMA SpanFacts ==
  ASSUME IInv
  PROVE  /\ text \in Seq(Symbols) /\ Len(text) \in Nat
         /\ Len(spans) \in Nat /\ DOMAIN spans = 1 .. Len(spans)
         /\ \A k \in 1 .. Len(spans) :
              /\ spans[k] \in Candidate
              /\ spans[k].start \in Nat /\ spans[k].end \in Nat
              /\ spans[k].start < spans[k].end /\ spans[k].end <= Len(text)
              /\ Past(k) <= spans[k].start
              /\ Past(k + 1) = spans[k].end
         /\ \A k \in 1 .. Len(spans) + 1 : Past(k) \in Nat /\ Past(k) <= Len(text)
         /\ Past(1) = 0
<1>1. Typed /\ SpansApart
  BY DEF IInv
<1>2. text \in Seq(Symbols) /\ Len(text) \in Nat
  BY <1>1, TextLength DEF Typed
<1>3. Len(spans) \in Nat /\ DOMAIN spans = 1 .. Len(spans)
  BY <1>1 DEF Typed
<1>4. \A k \in 1 .. Len(spans) :
        /\ spans[k] \in Candidate
        /\ spans[k].start < spans[k].end /\ spans[k].end <= Len(text)
  BY <1>1, <1>3 DEF Typed
<1>5. \A k \in 1 .. Len(spans) : spans[k].start \in Nat /\ spans[k].end \in Nat
  BY <1>4 DEF Candidate
<1>6. \A k \in 1 .. Len(spans) : Past(k + 1) = spans[k].end
  <2>1. \A k \in 1 .. Len(spans) : k + 1 # 1 /\ (k + 1) - 1 = k
    BY <1>3
  <2> QED
    BY <2>1 DEF Past
<1>7. \A k \in 1 .. Len(spans) : Past(k) <= spans[k].start
  <2>1. SUFFICES ASSUME NEW k \in 1 .. Len(spans) PROVE Past(k) <= spans[k].start
    OBVIOUS
  <2>2. CASE k = 1
    BY <1>5, <2>1, <2>2 DEF Past
  <2>3. CASE k # 1
    <3>1. k - 1 \in DOMAIN spans /\ k \in DOMAIN spans /\ k - 1 < k
      BY <1>3, <2>1, <2>3
    <3> QED
      BY <1>1, <2>3, <3>1 DEF SpansApart, Past
  <2> QED
    BY <2>2, <2>3
<1>8. \A k \in 1 .. Len(spans) + 1 : Past(k) \in Nat /\ Past(k) <= Len(text)
  <2>1. SUFFICES ASSUME NEW k \in 1 .. Len(spans) + 1
                 PROVE  Past(k) \in Nat /\ Past(k) <= Len(text)
    OBVIOUS
  <2>2. CASE k = 1
    BY <1>2, <2>2 DEF Past
  <2>3. CASE k # 1
    <3>1. k - 1 \in 1 .. Len(spans)
      BY <1>3, <2>1, <2>3
    <3> QED
      BY <1>4, <1>5, <2>3, <3>1 DEF Past
  <2> QED
    BY <2>2, <2>3
<1> QED
  BY <1>2, <1>3, <1>4, <1>5, <1>6, <1>7, <1>8 DEF Past

\* The masked text exists: it is put together from its end.
LEMMA RestsExist ==
  ASSUME NEW n \in Nat, n = Len(spans)
  PROVE  \E R : Rests(R)
<1> DEFINE tail == SubSeq(text, Past(n + 1) + 1, Len(text))
           From(R, m) == R = [k \in m .. n + 1 |->
                                IF k = n + 1 THEN tail ELSE Lead(k) \o R[k + 1]]
           Bad == {m \in 0 .. n + 1 : m # 0 /\ ~(\E R : From(R, m))}
<1>1. SUFFICES ASSUME Bad # {} PROVE FALSE
  <2>1. 1 \in 0 .. n + 1 /\ 1 # 0
    OBVIOUS
  <2>2. \E R : From(R, 1)
    BY <1>1, <2>1
  <2> QED
    BY <2>2 DEF Rests
<1>2. PICK m \in Bad : \A k \in Bad : k <= m
  <2> DEFINE N == n + 1
  <2>1. N \in Nat /\ Bad \subseteq 0 .. N
    OBVIOUS
  <2> HIDE DEF Bad, N
  <2> QED
    BY <1>1, <2>1, GreatestNumber
<1>3. m \in 1 .. n + 1 /\ ~(\E R : From(R, m))
  OBVIOUS
<1> HIDE DEF tail
<1>4. m # n + 1
  <2>1. SUFFICES ASSUME m = n + 1 PROVE FALSE
    OBVIOUS
  <2> DEFINE H == [k \in m .. n + 1 |-> tail]
  <2>2. \A k \in m .. n + 1 : k = n + 1
    BY <2>1
  <2>3. H = [k \in m .. n + 1 |-> IF k = n + 1 THEN tail ELSE Lead(k) \o H[k + 1]]
    <3> DEFINE r(k) == IF k = n + 1 THEN tail ELSE Lead(k) \o H[k + 1]
    <3>1. \A k \in m .. n + 1 : r(k) = tail
      BY <2>2
    <3> HIDE DEF r
    <3>2. H = [k \in m .. n + 1 |-> r(k)]
      BY <3>1
    <3> QED
      BY <3>2 DEF r
  <2> HIDE DEF H
  <2>4. From(H, m)
    BY <2>3
  <2> QED
    BY <1>3, <2>4
<1>5. m + 1 \in 0 .. n + 1 /\ m + 1 # 0 /\ m + 1 \notin Bad
  <2>1. m + 1 \in 0 .. n + 1 /\ m + 1 # 0 /\ ~(m + 1 <= m)
    BY <1>3, <1>4
  <2> QED
    BY <1>2, <2>1
<1>6. PICK G : From(G, m + 1)
  BY <1>5
<1> DEFINE h(k) == IF k = m THEN Lead(m) \o G[m + 1] ELSE G[k]
           H == [k \in m .. n + 1 |-> h(k)]
           r(k) == IF k = n + 1 THEN tail ELSE Lead(k) \o H[k + 1]
<1>7. \A k \in m .. n + 1 : H[k] = h(k)
  OBVIOUS
<1>8. \A k \in m + 1 .. n + 1 : G[k] = IF k = n + 1 THEN tail ELSE Lead(k) \o G[k + 1]
  BY <1>6
<1>9. \A k \in m .. n + 1 : h(k) = r(k)
  <2>1. SUFFICES ASSUME NEW k \in m .. n + 1 PROVE h(k) = r(k)
    OBVIOUS
  <2>2. CASE k = n + 1
    <3>1. k \in m + 1 .. n + 1 /\ k # m
      BY <1>3, <1>4, <2>2
    <3> QED
      BY <1>8, <2>2, <3>1
  <2>3. CASE k # n + 1
    <3>1. k + 1 \in m .. n + 1 /\ k + 1 # m
      BY <1>3, <2>3
    <3>2. H[k + 1] = G[k + 1]
      BY <1>7, <3>1
    <3> HIDE DEF H
    <3>3. CASE k = m
      BY <2>3, <3>2, <3>3
    <3>4. CASE k # m
      <4>1. k \in m + 1 .. n + 1
        BY <1>3, <3>4
      <4> QED
        BY <1>8, <2>3, <3>2, <3>4, <4>1
    <3> QED
      BY <3>3, <3>4
  <2> QED
    BY <2>2, <2>3
<1>10. From(H, m)
  <2>1. H = [k \in m .. n + 1 |-> h(k)]
    OBVIOUS
  <2> HIDE DEF h, r, H
  <2>2. H = [k \in m .. n + 1 |-> r(k)]
    BY <1>9, <2>1
  <2> QED
    BY <2>2 DEF r
<1> QED
  BY <1>3, <1>10

LEMMA RestFacts ==
  ASSUME NEW n \in Nat, n = Len(spans), NEW R, Rests(R)
  PROVE  /\ R[n + 1] = SubSeq(text, Past(n + 1) + 1, Len(text))
         /\ \A k \in 1 .. n : R[k] = Lead(k) \o R[k + 1]
<1>1. \A k \in 1 .. n + 1 :
        R[k] = IF k = n + 1 THEN SubSeq(text, Past(k) + 1, Len(text))
               ELSE Lead(k) \o R[k + 1]
  BY DEF Rests
<1>2. n + 1 \in 1 .. n + 1
  OBVIOUS
<1>3. \A k \in 1 .. n : k \in 1 .. n + 1 /\ k # n + 1
  OBVIOUS
<1>4. R[n + 1] = SubSeq(text, Past(n + 1) + 1, Len(text))
  BY <1>1, <1>2
<1> QED
  BY <1>1, <1>3, <1>4

\* A placeholder has five symbols, of which only the first is the mark.
LEMMA PlaceholderFacts ==
  ASSUME IInv, NEW k \in 1 .. Len(spans), Len(spans) <= Len(text)
  PROVE  /\ Placeholder(k) \in Seq(Symbols)
         /\ Len(Placeholder(k)) = 5
         /\ Placeholder(k)[1] = Left
         /\ \A d \in 2 .. 5 : Placeholder(k)[d] # Left
         /\ Placeholder(k)[2] = spans[k].type
         /\ \E c \in 1 .. Len(Numerals) :
              /\ Placeholder(k)[4] = Numerals[c]
              /\ c = Cardinality({j \in 1 .. k - 1 : spans[j].type = spans[k].type}) + 1
<1> DEFINE earlier == {j \in 1 .. k - 1 : spans[j].type = spans[k].type}
           c == Cardinality(earlier) + 1
<1>1. k \in Nat /\ 1 <= k /\ k <= Len(spans) /\ spans[k] \in Candidate
      /\ Len(spans) \in Nat /\ text \in Texts /\ Len(text) \in Nat
  <2>1. text \in Texts
    BY DEF IInv, Typed
  <2> QED
    BY <2>1, SpanFacts
<1>2. IsFiniteSet(1 .. k - 1) /\ Cardinality(1 .. k - 1) = k - 1
  <2>1. 1 \in Int /\ k - 1 \in Int
    BY <1>1
  <2>2. Cardinality(1 .. k - 1) = IF 1 > k - 1 THEN 0 ELSE (k - 1) - 1 + 1
    BY <2>1, FS_Interval
  <2> QED
    BY <1>1, <2>1, <2>2, FS_Interval
<1>3. Cardinality(earlier) \in Nat /\ Cardinality(earlier) <= k - 1
  <2>1. earlier \subseteq 1 .. k - 1
    OBVIOUS
  <2> HIDE DEF earlier
  <2>2. IsFiniteSet(earlier) /\ Cardinality(earlier) <= Cardinality(1 .. k - 1)
    BY <1>2, <2>1, FS_Subset
  <2>3. Cardinality(earlier) \in Nat
    BY <2>2, FS_CardinalityType
  <2> QED
    BY <1>2, <2>2, <2>3
<1>4. Len(Numerals) \in Nat /\ DOMAIN Numerals = 1 .. Len(Numerals)
      /\ \A i \in 1 .. Len(Numerals) : Numerals[i] \in Symbols
  BY SymbolAssumption
<1> HIDE DEF earlier
<1>5. c \in 1 .. Len(Numerals)
  <2>1. Len(text) <= Len(Numerals)
    BY <1>1, PlaceholderAssumption
  <2>2. Cardinality(earlier) + 1 <= Len(Numerals) /\ 1 <= Cardinality(earlier) + 1
    BY <1>1, <1>3, <1>4, <2>1
  <2> QED
    BY <1>3, <1>4, <2>2
<1>6. spans[k].type \in Types
  BY <1>1 DEF Candidate
<1> HIDE DEF c
<1>7. Placeholder(k) = <<Left, spans[k].type, Underscore, Numerals[c], Right>>
  BY DEF Placeholder, c, earlier
<1>8. Left \in Symbols /\ spans[k].type \in Symbols /\ Underscore \in Symbols
      /\ Numerals[c] \in Symbols /\ Right \in Symbols
  BY <1>4, <1>5, <1>6, SymbolAssumption
<1>9. spans[k].type # Left /\ Underscore # Left /\ Numerals[c] # Left /\ Right # Left
  BY <1>4, <1>5, <1>6, PlaceholderAssumption
<1> DEFINE ty == spans[k].type
           nu == Numerals[c]
<1> HIDE DEF ty, nu
<1>10. Placeholder(k) = <<Left, ty, Underscore, nu, Right>>
  BY <1>7 DEF ty, nu
<1>11. <<Left, ty, Underscore, nu, Right>> \in Seq(Symbols)
  BY <1>8 DEF ty, nu
<1>12. \A d \in 2 .. 5 : Placeholder(k)[d] # Left
  <2>1. \A d \in 2 .. 5 : d = 2 \/ d = 3 \/ d = 4 \/ d = 5
    OBVIOUS
  <2> QED
    BY <1>9, <1>10, <2>1 DEF ty, nu
<1>13. Placeholder(k) \in Seq(Symbols) /\ Len(Placeholder(k)) = 5
       /\ Placeholder(k)[1] = Left
  BY <1>10, <1>11
<1>14. Placeholder(k)[2] = spans[k].type /\ Placeholder(k)[4] = Numerals[c]
  BY <1>10 DEF ty, nu
<1> QED
  BY <1>5, <1>12, <1>13, <1>14 DEF c, earlier

\* Spans are not empty: there are no more of them than positions.
LEMMA SpansFit ==
  ASSUME IInv
  PROVE  Len(spans) <= Len(text)
<1> DEFINE n == Len(spans)
           Bad == {k \in 1 .. n : ~(k <= spans[k].end)}
<1>1. n \in Nat
  BY SpanFacts
<1>2. \A k \in 1 .. n : /\ spans[k].start \in Nat /\ spans[k].end \in Nat
                        /\ spans[k].start < spans[k].end /\ spans[k].end <= Len(text)
                        /\ Past(k) <= spans[k].start
  BY SpanFacts
<1>3. Bad = {}
  <2>1. SUFFICES ASSUME Bad # {} PROVE FALSE
    OBVIOUS
  <2>2. PICK k \in Bad : \A j \in Bad : k <= j
    <3>1. Bad \subseteq Nat
      BY <1>1
    <3> HIDE DEF Bad
    <3> QED
      BY <2>1, <3>1, LeastNumber
  <2>3. k \in 1 .. n /\ ~(k <= spans[k].end)
    OBVIOUS
  <2>4. k # 1
    BY <1>2, <2>3
  <2>5. k - 1 \in 1 .. n /\ ~(k <= k - 1)
    BY <1>1, <2>3, <2>4
  <2>6. k - 1 <= spans[k - 1].end
    BY <2>2, <2>5
  <2>7. Past(k) = spans[k - 1].end
    BY <2>4 DEF Past
  <2> HIDE DEF Bad
  <2>8. spans[k - 1].end \in Nat /\ spans[k].start \in Nat /\ spans[k].end \in Nat
        /\ spans[k].start < spans[k].end /\ Past(k) <= spans[k].start
    BY <1>2, <2>3, <2>5
  <2>9. k \in Nat
    BY <1>1, <2>3
  <2> QED
    BY <2>3, <2>6, <2>7, <2>8, <2>9
<1>4. CASE n = 0
  BY <1>4, SpanFacts
<1>5. CASE n # 0
  <2>1. n \in 1 .. n
    BY <1>1, <1>5
  <2>2. n <= spans[n].end
    BY <1>3, <2>1
  <2>3. spans[n].end \in Nat /\ spans[n].end <= Len(text) /\ Len(text) \in Nat
    BY <1>2, <2>1, SpanFacts
  <2> HIDE DEF n
  <2> QED
    BY <1>1, <2>2, <2>3 DEF n
<1> QED
  BY <1>4, <1>5

\* Different spans have different placeholders: of two of one type the later
\* one has more before it.
LEMMA PlaceholdersDiffer ==
  ASSUME IInv, NEW k \in 1 .. Len(spans), NEW m \in 1 .. Len(spans), k < m
  PROVE  Placeholder(k) # Placeholder(m)
<1>1. SUFFICES ASSUME Placeholder(k) = Placeholder(m) PROVE FALSE
  OBVIOUS
<1> DEFINE before(i) == {j \in 1 .. i - 1 : spans[j].type = spans[i].type}
<1>2. Len(spans) <= Len(text)
  BY SpansFit
<1>3. PICK c \in 1 .. Len(Numerals) :
        Placeholder(k)[4] = Numerals[c] /\ c = Cardinality(before(k)) + 1
  BY <1>2, PlaceholderFacts
<1>4. PICK d \in 1 .. Len(Numerals) :
        Placeholder(m)[4] = Numerals[d] /\ d = Cardinality(before(m)) + 1
  BY <1>2, PlaceholderFacts
<1>5. spans[k].type = spans[m].type
  BY <1>1, <1>2, PlaceholderFacts
<1>6. c = d
  <2>1. DOMAIN Numerals = 1 .. Len(Numerals)
    BY SymbolAssumption
  <2> QED
    BY <1>1, <1>3, <1>4, <2>1, PlaceholderAssumption
<1>7. k \in Nat /\ m \in Nat /\ 1 <= k
  BY SpanFacts
<1>8. IsFiniteSet(1 .. m - 1)
  <2>1. 1 \in Int /\ m - 1 \in Int
    BY <1>7
  <2> QED
    BY <2>1, FS_Interval
<1>9. before(m) \subseteq 1 .. m - 1
  OBVIOUS
<1>10. before(k) \cup {k} \subseteq before(m) /\ k \notin before(k)
  BY <1>5, <1>7
<1> DEFINE A == before(k)
           B == before(m)
<1>11. B \subseteq 1 .. m - 1 /\ A \cup {k} \subseteq B /\ k \notin A
  BY <1>9, <1>10
<1>12. Cardinality(A) = Cardinality(B)
  <2>1. IsFiniteSet(B)
    <3> HIDE DEF B, A
    <3> QED
      BY <1>8, <1>11, FS_Subset
  <2>2. IsFiniteSet(A)
    <3>1. A \subseteq B
      BY <1>11
    <3> HIDE DEF B, A
    <3> QED
      BY <2>1, <3>1, FS_Subset
  <2>3. Cardinality(A) \in Nat /\ Cardinality(B) \in Nat
    <3> HIDE DEF B, A
    <3> QED
      BY <2>1, <2>2, FS_CardinalityType
  <2>4. Cardinality(A) + 1 = Cardinality(B) + 1
    BY <1>3, <1>4, <1>6
  <2> HIDE DEF B, A
  <2> QED
    BY <2>3, <2>4
<1> HIDE DEF B, A
<1>13. IsFiniteSet(B)
  BY <1>8, <1>11, FS_Subset
<1>14. IsFiniteSet(A) /\ A \subseteq B
  BY <1>11, <1>13, FS_Subset
<1>15. Cardinality(A \cup {k}) = Cardinality(A) + 1
  BY <1>11, <1>14, FS_AddElement
<1>16. Cardinality(A \cup {k}) <= Cardinality(B)
  BY <1>11, <1>13, FS_Subset
<1>17. Cardinality(A) \in Nat
  BY <1>14, FS_CardinalityType
<1> QED
  BY <1>12, <1>15, <1>16, <1>17

\* A piece of a sequence, symbol by symbol.
LEMMA Piece ==
  ASSUME NEW S, NEW t \in Seq(S), NEW i \in Nat, NEW j \in Nat, i <= j, j <= Len(t)
  PROVE  /\ SubSeq(t, i + 1, j) \in Seq(S)
         /\ Len(SubSeq(t, i + 1, j)) = j - i
         /\ \A d \in 1 .. j - i : SubSeq(t, i + 1, j)[d] = t[i + d]
<1> DEFINE m == i + 1
<1>1. m \in Int /\ j \in Int
  OBVIOUS
<1>2. \A x \in m .. j : t[x] \in S
  OBVIOUS
<1>3. /\ (IF m <= j THEN j - m + 1 ELSE 0) = j - i
      /\ j - m + 1 = j - i
      /\ \A d \in 1 .. j - i : m + d - 1 = i + d
  OBVIOUS
<1> DEFINE piece == SubSeq(t, m, j)
<1>4. /\ piece \in Seq(S)
      /\ Len(piece) = IF m <= j THEN j - m + 1 ELSE 0
      /\ \A d \in 1 .. j - m + 1 : piece[d] = t[m + d - 1]
  <2> HIDE DEF m
  <2> QED
    BY <1>1, <1>2, SubSeqProperties
<1>5. piece \in Seq(S) /\ Len(piece) = j - i
  BY <1>3, <1>4
<1>6. \A d \in 1 .. j - i : piece[d] = t[i + d]
  <2>1. SUFFICES ASSUME NEW d \in 1 .. j - i PROVE piece[d] = t[i + d]
    OBVIOUS
  <2>2. m + d - 1 = i + d /\ d \in 1 .. j - m + 1
    BY <1>3
  <2>3. piece[d] = t[m + d - 1]
    BY <1>4, <2>2
  <2> HIDE DEF piece, m
  <2> QED
    BY <2>2, <2>3
<1> QED
  BY <1>5, <1>6

\* What three sequences put together holds.
LEMMA Three ==
  ASSUME NEW S, NEW g \in Seq(S), NEW P \in Seq(S), NEW r \in Seq(S),
         NEW t, t = (g \o P) \o r
  PROVE  /\ t \in Seq(S) /\ Len(t) = Len(g) + Len(P) + Len(r)
         /\ \A d \in 1 .. Len(g) : t[d] = g[d]
         /\ \A d \in 1 .. Len(P) : t[Len(g) + d] = P[d]
         /\ \A d \in 1 .. Len(r) : t[Len(g) + Len(P) + d] = r[d]
<1>1. /\ g \o P \in Seq(S) /\ Len(g \o P) = Len(g) + Len(P)
      /\ \A i \in 1 .. Len(g) + Len(P) : (g \o P)[i] =
                     IF i <= Len(g) THEN g[i] ELSE P[i - Len(g)]
  BY ConcatProperties
<1> DEFINE x == g \o P
<1>2. x \in Seq(S) /\ Len(x) = Len(g) + Len(P) /\ t = x \o r
      /\ Len(g) \in Nat /\ Len(P) \in Nat /\ Len(r) \in Nat
  BY <1>1
<1>3. \A d \in 1 .. Len(g) : x[d] = g[d]
  BY <1>1, <1>2
<1>4. \A d \in 1 .. Len(P) : x[Len(g) + d] = P[d]
  BY <1>1, <1>2
<1> HIDE DEF x
<1>5. /\ t \in Seq(S) /\ Len(t) = Len(x) + Len(r)
      /\ \A i \in 1 .. Len(x) + Len(r) : t[i] =
                     IF i <= Len(x) THEN x[i] ELSE r[i - Len(x)]
  <2> DEFINE y == x \o r
  <2>1. /\ y \in Seq(S) /\ Len(y) = Len(x) + Len(r)
        /\ \A i \in 1 .. Len(x) + Len(r) : y[i] =
                     IF i <= Len(x) THEN x[i] ELSE r[i - Len(x)]
    <3>1. x \in Seq(S)
      BY <1>2
    <3> QED
      BY <3>1, ConcatProperties
  <2>2. t = y
    BY <1>2
  <2> HIDE DEF y
  <2> QED
    BY <2>1, <2>2
<1>6. \A d \in 1 .. Len(g) : t[d] = g[d]
  BY <1>2, <1>3, <1>5
<1>7. \A d \in 1 .. Len(P) : t[Len(g) + d] = P[d]
  <2>1. SUFFICES ASSUME NEW d \in 1 .. Len(P) PROVE t[Len(g) + d] = P[d]
    OBVIOUS
  <2>2. Len(g) + d \in 1 .. Len(x) + Len(r) /\ Len(g) + d <= Len(x)
    BY <1>2
  <2> QED
    BY <1>4, <1>5, <2>2
<1>8. \A d \in 1 .. Len(r) : t[Len(g) + Len(P) + d] = r[d]
  <2>1. SUFFICES ASSUME NEW d \in 1 .. Len(r) PROVE t[Len(g) + Len(P) + d] = r[d]
    OBVIOUS
  <2> DEFINE i == Len(g) + Len(P) + d
  <2>2. i \in 1 .. Len(x) + Len(r) /\ ~(i <= Len(x)) /\ i - Len(x) = d
    BY <1>2
  <2> HIDE DEF i
  <2>3. t[i] = r[d]
    BY <1>5, <2>2
  <2> QED
    BY <2>3 DEF i
<1> QED
  BY <1>2, <1>5, <1>6, <1>7, <1>8

\* Every opening mark in t is that of a placeholder of a span from the k-th on.
Marks(t, k) ==
  \A j \in 1 .. Len(t) : t[j] = Left =>
    \E m \in k .. Len(spans) : \A d \in 1 .. 5 :
      j + d - 1 \in 1 .. Len(t) /\ t[j + d - 1] = Placeholder(m)[d]

\* The marks of a text without marks, a placeholder and what follows it.
MadeOf(t, g, P, r, l, p, q) ==
  /\ \A d \in 1 .. l : t[d] = g[d] /\ g[d] # Left
  /\ \A d \in 1 .. p : t[l + d] = P[d]
  /\ \A d \in 1 .. p : d # 1 => P[d] # Left
  /\ \A d \in 1 .. q : t[l + p + d] = r[d]

MarkAt(j, r, l, p, q) ==
  j = l + 1 \/ (j - l - p \in 1 .. q /\ r[j - l - p] = Left)

LEMMA MarksOfThree ==
  ASSUME NEW t, NEW g, NEW P, NEW r, NEW l \in Nat, NEW p \in Nat, NEW q \in Nat,
         MadeOf(t, g, P, r, l, p, q),
         NEW j \in 1 .. l + p + q, t[j] = Left
  PROVE  MarkAt(j, r, l, p, q)
<1>1. /\ \A d \in 1 .. l : t[d] = g[d] /\ g[d] # Left
      /\ \A d \in 1 .. p : t[l + d] = P[d]
      /\ \A d \in 1 .. p : d # 1 => P[d] # Left
      /\ \A d \in 1 .. q : t[l + p + d] = r[d]
  BY DEF MadeOf
<1>2. j \in Nat /\ 1 <= j /\ j <= l + p + q
  OBVIOUS
<1>3. ~(j <= l)
  <2>1. j <= l => j \in 1 .. l
    BY <1>2
  <2> QED
    BY <1>1, <2>1
<1>4. CASE j <= l + p
  <2> DEFINE d == j - l
  <2>1. d \in 1 .. p /\ l + d = j
    BY <1>2, <1>3, <1>4
  <2> HIDE DEF d
  <2>2. d = 1
    BY <1>1, <2>1
  <2> QED
    BY <2>1, <2>2 DEF MarkAt
<1>5. CASE ~(j <= l + p)
  <2> DEFINE d == j - l - p
  <2>1. d \in 1 .. q /\ l + p + d = j
    BY <1>2, <1>5
  <2>2. r[d] = Left
    <3> HIDE DEF d
    <3> QED
      BY <1>1, <2>1
  <2> QED
    BY <2>1, <2>2 DEF MarkAt
<1> QED
  BY <1>4, <1>5

\* The placeholder of the k-th span stands once in a text that has no mark
\* before it and only the marks of later spans after it.
LEMMA OnlyHere ==
  ASSUME IInv, NEW k \in 1 .. Len(spans),
         NEW g \in Seq(Symbols), NEW r \in Seq(Symbols),
         \A i \in 1 .. Len(g) : g[i] # Left,
         Marks(r, k + 1)
  PROVE  Occurrences((g \o Placeholder(k)) \o r, Placeholder(k)) = {Len(g) + 1}
<1> DEFINE P == Placeholder(k)
           t == (g \o P) \o r
           l == Len(g)
           q == Len(r)
<1>1. /\ P \in Seq(Symbols) /\ Len(P) = 5 /\ P[1] = Left
      /\ \A d \in 2 .. 5 : P[d] # Left
  BY SpansFit, PlaceholderFacts
<1>2. /\ t \in Seq(Symbols) /\ Len(t) = l + Len(P) + q
      /\ \A d \in 1 .. l : t[d] = g[d]
      /\ \A d \in 1 .. Len(P) : t[l + d] = P[d]
      /\ \A d \in 1 .. q : t[l + Len(P) + d] = r[d]
  <2>1. P \in Seq(Symbols)
    BY <1>1
  <2> HIDE DEF P
  <2> QED
    BY <2>1, Three
<1>3. l \in Nat /\ q \in Nat /\ k \in Nat /\ Len(spans) \in Nat /\ 1 <= k /\ k <= Len(spans)
  BY SpanFacts
<1>4. /\ \A i \in 1 .. l : g[i] # Left
      /\ \A j \in 1 .. q : r[j] = Left =>
           \E m \in k + 1 .. Len(spans) : \A d \in 1 .. 5 :
             j + d - 1 \in 1 .. q /\ r[j + d - 1] = Placeholder(m)[d]
  BY DEF Marks
<1> HIDE DEF P, t, l, q
<1>5. /\ Len(t) = l + 5 + q
      /\ \A d \in 1 .. 5 : t[l + d] = P[d]
      /\ \A d \in 1 .. q : t[l + 5 + d] = r[d]
  BY <1>1, <1>2
<1>6. \A i \in 1 .. Len(t) - 5 + 1 :
        /\ SubSeq(t, i, i + 5 - 1) \in Seq(Symbols)
        /\ Len(SubSeq(t, i, i + 5 - 1)) = 5
        /\ \A d \in 1 .. 5 : SubSeq(t, i, i + 5 - 1)[d] = t[i + d - 1]
  <2>1. SUFFICES ASSUME NEW i \in 1 .. Len(t) - 5 + 1
                 PROVE  /\ SubSeq(t, i, i + 5 - 1) \in Seq(Symbols)
                        /\ Len(SubSeq(t, i, i + 5 - 1)) = 5
                        /\ \A d \in 1 .. 5 : SubSeq(t, i, i + 5 - 1)[d] = t[i + d - 1]
    OBVIOUS
  <2> DEFINE e == i + 5 - 1
             b == i - 1
  <2>2. b \in Nat /\ e \in Nat /\ b <= e /\ e <= Len(t) /\ b + 1 = i /\ e - b = 5
    BY <1>3, <1>5, <2>1
  <2> HIDE DEF e, b
  <2>3. /\ SubSeq(t, b + 1, e) \in Seq(Symbols)
        /\ Len(SubSeq(t, b + 1, e)) = e - b
        /\ \A d \in 1 .. e - b : SubSeq(t, b + 1, e)[d] = t[b + d]
    BY <1>2, <2>2, Piece
  <2>4. \A d \in 1 .. 5 : b + d = i + d - 1
    BY <2>2 DEF b
  <2> QED
    BY <2>2, <2>3, <2>4 DEF e
<1>7. \A i \in 1 .. l + 5 + q : t[i] = Left =>
         i = l + 1 \/ (i - l - 5 \in 1 .. q /\ r[i - l - 5] = Left)
  <2> DEFINE p == Len(P)
  <2>1. p \in Nat /\ p = 5
    BY <1>1
  <2>2. \A d \in 1 .. p : d # 1 => P[d] # Left
    <3>1. \A d \in 1 .. 5 : d # 1 => d \in 2 .. 5
      OBVIOUS
    <3> HIDE DEF p
    <3> QED
      BY <1>1, <2>1, <3>1
  <2>3. MadeOf(t, g, P, r, l, p, q)
    BY <1>2, <1>4, <2>2 DEF MadeOf
  <2> HIDE DEF p
  <2>4. \A i \in 1 .. l + p + q : t[i] = Left => MarkAt(i, r, l, p, q)
    BY <1>3, <2>1, <2>3, MarksOfThree
  <2> QED
    BY <2>1, <2>4 DEF MarkAt
<1>8. ASSUME NEW i \in Occurrences(t, P)
      PROVE  i = l + 1
  <2>1. i \in 1 .. Len(t) - 5 + 1 /\ SubSeq(t, i, i + 5 - 1) = P
    BY <1>1, <1>8 DEF Occurrences
  <2>2. \A d \in 1 .. 5 : P[d] = t[i + d - 1]
    BY <1>6, <2>1
  <2>3. i \in 1 .. Len(t) /\ i \in Nat
    BY <1>3, <1>5, <2>1
  <2>4. t[i] = Left
    <3>1. 1 \in 1 .. 5 /\ i + 1 - 1 = i
      BY <2>3
    <3> QED
      BY <1>1, <2>2, <3>1
  <2>5. i = l + 1 \/ (i - l - 5 \in 1 .. q /\ r[i - l - 5] = Left)
    <3>1. i \in 1 .. l + 5 + q
      BY <1>5, <2>3
    <3> QED
      BY <1>7, <2>4, <3>1
  <2>6. ASSUME i - l - 5 \in 1 .. q, r[i - l - 5] = Left
        PROVE  FALSE
    <3> DEFINE j == i - l - 5
    <3>1. PICK m \in k + 1 .. Len(spans) : \A d \in 1 .. 5 :
            j + d - 1 \in 1 .. q /\ r[j + d - 1] = Placeholder(m)[d]
      BY <1>4, <2>6
    <3>2. m \in 1 .. Len(spans) /\ k < m
      BY <1>3
    <3>3. \A d \in 1 .. 5 : l + 5 + (j + d - 1) = i + d - 1
      BY <1>3, <2>3
    <3> HIDE DEF j
    <3>4. \A d \in 1 .. 5 : P[d] = Placeholder(m)[d]
      <4>1. SUFFICES ASSUME NEW d \in 1 .. 5 PROVE P[d] = Placeholder(m)[d]
        OBVIOUS
      <4>2. t[l + 5 + (j + d - 1)] = r[j + d - 1]
        BY <1>5, <3>1, <4>1
      <4> QED
        BY <2>2, <3>1, <3>3, <4>1, <4>2
    <3> DEFINE N == Placeholder(m)
    <3>5. N \in Seq(Symbols) /\ Len(N) = 5
      BY <3>2, SpansFit, PlaceholderFacts
    <3>6. P # N
      BY <3>2, PlaceholdersDiffer DEF P
    <3>7. \A d \in 1 .. 5 : P[d] = N[d]
      BY <3>4
    <3> HIDE DEF N
    <3>8. P = N
      BY <1>1, <3>5, <3>7, SeqEqual
    <3> QED
      BY <3>6, <3>8
  <2> QED
    BY <2>5, <2>6
<1>9. l + 1 \in Occurrences(t, P)
  <2> DEFINE i == l + 1
  <2>1. i \in 1 .. Len(t) - 5 + 1
    BY <1>3, <1>5
  <2>2. \A d \in 1 .. 5 : i + d - 1 = l + d
    BY <1>3
  <2> HIDE DEF i
  <2> DEFINE s == SubSeq(t, i, i + 5 - 1)
  <2>3. s \in Seq(Symbols) /\ Len(s) = 5 /\ \A d \in 1 .. 5 : s[d] = t[i + d - 1]
    BY <1>6, <2>1
  <2> HIDE DEF s
  <2>4. \A d \in 1 .. 5 : s[d] = P[d]
    BY <1>5, <2>2, <2>3
  <2>5. s = P
    BY <1>1, <2>3, <2>4, SeqEqual
  <2>6. i \in Occurrences(t, P)
    BY <1>1, <2>1, <2>5 DEF Occurrences, s
  <2> QED
    BY <2>6 DEF i
<1>10. Occurrences(t, P) = {l + 1}
  BY <1>8, <1>9
<1> QED
  BY <1>10 DEF t, P, l

Plain == \A i \in DOMAIN text : text[i] # Left

\* What follows a span holds the marks of later spans only.
LEMMA RestsHold ==
  ASSUME IInv, Plain, NEW n \in Nat, n = Len(spans), NEW R, Rests(R)
  PROVE  \A k \in 1 .. n + 1 : R[k] \in Seq(Symbols) /\ Marks(R[k], k)
<1> DEFINE good(k) == R[k] \in Seq(Symbols) /\ Marks(R[k], k)
           Bad == {k \in 0 .. n + 1 : k # 0 /\ ~good(k)}
<1>1. SUFFICES ASSUME Bad # {} PROVE FALSE
  OBVIOUS
<1>2. PICK k \in Bad : \A j \in Bad : j <= k
  <2> DEFINE N == n + 1
  <2>1. N \in Nat /\ Bad \subseteq 0 .. N
    OBVIOUS
  <2> HIDE DEF Bad, N
  <2> QED
    BY <1>1, <2>1, GreatestNumber
<1>3. k \in 1 .. n + 1 /\ ~good(k)
  <2> HIDE DEF good
  <2> QED
    OBVIOUS
<1>4. /\ R[n + 1] = SubSeq(text, Past(n + 1) + 1, Len(text))
      /\ \A i \in 1 .. n : R[i] = Lead(i) \o R[i + 1]
  BY RestFacts
<1>5. /\ text \in Seq(Symbols) /\ Len(text) \in Nat
      /\ \A i \in 1 .. n + 1 : Past(i) \in Nat /\ Past(i) <= Len(text)
      /\ \A i \in 1 .. n : /\ spans[i].start \in Nat /\ Past(i) <= spans[i].start
                           /\ spans[i].start <= Len(text)
  <2>1. \A i \in 1 .. n : /\ spans[i].start \in Nat /\ Past(i) <= spans[i].start
                          /\ spans[i].end \in Nat
                          /\ spans[i].start < spans[i].end /\ spans[i].end <= Len(text)
    BY SpanFacts
  <2>2. Len(text) \in Nat
    BY SpanFacts
  <2>3. \A i \in 1 .. n : spans[i].start <= Len(text)
    BY <2>1, <2>2
  <2> QED
    BY <2>1, <2>3, SpanFacts
<1>6. DOMAIN text = 1 .. Len(text)
  BY <1>5
<1>7. CASE k = n + 1
  <2> DEFINE b == Past(n + 1)
             e == Len(text)
             r == SubSeq(text, b + 1, e)
  <2>1. n + 1 \in 1 .. n + 1
    OBVIOUS
  <2>2. b \in Nat /\ e \in Nat /\ b <= e
    BY <1>5, <2>1
  <2>3. r \in Seq(Symbols) /\ Len(r) = e - b /\ \A d \in 1 .. e - b : r[d] = text[b + d]
    BY <1>5, <2>2, Piece
  <2>4. R[n + 1] = r
    BY <1>4
  <2> HIDE DEF b, r
  <2>5. \A d \in 1 .. e - b : b + d \in DOMAIN text
    BY <1>6, <2>2
  <2>6. \A d \in 1 .. Len(r) : r[d] # Left
    BY <2>3, <2>5 DEF Plain
  <2>7. Marks(r, n + 1)
    BY <2>6 DEF Marks
  <2> QED
    BY <1>3, <1>7, <2>3, <2>4, <2>7
<1>8. CASE k # n + 1
  <2>1. k \in 1 .. n /\ k + 1 \in 0 .. n + 1 /\ k + 1 # 0 /\ ~(k + 1 <= k)
    BY <1>3, <1>8
  <2>2. k + 1 \notin Bad
    BY <1>2, <2>1
  <2>3. good(k + 1)
    <3> HIDE DEF good
    <3> QED
      BY <2>1, <2>2
  <2> DEFINE b == Past(k)
             e == spans[k].start
             g == SubSeq(text, b + 1, e)
             P == Placeholder(k)
             r == R[k + 1]
             t == (g \o P) \o r
             l == Len(g)
             q == Len(r)
  <2>4. b \in Nat /\ e \in Nat /\ b <= e /\ e <= Len(text)
    BY <1>3, <1>5, <2>1
  <2>5. g \in Seq(Symbols) /\ Len(g) = e - b /\ \A d \in 1 .. e - b : g[d] = text[b + d]
    <3> HIDE DEF b, e
    <3> QED
      BY <1>5, <2>4, Piece
  <2>6. /\ P \in Seq(Symbols) /\ Len(P) = 5 /\ P[1] = Left
        /\ \A d \in 2 .. 5 : P[d] # Left
    BY <2>1, SpansFit, PlaceholderFacts
  <2>7. r \in Seq(Symbols) /\ Marks(r, k + 1)
    BY <2>3
  <2>8. R[k] = t
    BY <1>4, <2>1 DEF Lead
  <2> HIDE DEF b, e, g, P, r
  <2>9. /\ t \in Seq(Symbols) /\ Len(t) = l + Len(P) + q
        /\ \A d \in 1 .. l : t[d] = g[d]
        /\ \A d \in 1 .. Len(P) : t[l + d] = P[d]
        /\ \A d \in 1 .. q : t[l + Len(P) + d] = r[d]
    <3>1. g \in Seq(Symbols) /\ P \in Seq(Symbols) /\ r \in Seq(Symbols)
      BY <2>5, <2>6, <2>7
    <3> QED
      BY <3>1, Three
  <2>10. l \in Nat /\ q \in Nat
    BY <2>5, <2>7
  <2>11. \A d \in 1 .. l : g[d] # Left
    <3>1. \A d \in 1 .. e - b : b + d \in DOMAIN text
      BY <1>6, <2>4
    <3> QED
      BY <2>5, <3>1 DEF Plain
  <2>12. \A j \in 1 .. q : r[j] = Left =>
           \E m \in k + 1 .. Len(spans) : \A d \in 1 .. 5 :
             j + d - 1 \in 1 .. q /\ r[j + d - 1] = Placeholder(m)[d]
    BY <2>7 DEF Marks
  <2> HIDE DEF t, l, q
  <2>13. /\ Len(t) = l + 5 + q
         /\ \A d \in 1 .. 5 : t[l + d] = P[d]
         /\ \A d \in 1 .. q : t[l + 5 + d] = r[d]
    BY <2>6, <2>9
  <2>14. ASSUME NEW j \in 1 .. Len(t), t[j] = Left
         PROVE  \E m \in k .. Len(spans) : \A d \in 1 .. 5 :
                  j + d - 1 \in 1 .. Len(t) /\ t[j + d - 1] = Placeholder(m)[d]
    <3>1. j = l + 1 \/ (j - l - 5 \in 1 .. q /\ r[j - l - 5] = Left)
      <4> DEFINE p == Len(P)
      <4>1. p \in Nat /\ p = 5
        BY <2>6
      <4>2. \A d \in 1 .. p : d # 1 => P[d] # Left
        <5>1. \A d \in 1 .. 5 : d # 1 => d \in 2 .. 5
          OBVIOUS
        <5> HIDE DEF p
        <5> QED
          BY <2>6, <4>1, <5>1
      <4>3. MadeOf(t, g, P, r, l, p, q)
        BY <2>9, <2>11, <4>2 DEF MadeOf
      <4>4. j \in 1 .. l + p + q
        BY <2>13, <2>14, <4>1
      <4> HIDE DEF p
      <4>5. MarkAt(j, r, l, p, q)
        BY <2>10, <2>14, <4>1, <4>3, <4>4, MarksOfThree
      <4> QED
        BY <4>1, <4>5 DEF MarkAt
    <3>2. CASE j = l + 1
      <4>1. \A d \in 1 .. 5 : j + d - 1 = l + d /\ l + d \in 1 .. Len(t)
        BY <2>10, <2>13, <3>2
      <4>2. \A d \in 1 .. 5 : j + d - 1 \in 1 .. Len(t) /\ t[j + d - 1] = Placeholder(k)[d]
        BY <2>13, <4>1 DEF P
      <4>3. k \in k .. Len(spans)
        BY <2>1
      <4> QED
        BY <4>2, <4>3
    <3>3. CASE j - l - 5 \in 1 .. q /\ r[j - l - 5] = Left
      <4> DEFINE i == j - l - 5
      <4>1. PICK m \in k + 1 .. Len(spans) : \A d \in 1 .. 5 :
              i + d - 1 \in 1 .. q /\ r[i + d - 1] = Placeholder(m)[d]
        BY <2>12, <3>3
      <4>2. m \in k .. Len(spans)
        BY <2>1
      <4>3. j \in Int /\ l \in Int
        BY <2>10, <2>13
      <4>4. \A d \in 1 .. 5 : l + 5 + (i + d - 1) = j + d - 1
        BY <4>3
      <4> HIDE DEF i
      <4>5. ASSUME NEW d \in 1 .. 5
            PROVE  j + d - 1 \in 1 .. Len(t) /\ t[j + d - 1] = Placeholder(m)[d]
        <5> DEFINE x == i + d - 1
        <5>1. x \in 1 .. q /\ r[x] = Placeholder(m)[d] /\ l + 5 + x = j + d - 1
          BY <4>1, <4>4, <4>5
        <5> HIDE DEF x
        <5>2. t[l + 5 + x] = r[x] /\ l + 5 + x \in 1 .. Len(t)
          BY <2>10, <2>13, <5>1
        <5> QED
          BY <5>1, <5>2
      <4> QED
        BY <4>2, <4>5
    <3> QED
      BY <3>1, <3>2, <3>3
  <2>15. Marks(t, k)
    BY <2>14 DEF Marks
  <2> QED
    BY <1>3, <2>8, <2>9, <2>15
<1> QED
  BY <1>7, <1>8

\* Two pieces of a text, one after the other.
LEMMA Adjacent ==
  ASSUME NEW S, NEW t \in Seq(S), NEW i \in Nat, NEW j \in Nat, i <= j, j <= Len(t)
  PROVE  /\ SubSeq(t, 1, i) \o SubSeq(t, i + 1, j) = SubSeq(t, 1, j)
         /\ SubSeq(t, 1, i) \in Seq(S) /\ Len(SubSeq(t, 1, i)) = i
         /\ \A d \in 1 .. i : SubSeq(t, 1, i)[d] = t[d]
<1> DEFINE o == 1
           z == 0
<1>1. o \in 1 .. Len(t) + 1 /\ i \in o - 1 .. Len(t) /\ j \in i .. Len(t)
  OBVIOUS
<1>2. z \in Nat /\ z <= i /\ i <= Len(t) /\ z + 1 = o
  OBVIOUS
<1>3. i - z = i /\ \A d \in 1 .. i : z + d = d
  OBVIOUS
<1> HIDE DEF o, z
<1>4. SubSeq(t, o, i) \o SubSeq(t, i + 1, j) = SubSeq(t, o, j)
  BY <1>1, ConcatAdjacentSubSeq
<1>5. /\ SubSeq(t, z + 1, i) \in Seq(S) /\ Len(SubSeq(t, z + 1, i)) = i - z
      /\ \A d \in 1 .. i - z : SubSeq(t, z + 1, i)[d] = t[z + d]
  BY <1>2, Piece
<1>6. /\ SubSeq(t, o, i) \in Seq(S) /\ Len(SubSeq(t, o, i)) = i
      /\ \A d \in 1 .. i : SubSeq(t, o, i)[d] = t[d]
  BY <1>2, <1>3, <1>5
<1> QED
  BY <1>4, <1>6 DEF o

-----------------------------------------------------------------------------
(***************************************************************************)
(* The invariant of mask and restore.                                      *)
(***************************************************************************)
\* What mask and restore keep: the placeholders written and their values, and
\* that the text they work on is the text with the spans replaced that they
\* have passed.
Value(k) == <<Placeholder(k), SubSeq(text, spans[k].start + 1, spans[k].end)>>

ValuesKept ==
  /\ phase \in {"find", "resolve"} => values = <<>> /\ masked = <<>> /\ last = 0
  /\ phase = "mask" => /\ at <= Len(spans) + 1 /\ Len(values) = at - 1
                       /\ last = Past(at) /\ masked \in Seq(Symbols)
  /\ phase \in {"restore", "done"} => Len(values) = Len(spans)
  /\ phase = "restore" => at <= Len(spans) + 1
  /\ values \in Seq(Seq(Symbols) \X Seq(Symbols))
  /\ \A k \in 1 .. Len(values) : values[k] = Value(k)

TextKept(R) ==
  /\ phase = "mask" => masked \o R[at] = R[1]
  /\ phase = "restore" => restored = SubSeq(text, 1, Past(at)) \o R[at]
  /\ phase = "done" => restored = text

RoundTrip ==
  /\ ValuesKept
  /\ Resolved /\ Plain => \E R : Rests(R) /\ TextKept(R)

LEMMA RoundTripInit == Init => RoundTrip
<1>1. SUFFICES ASSUME Init PROVE RoundTrip
  OBVIOUS
<1>2. /\ phase = "find" /\ values = <<>> /\ masked = <<>> /\ last = 0
  BY <1>1 DEF Init
<1>3. values \in Seq(Seq(Symbols) \X Seq(Symbols)) /\ Len(values) = 0
  BY <1>2
<1>4. ValuesKept
  BY <1>2, <1>3 DEF ValuesKept
<1>5. ~Resolved
  BY <1>2 DEF Resolved
<1> QED
  BY <1>4, <1>5 DEF RoundTrip

\* Before the spans are settled nothing is masked.
LEMMA RoundTripBefore ==
  ASSUME IInv, RoundTrip, FindMatches \/ FindDone \/ \E i \in left : Sweep(i)
  PROVE  RoundTrip'
<1>1. /\ phase \in {"find", "resolve"} /\ phase' \in {"find", "resolve"}
      /\ UNCHANGED <<values, masked, last>>
  BY DEF FindMatches, FindDone, Sweep
<1>2. values' = <<>> /\ masked' = <<>> /\ last' = 0
  BY <1>1 DEF RoundTrip, ValuesKept
<1>3. values' \in Seq(Seq(Symbols) \X Seq(Symbols)) /\ Len(values') = 0
  BY <1>2
<1>4. ValuesKept'
  BY <1>1, <1>2, <1>3 DEF ValuesKept
<1>5. ~Resolved'
  BY <1>1 DEF Resolved
<1> QED
  BY <1>4, <1>5 DEF RoundTrip

\* Masking starts with nothing written and all of the text ahead.
LEMMA RoundTripStart ==
  ASSUME IInv, RoundTrip, SweepDone
  PROVE  RoundTrip'
<1>1. /\ phase = "resolve" /\ phase' = "mask" /\ at' = 1
      /\ UNCHANGED <<text, spans, values, masked, last>>
  BY DEF SweepDone
<1>2. values' = <<>> /\ masked' = <<>> /\ last' = 0
  BY <1>1 DEF RoundTrip, ValuesKept
<1>3. values' \in Seq(Seq(Symbols) \X Seq(Symbols)) /\ Len(values') = 0
      /\ masked' \in Seq(Symbols)
  BY <1>2
<1>4. Len(spans) \in Nat
  BY SpanFacts
<1>5. Past(at)' = 0
  BY <1>1 DEF Past
<1>6. ValuesKept'
  BY <1>1, <1>2, <1>3, <1>4, <1>5 DEF ValuesKept
<1>7. ASSUME Plain'
      PROVE  \E R : Rests(R)' /\ TextKept(R)'
  <2>1. Plain
    BY <1>1, <1>7 DEF Plain
  <2>2. PICK R : Rests(R)
    BY <1>4, RestsExist
  <2>3. Rests(R)'
    BY <1>1, <2>2 DEF Rests, Lead, Past, Placeholder
  <2>4. R[1] \in Seq(Symbols)
    <3>1. 1 \in 1 .. Len(spans) + 1
      BY <1>4
    <3> QED
      BY <1>4, <2>1, <2>2, <3>1, RestsHold
  <2>5. masked' \o R[1] = R[1]
    BY <1>2, <2>4, ConcatEmptySeq
  <2>6. TextKept(R)'
    BY <1>1, <2>5 DEF TextKept
  <2> QED
    BY <2>3, <2>6
<1> QED
  BY <1>6, <1>7 DEF RoundTrip

\* The value of a span is in the text.
LEMMA ValueTyped ==
  ASSUME IInv, NEW k \in 1 .. Len(spans)
  PROVE  /\ Value(k) \in Seq(Symbols) \X Seq(Symbols)
         /\ Value(k)[1] = Placeholder(k)
         /\ Value(k)[2] = SubSeq(text, spans[k].start + 1, spans[k].end)
         /\ Value(k)[2] \in Seq(Symbols)
<1> DEFINE i == spans[k].start
           j == spans[k].end
           v == SubSeq(text, i + 1, j)
           P == Placeholder(k)
<1>1. i \in Nat /\ j \in Nat /\ i <= j /\ j <= Len(text) /\ text \in Seq(Symbols)
  BY SpanFacts
<1>2. P \in Seq(Symbols)
  BY SpansFit, PlaceholderFacts
<1>3. Value(k) = <<P, v>>
  BY DEF Value
<1>4. v \in Seq(Symbols)
  <2> HIDE DEF i, j
  <2> QED
    BY <1>1, Piece
<1> HIDE DEF P, v
<1>5. /\ Value(k) \in Seq(Symbols) \X Seq(Symbols)
      /\ Value(k)[1] = P /\ Value(k)[2] = v
  BY <1>2, <1>3, <1>4
<1> QED
  BY <1>4, <1>5 DEF P, v

\* A span is masked: what was ahead is written.
LEMMA RoundTripMask ==
  ASSUME IInv, RoundTrip, MaskSpan
  PROVE  RoundTrip'
<1> DEFINE k == at
           b == Past(k)
           e == spans[k].start
           g == SubSeq(text, b + 1, e)
           P == Placeholder(k)
<1>1. /\ phase = "mask" /\ phase' = "mask" /\ k <= Len(spans) /\ at' = k + 1
      /\ masked' = (masked \o SubSeq(text, last + 1, e)) \o P
      /\ values' = Append(values, Value(k))
      /\ last' = spans[k].end
      /\ UNCHANGED <<text, spans>>
  BY DEF MaskSpan, Value
<1>2. k \in 1 .. Len(spans) /\ k \in Nat /\ Len(spans) \in Nat
  <2>1. at \in Nat \ {0} /\ Len(spans) \in Nat
    BY SpanFacts DEF IInv, Typed
  <2> QED
    BY <1>1, <2>1
<1>3. /\ Len(values) = k - 1 /\ last = b /\ masked \in Seq(Symbols)
      /\ values \in Seq(Seq(Symbols) \X Seq(Symbols))
      /\ \A i \in 1 .. Len(values) : values[i] = Value(i)
  BY <1>1 DEF RoundTrip, ValuesKept
<1>4. b \in Nat /\ e \in Nat /\ b <= e /\ e <= Len(text) /\ text \in Seq(Symbols)
      /\ Past(k + 1) = spans[k].end
  <2>1. /\ spans[k].start \in Nat /\ spans[k].end \in Nat /\ Len(text) \in Nat
        /\ spans[k].start < spans[k].end /\ spans[k].end <= Len(text)
        /\ Past(k) <= spans[k].start /\ Past(k + 1) = spans[k].end
    BY <1>2, SpanFacts
  <2>2. k \in 1 .. Len(spans) + 1
    BY <1>2
  <2>3. Past(k) \in Nat
    BY <2>2, SpanFacts
  <2> QED
    BY <2>1, <2>3, SpanFacts
<1>5. g \in Seq(Symbols)
  <2> HIDE DEF b, e
  <2> QED
    BY <1>4, Piece
<1>6. P \in Seq(Symbols)
  BY <1>2, SpansFit, PlaceholderFacts
<1>7. masked' = (masked \o g) \o P
  BY <1>1, <1>3
<1>8. masked' \in Seq(Symbols)
  <2> HIDE DEF g, P
  <2>1. masked \o g \in Seq(Symbols)
    BY <1>3, <1>5, ConcatProperties
  <2> QED
    BY <1>6, <1>7, <2>1, ConcatProperties
<1>9. \A i \in 1 .. Len(spans) : Value(i)' = Value(i)
  BY <1>1 DEF Value, Placeholder
<1>10. /\ values' \in Seq(Seq(Symbols) \X Seq(Symbols))
       /\ Len(values') = k
       /\ \A i \in 1 .. k : values'[i] = Value(i)'
  <2> DEFINE V == Seq(Symbols) \X Seq(Symbols)
             v == Value(k)
  <2>1. v \in V
    BY <1>2, ValueTyped
  <2>2. values \in Seq(V)
    BY <1>3
  <2> HIDE DEF V, v
  <2>3. values' = Append(values, v)
    BY <1>1 DEF v
  <2>4. /\ values' \in Seq(V) /\ Len(values') = Len(values) + 1
        /\ \A i \in 1 .. Len(values) : values'[i] = values[i]
        /\ values'[Len(values) + 1] = v
    BY <2>1, <2>2, <2>3, AppendProperties
  <2>5. Len(values) + 1 = k
    BY <1>2, <1>3
  <2>6. ASSUME NEW i \in 1 .. k PROVE values'[i] = Value(i)'
    <3>1. i \in 1 .. Len(spans)
      BY <1>2
    <3>2. Value(i)' = Value(i)
      BY <1>9, <3>1
    <3>3. CASE i = k
      BY <2>4, <2>5, <3>2, <3>3 DEF v
    <3>4. CASE i # k
      <4>1. i \in 1 .. Len(values)
        BY <1>2, <1>3, <3>4
      <4> QED
        BY <1>3, <2>4, <3>2, <4>1
    <3> QED
      BY <3>3, <3>4
  <2> QED
    BY <2>4, <2>5, <2>6 DEF V
<1>11. ValuesKept'
  <2>1. Past(at)' = last'
    <3>1. at' # 1 /\ at' - 1 = k
      BY <1>1, <1>2
    <3> QED
      BY <1>1, <3>1 DEF Past
  <2>2. at' <= Len(spans') + 1 /\ Len(values') = at' - 1
    BY <1>1, <1>2, <1>10
  <2>3. \A i \in 1 .. Len(values') : values'[i] = Value(i)'
    BY <1>10
  <2> QED
    BY <1>1, <1>8, <1>10, <2>1, <2>2, <2>3 DEF ValuesKept
<1>12. ASSUME Plain'
       PROVE  \E R : Rests(R)' /\ TextKept(R)'
  <2>1. Plain
    BY <1>1, <1>12 DEF Plain
  <2>2. PICK R : Rests(R) /\ TextKept(R)
    BY <1>1, <2>1 DEF RoundTrip, Resolved
  <2>3. Rests(R)'
    BY <1>1, <2>2 DEF Rests, Lead, Past, Placeholder
  <2>4. R[k + 1] \in Seq(Symbols)
    <3>1. k + 1 \in 1 .. Len(spans) + 1
      BY <1>2
    <3> QED
      BY <1>2, <2>1, <2>2, <3>1, RestsHold
  <2>5. R[k] = (g \o P) \o R[k + 1]
    BY <1>2, <2>2, RestFacts DEF Lead
  <2>6. masked \o R[k] = R[1]
    BY <1>1, <2>2 DEF TextKept
  <2> DEFINE r == R[k + 1]
  <2>7. masked' \o r = R[1]
    <3> HIDE DEF g, P, r
    <3>1. g \o P \in Seq(Symbols) /\ r \in Seq(Symbols)
      BY <1>5, <1>6, <2>4, ConcatProperties DEF r
    <3> DEFINE gP == g \o P
    <3>2. gP \in Seq(Symbols)
      BY <3>1
    <3>3. masked \o gP = masked'
      BY <1>3, <1>5, <1>6, <1>7, ConcatThree
    <3> HIDE DEF gP
    <3>4. masked \o (gP \o r) = (masked \o gP) \o r
      BY <1>3, <3>1, <3>2, ConcatThree
    <3>5. R[k] = gP \o r
      BY <2>5 DEF gP, r
    <3> QED
      BY <2>6, <3>3, <3>4, <3>5
  <2>8. TextKept(R)'
    BY <1>1, <2>7 DEF TextKept
  <2> QED
    BY <2>3, <2>8
<1> QED
  BY <1>11, <1>12 DEF RoundTrip

\* The rest of the text is copied: all of it is masked now.
LEMMA RoundTripMasked ==
  ASSUME IInv, RoundTrip, MaskDone
  PROVE  RoundTrip'
<1> DEFINE n == Len(spans)
<1>1. /\ phase = "mask" /\ phase' = "restore" /\ at > n /\ at' = 1
      /\ restored' = masked \o SubSeq(text, last + 1, Len(text))
      /\ UNCHANGED <<text, spans, values>>
  BY DEF MaskDone
<1>2. n \in Nat /\ at \in Nat /\ at <= n + 1
  BY <1>1, SpanFacts DEF IInv, Typed, RoundTrip, ValuesKept
<1>3. at = n + 1
  BY <1>1, <1>2
<1>4. /\ Len(values) = n /\ last = Past(n + 1)
      /\ values \in Seq(Seq(Symbols) \X Seq(Symbols))
      /\ \A i \in 1 .. Len(values) : values[i] = Value(i)
  BY <1>1, <1>2, <1>3 DEF RoundTrip, ValuesKept
<1>5. \A i \in 1 .. Len(spans) : Value(i)' = Value(i)
  BY <1>1 DEF Value, Placeholder
<1>6. ValuesKept'
  BY <1>1, <1>2, <1>4, <1>5 DEF ValuesKept
<1>7. ASSUME Plain'
      PROVE  \E R : Rests(R)' /\ TextKept(R)'
  <2>1. Plain
    BY <1>1, <1>7 DEF Plain
  <2>2. PICK R : Rests(R) /\ TextKept(R)
    BY <1>1, <2>1 DEF RoundTrip, Resolved
  <2>3. Rests(R)'
    BY <1>1, <2>2 DEF Rests, Lead, Past, Placeholder
  <2>4. R[n + 1] = SubSeq(text, Past(n + 1) + 1, Len(text))
    BY <1>2, <2>2, RestFacts
  <2>5. restored' = R[1]
    BY <1>1, <1>3, <1>4, <2>2, <2>4 DEF TextKept
  <2>6. R[1] \in Seq(Symbols)
    <3>1. 1 \in 1 .. Len(spans) + 1
      BY <1>2
    <3> QED
      BY <1>2, <2>1, <2>2, <3>1, RestsHold
  <2>7. SubSeq(text, 1, 0) = <<>>
    BY SubSeqEmpty
  <2>8. restored' = SubSeq(text, 1, 0) \o R[1]
    BY <2>5, <2>6, <2>7, ConcatEmptySeq
  <2>9. Past(at)' = 0
    BY <1>1 DEF Past
  <2>10. restored' = SubSeq(text', 1, Past(at)') \o R[at']
    BY <1>1, <2>8, <2>9
  <2>11. TextKept(R)'
    BY <1>1, <2>10 DEF TextKept
  <2> QED
    BY <2>3, <2>11
<1> QED
  BY <1>6, <1>7 DEF RoundTrip

\* A placeholder is replaced by its value: the text is back up to its span.
LEMMA RoundTripRestore ==
  ASSUME IInv, RoundTrip, RestoreValue
  PROVE  RoundTrip'
<1> DEFINE k == at
           b == Past(k)
           e == spans[k].start
           f == spans[k].end
           g == SubSeq(text, b + 1, e)
           P == Placeholder(k)
           v == SubSeq(text, e + 1, f)
           a == SubSeq(text, 1, e)
<1>1. /\ phase = "restore" /\ phase' = "restore" /\ k <= Len(values) /\ at' = k + 1
      /\ restored' = Replaced(restored, values[k][1], values[k][2])
      /\ UNCHANGED <<text, spans, values>>
  BY DEF RestoreValue
<1>2. /\ Len(values) = Len(spans)
      /\ values \in Seq(Seq(Symbols) \X Seq(Symbols))
      /\ \A i \in 1 .. Len(values) : values[i] = Value(i)
  BY <1>1 DEF RoundTrip, ValuesKept
<1>3. k \in 1 .. Len(spans) /\ k \in Nat /\ Len(spans) \in Nat
  <2>1. at \in Nat \ {0} /\ Len(spans) \in Nat
    BY SpanFacts DEF IInv, Typed
  <2> QED
    BY <1>1, <1>2, <2>1
<1>4. restored' = Replaced(restored, P, v) /\ v \in Seq(Symbols)
  <2>1. values[k] = Value(k)
    BY <1>2, <1>3
  <2> QED
    BY <1>1, <1>3, <2>1, ValueTyped
<1>5. /\ b \in Nat /\ e \in Nat /\ f \in Nat /\ b <= e /\ e < f /\ e <= Len(text)
      /\ f <= Len(text) /\ text \in Seq(Symbols) /\ Len(text) \in Nat
      /\ Past(k + 1) = f
  <2>1. /\ spans[k].start \in Nat /\ spans[k].end \in Nat /\ Len(text) \in Nat
        /\ spans[k].start < spans[k].end /\ spans[k].end <= Len(text)
        /\ Past(k) <= spans[k].start /\ Past(k + 1) = spans[k].end
    BY <1>3, SpanFacts
  <2>2. k \in 1 .. Len(spans) + 1
    BY <1>3
  <2>3. Past(k) \in Nat
    BY <2>2, SpanFacts
  <2> QED
    BY <2>1, <2>3, SpanFacts
<1>6. P \in Seq(Symbols) /\ Len(P) = 5
  BY <1>3, SpansFit, PlaceholderFacts
<1>7. g \in Seq(Symbols)
  <2> HIDE DEF b, e
  <2> QED
    BY <1>5, Piece
<1>8. /\ SubSeq(text, 1, b) \o g = a /\ SubSeq(text, 1, b) \in Seq(Symbols)
      /\ a \in Seq(Symbols) /\ Len(a) = e /\ \A d \in 1 .. e : a[d] = text[d]
      /\ a \o v = SubSeq(text, 1, f)
  <2> HIDE DEF b, e, f
  <2>1. SubSeq(text, 1, b) \o g = a /\ SubSeq(text, 1, b) \in Seq(Symbols)
    BY <1>5, Adjacent
  <2>2. e <= f
    BY <1>5
  <2> QED
    BY <1>5, <2>1, <2>2, Adjacent
<1>9. ValuesKept'
  <2>1. \A i \in 1 .. Len(spans) : Value(i)' = Value(i)
    BY <1>1 DEF Value, Placeholder
  <2>2. at' <= Len(spans') + 1
    BY <1>1, <1>3
  <2> QED
    BY <1>1, <1>2, <2>1, <2>2 DEF ValuesKept
<1>10. ASSUME Plain'
       PROVE  \E R : Rests(R)' /\ TextKept(R)'
  <2>1. Plain
    BY <1>1, <1>10 DEF Plain
  <2>2. PICK R : Rests(R) /\ TextKept(R)
    BY <1>1, <2>1 DEF RoundTrip, Resolved
  <2>3. Rests(R)'
    BY <1>1, <2>2 DEF Rests, Lead, Past, Placeholder
  <2> DEFINE r == R[k + 1]
             m == Len(a)
  <2>4. r \in Seq(Symbols) /\ Marks(r, k + 1)
    <3>1. k + 1 \in 1 .. Len(spans) + 1
      BY <1>3
    <3> QED
      BY <1>3, <2>1, <2>2, <3>1, RestsHold
  <2>5. R[k] = (g \o P) \o r
    BY <1>3, <2>2, RestFacts DEF Lead
  <2>6. restored = SubSeq(text, 1, b) \o R[k]
    BY <1>1, <2>2 DEF TextKept
  <2>7. \A i \in 1 .. Len(a) : a[i] # Left
    <3>1. \A i \in 1 .. e : i \in DOMAIN text
      BY <1>5
    <3> QED
      BY <1>8, <2>1, <3>1 DEF Plain
  <2>8. restored = (a \o P) \o r
    <3> DEFINE x == SubSeq(text, 1, b)
    <3>1. x \in Seq(Symbols) /\ x \o g = a
      BY <1>8
    <3>2. restored = x \o R[k]
      BY <2>6
    <3> HIDE DEF x, g, P, r, a
    <3>3. g \o P \in Seq(Symbols)
      BY <1>6, <1>7, ConcatProperties
    <3> DEFINE gP == g \o P
    <3>4. gP \in Seq(Symbols)
      BY <3>3
    <3>5. x \o gP = a \o P
      <4>1. x \o (g \o P) = (x \o g) \o P
        <5>1. x \in Seq(Symbols) /\ g \in Seq(Symbols) /\ P \in Seq(Symbols)
          BY <1>6, <1>7, <3>1
        <5> QED
          BY <5>1, ConcatThree
      <4> QED
        BY <3>1, <4>1 DEF gP
    <3>6. R[k] = gP \o r
      BY <2>5
    <3> HIDE DEF gP
    <3>7. x \o (gP \o r) = (x \o gP) \o r
      BY <2>4, <3>1, <3>4, ConcatThree
    <3> QED
      BY <3>2, <3>5, <3>6, <3>7
  <2>9. Occurrences((a \o P) \o r, P) = {Len(a) + 1}
    <3> HIDE DEF a, r
    <3> QED
      BY <1>3, <1>8, <2>4, <2>7, OnlyHere
  <2> DEFINE t == (a \o P) \o r
             q == Len(t)
             p == Len(P)
             rest == SubSeq(t, m + p + 1, q)
  <2>10. /\ t \in Seq(Symbols) /\ q = m + p + Len(r)
         /\ \A d \in 1 .. m : t[d] = a[d]
         /\ \A d \in 1 .. Len(r) : t[m + p + d] = r[d]
    <3>1. a \in Seq(Symbols) /\ P \in Seq(Symbols) /\ r \in Seq(Symbols)
      BY <1>6, <1>8, <2>4
    <3> HIDE DEF a, P, r
    <3> QED
      BY <3>1, Three
  <2>11. m \in Nat /\ p \in Nat \ {0} /\ q \in Nat /\ m + p <= q /\ Len(r) \in Nat
         /\ (m + p) + Len(r) = q
    <3>1. m \in Nat /\ p \in Nat \ {0} /\ Len(r) \in Nat
      <4>1. m \in Nat
        BY <1>5, <1>8
      <4>2. p \in Nat \ {0}
        BY <1>6
      <4>3. Len(r) \in Nat
        BY <2>4
      <4> QED
        BY <4>1, <4>2, <4>3
    <3> HIDE DEF m, p, q, r
    <3> QED
      BY <2>10, <3>1
  <2>12. Occurrences(t, P) = {m + 1}
    BY <2>9
  <2>13. Replaced(t, P, v) = (SubSeq(t, 1, m) \o v) \o rest
    <3> HIDE DEF t, P, v, m
    <3>2. t \in Seq(Symbols) /\ v \in Seq(Symbols)
      BY <1>4, <2>10
    <3>3. m \in Nat /\ p \in Nat \ {0} /\ q \in Nat /\ m + p <= q
      BY <2>11
    <3> QED
      BY <2>12, <3>2, <3>3, ReplacedHere
  <2>14. SubSeq(t, 1, m) = a
    <3> DEFINE s == SubSeq(t, 1, m)
    <3>1. q = Len(t) /\ m = Len(a) /\ a \in Seq(Symbols)
      BY <1>8
    <3> HIDE DEF t, a, p, q, m
    <3>2. m <= q /\ q <= Len(t)
      BY <2>11, <3>1
    <3>3. s \in Seq(Symbols) /\ Len(s) = m /\ \A d \in 1 .. m : s[d] = t[d]
      BY <2>10, <2>11, <3>1, <3>2, Adjacent
    <3> HIDE DEF s
    <3>4. s = a
      BY <2>10, <3>1, <3>3, SeqEqual
    <3> QED
      BY <3>4 DEF s
  <2>15. rest = r
    <3> DEFINE i == m + p
    <3>1. q = Len(t) /\ rest = SubSeq(t, i + 1, q)
      OBVIOUS
    <3>2. i \in Nat /\ i <= q /\ q - i = Len(r) /\ i + Len(r) = q
      <4> HIDE DEF m, p, q, r
      <4> QED
        BY <2>11
    <3>3. \A d \in 1 .. Len(r) : t[i + d] = r[d]
      BY <2>10
    <3> HIDE DEF t, r, m, p, q, i, rest
    <3>4. /\ rest \in Seq(Symbols) /\ Len(rest) = q - i
          /\ \A d \in 1 .. q - i : rest[d] = t[i + d]
      <4>1. q <= Len(t) /\ q \in Nat
        BY <2>11, <3>1
      <4> QED
        BY <2>10, <3>1, <3>2, <4>1, Piece
    <3> QED
      BY <2>4, <3>2, <3>3, <3>4, SeqEqual
  <2>16. restored' = SubSeq(text, 1, f) \o r
    <3> HIDE DEF t, P, v, a, rest, r, m, f
    <3>1. restored = t
      BY <2>8 DEF t
    <3> QED
      BY <1>4, <1>8, <2>13, <2>14, <2>15, <3>1
  <2>17. Past(at)' = f
    <3>1. at' # 1 /\ at' - 1 = k
      BY <1>1, <1>3
    <3> QED
      BY <1>1, <3>1 DEF Past
  <2>18. restored' = SubSeq(text', 1, Past(at)') \o R[at']
    BY <1>1, <2>16, <2>17
  <2>19. TextKept(R)'
    BY <1>1, <2>18 DEF TextKept
  <2> QED
    BY <2>3, <2>19
<1> QED
  BY <1>9, <1>10 DEF RoundTrip

\* All values are back: so is the text.
LEMMA RoundTripDone ==
  ASSUME IInv, RoundTrip, RestoreDone
  PROVE  RoundTrip'
<1> DEFINE n == Len(spans)
<1>1. /\ phase = "restore" /\ phase' = "done" /\ at > Len(values)
      /\ UNCHANGED <<text, spans, values, restored>>
  BY DEF RestoreDone
<1>2. /\ Len(values) = Len(spans) /\ at <= n + 1
      /\ values \in Seq(Seq(Symbols) \X Seq(Symbols))
      /\ \A i \in 1 .. Len(values) : values[i] = Value(i)
  BY <1>1 DEF RoundTrip, ValuesKept
<1>3. n \in Nat /\ at = n + 1
  <2>1. at \in Nat /\ n \in Nat
    BY SpanFacts DEF IInv, Typed
  <2> QED
    BY <1>1, <1>2, <2>1
<1>4. ValuesKept'
  <2>1. \A i \in 1 .. Len(spans) : Value(i)' = Value(i)
    BY <1>1 DEF Value, Placeholder
  <2> QED
    BY <1>1, <1>2, <2>1 DEF ValuesKept
<1>5. ASSUME Plain'
      PROVE  \E R : Rests(R)' /\ TextKept(R)'
  <2>1. Plain
    BY <1>1, <1>5 DEF Plain
  <2>2. PICK R : Rests(R) /\ TextKept(R)
    BY <1>1, <2>1 DEF RoundTrip, Resolved
  <2>3. Rests(R)'
    BY <1>1, <2>2 DEF Rests, Lead, Past, Placeholder
  <2> DEFINE b == Past(n + 1)
             e == Len(text)
  <2>4. b \in Nat /\ e \in Nat /\ b <= e /\ text \in Seq(Symbols)
    <3>1. n + 1 \in 1 .. Len(spans) + 1
      BY <1>3
    <3> QED
      BY <3>1, SpanFacts
  <2>5. R[n + 1] = SubSeq(text, b + 1, e)
    BY <1>3, <2>2, RestFacts
  <2>6. restored = SubSeq(text, 1, b) \o SubSeq(text, b + 1, e)
    BY <1>1, <1>3, <2>2, <2>5 DEF TextKept
  <2>7. SubSeq(text, 1, b) \o SubSeq(text, b + 1, e) = SubSeq(text, 1, e)
    <3>1. e <= Len(text)
      BY <2>4
    <3> HIDE DEF b, e
    <3> QED
      BY <2>4, <3>1, Adjacent
  <2>8. SubSeq(text, 1, e) = text
    BY <2>4, SubSeqFull
  <2>9. TextKept(R)'
    BY <1>1, <2>6, <2>7, <2>8 DEF TextKept
  <2> QED
    BY <2>3, <2>9
<1> QED
  BY <1>4, <1>5 DEF RoundTrip

LEMMA RoundTripStutter ==
  ASSUME RoundTrip, UNCHANGED vars
  PROVE  RoundTrip'
<1>1. UNCHANGED <<phase, text, at, spans, masked, last, values, restored>>
  BY DEF vars
<1>2. \A k : Value(k)' = Value(k) /\ Past(k)' = Past(k)
  BY <1>1 DEF Value, Placeholder, Past
<1>3. ValuesKept'
  BY <1>1, <1>2 DEF RoundTrip, ValuesKept
<1>4. ASSUME Resolved', Plain' PROVE \E R : Rests(R)' /\ TextKept(R)'
  <2>1. Resolved /\ Plain
    BY <1>1, <1>4 DEF Resolved, Plain
  <2>2. PICK R : Rests(R) /\ TextKept(R)
    BY <2>1 DEF RoundTrip
  <2>3. Rests(R)'
    BY <1>1, <2>2 DEF Rests, Lead, Past, Placeholder
  <2>4. TextKept(R)'
    BY <1>1, <1>2, <2>2 DEF TextKept
  <2> QED
    BY <2>3, <2>4
<1> QED
  BY <1>3, <1>4 DEF RoundTrip

LEMMA RoundTripStep == IInv /\ RoundTrip /\ [Next]_vars => RoundTrip'
<1>1. SUFFICES ASSUME IInv, RoundTrip, [Next]_vars
               PROVE  RoundTrip'
  OBVIOUS
<1>2. CASE FindMatches \/ FindDone \/ \E i \in left : Sweep(i)
  BY <1>1, <1>2, RoundTripBefore
<1>3. CASE SweepDone
  BY <1>1, <1>3, RoundTripStart
<1>4. CASE MaskSpan
  BY <1>1, <1>4, RoundTripMask
<1>5. CASE MaskDone
  BY <1>1, <1>5, RoundTripMasked
<1>6. CASE RestoreValue
  BY <1>1, <1>6, RoundTripRestore
<1>7. CASE RestoreDone
  BY <1>1, <1>7, RoundTripDone
<1>8. CASE UNCHANGED vars
  BY <1>1, <1>8, RoundTripStutter
<1> QED
  BY <1>1, <1>2, <1>3, <1>4, <1>5, <1>6, <1>7, <1>8 DEF Next

\* Restoring what was masked gives back the text, for every text without an
\* opening mark, whatever the matchers found in it.
THEOREM PlainRoundTripCorrect == Spec => []PlainRoundTrip
<1>1. RoundTrip => PlainRoundTrip
  BY DEF RoundTrip, Resolved, Plain, TextKept, PlainRoundTrip
<1>2. Spec => []RoundTrip
  BY RoundTripInit, RoundTripStep, Invariance, PTL DEF Spec
<1> QED
  BY <1>1, <1>2, PTL

=============================================================================
