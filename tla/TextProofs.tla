----------------------------- MODULE TextProofs -----------------------------
(***************************************************************************)
(* The two ends of a correction: the text is cut into tokens, and the text *)
(* that comes back is put together.                                        *)
(*                                                                         *)
(* Tokenizer, for every text and every set of protected spans: the tokens  *)
(* are the maximal runs of the text, and spans that begin and end where    *)
(* runs do are protected in whole.                                         *)
(*                                                                         *)
(* Reconstruction, for every text length, every set of confidences and     *)
(* every list of changes: one inductive invariant per loop, each on top of *)
(* the types.  The set kept so far is free of overlaps (NoDoubleEdit);     *)
(* what the loops turned down is dominated (Settled); and the text written *)
(* by apply_changes is a tiling of what has been consumed (Written).       *)
(***************************************************************************)
EXTENDS Tokenizer, Reconstruction, TLAPS

-----------------------------------------------------------------------------
(***************************************************************************)
(* Tokenizer                                                               *)
(***************************************************************************)
\* The run that is being read has one class.
Reading ==
  /\ phase = "scan" => at <= Len(text) /\ Boundary(at)
  /\ phase = "run" =>
       /\ start < at /\ at <= Len(text) /\ Boundary(start)
       /\ \A q \in start .. at - 1 : ClassAt(q) = ClassAt(start)

\* A token is a whole run.
IsRun(t) ==
  /\ t.start < t.end /\ t.end <= Read
  /\ Boundary(t.start) /\ Boundary(t.end)
  /\ \A q \in t.start + 1 .. t.end - 1 : ~Boundary(q)
Runs == \A k \in DOMAIN tokens : IsRun(tokens[k])

\* Every position read is in a token.
CoveredText ==
  \A p \in 0 .. Read - 1 : \E k \in DOMAIN tokens :
    tokens[k].start <= p /\ p < tokens[k].end

\* The flags are right for the tokens looked at.
Flags ==
  /\ ~Tokenized => flagged = {}
  /\ Tokenized => \A k \in flagged : IsProtected(tokens[k])
  /\ Tokenized => \A k \in DOMAIN tokens :
       k < at /\ IsProtected(tokens[k]) => k \in flagged
  /\ Tokenized => at >= 1
  /\ phase = "done" => at > Len(tokens)

IInv == TokenizerTypeOK /\ Reading /\ Runs /\ CoveredText /\ TokensTile /\ Flags

LEMMA TextFacts == ASSUME TokenizerTypeOK
                   PROVE  text \in Seq(Symbols) /\ Len(text) \in Nat
BY SymbolAssumption DEF TokenizerTypeOK

LEMMA IInvInit == TokenizerInit => IInv
<1>1. SUFFICES ASSUME TokenizerInit
               PROVE  IInv
  OBVIOUS
<1>2. /\ text \in Texts /\ spans \in Protected(text) /\ phase = "scan"
      /\ start = 0 /\ at = 0 /\ tokens = <<>> /\ flagged = {}
  BY <1>1 DEF TokenizerInit
<1>3. Len(text) \in Nat
  BY <1>2, SymbolAssumption
<1>4. <<>> \in Seq(Token)
  OBVIOUS
<1>5. TokenizerTypeOK
  <2>1. spans \subseteq Span(Len(text))
    BY <1>2, SpanAssumption
  <2> QED
    BY <1>2, <1>3, <1>4, <2>1 DEF TokenizerTypeOK
<1>6. Reading /\ Runs /\ CoveredText
  BY <1>2, <1>3 DEF Reading, Runs, CoveredText, Boundary, Read
<1>7. TokensTile /\ Flags
  BY <1>2, <1>3 DEF TokensTile, Flags, Read, Tokenized
<1> QED
  BY <1>5, <1>6, <1>7 DEF IInv

LEMMA OpenStep ==
  ASSUME IInv, OpenToken
  PROVE  IInv'
<1>1. /\ phase = "scan" /\ at < Len(text) /\ start' = at /\ at' = at + 1 /\ phase' = "run"
      /\ UNCHANGED <<text, spans, tokens, flagged>>
  BY DEF OpenToken
<1>2. Len(text) \in Nat /\ at \in Nat
  BY TextFacts DEF IInv, TokenizerTypeOK
<1>3. TokenizerTypeOK'
  BY <1>1, <1>2 DEF IInv, TokenizerTypeOK
<1>4. Read' = Read
  BY <1>1 DEF Read
<1>5. Reading'
  BY <1>1, <1>2 DEF IInv, Reading, Boundary, ClassAt
<1>6. Runs' /\ CoveredText' /\ TokensTile'
  BY <1>1, <1>4 DEF IInv, Runs, IsRun, CoveredText, TokensTile, Boundary, ClassAt
<1>7. Flags'
  BY <1>1 DEF IInv, Flags, Tokenized
<1> QED
  BY <1>3, <1>5, <1>6, <1>7 DEF IInv

LEMMA ExtendStep ==
  ASSUME IInv, ExtendToken
  PROVE  IInv'
<1>1. /\ phase = "run" /\ at < Len(text) /\ ClassAt(at) = ClassAt(start) /\ at' = at + 1
      /\ UNCHANGED <<phase, text, spans, start, tokens, flagged>>
  BY DEF ExtendToken, GoesOn
<1>2. Len(text) \in Nat /\ at \in Nat /\ start \in Nat
  BY TextFacts DEF IInv, TokenizerTypeOK
<1>3. TokenizerTypeOK'
  BY <1>1, <1>2 DEF IInv, TokenizerTypeOK
<1>4. Read' = Read
  BY <1>1 DEF Read
<1>5. Reading'
  <2>1. \A q \in start .. (at + 1) - 1 : ClassAt(q) = ClassAt(start)
    <3>1. \A q \in start .. (at + 1) - 1 : q = at \/ q \in start .. at - 1
      BY <1>2
    <3> QED
      BY <1>1, <3>1 DEF IInv, Reading
  <2> QED
    BY <1>1, <1>2, <2>1 DEF IInv, Reading, Boundary, ClassAt
<1>6. Runs' /\ CoveredText' /\ TokensTile'
  BY <1>1, <1>4 DEF IInv, Runs, IsRun, CoveredText, TokensTile, Boundary, ClassAt
<1>7. Flags'
  BY <1>1 DEF IInv, Flags, Tokenized
<1> QED
  BY <1>3, <1>5, <1>6, <1>7 DEF IInv

\* Where a run stops is a boundary, and inside it there is none.
LEMMA RunFacts ==
  ASSUME IInv, phase = "run", ~GoesOn
  PROVE  /\ Boundary(start) /\ Boundary(at)
         /\ \A q \in start + 1 .. at - 1 : ~Boundary(q)
<1>1. /\ Len(text) \in Nat /\ at \in Nat /\ start \in Nat
      /\ start < at /\ at <= Len(text) /\ Boundary(start)
      /\ \A q \in start .. at - 1 : ClassAt(q) = ClassAt(start)
  BY TextFacts DEF IInv, TokenizerTypeOK, Reading
<1>2. ClassAt(at - 1) = ClassAt(start)
  BY <1>1
<1>3. at = Len(text) \/ ClassAt(at) # ClassAt(start)
  BY <1>1 DEF GoesOn
<1>4. Boundary(at)
  BY <1>2, <1>3 DEF Boundary
<1>5. \A q \in start + 1 .. at - 1 : ~Boundary(q)
  <2>1. SUFFICES ASSUME NEW q \in start + 1 .. at - 1
                 PROVE  ~Boundary(q)
    OBVIOUS
  <2>2. /\ q - 1 \in start .. at - 1 /\ q \in start .. at - 1
        /\ q # 0 /\ q # Len(text)
    BY <1>1
  <2>3. ClassAt(q - 1) = ClassAt(q)
    BY <1>1, <2>2
  <2> QED
    BY <2>2, <2>3 DEF Boundary
<1> QED
  BY <1>1, <1>4, <1>5

LEMMA CloseStep ==
  ASSUME IInv, CloseToken
  PROVE  IInv'
<1> DEFINE token == [start |-> start, end |-> at, type |-> TypeOf(start, at)]
           new == Len(tokens) + 1
<1>1. /\ phase = "run" /\ ~GoesOn /\ phase' = "scan"
      /\ tokens' = Append(tokens, token)
      /\ UNCHANGED <<text, spans, start, at, flagged>>
  BY DEF CloseToken
<1>2. /\ Len(text) \in Nat /\ at \in Nat /\ start \in Nat
      /\ start < at /\ at <= Len(text)
      /\ text \in Seq(Symbols) /\ tokens \in Seq(Token)
  BY <1>1, TextFacts DEF IInv, TokenizerTypeOK, Reading
<1>3. /\ Boundary(start) /\ Boundary(at)
      /\ \A q \in start + 1 .. at - 1 : ~Boundary(q)
  BY <1>1, RunFacts
<1>4. token \in Token
  <2>1. text[start + 1] \in Symbols
    BY <1>2
  <2>2. ClassAt(start) \in Classes
    BY <2>1, SymbolAssumption DEF ClassAt
  <2>3. TypeOf(start, at) \in Types
    BY <2>2 DEF TypeOf, Types, Classes
  <2> QED
    BY <1>2, <2>3 DEF Token
<1>5. token.start = start /\ token.end = at
  OBVIOUS
<1> HIDE DEF token
<1>6. /\ tokens' \in Seq(Token)
      /\ DOMAIN tokens = 1 .. Len(tokens) /\ Len(tokens) \in Nat
      /\ DOMAIN tokens' = 1 .. new /\ Len(tokens') = new
      /\ \A k \in DOMAIN tokens : tokens'[k] = tokens[k] /\ k # new
      /\ tokens'[new] = token
  BY <1>1, <1>2, <1>4
<1>7. Read = start /\ Read' = at
  BY <1>1 DEF Read
<1>8. TokenizerTypeOK'
  BY <1>1, <1>6 DEF IInv, TokenizerTypeOK
<1>9. Reading'
  BY <1>1, <1>2, <1>3 DEF Reading, Boundary, ClassAt
<1>10. Runs'
  <2>1. \A k \in DOMAIN tokens : /\ tokens[k].start < tokens[k].end /\ tokens[k].end <= at
                                 /\ tokens[k].end \in Nat
    <3>1. \A k \in DOMAIN tokens : tokens[k] \in Token
      BY <1>2
    <3> QED
      BY <1>2, <1>7, <3>1 DEF IInv, Runs, IsRun, Token
  <2>2. \A k \in DOMAIN tokens' :
          /\ tokens'[k].start < tokens'[k].end /\ tokens'[k].end <= at
          /\ Boundary(tokens'[k].start) /\ Boundary(tokens'[k].end)
          /\ \A q \in tokens'[k].start + 1 .. tokens'[k].end - 1 : ~Boundary(q)
    <3>1. SUFFICES ASSUME NEW k \in DOMAIN tokens'
                   PROVE
          /\ tokens'[k].start < tokens'[k].end /\ tokens'[k].end <= at
          /\ Boundary(tokens'[k].start) /\ Boundary(tokens'[k].end)
          /\ \A q \in tokens'[k].start + 1 .. tokens'[k].end - 1 : ~Boundary(q)
      OBVIOUS
    <3>2. CASE k = new
      <4>1. tokens'[k].start = start /\ tokens'[k].end = at
        BY <1>5, <1>6, <3>2
      <4> QED
        BY <1>2, <1>3, <4>1
    <3>3. CASE k \in DOMAIN tokens
      <4>1. tokens'[k] = tokens[k]
        BY <1>6, <3>3
      <4> QED
        BY <2>1, <3>3, <4>1 DEF IInv, Runs, IsRun
    <3> QED
      BY <1>6, <3>1, <3>2, <3>3
  <2> QED
    BY <1>1, <1>7, <2>2 DEF Runs, IsRun, Boundary, ClassAt
<1>11. CoveredText'
  <2>1. \A p \in 0 .. at - 1 : \E k \in DOMAIN tokens' :
          tokens'[k].start <= p /\ p < tokens'[k].end
    <3>1. SUFFICES ASSUME NEW p \in 0 .. at - 1
                   PROVE  \E k \in DOMAIN tokens' :
                            tokens'[k].start <= p /\ p < tokens'[k].end
      OBVIOUS
    <3>2. CASE p < start
      <4>1. PICK k \in DOMAIN tokens : tokens[k].start <= p /\ p < tokens[k].end
        BY <1>2, <1>7, <3>2 DEF IInv, CoveredText
      <4>2. k \in DOMAIN tokens' /\ tokens'[k] = tokens[k]
        BY <1>6
      <4> QED
        BY <4>1, <4>2
    <3>3. CASE ~(p < start)
      <4>1. new \in DOMAIN tokens'
        BY <1>6
      <4>2. token.start <= p /\ p < token.end
        BY <1>2, <1>5, <3>3
      <4> QED
        BY <1>6, <4>1, <4>2
    <3> QED
      BY <3>2, <3>3
  <2> QED
    BY <1>7, <2>1 DEF CoveredText
<1>12. TokensTile'
  <2>1. token.start = IF new = 1 THEN 0 ELSE tokens[new - 1].end
    <3>1. CASE tokens = <<>>
      BY <1>5, <1>7, <3>1 DEF IInv, TokensTile
    <3>2. CASE tokens # <<>>
      <4>1. Len(tokens) \in DOMAIN tokens /\ new # 1 /\ new - 1 = Len(tokens)
        BY <1>2, <3>2
      <4> QED
        BY <1>5, <1>7, <4>1 DEF IInv, TokensTile
    <3> QED
      BY <3>1, <3>2
  <2>2. \A k \in DOMAIN tokens' :
          /\ tokens'[k].start = IF k = 1 THEN 0 ELSE tokens'[k - 1].end
          /\ tokens'[k].start < tokens'[k].end
          /\ k = new => tokens'[k].end = at
    <3>1. SUFFICES ASSUME NEW k \in DOMAIN tokens'
                   PROVE  /\ tokens'[k].start = IF k = 1 THEN 0 ELSE tokens'[k - 1].end
                          /\ tokens'[k].start < tokens'[k].end
                          /\ k = new => tokens'[k].end = at
      OBVIOUS
    <3>2. k # 1 => k - 1 \in DOMAIN tokens /\ tokens'[k - 1] = tokens[k - 1]
      BY <1>6
    <3>3. CASE k = new
      BY <1>2, <1>5, <1>6, <2>1, <3>2, <3>3
    <3>4. CASE k \in DOMAIN tokens
      BY <1>6, <3>2, <3>4 DEF IInv, TokensTile
    <3> QED
      BY <1>6, <3>3, <3>4
  <2> QED
    BY <1>6, <1>7, <2>2 DEF TokensTile
<1>13. Flags'
  BY <1>1 DEF IInv, Flags, Tokenized
<1> QED
  BY <1>8, <1>9, <1>10, <1>11, <1>12, <1>13 DEF IInv

LEMMA TokenizeDoneStep ==
  ASSUME IInv, TokenizeDone
  PROVE  IInv'
<1>1. /\ phase = "scan" /\ at = Len(text) /\ phase' = "mark" /\ at' = 1
      /\ UNCHANGED <<text, spans, start, tokens, flagged>>
  BY DEF TokenizeDone
<1>2. Read' = Read
  BY <1>1 DEF Read
<1>3. TokenizerTypeOK'
  BY <1>1 DEF IInv, TokenizerTypeOK
<1>4. Reading'
  BY <1>1 DEF Reading
<1>5. Runs' /\ CoveredText' /\ TokensTile'
  BY <1>1, <1>2 DEF IInv, Runs, IsRun, CoveredText, TokensTile, Boundary, ClassAt
<1>6. Flags'
  <2>1. tokens \in Seq(Token) /\ flagged = {}
    BY <1>1 DEF IInv, TokenizerTypeOK, Flags, Tokenized
  <2>2. \A k \in DOMAIN tokens : ~(k < 1)
    BY <2>1
  <2> QED
    BY <1>1, <2>1, <2>2 DEF Flags, Tokenized
<1> QED
  BY <1>3, <1>4, <1>5, <1>6 DEF IInv

LEMMA MarkStep ==
  ASSUME IInv, MarkToken
  PROVE  IInv'
<1>1. /\ phase = "mark" /\ at <= Len(tokens) /\ at' = at + 1
      /\ flagged' = IF IsProtected(tokens[at]) THEN flagged \cup {at} ELSE flagged
      /\ UNCHANGED <<phase, text, spans, start, tokens>>
  BY DEF MarkToken
<1>2. at \in Nat /\ tokens \in Seq(Token) /\ flagged \subseteq DOMAIN tokens
  BY DEF IInv, TokenizerTypeOK
<1>3. Read' = Read
  BY <1>1 DEF Read
<1>4. at \in DOMAIN tokens
  BY <1>1, <1>2 DEF IInv, Flags, Tokenized
<1>5. TokenizerTypeOK'
  BY <1>1, <1>2, <1>4 DEF IInv, TokenizerTypeOK
<1>6. Reading'
  BY <1>1 DEF Reading
<1>7. Runs' /\ CoveredText' /\ TokensTile'
  BY <1>1, <1>3 DEF IInv, Runs, IsRun, CoveredText, TokensTile, Boundary, ClassAt
<1>8. Flags'
  <2>1. \A k \in flagged' : IsProtected(tokens[k])
    BY <1>1 DEF IInv, Flags, Tokenized
  <2>2. \A k \in DOMAIN tokens : k < at + 1 => k < at \/ k = at
    BY <1>2
  <2>3. \A k \in DOMAIN tokens : k < at + 1 /\ IsProtected(tokens[k]) => k \in flagged'
    BY <1>1, <2>2 DEF IInv, Flags, Tokenized
  <2>4. (at + 1) >= 1
    BY <1>2
  <2>5. \A k \in DOMAIN tokens : IsProtected(tokens[k])' <=> IsProtected(tokens[k])
    BY <1>1 DEF IsProtected
  <2>6. \A k \in flagged' : k \in DOMAIN tokens
    BY <1>5, <1>1 DEF TokenizerTypeOK
  <2> QED
    BY <1>1, <2>1, <2>3, <2>4, <2>5, <2>6 DEF Flags, Tokenized
<1> QED
  BY <1>5, <1>6, <1>7, <1>8 DEF IInv

LEMMA OtherStep ==
  ASSUME IInv, MarkDone \/ UNCHANGED tokenizerVars
  PROVE  IInv'
<1>1. /\ UNCHANGED <<text, spans, start, at, tokens, flagged>>
      /\ phase' = phase \/ (phase = "mark" /\ phase' = "done" /\ at > Len(tokens))
  BY DEF MarkDone, tokenizerVars
<1>2. Read' = Read
  BY <1>1 DEF Read
<1>3. TokenizerTypeOK'
  BY <1>1 DEF IInv, TokenizerTypeOK
<1>4. Reading'
  BY <1>1 DEF IInv, Reading, Boundary, ClassAt
<1>5. Runs' /\ CoveredText' /\ TokensTile'
  BY <1>1, <1>2 DEF IInv, Runs, IsRun, CoveredText, TokensTile, Boundary, ClassAt
<1>6. Flags'
  BY <1>1 DEF IInv, Flags, Tokenized, IsProtected
<1> QED
  BY <1>3, <1>4, <1>5, <1>6 DEF IInv

LEMMA IInvStep == IInv /\ [TokenizerNext]_tokenizerVars => IInv'
<1>1. SUFFICES ASSUME IInv, [TokenizerNext]_tokenizerVars
               PROVE  IInv'
  OBVIOUS
<1> QED
  BY <1>1, OpenStep, ExtendStep, CloseStep, TokenizeDoneStep, MarkStep, OtherStep DEF TokenizerNext

LEMMA Invariance == TokenizerSpec => []IInv
BY IInvInit, IInvStep, PTL DEF TokenizerSpec

-----------------------------------------------------------------------------
\* Type correctness, for every text and every set of spans.
THEOREM TokenizerTypeCorrect == TokenizerSpec => []TokenizerTypeOK
<1>1. IInv => TokenizerTypeOK
  BY DEF IInv
<1> QED
  BY <1>1, Invariance, PTL

\* The tokens reconstruct the text: none is lost and nothing is read twice.
THEOREM TokensTileCorrect == TokenizerSpec => []TokensTile
<1>1. IInv => TokensTile
  BY DEF IInv
<1> QED
  BY <1>1, Invariance, PTL

LEMMA TokenFacts ==
  ASSUME IInv, NEW k \in DOMAIN tokens
  PROVE  tokens[k].start \in Nat /\ tokens[k].end \in Nat
<1>1. tokens[k] \in Token
  BY DEF IInv, TokenizerTypeOK
<1> QED
  BY <1>1 DEF Token

\* Tokens end at every change of class and nowhere else.
THEOREM TokensEndAtBoundariesCorrect == TokenizerSpec => []TokensEndAtBoundaries
<1>1. ASSUME IInv, NEW p \in 1 .. Read, Boundary(p)
      PROVE  \E k \in DOMAIN tokens : tokens[k].end = p
  <2>1. Read \in Nat
    BY <1>1, TextFacts DEF IInv, TokenizerTypeOK, Read
  <2>2. PICK k \in DOMAIN tokens : tokens[k].start <= p - 1 /\ p - 1 < tokens[k].end
    <3>1. p - 1 \in 0 .. Read - 1
      BY <2>1
    <3> QED
      BY <1>1, <3>1 DEF IInv, CoveredText
  <2>3. tokens[k].start \in Nat /\ tokens[k].end \in Nat
    BY <1>1, TokenFacts
  <2>4. p \notin tokens[k].start + 1 .. tokens[k].end - 1
    BY <1>1 DEF IInv, Runs, IsRun
  <2> QED
    BY <2>1, <2>2, <2>3, <2>4
<1>2. ASSUME IInv, NEW k \in DOMAIN tokens
      PROVE  Boundary(tokens[k].end)
  BY <1>2 DEF IInv, Runs, IsRun
<1>3. IInv => TokensEndAtBoundaries
  BY <1>1, <1>2 DEF TokensEndAtBoundaries
<1> QED
  BY <1>3, Invariance, PTL

\* The tokens are the runs of the text, all of them and in their order
\* (tokenizer.py:33).
THEOREM TokensAreRunsCorrect == TokenizerSpec => []TokensAreRuns
BY TokensTileCorrect, TokensEndAtBoundariesCorrect, PTL DEF TokensAreRuns

\* A span that begins and ends at boundaries is protected in whole.
THEOREM AlignedSpansProtectedCorrect == TokenizerSpec => []AlignedSpansProtected
<1>1. ASSUME IInv, phase = "done", NEW s \in spans, Boundary(s.start), Boundary(s.end),
             NEW p \in s.start .. s.end - 1
      PROVE  \E k \in flagged : tokens[k].start <= p /\ p < tokens[k].end
  <2>1. /\ s \in Span(Len(text)) /\ Len(text) \in Nat
        /\ Read = Len(text)
    BY <1>1, TextFacts DEF IInv, TokenizerTypeOK, Read
  <2>2. s.start \in Nat /\ s.end \in Nat /\ s.end <= Len(text)
    BY <2>1 DEF Span
  <2>3. PICK k \in DOMAIN tokens : tokens[k].start <= p /\ p < tokens[k].end
    <3>1. p \in 0 .. Read - 1
      BY <2>1, <2>2
    <3> QED
      BY <1>1, <3>1 DEF IInv, CoveredText
  <2>4. tokens[k].start \in Nat /\ tokens[k].end \in Nat
    BY <1>1, TokenFacts
  <2>5. \A q \in tokens[k].start + 1 .. tokens[k].end - 1 : ~Boundary(q)
    BY <1>1 DEF IInv, Runs, IsRun
  <2>6. s.start <= tokens[k].start /\ tokens[k].end <= s.end
    BY <1>1, <2>2, <2>3, <2>4, <2>5
  <2>7. IsProtected(tokens[k])
    BY <2>6 DEF IsProtected
  <2>8. k < at
    <3>1. at > Len(tokens) /\ at \in Nat /\ tokens \in Seq(Token)
      BY <1>1 DEF IInv, Flags, TokenizerTypeOK
    <3> QED
      BY <3>1
  <2>9. k \in flagged
    BY <1>1, <2>7, <2>8 DEF IInv, Flags, Tokenized
  <2> QED
    BY <2>3, <2>9
<1>2. ASSUME IInv, phase = "done", NEW k \in flagged,
             NEW p \in tokens[k].start .. tokens[k].end - 1
      PROVE  \E s \in spans : s.start <= p /\ p < s.end
  <2>1. PICK s \in spans : s.start <= tokens[k].start /\ tokens[k].end <= s.end
    BY <1>2 DEF IInv, Flags, Tokenized, IsProtected
  <2>2. s.start \in Int /\ s.end \in Int
    BY <1>2, TextFacts DEF IInv, TokenizerTypeOK, Span
  <2>3. tokens[k].start \in Nat /\ tokens[k].end \in Nat
    <3>1. k \in DOMAIN tokens
      BY <1>2 DEF IInv, TokenizerTypeOK
    <3> QED
      BY <1>2, <3>1, TokenFacts
  <2> QED
    BY <2>1, <2>2, <2>3
<1>3. IInv => AlignedSpansProtected
  BY <1>1, <1>2 DEF AlignedSpansProtected
<1> QED
  BY <1>3, Invariance, PTL

-----------------------------------------------------------------------------
(***************************************************************************)
(* Reconstruction                                                          *)
(***************************************************************************)
\* Two pieces written one after the other.
LEMMA AppendTwice ==
  ASSUME NEW S, NEW s \in Seq(S), NEW a \in S, NEW b \in S
  PROVE  LET t == Append(Append(s, a), b)
         IN  /\ t \in Seq(S)
             /\ Len(t) = Len(s) + 2
             /\ \A k \in 1 .. Len(s) : t[k] = s[k]
             /\ t[Len(s) + 1] = a
             /\ t[Len(s) + 2] = b
<1> DEFINE u == Append(s, a)
<1>1. /\ u \in Seq(S)
      /\ Len(u) = Len(s) + 1
      /\ \A k \in 1 .. Len(s) : u[k] = s[k]
      /\ u[Len(s) + 1] = a
      /\ Len(s) \in Nat
  OBVIOUS
<1> HIDE DEF u
<1> QED
  <2>1. /\ Append(u, b) \in Seq(S)
        /\ Len(Append(u, b)) = Len(u) + 1
        /\ \A k \in 1 .. Len(u) : Append(u, b)[k] = u[k]
        /\ Append(u, b)[Len(u) + 1] = b
    BY <1>1
  <2> QED
    BY <1>1, <2>1 DEF u

\* The facts about one change that the proofs use.
LEMMA ChangeFacts ==
  ASSUME TypeOK, NEW c \in 1 .. Len(changes)
  PROVE  /\ changes[c].start \in 0 .. TextLen
         /\ changes[c].end \in 0 .. TextLen
         /\ changes[c].start < changes[c].end
         /\ changes[c].conf \in Int
<1>1. changes[c] \in Change
  BY DEF TypeOK
<1> QED
  BY <1>1, ConfidencesAssumption, TextLenAssumption DEF Change

LEMMA TypeInit == Init => TypeOK
  BY TextLenAssumption, ChangeListsAssumption
  DEF Init, TypeOK, TokenChanges

LEMMA TypeStep == TypeOK /\ [Next]_vars => TypeOK'
<1> SUFFICES ASSUME TypeOK, [Next]_vars PROVE TypeOK'
  OBVIOUS
<1> USE TextLenAssumption
<1>1. ASSUME NEW c \in TokenChanges, ResolveChange(c) PROVE TypeOK'
  BY <1>1 DEF TypeOK, ResolveChange, TokenChanges
<1>2. CASE ResolveDone
  BY <1>2 DEF TypeOK, ResolveDone, PhraseChanges
<1>3. ASSUME NEW p \in PhraseChanges, MergeChange(p) PROVE TypeOK'
  BY <1>3 DEF TypeOK, MergeChange, Merged, Clashing, PhraseChanges
<1>4. CASE MergeDone
  BY <1>4 DEF TypeOK, MergeDone
<1>5. ASSUME NEW c \in 1 .. Len(changes), ApplyChange(c) PROVE TypeOK'
  <2>1. /\ changes[c].start \in 0 .. TextLen
        /\ changes[c].end \in 0 .. TextLen
    BY ChangeFacts
  <2>2. cursor' \in 0 .. TextLen
    BY <1>5, <2>1 DEF TypeOK, ApplyChange, Consumed
  <2>3. pieces' \in Seq([lo : 0 .. TextLen, hi : 0 .. TextLen, by : Nat])
    <3>1. /\ Piece(cursor, changes[c].start, 0)
               \in [lo : 0 .. TextLen, hi : 0 .. TextLen, by : Nat]
          /\ Piece(changes[c].start, changes[c].end, c)
               \in [lo : 0 .. TextLen, hi : 0 .. TextLen, by : Nat]
      BY <2>1 DEF TypeOK, Piece
    <3>2. CASE changes[c].start < cursor
      BY <1>5, <3>2 DEF TypeOK, ApplyChange
    <3>3. CASE ~(changes[c].start < cursor)
      <4>1. pieces' = Append(Append(pieces, Piece(cursor, changes[c].start, 0)),
                             Piece(changes[c].start, changes[c].end, c))
        BY <1>5, <3>3 DEF ApplyChange
      <4> QED
        BY <3>1, <4>1, AppendTwice DEF TypeOK
    <3> QED
      BY <3>2, <3>3
  <2> QED
    BY <1>5, <2>2, <2>3 DEF TypeOK, ApplyChange
<1>6. CASE ApplyDone
  <2>1. Piece(cursor, TextLen, 0)
          \in [lo : 0 .. TextLen, hi : 0 .. TextLen, by : Nat]
    BY DEF TypeOK, Piece
  <2> QED
    BY <1>6, <2>1 DEF TypeOK, ApplyDone
<1>7. CASE UNCHANGED vars
  BY <1>7 DEF TypeOK, vars
<1> QED
  BY <1>1, <1>2, <1>3, <1>4, <1>5, <1>6, <1>7 DEF Next

\* The program state keeps its type, whatever is proposed.
THEOREM TypeCorrect == Spec => []TypeOK
  BY TypeInit, TypeStep, PTL DEF Spec

-----------------------------------------------------------------------------
\* A phrase that is merged clashes with nothing that stays.
LEMMA MergedFacts ==
  ASSUME NEW p \in PhraseChanges
  PROVE  \/ Merged(p) = accepted
         \/ /\ Merged(p) = (accepted \ Clashing(p)) \cup {p}
            /\ \A a \in Clashing(p) : Covers(changes[p], changes[a])
  BY DEF Merged

LEMMA NoDoubleEditStep ==
  TypeOK /\ NoDoubleEdit /\ [Next]_vars => NoDoubleEdit'
<1> SUFFICES ASSUME TypeOK, NoDoubleEdit, [Next]_vars PROVE NoDoubleEdit'
  OBVIOUS
<1>1. ASSUME NEW c \in TokenChanges, ResolveChange(c) PROVE NoDoubleEdit'
  BY <1>1 DEF NoDoubleEdit, ResolveChange, Fits, Clash, Overlaps
<1>2. ASSUME NEW p \in PhraseChanges, MergeChange(p) PROVE NoDoubleEdit'
  BY <1>2, MergedFacts
  DEF NoDoubleEdit, MergeChange, Clashing, Clash, Overlaps
<1>3. CASE UNCHANGED <<changes, accepted>>
  BY <1>3 DEF NoDoubleEdit, Clash
<1> QED
  BY <1>1, <1>2, <1>3
  DEF Next, ResolveDone, MergeDone, ApplyChange, ApplyDone, vars

\* "This prevents double-editing the same token region": for every list of
\* changes, the kept set never holds two that overlap.
THEOREM NoDoubleEditCorrect == Spec => []NoDoubleEdit
<1>1. Init => NoDoubleEdit
  BY DEF Init, NoDoubleEdit
<1> QED
  BY <1>1, NoDoubleEditStep, TypeCorrect, PTL DEF Spec

-----------------------------------------------------------------------------
\* While the greedy loop runs, what it has kept is at least as confident as
\* what it has still to look at.
Sorted ==
  pc = "resolve" =>
    /\ pending \subseteq TokenChanges
    /\ \A a \in accepted, d \in pending : changes[a].conf >= changes[d].conf

ResolveInv == Sorted /\ RejectedIsDominated

LEMMA ResolveInvStep ==
  TypeOK /\ ResolveInv /\ [Next]_vars => ResolveInv'
<1> SUFFICES ASSUME TypeOK, ResolveInv, [Next]_vars PROVE ResolveInv'
  OBVIOUS
<1>1. ASSUME NEW c \in TokenChanges, ResolveChange(c) PROVE ResolveInv'
  <2>1. /\ pc = "resolve" /\ pc' = "resolve"
        /\ changes' = changes /\ split' = split
        /\ c \in pending /\ pending' = pending \ {c}
    BY <1>1 DEF ResolveChange
  <2>2. \A d \in 1 .. Len(changes) : changes[d].conf \in Int
    BY ChangeFacts
  <2>3. \A d \in pending : changes[c].conf >= changes[d].conf
    <3>1. ASSUME NEW d \in pending PROVE MoreConfident(c, d)
      BY <1>1 DEF ResolveChange
    <3>2. pending \subseteq 1 .. Len(changes)
      BY DEF TypeOK
    <3> QED
      BY <2>1, <2>2, <3>1, <3>2 DEF MoreConfident
  <2>4. CASE Fits(c)
    <3>1. accepted' = accepted \cup {c}
      BY <1>1, <2>4 DEF ResolveChange
    <3>2. Sorted'
      BY <2>1, <2>3, <3>1 DEF ResolveInv, Sorted, TokenChanges
    <3>3. RejectedIsDominated'
      BY <2>1, <3>1 DEF ResolveInv, RejectedIsDominated, TokenChanges, Clash
    <3> QED
      BY <3>2, <3>3 DEF ResolveInv
  <2>5. CASE ~Fits(c)
    <3>1. accepted' = accepted
      BY <1>1, <2>5 DEF ResolveChange
    <3>2. PICK a \in accepted : Clash(c, a)
      BY <2>5 DEF Fits
    <3>3. changes[a].conf >= changes[c].conf
      BY <2>1 DEF ResolveInv, Sorted
    <3>4. Sorted'
      BY <2>1, <3>1 DEF ResolveInv, Sorted, TokenChanges
    <3>5. RejectedIsDominated'
      BY <2>1, <3>1, <3>2, <3>3
      DEF ResolveInv, RejectedIsDominated, TokenChanges, Clash
    <3> QED
      BY <3>4, <3>5 DEF ResolveInv
  <2> QED
    BY <2>4, <2>5
<1>2. CASE UNCHANGED vars
  BY <1>2 DEF ResolveInv, Sorted, RejectedIsDominated, TokenChanges, Clash, vars
<1>3. CASE pc' # "resolve"
  BY <1>3 DEF ResolveInv, Sorted, RejectedIsDominated
<1> QED
  BY <1>1, <1>2, <1>3
  DEF Next, ResolveDone, MergeChange, MergeDone, ApplyChange, ApplyDone

\* A token-level change that is turned down loses to a kept one that overlaps
\* it and is at least as confident.
THEOREM RejectedIsDominatedCorrect == Spec => []RejectedIsDominated
<1>1. Init => ResolveInv
  BY DEF Init, ResolveInv, Sorted, RejectedIsDominated, TokenChanges
<1>2. ResolveInv => RejectedIsDominated
  BY DEF ResolveInv
<1> QED
  BY <1>1, <1>2, ResolveInvStep, TypeCorrect, PTL DEF Spec

-----------------------------------------------------------------------------
\* The changes the loops have looked at.
LookedAt ==
  IF pc = "resolve" THEN TokenChanges \ pending
  ELSE IF pc = "merge" THEN 1 .. Len(changes) \ pending
  ELSE 1 .. Len(changes)

\* Each of them is kept or overlaps one that is.
Settled ==
  /\ pc = "resolve" => pending \subseteq TokenChanges
  /\ \A c \in LookedAt \ accepted : \E a \in accepted : Clash(c, a)

\* What overlaps a covered change overlaps the phrase that covers it.
LEMMA ClashCovered ==
  ASSUME TypeOK,
         NEW c \in 1 .. Len(changes), NEW a \in 1 .. Len(changes),
         NEW p \in 1 .. Len(changes),
         Clash(c, a), Covers(changes[p], changes[a])
  PROVE  Clash(c, p)
<1>1. /\ changes[c].start \in Int /\ changes[c].end \in Int
      /\ changes[a].start \in Int /\ changes[a].end \in Int
      /\ changes[p].start \in Int /\ changes[p].end \in Int
  BY ChangeFacts
<1> QED
  BY <1>1 DEF Clash, Overlaps, Covers

LEMMA SettledStep ==
  TypeOK /\ Settled /\ [Next]_vars => Settled'
<1> SUFFICES ASSUME TypeOK, Settled, [Next]_vars PROVE Settled'
  OBVIOUS
<1>1. ASSUME NEW c \in TokenChanges, ResolveChange(c) PROVE Settled'
  BY <1>1
  DEF ResolveChange, Fits, Settled, LookedAt, TokenChanges, Clash
<1>2. CASE ResolveDone
  BY <1>2
  DEF ResolveDone, Settled, LookedAt, TokenChanges, PhraseChanges, Clash, TypeOK
<1>3. ASSUME NEW p \in PhraseChanges, MergeChange(p) PROVE Settled'
  <2>1. /\ pc = "merge" /\ pc' = "merge"
        /\ changes' = changes /\ split' = split
        /\ p \in pending /\ pending' = pending \ {p}
        /\ accepted' = Merged(p)
    BY <1>3 DEF MergeChange
  <2>2. SUFFICES ASSUME NEW c \in 1 .. Len(changes), c \notin pending \/ c = p,
                        c \notin Merged(p)
                 PROVE  \E a \in Merged(p) : Clash(c, a)
    BY <2>1 DEF Settled, LookedAt, Clash
  <2>3. CASE /\ Merged(p) = (accepted \ Clashing(p)) \cup {p}
             /\ \A a \in Clashing(p) : Covers(changes[p], changes[a])
    <3>1. c # p /\ (c \in accepted => c \in Clashing(p))
      BY <2>2, <2>3
    <3>2. CASE c \in accepted
      BY <2>3, <3>1, <3>2 DEF Clashing
    <3>3. CASE c \notin accepted
      <4>1. PICK a \in accepted : Clash(c, a)
        BY <2>1, <2>2, <3>1, <3>3 DEF Settled, LookedAt
      <4>2. CASE a \in Clashing(p)
        BY <2>1, <2>3, <4>1, <4>2, ClashCovered DEF TypeOK
      <4> QED
        BY <2>3, <4>1, <4>2
    <3> QED
      BY <3>2, <3>3
  <2>4. CASE /\ Merged(p) = accepted
             /\ \E a \in Clashing(p) : ~Covers(changes[p], changes[a])
    BY <2>1, <2>2, <2>4 DEF Settled, LookedAt, Clashing, Clash, Overlaps
  <2> QED
    BY <2>3, <2>4 DEF Merged
<1>4. CASE MergeDone
  BY <1>4 DEF MergeDone, Settled, LookedAt, Clash
<1>5. ASSUME NEW c \in 1 .. Len(changes), ApplyChange(c) PROVE Settled'
  BY <1>5 DEF ApplyChange, Settled, LookedAt, Clash
<1>6. CASE ApplyDone
  BY <1>6 DEF ApplyDone, Settled, LookedAt, Clash
<1>7. CASE UNCHANGED vars
  BY <1>7 DEF Settled, LookedAt, TokenChanges, Clash, vars
<1> QED
  BY <1>1, <1>2, <1>3, <1>4, <1>5, <1>6, <1>7 DEF Next

LEMMA SettledInvariant == Spec => []Settled
<1>1. Init => Settled
  BY DEF Init, Settled, LookedAt, TokenChanges
<1> QED
  BY <1>1, SettledStep, TypeCorrect, PTL DEF Spec

\* A proposal that is not applied overlaps one that is.
THEOREM NothingLostCorrect == Spec => []NothingLost
<1>1. Settled => NothingLost
  BY DEF Settled, LookedAt, NothingLost
<1> QED
  BY <1>1, SettledInvariant, PTL

-----------------------------------------------------------------------------
\* A phrase is not kept before the merge loop has come to it.
PhrasesLast ==
  /\ pc = "resolve" => accepted \subseteq TokenChanges
  /\ pc = "merge" => accepted \cap pending = {}

LEMMA PhrasesLastStep ==
  TypeOK /\ PhrasesLast /\ [Next]_vars => PhrasesLast'
<1> SUFFICES ASSUME TypeOK, PhrasesLast, [Next]_vars PROVE PhrasesLast'
  OBVIOUS
<1>1. ASSUME NEW c \in TokenChanges, ResolveChange(c) PROVE PhrasesLast'
  BY <1>1 DEF ResolveChange, PhrasesLast, TokenChanges
<1>2. CASE ResolveDone
  BY <1>2 DEF ResolveDone, PhrasesLast, TokenChanges, PhraseChanges, TypeOK
<1>3. ASSUME NEW p \in PhraseChanges, MergeChange(p) PROVE PhrasesLast'
  BY <1>3 DEF MergeChange, Merged, PhrasesLast
<1>4. CASE UNCHANGED vars
  BY <1>4 DEF PhrasesLast, TokenChanges, vars
<1>5. CASE pc' \notin {"resolve", "merge"}
  BY <1>5 DEF PhrasesLast
<1> QED
  BY <1>1, <1>2, <1>3, <1>4, <1>5 DEF Next, MergeDone, ApplyChange, ApplyDone

\* A kept change only ever gives way to a phrase that covers all of it.
THEOREM OnlyCoveringPhraseReplacesCorrect == Spec => OnlyCoveringPhraseReplaces
<1>1. Init => PhrasesLast
  BY DEF Init, PhrasesLast
<1>2. PhrasesLast /\ [Next]_vars =>
        [\A c \in accepted \ accepted' :
            \E p \in accepted' \ accepted :
               p \in PhraseChanges /\ Covers(changes[p], changes[c])]_vars
  <2> SUFFICES ASSUME PhrasesLast, Next, NEW c \in accepted \ accepted'
               PROVE  \E p \in accepted' \ accepted :
                         p \in PhraseChanges /\ Covers(changes[p], changes[c])
    OBVIOUS
  <2>1. PICK p \in PhraseChanges : MergeChange(p)
    BY DEF Next, ResolveChange, ResolveDone, MergeDone, ApplyChange, ApplyDone
  <2>2. p \notin accepted
    BY <2>1 DEF PhrasesLast, MergeChange
  <2>3. c \in Clashing(p) /\ p \in accepted' /\ Covers(changes[p], changes[c])
    BY <2>1 DEF MergeChange, Merged
  <2> QED
    BY <2>2, <2>3
<1> QED
  BY <1>1, <1>2, PhrasesLastStep, TypeCorrect, PTL
  DEF Spec, OnlyCoveringPhraseReplaces

-----------------------------------------------------------------------------
PieceType == [lo : 0 .. TextLen, hi : 0 .. TextLen, by : Nat]

\* The pieces `ps' stand for the first `upto' characters: in order, and every
\* one of them under some piece.
Tiling(ps, upto) ==
  /\ \A k \in 1 .. Len(ps) : ps[k].lo <= ps[k].hi /\ ps[k].hi <= upto
  /\ \A j, k \in 1 .. Len(ps) : j < k => ps[j].hi <= ps[k].lo
  /\ \A k \in 1 .. Len(ps) - 1 : ps[k].hi = ps[k + 1].lo
  /\ \A i \in 0 .. upto - 1 :
       \E k \in 1 .. Len(ps) : ps[k].lo <= i /\ i < ps[k].hi
  /\ Len(ps) = 0 => upto = 0
  /\ Len(ps) > 0 => ps[1].lo = 0 /\ ps[Len(ps)].hi = upto

\* The changes of `S' are written in `ps', once each and at their place, and
\* no other change is.
Ledger(ps, S) ==
  /\ \A c \in S : \E k \in 1 .. Len(ps) : ps[k].by = c
  /\ \A k \in 1 .. Len(ps) : ps[k].by # 0 =>
       /\ ps[k].by \in S
       /\ ps[k].lo = changes[ps[k].by].start
       /\ ps[k].hi = changes[ps[k].by].end
  /\ \A j, k \in 1 .. Len(ps) :
       ps[j].by = ps[k].by /\ ps[j].by # 0 => j = k

\* The state of apply_changes.  The branch that skips a change is never
\* taken, because every change still to come starts at the cursor or later.
Written ==
  /\ pc \in {"resolve", "merge"} => pieces = <<>> /\ cursor = 0
  /\ pc = "apply" =>
       /\ pending \subseteq accepted
       /\ \A d \in pending : cursor <= changes[d].start
       /\ Tiling(pieces, cursor)
       /\ Ledger(pieces, accepted \ pending)
  /\ pc = "done" =>
       /\ Len(pieces) > 0
       /\ Tiling(pieces, TextLen)
       /\ Ledger(pieces, accepted)

\* Of two kept changes, the one that sorts later starts after the other's end.
LEMMA LaterStartsBeyond ==
  ASSUME TypeOK, NoDoubleEdit,
         NEW c \in accepted, NEW d \in accepted, c # d, Leftmost(c, d)
  PROVE  changes[c].end <= changes[d].start
<1>1. /\ changes[c].start \in Int /\ changes[c].end \in Int
      /\ changes[d].start \in Int /\ changes[d].end \in Int
      /\ changes[d].start < changes[d].end
  BY ChangeFacts DEF TypeOK
<1> QED
  BY <1>1 DEF NoDoubleEdit, Leftmost, Clash, Overlaps

\* The ends of a piece are positions of the text.
LEMMA PieceFacts ==
  ASSUME NEW ps \in Seq(PieceType), NEW k \in 1 .. Len(ps)
  PROVE  ps[k].lo \in Int /\ ps[k].hi \in Int
<1>1. ps[k] \in PieceType
  OBVIOUS
<1>2. ps[k].lo \in 0 .. TextLen /\ ps[k].hi \in 0 .. TextLen
  BY <1>1 DEF PieceType
<1> QED
  BY <1>2, TextLenAssumption

\* One piece after another.
LEMMA AppendPiece ==
  ASSUME NEW ps \in Seq(PieceType),
         NEW lo \in 0 .. TextLen, NEW hi \in 0 .. TextLen, NEW by \in Nat
  PROVE  LET qs == Append(ps, Piece(lo, hi, by))
         IN  /\ qs \in Seq(PieceType)
             /\ Len(qs) = Len(ps) + 1
             /\ \A k \in 1 .. Len(ps) : qs[k] = ps[k]
             /\ qs[Len(ps) + 1].lo = lo
             /\ qs[Len(ps) + 1].hi = hi
             /\ qs[Len(ps) + 1].by = by
<1>1. Piece(lo, hi, by) \in PieceType
  BY DEF Piece, PieceType
<1>2. /\ Piece(lo, hi, by).lo = lo
      /\ Piece(lo, hi, by).hi = hi
      /\ Piece(lo, hi, by).by = by
  BY DEF Piece
<1> QED
  BY <1>1, <1>2

\* A piece that starts where the tiling ends extends it.
LEMMA TilingAppend ==
  ASSUME NEW ps \in Seq(PieceType),
         NEW lo \in 0 .. TextLen, NEW hi \in 0 .. TextLen, NEW by \in Nat,
         lo <= hi, Tiling(ps, lo)
  PROVE  Tiling(Append(ps, Piece(lo, hi, by)), hi)
<1> DEFINE n  == Len(ps)
           qs == Append(ps, Piece(lo, hi, by))
<1>1. /\ n \in Nat
      /\ \A k \in 1 .. n : ps[k].lo \in Int /\ ps[k].hi \in Int
      /\ lo \in Int /\ hi \in Int
  BY PieceFacts, TextLenAssumption
<1>2. /\ Len(qs) = n + 1
      /\ \A k \in 1 .. n : qs[k] = ps[k]
      /\ qs[n + 1].lo = lo
      /\ qs[n + 1].hi = hi
  BY AppendPiece
<1> HIDE DEF qs, n
<1>3. /\ \A k \in 1 .. n : ps[k].lo <= ps[k].hi /\ ps[k].hi <= lo
      /\ \A j, k \in 1 .. n : j < k => ps[j].hi <= ps[k].lo
      /\ \A k \in 1 .. n - 1 : ps[k].hi = ps[k + 1].lo
      /\ \A i \in 0 .. lo - 1 :
           \E k \in 1 .. n : ps[k].lo <= i /\ i < ps[k].hi
      /\ n = 0 => lo = 0
      /\ n > 0 => ps[1].lo = 0 /\ ps[n].hi = lo
  BY DEF Tiling, n
<1>4. ASSUME NEW k \in 1 .. n + 1
      PROVE  qs[k].lo <= qs[k].hi /\ qs[k].hi <= hi
  <2>1. CASE k = n + 1
    BY <1>1, <1>2, <2>1
  <2>2. CASE k # n + 1
    <3>1. k \in 1 .. n /\ qs[k] = ps[k]
      BY <1>1, <1>2, <2>2
    <3>2. ps[k].lo <= ps[k].hi /\ ps[k].hi <= lo
      BY <1>3, <3>1
    <3> QED
      BY <1>1, <3>1, <3>2
  <2> QED
    BY <2>1, <2>2
<1>5. ASSUME NEW j \in 1 .. n + 1, NEW k \in 1 .. n + 1, j < k
      PROVE  qs[j].hi <= qs[k].lo
  <2>0. j \in 1 .. n /\ qs[j] = ps[j]
    BY <1>1, <1>2, <1>5
  <2>1. CASE k = n + 1
    <3>1. ps[j].hi <= lo
      BY <1>3, <2>0
    <3> QED
      BY <1>2, <2>0, <2>1, <3>1
  <2>2. CASE k # n + 1
    <3>1. k \in 1 .. n /\ qs[k] = ps[k]
      BY <1>1, <1>2, <2>2
    <3> QED
      BY <1>3, <1>5, <2>0, <3>1
  <2> QED
    BY <2>1, <2>2
<1>6. ASSUME NEW k \in 1 .. (n + 1) - 1
      PROVE  qs[k].hi = qs[k + 1].lo
  <2>1. k \in 1 .. n /\ qs[k] = ps[k]
    BY <1>1, <1>2
  <2>2. CASE k = n
    BY <1>1, <1>2, <1>3, <2>1, <2>2
  <2>3. CASE k # n
    <3>1. k \in 1 .. n - 1 /\ k + 1 \in 1 .. n
      BY <1>1, <2>1, <2>3
    <3>2. qs[k + 1] = ps[k + 1]
      BY <1>2, <3>1
    <3> QED
      BY <1>3, <2>1, <3>1, <3>2
  <2> QED
    BY <2>2, <2>3
<1>7. ASSUME NEW i \in 0 .. hi - 1
      PROVE  \E k \in 1 .. n + 1 : qs[k].lo <= i /\ i < qs[k].hi
  <2>1. CASE i < lo
    <3>0. i \in 0 .. lo - 1
      BY <1>1, <2>1
    <3>1. PICK k \in 1 .. n : ps[k].lo <= i /\ i < ps[k].hi
      BY <1>3, <3>0
    <3>2. k \in 1 .. n + 1 /\ qs[k] = ps[k]
      BY <1>1, <1>2
    <3> QED
      BY <3>1, <3>2
  <2>2. CASE lo <= i
    BY <1>1, <1>2, <2>2
  <2> QED
    BY <1>1, <2>1, <2>2
<1>8. qs[1].lo = 0
  <2>1. CASE n = 0
    BY <1>2, <1>3, <2>1
  <2>2. CASE n > 0
    <3>1. 1 \in 1 .. n
      BY <1>1, <2>2
    <3> QED
      BY <1>2, <1>3, <2>2, <3>1
  <2> QED
    BY <1>1, <2>1, <2>2
<1>9. Tiling(qs, hi)
  BY <1>1, <1>2, <1>4, <1>5, <1>6, <1>7, <1>8 DEF Tiling
<1> QED
  BY <1>9 DEF qs

\* Copying input adds nothing to the ledger; writing a new change adds it.
LEMMA LedgerAppend ==
  ASSUME NEW ps \in Seq(PieceType), NEW S \in SUBSET Nat, 0 \notin S,
         NEW lo \in 0 .. TextLen, NEW hi \in 0 .. TextLen, NEW by \in Nat,
         Ledger(ps, S),
         by # 0 => by \notin S /\ lo = changes[by].start /\ hi = changes[by].end
  PROVE  Ledger(Append(ps, Piece(lo, hi, by)), S \cup ({by} \ {0}))
<1> DEFINE n  == Len(ps)
           qs == Append(ps, Piece(lo, hi, by))
           T  == S \cup ({by} \ {0})
<1>1. /\ n \in Nat
      /\ Len(qs) = n + 1
      /\ \A k \in 1 .. n : qs[k] = ps[k]
      /\ qs[n + 1].lo = lo
      /\ qs[n + 1].hi = hi
      /\ qs[n + 1].by = by
  BY AppendPiece
<1>2. /\ \A c \in S : \E k \in 1 .. n : ps[k].by = c
      /\ \A k \in 1 .. n : ps[k].by # 0 =>
           /\ ps[k].by \in S
           /\ ps[k].lo = changes[ps[k].by].start
           /\ ps[k].hi = changes[ps[k].by].end
      /\ \A j, k \in 1 .. n : ps[j].by = ps[k].by /\ ps[j].by # 0 => j = k
  BY DEF Ledger
<1> HIDE DEF qs, n
<1>3. \A c \in T : \E k \in 1 .. n + 1 : qs[k].by = c
  BY <1>1, <1>2
<1>4. \A k \in 1 .. n + 1 : qs[k].by # 0 =>
         /\ qs[k].by \in T
         /\ qs[k].lo = changes[qs[k].by].start
         /\ qs[k].hi = changes[qs[k].by].end
  BY <1>1, <1>2
<1>5. \A j, k \in 1 .. n + 1 : qs[j].by = qs[k].by /\ qs[j].by # 0 => j = k
  BY <1>1, <1>2
<1>6. Ledger(qs, T)
  BY <1>1, <1>3, <1>4, <1>5 DEF Ledger
<1> QED
  BY <1>6 DEF qs

\* The tail of the text completes the tiling and the ledger.
LEMMA ApplyDoneFacts ==
  ASSUME TypeOK, Written, ApplyDone
  PROVE  /\ pieces' \in Seq(PieceType)
         /\ Len(pieces') > 0
         /\ Tiling(pieces', TextLen)
         /\ Ledger(pieces', accepted)
<1>0. /\ pieces \in Seq(PieceType) /\ cursor \in 0 .. TextLen
      /\ TextLen \in 0 .. TextLen /\ cursor <= TextLen
  BY TextLenAssumption DEF TypeOK, PieceType
<1>1. /\ Tiling(pieces, cursor) /\ Ledger(pieces, accepted)
      /\ pieces' = Append(pieces, Piece(cursor, TextLen, 0))
  <2>1. pc = "apply" /\ pending = {}
    BY DEF ApplyDone
  <2>2. Tiling(pieces, cursor) /\ Ledger(pieces, accepted \ pending)
    BY <2>1 DEF Written
  <2>3. accepted \ pending = accepted
    BY <2>1
  <2> QED
    BY <2>2, <2>3 DEF ApplyDone
<1>2. pieces' \in Seq(PieceType) /\ Len(pieces') > 0
  BY <1>0, <1>1, AppendPiece
<1>3. Tiling(pieces', TextLen)
  BY <1>0, <1>1, TilingAppend
<1>4. Ledger(pieces', accepted)
  <2>1. accepted \in SUBSET Nat /\ 0 \notin accepted
    BY DEF TypeOK
  <2>2. Ledger(pieces', accepted \cup ({0} \ {0}))
    BY <1>0, <1>1, <2>1, LedgerAppend
  <2> QED
    BY <2>2
<1> QED
  BY <1>2, <1>3, <1>4

LEMMA WrittenStep ==
  TypeOK /\ NoDoubleEdit /\ Written /\ [Next]_vars => Written'
<1> SUFFICES ASSUME TypeOK, NoDoubleEdit, Written, [Next]_vars PROVE Written'
  OBVIOUS
<1>0. /\ pieces \in Seq(PieceType) /\ cursor \in 0 .. TextLen
      /\ TextLen \in 0 .. TextLen /\ TextLen \in Nat
  BY TextLenAssumption DEF TypeOK, PieceType
<1>1. ASSUME NEW c \in TokenChanges, ResolveChange(c) PROVE Written'
  BY <1>1 DEF ResolveChange, Written
<1>2. CASE ResolveDone
  BY <1>2 DEF ResolveDone, Written
<1>3. ASSUME NEW p \in PhraseChanges, MergeChange(p) PROVE Written'
  BY <1>3 DEF MergeChange, Written
<1>4. CASE MergeDone
  <2>1. \A d \in accepted : 0 <= changes[d].start
    BY ChangeFacts DEF TypeOK
  <2>2. pieces = <<>> /\ cursor = 0
    BY <1>4 DEF MergeDone, Written
  <2>3. Tiling(<<>>, 0) /\ Ledger(<<>>, {})
    BY DEF Tiling, Ledger
  <2> QED
    BY <1>4, <2>1, <2>2, <2>3 DEF MergeDone, Written, Tiling, Ledger
<1>5. ASSUME NEW c \in 1 .. Len(changes), ApplyChange(c) PROVE Written'
  <2> DEFINE mid == Append(pieces, Piece(cursor, changes[c].start, 0))
  <2>1. /\ pc = "apply" /\ c \in pending /\ pending \subseteq accepted
        /\ cursor <= changes[c].start
        /\ Tiling(pieces, cursor) /\ Ledger(pieces, accepted \ pending)
    BY <1>5 DEF ApplyChange, Written
  <2>2. /\ changes[c].start \in 0 .. TextLen /\ changes[c].end \in 0 .. TextLen
        /\ changes[c].start <= changes[c].end
    BY ChangeFacts
  <2>3. /\ pieces' = Append(mid, Piece(changes[c].start, changes[c].end, c))
        /\ cursor' = changes[c].end
    BY <1>0, <1>5, <2>1, <2>2 DEF ApplyChange, Consumed
  <2>4. /\ pc' = "apply" /\ pending' = pending \ {c}
        /\ changes' = changes /\ accepted' = accepted
    BY <1>5 DEF ApplyChange
  <2>5. mid \in Seq(PieceType) /\ Tiling(mid, changes[c].start)
    BY <1>0, <2>1, <2>2, AppendPiece, TilingAppend
  <2>6. accepted \ pending \in SUBSET Nat /\ 0 \notin accepted \ pending
    BY DEF TypeOK
  <2>7. Ledger(mid, accepted \ pending)
    <3>1. Ledger(mid, (accepted \ pending) \cup ({0} \ {0}))
      BY <1>0, <2>1, <2>2, <2>6, LedgerAppend
    <3> QED
      BY <3>1
  <2> HIDE DEF mid
  <2>8. Tiling(pieces', cursor')
    BY <2>2, <2>3, <2>5, TilingAppend
  <2>9. Ledger(pieces', accepted' \ pending')
    <3>1. Ledger(pieces', (accepted \ pending) \cup ({c} \ {0}))
      BY <2>1, <2>2, <2>3, <2>5, <2>6, <2>7, LedgerAppend
    <3>2. (accepted \ pending) \cup ({c} \ {0}) = accepted' \ pending'
      BY <2>1, <2>4
    <3> QED
      BY <3>1, <3>2
  <2>10. Ledger(pieces, accepted \ pending)'
    BY <2>4, <2>9 DEF Ledger
  <2>11. \A d \in pending' : cursor' <= changes'[d].start
    <3>1. ASSUME NEW d \in pending, d # c PROVE changes[c].end <= changes[d].start
      BY <1>5, <2>1, <3>1, LaterStartsBeyond DEF ApplyChange
    <3> QED
      BY <2>3, <2>4, <3>1
  <2>12. Tiling(pieces, cursor)'
    BY <2>8 DEF Tiling
  <2> QED
    BY <2>1, <2>4, <2>10, <2>11, <2>12 DEF Written
<1>6. CASE ApplyDone
  <2>1. /\ pc' = "done" /\ accepted' = accepted /\ changes' = changes
    BY <1>6 DEF ApplyDone
  <2> QED
    BY <1>6, <2>1, ApplyDoneFacts DEF Written, Tiling, Ledger
<1>7. CASE UNCHANGED vars
  BY <1>7 DEF Written, Tiling, Ledger, vars
<1> QED
  BY <1>1, <1>2, <1>3, <1>4, <1>5, <1>6, <1>7 DEF Next

LEMMA WrittenInvariant == Spec => [](TypeOK /\ NoDoubleEdit /\ Written)
<1>1. Init => Written
  BY DEF Init, Written
<1> QED
  BY <1>1, WrittenStep, TypeCorrect, NoDoubleEditCorrect, PTL DEF Spec

\* Every change in the log is in the text, exactly once, and no other is.
THEOREM LogMatchesTextCorrect == Spec => []LogMatchesText
<1>1. ASSUME TypeOK, Written, pc = "done"
      PROVE  /\ {pieces[k].by : k \in DOMAIN pieces} \ {0} = accepted
             /\ \A j, k \in DOMAIN pieces :
                  pieces[j].by = pieces[k].by /\ pieces[j].by # 0 => j = k
  <2>1. Ledger(pieces, accepted) /\ DOMAIN pieces = 1 .. Len(pieces)
    BY <1>1 DEF Written, TypeOK
  <2>2. 0 \notin accepted
    BY <1>1 DEF TypeOK
  <2>3. {pieces[k].by : k \in DOMAIN pieces} \ {0} \subseteq accepted
    BY <2>1 DEF Ledger
  <2>4. accepted \subseteq {pieces[k].by : k \in DOMAIN pieces} \ {0}
    BY <2>1, <2>2 DEF Ledger
  <2> QED
    BY <2>1, <2>3, <2>4 DEF Ledger
<1>2. TypeOK /\ Written => LogMatchesText
  BY <1>1 DEF LogMatchesText
<1> QED
  BY <1>2, WrittenInvariant, PTL

\* The text written stands for the whole input, without gap or repetition.
THEOREM TextTiledCorrect == Spec => []TextTiled
<1>1. TypeOK /\ Written => TextTiled
  BY DEF TypeOK, Written, Tiling, TextTiled
<1> QED
  BY <1>1, WrittenInvariant, PTL

-----------------------------------------------------------------------------
\* Refinement.  Until "done" the abstract state stands still; ApplyDone is
\* the abstract Commit of the set that was kept.
LEMMA CommittableKept ==
  TypeOK /\ NoDoubleEdit /\ Settled /\ pc \in {"apply", "done"}
    => Abstract!Committable(accepted)
<1> SUFFICES ASSUME TypeOK, NoDoubleEdit, Settled, pc \in {"apply", "done"},
                    NEW c \in 1 .. Len(changes)
             PROVE  c \in accepted <=>
                      \A d \in accepted :
                        c = d \/ ~Overlaps(changes[c], changes[d])
  BY DEF Abstract!Committable, Abstract!Overlaps, Overlaps
<1>1. c \in LookedAt
  BY DEF LookedAt
<1> QED
  BY <1>1 DEF NoDoubleEdit, Settled, Clash

\* The change that a written text `ps' puts character `i' under.
OwnerIn(ps, i) ==
  ps[CHOOSE k \in DOMAIN ps : ps[k].lo <= i /\ i < ps[k].hi].by

\* Every character belongs to one piece, so to the change that touches it.
LEMMA OwnerFacts ==
  ASSUME TypeOK, NEW ps \in Seq(PieceType),
         Tiling(ps, TextLen), Ledger(ps, accepted),
         NEW i \in 0 .. TextLen - 1
  PROVE  /\ OwnerIn(ps, i) \in accepted \cup {0}
         /\ OwnerIn(ps, i) # 0 => Abstract!Touches(OwnerIn(ps, i), i)
         /\ \A c \in accepted :
              Abstract!Touches(c, i) => OwnerIn(ps, i) = c
<1> DEFINE piece == CHOOSE k \in DOMAIN ps : ps[k].lo <= i /\ i < ps[k].hi
<1>1. DOMAIN ps = 1 .. Len(ps)
  OBVIOUS
<1>2. piece \in 1 .. Len(ps) /\ ps[piece].lo <= i /\ i < ps[piece].hi
  <2>1. \E k \in DOMAIN ps : ps[k].lo <= i /\ i < ps[k].hi
    BY <1>1 DEF Tiling
  <2> QED
    BY <1>1, <2>1
<1>3. OwnerIn(ps, i) = ps[piece].by
  BY DEF OwnerIn
<1> HIDE DEF piece
<1>4. ps[piece].by # 0 => ps[piece].by \in accepted /\ Abstract!Touches(ps[piece].by, i)
  BY <1>2 DEF Ledger, Abstract!Touches
<1>5. ASSUME NEW c \in accepted, Abstract!Touches(c, i)
      PROVE  ps[piece].by = c
  <2>1. c # 0
    BY DEF TypeOK
  <2>2. PICK k \in 1 .. Len(ps) : ps[k].by = c
    BY DEF Ledger
  <2>3. ps[k].lo <= i /\ i < ps[k].hi
    BY <1>5, <2>1, <2>2 DEF Ledger, Abstract!Touches
  <2>4. ASSUME NEW j \in 1 .. Len(ps)
        PROVE  ps[j].lo \in Int /\ ps[j].hi \in Int
    BY PieceFacts
  <2>5. \A j, m \in 1 .. Len(ps) : j < m => ps[j].hi <= ps[m].lo
    BY DEF Tiling
  <2>6. ASSUME NEW j \in 1 .. Len(ps), NEW m \in 1 .. Len(ps),
               ps[j].lo <= i, i < ps[j].hi, ps[m].lo <= i, i < ps[m].hi
        PROVE  ~(j < m)
    BY <2>4, <2>5, <2>6
  <2>7. piece \in Int /\ k \in Int
    BY <1>2
  <2>8. piece = k
    BY <1>2, <2>3, <2>6, <2>7
  <2> QED
    BY <2>2, <2>8
<1> QED
  BY <1>3, <1>4, <1>5

LEMMA CommitStep ==
  TypeOK /\ NoDoubleEdit /\ Settled /\ Written /\ ApplyDone => Abstract!Next
<1> SUFFICES ASSUME TypeOK, NoDoubleEdit, Settled, Written, ApplyDone
             PROVE  Abstract!Next
  OBVIOUS
<1>1. /\ pc = "apply" /\ pc' = "done"
      /\ accepted' = accepted /\ changes' = changes
  BY DEF ApplyDone
<1>2. Abstract!Committable(accepted) /\ accepted \in SUBSET (1 .. Len(changes))
  BY <1>1, CommittableKept DEF TypeOK
<1>3. /\ pieces' \in Seq(PieceType)
      /\ Tiling(pieces', TextLen)
      /\ Ledger(pieces', accepted)
  BY ApplyDoneFacts
<1> DEFINE own == [i \in 0 .. TextLen - 1 |-> OwnerIn(pieces', i)]
<1>4. own = [i \in 0 .. TextLen - 1 |-> IF pc' = "done" THEN PieceAt(i)'.by ELSE 0]
  BY <1>1 DEF OwnerIn, PieceAt
<1>5. own \in [0 .. TextLen - 1 -> accepted \cup {0}]
  BY <1>3, OwnerFacts
<1>6. ASSUME NEW i \in 0 .. TextLen - 1
      PROVE  IF \E c \in accepted : Abstract!Touches(c, i)
             THEN Abstract!Touches(own[i], i)
             ELSE own[i] = 0
  <2>1. own[i] = OwnerIn(pieces', i)
    OBVIOUS
  <2> QED
    BY <1>3, <2>1, OwnerFacts
<1> HIDE DEF own
<1>7. Abstract!Commit(accepted)
  BY <1>1, <1>2, <1>4, <1>5, <1>6 DEF Abstract!Commit
<1> QED
  BY <1>1, <1>2, <1>7 DEF Abstract!Next

\* The three loops implement one commit of a maximal set of non-overlapping
\* changes, for every text and every list of changes.
THEOREM CommitsAtOnceCorrect == Spec => CommitsAtOnce
<1>1. Init => Abstract!Init
  BY DEF Init, Abstract!Init, Abstract!Untouched
<1>2. TypeOK /\ NoDoubleEdit /\ Settled /\ Written /\ [Next]_vars
        => [Abstract!Next]_(Abstract!vars)
  <2> SUFFICES ASSUME TypeOK, NoDoubleEdit, Settled, Written, [Next]_vars
               PROVE  Abstract!Next \/ UNCHANGED Abstract!vars
    OBVIOUS
  <2>1. CASE ApplyDone
    BY <2>1, CommitStep
  <2>2. CASE UNCHANGED vars
    BY <2>2 DEF vars, Abstract!vars, PieceAt
  <2>3. CASE pc # "done" /\ pc' # "done" /\ changes' = changes
    BY <2>3 DEF Abstract!vars
  <2> QED
    BY <2>1, <2>2, <2>3
    DEF Next, ResolveChange, ResolveDone, MergeChange, MergeDone, ApplyChange
<1> QED
  BY <1>1, <1>2, SettledInvariant, WrittenInvariant, PTL
  DEF Spec, CommitsAtOnce, Abstract!Spec
=============================================================================
