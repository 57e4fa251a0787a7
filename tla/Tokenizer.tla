----------------------------- MODULE Tokenizer -----------------------------
(***************************************************************************)
(* tokenize (tokenizer.py) cuts a text into runs of characters of one      *)
(* class; _mark_protected_tokens (corrector.py) then flags the tokens that *)
(* lie inside a span Stage 3 protects.  From here on the corrector sees    *)
(* tokens only: what is not in a flagged token may be changed.             *)
(***************************************************************************)
EXTENDS Spans, Sequences

CONSTANTS
  Symbols,       \* the characters
  Class,         \* _char_class, a function on Symbols
  Vietnamese,    \* the characters contains_vietnamese looks for
  Texts,         \* the texts considered
  Protected(_)   \* the sets of spans Stage 3 may find in a text

Classes == {"LETTER", "NUMBER", "NEWLINE", "SPACE", "PUNCT", "UNKNOWN"}
Types == (Classes \ {"LETTER"}) \cup {"VI_WORD", "FOREIGN_WORD"}

ASSUME SymbolAssumption ==
  /\ Class \in [Symbols -> Classes]
  /\ Texts \subseteq Seq(Symbols)
ASSUME SpanAssumption ==
  \A t \in Texts : Protected(t) \subseteq SUBSET Span(Len(t))

VARIABLES
  phase,    \* "scan", "run" (inside a token), "mark" or "done"
  text,     \* the text
  spans,    \* the protected spans
  start,    \* where the token that is being read starts, from 0
  at,       \* the position that is next, from 0; mark: the token that is next
  tokens,   \* the tokens, in order
  flagged   \* mark: which tokens are protected, by their place

tokenizerVars == <<phase, text, spans, start, at, tokens, flagged>>

Token == [start : Nat, end : Nat, type : Types]

TokenizerInit ==
  /\ text \in Texts
  /\ spans \in Protected(text)
  /\ phase = "scan"
  /\ start = 0
  /\ at = 0
  /\ tokens = <<>>
  /\ flagged = {}

-----------------------------------------------------------------------------
(***************************************************************************)
(* tokenize                                                                *)
(***************************************************************************)
ClassAt(p) == Class[text[p + 1]]

\* The outer loop: a token starts.
OpenToken ==
  /\ phase = "scan"
  /\ at < Len(text)
  /\ start' = at
  /\ at' = at + 1
  /\ phase' = "run"
  /\ UNCHANGED <<text, spans, tokens, flagged>>

\* The inner loop's condition.
GoesOn == at < Len(text) /\ ClassAt(at) = ClassAt(start)

ExtendToken ==
  /\ phase = "run"
  /\ GoesOn
  /\ at' = at + 1
  /\ UNCHANGED <<phase, text, spans, start, tokens, flagged>>

TypeOf(from, to) ==
  IF ClassAt(from) # "LETTER" THEN ClassAt(from)
  ELSE IF \E p \in from .. to - 1 : text[p + 1] \in Vietnamese THEN "VI_WORD"
  ELSE "FOREIGN_WORD"

\* Fault: the character that ended the run is passed over.
CloseTokenSkipping ==
  /\ phase = "run"
  /\ ~GoesOn
  /\ tokens' = Append(tokens, [start |-> start, end |-> at, type |-> TypeOf(start, at)])
  /\ phase' = "scan"
  /\ at' = IF at < Len(text) THEN at + 1 ELSE at
  /\ UNCHANGED <<text, spans, start, flagged>>

CloseToken ==
  /\ phase = "run"
  /\ ~GoesOn
  /\ tokens' = Append(tokens, [start |-> start, end |-> at, type |-> TypeOf(start, at)])
  /\ phase' = "scan"
  /\ UNCHANGED <<text, spans, start, at, flagged>>

TokenizeDone ==
  /\ phase = "scan"
  /\ at = Len(text)
  /\ phase' = "mark"
  /\ at' = 1
  /\ UNCHANGED <<text, spans, start, tokens, flagged>>

-----------------------------------------------------------------------------
(***************************************************************************)
(* _mark_protected_tokens                                                  *)
(***************************************************************************)
\* Fault: only the start is compared.
IsProtectedFrom(t) == \E s \in spans : s.start <= t.start /\ t.start < s.end

\* _is_token_protected
IsProtected(t) == \E s \in spans : s.start <= t.start /\ t.end <= s.end

MarkToken ==
  /\ phase = "mark"
  /\ at <= Len(tokens)
  /\ flagged' = IF IsProtected(tokens[at]) THEN flagged \cup {at} ELSE flagged
  /\ at' = at + 1
  /\ UNCHANGED <<phase, text, spans, start, tokens>>

MarkDone ==
  /\ phase = "mark"
  /\ at > Len(tokens)
  /\ phase' = "done"
  /\ UNCHANGED <<text, spans, start, at, tokens, flagged>>

TokenizerNext ==
  \/ OpenToken
  \/ ExtendToken
  \/ CloseToken
  \/ TokenizeDone
  \/ MarkToken
  \/ MarkDone

TokenizerSpec == TokenizerInit /\ [][TokenizerNext]_tokenizerVars

-----------------------------------------------------------------------------
(***************************************************************************)
(* Properties.                                                             *)
(***************************************************************************)
\* Every variable has its type.
TokenizerTypeOK ==
  /\ phase \in {"scan", "run", "mark", "done"}
  /\ text \in Texts
  /\ spans \subseteq Span(Len(text))
  /\ start \in 0 .. Len(text)
  /\ at \in Nat
  /\ tokens \in Seq(Token)
  /\ flagged \subseteq DOMAIN tokens

Tokenized == phase \in {"mark", "done"}

\* Where the reading has got to.
Read == IF phase = "scan" THEN at ELSE IF phase = "run" THEN start ELSE Len(text)

\* "reconstruct(tokenize(text)) == text" (tokenizer.py:1): the tokens follow
\* each other from the start of the text to where it has been read.
TokensTile ==
  /\ \A k \in DOMAIN tokens :
       /\ tokens[k].start = IF k = 1 THEN 0 ELSE tokens[k - 1].end
       /\ tokens[k].start < tokens[k].end
       /\ k = Len(tokens) => tokens[k].end = Read
  /\ tokens = <<>> => Read = 0

\* A boundary of the text is where its class of characters changes.
Boundary(p) == p = 0 \/ p = Len(text) \/ ClassAt(p - 1) # ClassAt(p)

\* Tokens end exactly at the boundaries: "Adjacent characters of the same
\* class are grouped into one token" (tokenizer.py:33).
TokensEndAtBoundaries ==
  \A p \in 1 .. Read : Boundary(p) <=> \E k \in DOMAIN tokens : tokens[k].end = p

\* The tokens are the runs of the text, all of them and in their order.
TokensAreRuns == TokensTile /\ TokensEndAtBoundaries

\* A protected span that begins and ends at boundaries is protected in whole,
\* however many tokens it has, and no token that sticks out of all spans is.
AlignedSpansProtected ==
  phase = "done" =>
    /\ \A s \in spans : Boundary(s.start) /\ Boundary(s.end) =>
         \A p \in s.start .. s.end - 1 :
           \E k \in flagged : tokens[k].start <= p /\ p < tokens[k].end
    /\ \A k \in flagged : \A p \in tokens[k].start .. tokens[k].end - 1 :
         \E s \in spans : s.start <= p /\ p < s.end

=============================================================================
