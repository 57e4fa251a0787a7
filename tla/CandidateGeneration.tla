------------------------- MODULE CandidateGeneration ------------------------
(***************************************************************************)
(* Stage 4 (stage4_candidates/generator.py): one generator object.  A      *)
(* caller asks for the candidates of one token, which are cached, or of a  *)
(* document.  Each source is asked in turn; a source that raises keeps     *)
(* what it had yielded; the candidates are then tagged with phrase         *)
(* evidence, merged by text, ranked and trimmed.                           *)
(***************************************************************************)
EXTENDS Sources, TokenCache

CONSTANTS
  Lexicons,           \* the lexicons considered
  Words,              \* the texts asked for with generate_token
  Documents,          \* the documents: token sequences with protected spans
  SourcesEnabled,     \* the sources the configuration registers
  MaxCandidates,      \* max_candidates_per_token
  KeepOriginalFirst,  \* keep_original_first
  IdentityTypes,      \* identity_token_types
  MaxCalls            \* bound on the calls of a behaviour

ASSUME ConfigAssumption ==
  /\ MaxCandidates \in Nat \ {0}
  /\ KeepOriginalFirst \in BOOLEAN
  /\ MaxCalls \in Nat

\* The indexes of a lexicon lead to lists, of texts and of entries that each
\* have a surface and a frequency.
IsEntryList(list) ==
  IsList(list) /\ \A i \in DOMAIN list : IsList(list[i].surface) /\ list[i].freq \in Int

ASSUME LexiconsAssumption ==
  \A lex \in Lexicons :
    /\ \A key \in DOMAIN lex.syllableIndex : IsEntryList(lex.syllableIndex[key])
    /\ \A key \in DOMAIN lex.wordIndex : IsEntryList(lex.wordIndex[key])
    /\ \A text \in DOMAIN lex.ocrData : IsList(lex.ocrData[text])
    /\ \A text \in DOMAIN lex.abbrevData : IsList(lex.abbrevData[text].expansions)

ASSUME WordsAssumption == \A w \in Words : IsList(w)

\* The tokens of a document and its spans are intervals of the text, and no
\* token is empty (tokenize makes none).
ASSUME DocumentsAssumption ==
  \A d \in Documents :
    /\ IsList(d.tokens)
    /\ \A i \in DOMAIN d.tokens :
         /\ IsList(d.tokens[i].text)
         /\ d.tokens[i].start \in Int /\ d.tokens[i].end \in Int
         /\ d.tokens[i].start < d.tokens[i].end
    /\ \A s \in d.spans : s.start \in Int /\ s.end \in Int

VARIABLES
  lexicon,      \* the generator's lexicon
  cache,        \* its TokenCache
  calls,        \* the calls so far
  phase,        \* "idle", "tokens", "sources" or "merge"
  document,     \* the document in work, [tokens, spans]; no tokens in a token call
  at,           \* the token in work, by its position in the document
  word,         \* the text in work
  source,       \* the source that is next
  proposals,    \* the proposals so far
  output,       \* the token_candidates of the document so far
  stats,        \* the statistics of the document
  returned      \* the last list generate_token gave back, with what was asked

vars == <<lexicon, cache, calls, phase, document, at, word, source, proposals,
          output, stats, returned>>
work == <<document, at, word, source, proposals>>

Registered(name) == IF name \in SourcesEnabled THEN <<name>> ELSE <<>>

SourceOrder ==
  Registered("original") \o Registered("ocr_confusion") \o Registered("syllable_map")
  \o Registered("word_lexicon") \o Registered("abbreviation")
  \o Registered("domain_specific") \o Registered("edit_distance")

Ask(name, lex, w) ==
  CASE name = "original" -> IdentityProposals(lex, w)
    [] name = "ocr_confusion" -> OcrProposals(lex, w)
    [] name = "syllable_map" -> SyllableProposals(lex, w)
    [] name = "word_lexicon" -> WordProposals(lex, w)
    [] name = "abbreviation" -> AbbreviationProposals(lex, w)
    [] name = "domain_specific" -> DomainProposals(lex, w)
    [] name = "edit_distance" -> EditDistanceProposals(lex, w)

\* A proposal with an empty text raises: the source ends there, unheard.
Yielded(props) ==
  LET empty == {i \in DOMAIN props : props[i].text = <<>>} IN
  IF empty = {} THEN props ELSE SubSeq(props, 1, Min(empty) - 1)

\* Fault: an exception ends the loop over the sources.
SourceAfterRaise(props) ==
  IF \E i \in DOMAIN props : props[i].text = <<>> THEN Len(SourceOrder) + 1 ELSE source + 1

\* The loop goes on, also after a source that raised.
SourceAfter(props) == source + 1

-----------------------------------------------------------------------------
(***************************************************************************)
(* _merge_proposals, rank_candidates and trim_candidate_list               *)
(***************************************************************************)
Texts(props) == {props[i].text : i \in DOMAIN props}

Present(S) == S \ {Absent}
MaxOrAbsent(S) == IF Present(S) = {} THEN Absent ELSE Max(Present(S))
MinOrAbsent(S) == IF Present(S) = {} THEN Absent ELSE Min(Present(S))

MergedCandidate(props, text, w) ==
  LET mine == {i \in DOMAIN props : props[i].text = text} IN
  [text |-> text, original |-> text = w,
   sources |-> {props[i].source : i \in mine},
   evidence |-> Cardinality(mine),
   prior |-> Max({0} \cup {props[i].prior : i \in mine}),
   distance |-> MinOrAbsent({props[i].distance : i \in mine}),
   known |-> \E i \in mine : props[i].known,
   syllableFreq |-> MaxOrAbsent({props[i].syllableFreq : i \in mine}),
   wordFreq |-> MaxOrAbsent({props[i].wordFreq : i \in mine}),
   tokenCount |-> Max({1} \cup {props[i].tokenCount : i \in mine})]

\* Fault: a text moves to the place of its last proposal.
MergeLatest(props, w) ==
  LET latest == {i \in DOMAIN props :
                   \A j \in i + 1 .. Len(props) : props[j].text # props[i].text}
  IN  Pick([i \in DOMAIN props |-> MergedCandidate(props, props[i].text, w)], latest)

\* One candidate per text, in the order of the first proposal of each.
Merge(props, w) ==
  LET first == {i \in DOMAIN props : \A j \in 1 .. i - 1 : props[j].text # props[i].text}
  IN  Pick([i \in DOMAIN props |-> MergedCandidate(props, props[i].text, w)], first)

OrZero(x) == IF x = Absent THEN 0 ELSE x

compute_prior_score(c) ==
  LET sum == Max({Weight[s] : s \in c.sources} \cup {0})
             + (IF c.known THEN 50 ELSE 0)
             + (3 * OrZero(c.syllableFreq)) \div 10
             + (15 * OrZero(c.wordFreq)) \div 100
             + (IF c.original THEN 50 ELSE 0)
             + 20 * Min({c.evidence, 5})
  IN  Max({0, Min({1000, sum})})

\* A distance of 0 counts like none: "edit_distance or 999".
SortKey(c) ==
  <<compute_prior_score(c), OrZero(c.wordFreq), OrZero(c.syllableFreq), c.evidence,
    -(IF c.distance \in {Absent, 0} THEN 999 ELSE c.distance)>>

Above(k, l) ==
  \E n \in DOMAIN k : k[n] > l[n] /\ \A m \in 1 .. n - 1 : k[m] = l[m]

\* Which place comes before which: the reverse sort is stable.
Before(keys) ==
  {p \in (DOMAIN keys) \X (DOMAIN keys) :
     \/ Above(keys[p[1]], keys[p[2]])
     \/ keys[p[1]] = keys[p[2]] /\ p[1] < p[2]}

Sorted(cands) ==
  LET order == InOrder(DOMAIN cands, Before([i \in DOMAIN cands |-> SortKey(cands[i])]))
  IN  [k \in DOMAIN cands |-> cands[order[k]]]

Originals(cands) == Pick(cands, {i \in DOMAIN cands : cands[i].original})
Others(cands) == Pick(cands, {i \in DOMAIN cands : ~cands[i].original})

rank_candidates(cands) ==
  IF KeepOriginalFirst
  THEN Originals(Sorted(cands)) \o Others(Sorted(cands))
  ELSE Sorted(cands)

\* Fault: the original is cut like the others.
trim_plain(cands) == SubSeq(Sorted(cands), 1, MaxCandidates)

trim_candidate_list(cands) ==
  LET ranked == Sorted(cands) IN
  IF KeepOriginalFirst /\ Originals(ranked) # <<>>
  THEN Originals(ranked) \o
       SubSeq(Others(ranked), 1, Min({Len(Others(ranked)), MaxCandidates - 1}))
  ELSE SubSeq(ranked, 1, MaxCandidates)

Finished(props, w) ==
  LET ranked == rank_candidates(Merge(props, w)) IN
  IF Len(ranked) > MaxCandidates THEN trim_candidate_list(ranked) ELSE ranked

\* _make_identity_candidates and _make_protected_candidates
Identity(w) ==
  <<[text |-> w, original |-> TRUE, sources |-> {"original"}, evidence |-> 1,
     prior |-> Weight["original"], distance |-> Absent, known |-> FALSE,
     syllableFreq |-> Absent, wordFreq |-> Absent, tokenCount |-> 1]>>

-----------------------------------------------------------------------------
NoDocument == [tokens |-> <<>>, spans |-> {}]
NoStats == [total |-> 0, protected |-> 0, skipped |-> 0, generated |-> 0,
            candidates |-> 0, most |-> 0, hits |-> 0]

Init ==
  /\ lexicon \in Lexicons
  /\ cache = EmptyCache
  /\ calls = 0
  /\ phase = "idle"
  /\ document = NoDocument
  /\ at = 0
  /\ word = <<>>
  /\ source = 1
  /\ proposals = <<>>
  /\ output = <<>>
  /\ stats = NoStats
  /\ returned = [asked |-> <<>>, protected |-> FALSE, candidates |-> <<>>]

\* Fault: a protected and an unprotected request share an entry.
KeyOfText(w, protected) == <<w>>

\* The cache key; the configuration of a generator never changes.
Key(w, protected) == <<w, protected>>

\* generate_token: from the cache, at once when protected, or from the sources.
GenerateToken(w, protected) ==
  /\ phase = "idle"
  /\ calls < MaxCalls
  /\ calls' = calls + 1
  /\ LET key == Key(w, protected)
         asked == AfterGet(cache, key)
         Answer(c) == [asked |-> w, protected |-> protected, candidates |-> c]
     IN  \/ /\ Holds(cache, key)
            /\ cache' = asked
            /\ returned' = Answer(CacheValue(cache, key))
            /\ UNCHANGED <<work, phase>>
         \/ /\ ~Holds(cache, key) /\ protected
            /\ cache' = AfterPut(asked, key, Identity(w))
            /\ returned' = Answer(Identity(w))
            /\ UNCHANGED <<work, phase>>
         \/ /\ ~Holds(cache, key) /\ ~protected
            /\ cache' = asked
            /\ phase' = "sources"
            /\ document' = NoDocument
            /\ at' = 0
            /\ word' = w
            /\ source' = 1
            /\ proposals' = <<>>
            /\ UNCHANGED returned
  /\ UNCHANGED <<lexicon, output, stats>>

\* generate_document, before its loop.
GenerateDocument(d) ==
  /\ phase = "idle"
  /\ calls < MaxCalls
  /\ calls' = calls + 1
  /\ phase' = "tokens"
  /\ document' = d
  /\ at' = 1
  /\ output' = <<>>
  /\ stats' = NoStats
  /\ UNCHANGED <<lexicon, cache, word, source, proposals, returned>>

\* Fault: a token at the very start of a span is missed.
IsProtectedInside(token, spans) ==
  \/ token.protected
  \/ token.type \in {"NUMBER", "UNIT"}
  \/ \E s \in spans : s.start < token.start /\ token.end <= s.end

IsProtected(token, spans) ==
  \/ token.protected
  \/ token.type \in {"NUMBER", "UNIT"}
  \/ \E s \in spans : s.start <= token.start /\ token.end <= s.end

IsIdentityOnly(token, spans) ==
  IsProtected(token, spans) \/ token.type \in IdentityTypes

\* The end of an iteration of generate_document.
Emit(cands) ==
  LET token == document.tokens[at]
      protected == IsProtected(token, document.spans)
      skipped == Len(cands) = 1 /\ cands[1].original
  IN  /\ output' = Append(output, [text |-> token.text, protected |-> protected,
                                   candidates |-> cands])
      /\ stats' = [stats EXCEPT
           !.total = @ + 1,
           !.protected = IF protected THEN @ + 1 ELSE @,
           !.skipped = IF skipped THEN @ + 1 ELSE @,
           !.generated = IF skipped THEN @ ELSE @ + 1,
           !.candidates = @ + Len(cands),
           !.most = Max({@, Len(cands)})]
      /\ at' = at + 1

\* generate_for_token_index, up to the sources.
NextToken ==
  /\ phase = "tokens"
  /\ at <= Len(document.tokens)
  /\ LET token == document.tokens[at] IN
     \/ /\ IsIdentityOnly(token, document.spans)
        /\ Emit(Identity(token.text))
        /\ UNCHANGED <<phase, word, source, proposals>>
     \/ /\ ~IsIdentityOnly(token, document.spans)
        /\ phase' = "sources"
        /\ word' = token.text
        /\ source' = 1
        /\ proposals' = <<>>
        /\ UNCHANGED <<at, output, stats>>
  /\ UNCHANGED <<lexicon, cache, calls, document, returned>>

DocumentDone ==
  /\ phase = "tokens"
  /\ at > Len(document.tokens)
  /\ phase' = "idle"
  /\ stats' = [stats EXCEPT !.hits = cache.hits]
  /\ UNCHANGED <<lexicon, cache, calls, work, output, returned>>

\* Phase 1 of _generate_for_request: the next source that is not phrase evidence.
AskSource ==
  /\ phase = "sources"
  /\ source <= Len(SourceOrder)
  /\ LET props == Ask(SourceOrder[source], lexicon, word) IN
     /\ proposals' = proposals \o Yielded(props)
     /\ source' = SourceAfter(props)
  /\ UNCHANGED <<lexicon, cache, calls, phase, document, at, word, output, stats, returned>>

\* Phase 2: the candidate texts are a set, and may come in any order.
AskPhraseEvidence ==
  /\ phase = "sources"
  /\ source > Len(SourceOrder)
  /\ phase' = "merge"
  /\ LET texts == IF proposals = <<>> THEN {word} ELSE Texts(proposals)
         tagged == {t \in texts : /\ "phrase_specific" \in SourcesEnabled
                                  /\ document.tokens # <<>>
                                  /\ FormsPhrase(lexicon, document.tokens, at, t)}
     IN  \E order \in SetToSeqs(tagged) :
           proposals' = proposals \o Yielded(
             [i \in DOMAIN order |->
                Proposal(order[i], "phrase_specific", Weight["phrase_specific"])])
  /\ UNCHANGED <<lexicon, cache, calls, document, at, word, source, output, stats, returned>>

\* Phase 3, and the return to the caller.
FinishToken ==
  /\ phase = "merge"
  /\ LET cands == Finished(proposals, word) IN
     \/ /\ document.tokens # <<>>
        /\ Emit(cands)
        /\ phase' = "tokens"
        /\ UNCHANGED <<cache, returned>>
     \/ /\ document.tokens = <<>>
        /\ cache' = AfterPut(cache, Key(word, FALSE), cands)
        /\ returned' = [asked |-> word, protected |-> FALSE, candidates |-> cands]
        /\ phase' = "idle"
        /\ UNCHANGED <<at, output, stats>>
  /\ UNCHANGED <<lexicon, calls, document, word, source, proposals>>

Next ==
  \/ \E w \in Words, p \in BOOLEAN : GenerateToken(w, p)
  \/ \E d \in Documents : GenerateDocument(d)
  \/ NextToken
  \/ DocumentDone
  \/ AskSource
  \/ AskPhraseEvidence
  \/ FinishToken

Spec == Init /\ [][Next]_vars

-----------------------------------------------------------------------------
(***************************************************************************)
(* Properties                                                              *)
(***************************************************************************)
\* The lists given back so far, each with its text.
Answers ==
  {[text |-> output[i].text, candidates |-> output[i].candidates] : i \in DOMAIN output}
  \cup {[text |-> returned.asked, candidates |-> returned.candidates]}

\* What the sources propose for w when no context is at hand.
AllProposals(lex, w) ==
  FlattenSeq([k \in DOMAIN SourceOrder |-> Yielded(Ask(SourceOrder[k], lex, w))])

\* Stage 5 keeps only the first candidates of a token and Stage 6 compares with
\* the original: whatever the sources propose, fail at, and trimming cuts, the
\* first candidate of a nonempty text is that text, once, and no text comes twice.
OriginalFirst ==
  \A a \in Answers :
    a.text # <<>> =>
      /\ Len(a.candidates) \in 1 .. MaxCandidates
      /\ a.candidates[1].text = a.text
      /\ \A i, j \in DOMAIN a.candidates :
           a.candidates[i].text = a.candidates[j].text => i = j

\* The cache changes nothing but the time (cache.py): each of its entries is what
\* a fresh generation would give for that text and that protection, and for no
\* other; it stays within its size, and what was asked for last, also when that
\* was a hit, is what will be evicted last.
CacheTransparent ==
  /\ \A i \in DOMAIN cache.store :
       \E w \in Words, p \in BOOLEAN :
         /\ cache.store[i].key = Key(w, p)
         /\ cache.store[i].value =
              IF p THEN Identity(w) ELSE Finished(AllProposals(lexicon, w), w)
         /\ \A v \in Words, q \in BOOLEAN : Key(v, q) = Key(w, p) => v = w /\ p = q
  /\ Len(cache.store) <= Max({1, MaxSize})
  /\ cache.store # <<>> =>
       Last(cache.store).key = Key(returned.asked, returned.protected)

\* A source that raises costs no other source its proposals: before the merge,
\* every text of a source whose proposals are all nonempty has been collected.
OtherSourcesHeard ==
  phase = "merge" =>
    \A k \in DOMAIN SourceOrder :
      LET props == Ask(SourceOrder[k], lexicon, word) IN
      <<>> \notin Texts(props) => Texts(props) \subseteq Texts(proposals)

\* A token that lies under a protected span, or is protected by itself, gets no
\* candidate but itself.
ProtectedAlone ==
  \A i \in DOMAIN output \cap DOMAIN document.tokens :
    LET token == document.tokens[i]
        covered == \E s \in document.spans :
                     token.start .. token.end - 1 \subseteq s.start .. s.end - 1
    IN  token.protected \/ covered =>
          /\ Len(output[i].candidates) = 1
          /\ output[i].candidates[1].text = token.text

\* The candidate texts reach the phrase source as a set, whose order differs from
\* one process to the next: the answer does not depend on it.
EvidenceOrderIrrelevant ==
  phase = "merge" =>
    LET IsEvidence(p) == p.source = "phrase_specific"
        evidence == Pick(proposals, {i \in DOMAIN proposals : IsEvidence(proposals[i])})
        others == Pick(proposals, {i \in DOMAIN proposals : ~IsEvidence(proposals[i])})
    IN  Finished(proposals, word) = Finished(others \o Reverse(evidence), word)
=============================================================================
