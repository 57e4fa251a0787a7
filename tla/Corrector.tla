----------------------------- MODULE Corrector ------------------------------
(***************************************************************************)
(* The composition (pipeline/corrector.py, context.py): an evaluation of a *)
(* few examples calls correct_text for each of them; correct_text takes    *)
(* the cached default corrector or builds one, and the corrector takes the *)
(* text through its stages.  Any stage may raise.                          *)
(*                                                                         *)
(* The stages modelled in modules of their own appear here by what they    *)
(* hand over: protect by spans that lie apart, wherever they begin and end *)
(* (Protection), tokenize by the words (Tokenizer), the windows by at most *)
(* one change of each word that is free of protection                      *)
(* (CandidateGeneration, WindowDecision), the phrases by one change over a *)
(* whole island that only adds accents (PhraseRestoration).                *)
(***************************************************************************)
EXTENDS Normalizer, CaseMask, Evaluation, Spans, Lists

CONSTANTS
  Datasets,       \* the evaluations run: [examples, default, config], where
                  \* `default' says that correct_text is given no configuration
  Configs,        \* the configurations
  DefaultConfig,  \* PipelineConfig()
  Replacements,   \* the words the stages may write
  Detected(_),    \* the sets of spans that the matchers may leave in a text
  MaxInputChars   \* max_input_chars

ASSUME CorrectorAssumption ==
  /\ DefaultConfig \in Configs
  /\ \A c \in Configs : DOMAIN c = {"normalize", "mask", "protect", "phrases", "fail_closed"}
  /\ MaxInputChars \in Nat
  /\ \A d \in Datasets :
       /\ IsList(d.examples) /\ d.examples # <<>>
       /\ \A k \in DOMAIN d.examples :
            IsList(d.examples[k].input) /\ IsList(d.examples[k].expected)
  /\ \A r \in Replacements : IsList(r)

VARIABLES
  dataset,        \* the evaluation being run
  evaluations,    \* the examples evaluated so far
  default,        \* _get_default_corrector: "absent" until a build succeeded
  stage,          \* where the call in work is, "call" between two calls
  doc,            \* the normalized document of the call: text and statistics
  mask,           \* its case mask, <<>> when there is none
  working,        \* `normalized', the text that the stages look at
  spans,          \* its protected spans
  changes,        \* the changes of the windows, then those accepted
  phrases,        \* the changes of the phrase restoration
  result          \* what the last call gave back

vars == <<dataset, evaluations, default, stage, doc, mask, working, spans,
          changes, phrases, result>>
inner == <<doc, mask, working, spans, changes, phrases>>

Stages == <<"normalize", "protect", "generate", "phrases", "decide", "rebuild">>
After(s) == Stages[CHOOSE k \in 2 .. Len(Stages) : Stages[k - 1] = s]

Example == dataset.examples[Len(evaluations) + 1]
Config == IF dataset.default THEN DefaultConfig ELSE dataset.config

Nothing == [text |-> <<>>, stats |-> <<>>]
Idle == [status |-> "none", corrected |-> <<>>, changes |-> <<>>, failed_at |-> "none"]

Init ==
  /\ dataset \in Datasets
  /\ evaluations = <<>>
  /\ default = "absent"
  /\ stage = "call"
  /\ doc = Nothing
  /\ mask = <<>>
  /\ working = <<>>
  /\ spans = {}
  /\ changes = <<>>
  /\ phrases = <<>>
  /\ result = Idle

-----------------------------------------------------------------------------
Answer(status, corrected, log) ==
  /\ stage' = "answered"
  /\ result' = [status |-> status, corrected |-> corrected, changes |-> log,
                failed_at |-> stage]
  /\ UNCHANGED <<dataset, evaluations, default>>

\* The exceptions that the caller of correct_text sees.
Raised == {"dependency", "too_large", "error"}

\* build_pipeline_context finds no lexicon or no n-gram store; lru_cache
\* keeps no exception.
BuildFails ==
  /\ stage = "call"
  /\ dataset.default => default = "absent"
  /\ Answer("dependency", <<>>, <<>>)
  /\ UNCHANGED inner

\* The corrector is there or is built, and the input is looked at.
Enter ==
  /\ stage = "call"
  /\ default' = IF dataset.default THEN "ready" ELSE default
  /\ IF Len(Example.input) > MaxInputChars
     THEN stage' = "answered" /\ result' = [Idle EXCEPT !.status = "too_large"]
     ELSE IF Example.input = <<>>
     THEN stage' = "answered" /\ result' = [Idle EXCEPT !.status = "ok"]
     ELSE stage' = "normalize" /\ result' = Idle
  /\ doc' = Nothing
  /\ mask' = <<>>
  /\ working' = <<>>
  /\ spans' = {}
  /\ changes' = <<>>
  /\ phrases' = <<>>
  /\ UNCHANGED <<dataset, evaluations>>

\* An exception in any stage: the text comes back as it was given, or the
\* caller gets the exception.
StageRaises ==
  /\ stage \in Range(Stages)
  /\ IF Config.fail_closed
     THEN Answer("fail_closed", Example.input, <<>>)
     ELSE Answer("error", <<>>, <<>>)
  /\ UNCHANGED inner

Go ==
  /\ stage' = After(stage)
  /\ UNCHANGED <<dataset, evaluations, default, result>>

Normalize ==
  /\ stage = "normalize"
  /\ doc' = IF Config.normalize THEN normalize(Example.input, Steps)
            ELSE [text |-> Example.input, stats |-> <<>>]
  /\ mask' = IF Config.mask THEN <<create_case_mask(doc'.text)>> ELSE <<>>
  /\ working' = IF Config.mask THEN mask'[1].working ELSE doc'.text
  /\ Go
  /\ UNCHANGED <<spans, changes, phrases>>

-----------------------------------------------------------------------------
Slice(text, s) == SubSeq(text, s.start + 1, s.end)

\* The words of the text: its runs of letters, as intervals.
WordSpans(text) ==
  {s \in Span(Len(text)) :
     /\ \A i \in s.start + 1 .. s.end : IsAlpha(text[i])
     /\ s.start > 0 => ~IsAlpha(text[s.start])
     /\ s.end < Len(text) => ~IsAlpha(text[s.end + 1])}

\* Words with nothing but spaces between them are one island.
Island(text, a, b) ==
  /\ a \in WordSpans(text)
  /\ b \in WordSpans(text)
  /\ a.start < b.start
  /\ \A i \in a.start + 1 .. b.end : IsAlpha(text[i]) \/ text[i] = " "

\* What protect may hand over: spans in the text that lie apart (SpansApart of
\* Protection).  They may hold several words and begin or end inside one.
Fitting(text) ==
  {S \in Detected(text) :
     S \subseteq Span(Len(text)) /\ \A p, q \in S : p = q \/ ~Overlaps(p, q)}

\* When protect raises, or is switched off, there are no spans.
Protect ==
  /\ stage = "protect"
  /\ spans' \in IF Config.protect THEN {{}} \cup Fitting(working) ELSE {{}}
  /\ Go
  /\ UNCHANGED <<doc, mask, working, changes, phrases>>

Generate ==
  /\ stage = "generate"
  /\ Go
  /\ UNCHANGED inner

\* A word with its accents put back, or as it is.
Restored(w) == {w} \cup {r \in Replacements : to_no_tone_key(r) = to_no_tone_key(w)}

\* char_end of an edge: the end of its last word.
CharEnd(b) == b.end

\* The change over the island from word a to word b, separators kept.
IslandChange(text, a, b, first, last) ==
  [start |-> a.start, end |-> CharEnd(b), original |-> SubSeq(text, a.start + 1, b.end),
   replacement |-> first \o SubSeq(text, a.end + 1, b.start) \o last, phrase |-> TRUE]

IslandChanges(text) ==
  UNION {{IslandChange(text, q[1], q[2], first, last) :
            first \in Restored(Slice(text, q[1])), last \in Restored(Slice(text, q[2]))} :
         q \in {r \in WordSpans(text) \X WordSpans(text) : Island(text, r[1], r[2])}}

Phrases ==
  /\ stage = "phrases"
  /\ phrases' \in IF Config.phrases
                  THEN {<<>>} \cup {<<c>> : c \in {d \in IslandChanges(working) :
                                                     d.original # d.replacement}}
                  ELSE {<<>>}
  /\ Go
  /\ UNCHANGED <<doc, mask, working, spans, changes>>

\* Fault: only a word inside a span is left alone, not one a span is inside of.
FreeInside(s) == \A p \in spans : ~(p.start < s.start /\ s.end < p.end)

\* A protected word has only itself as a candidate.
Free(s) == \A p \in spans : ~Covers(p, s)

TokenChange(s) ==
  {[start |-> s.start, end |-> s.end, original |-> Slice(working, s),
    replacement |-> r, phrase |-> FALSE] : r \in Replacements \ {Slice(working, s)}}

\* Changes in the order of their positions; no two begin together.
InTextOrder(C) == InOrder(C, {q \in C \X C : q[1].start < q[2].start})

\* The windows' changes: at most one of each word, from left to right.
Decide ==
  /\ stage = "decide"
  /\ \E S \in SUBSET {s \in WordSpans(working) : Free(s)} :
       \E f \in [S -> UNION {TokenChange(s) : s \in S}] :
         /\ \A s \in S : f[s] \in TokenChange(s)
         /\ changes' = InTextOrder(Range(f))
  /\ Go
  /\ UNCHANGED <<doc, mask, working, spans, phrases>>

\* resolve_overlapping_changes and _merge_phrase_changes (see Reconstruction):
\* a phrase replaces the changes it covers.
Accepted ==
  InTextOrder({c \in Range(changes) : \A p \in Range(phrases) : ~Overlaps(c, p)} \cup
              Range(phrases))

\* Fault: the positions after a change are not those of the text before it.
apply_changes_shifted(text, accepted) ==
  LET Splice(done, c) ==
        SubSeq(done, 1, c.start) \o c.replacement \o SubSeq(done, c.end + 1, Len(done))
  IN  FoldLeft(Splice, text, accepted)

\* From left to right: the text up to the change, then what replaces it.
apply_changes(text, accepted) ==
  LET done[k \in 0 .. Len(accepted)] ==
        IF k = 0 THEN [pieces |-> <<>>, cursor |-> 0]
        ELSE IF accepted[k].start < done[k - 1].cursor THEN done[k - 1]
        ELSE [pieces |-> done[k - 1].pieces
                         \o SubSeq(text, done[k - 1].cursor + 1, accepted[k].start)
                         \o accepted[k].replacement,
              cursor |-> accepted[k].end]
      all == done[Len(accepted)]
  IN  all.pieces \o SubSeq(text, all.cursor + 1, Len(text))

Rebuild ==
  /\ stage = "rebuild"
  /\ LET corrected == apply_changes(working, Accepted) IN
     Answer("ok",
            IF mask = <<>> THEN corrected ELSE apply_case_mask(corrected, mask[1]),
            Accepted)
  /\ UNCHANGED inner

\* The evaluation takes the answer; an exception ends it without a report.
Evaluate ==
  /\ stage = "answered"
  /\ result.status \notin Raised
  /\ evaluations' = Append(evaluations, evaluate_one(Example, result))
  /\ stage' = IF Len(evaluations') < Len(dataset.examples) THEN "call" ELSE "report"
  /\ UNCHANGED <<dataset, default, result, inner>>

Abort ==
  /\ stage = "answered"
  /\ result.status \in Raised
  /\ stage' = "aborted"
  /\ UNCHANGED <<dataset, evaluations, default, result, inner>>

\* The evaluation is run again, in the same process, after it was aborted.
Again ==
  /\ stage = "aborted"
  /\ result.status = "dependency"
  /\ evaluations' = <<>>
  /\ stage' = "call"
  /\ UNCHANGED <<dataset, default, result, inner>>

Pipeline == Enter \/ BuildFails \/ StageRaises \/ Normalize \/ Protect \/ Generate
            \/ Phrases \/ Decide \/ Rebuild

Next == Pipeline \/ Evaluate \/ Abort \/ Again

Spec == Init /\ [][Next]_vars

-----------------------------------------------------------------------------
Ok == stage = "answered" /\ result.status = "ok" /\ doc.text # <<>>

\* The positions in the change log, followed from the text as it was given to
\* the text that came back: where Stage 1 counted nothing it changed nothing,
\* so the log speaks of the given text, too; and whatever the changes do to
\* the length, between two of them stands what stood there before.
OffsetsHold ==
  Ok => LET log == result.changes
            shift[k \in 0 .. Len(log)] ==
              IF k = 0 THEN 0
              ELSE shift[k - 1] + Len(log[k].replacement) - (log[k].end - log[k].start)
            From(k) == IF k = 0 THEN 0 ELSE log[k].end
            To(k) == IF k = Len(log) THEN Len(working) ELSE log[k + 1].start
        IN  /\ Config.normalize /\ (\A k \in DOMAIN doc.stats : doc.stats[k] = 0) =>
                 \A c \in Range(log) :
                   /\ c.end <= Len(Example.input)
                   /\ Lower(Slice(Example.input, c)) = Lower(c.original)
            /\ \A k \in 0 .. Len(log) :
                 SubSeq(Lower(result.corrected), From(k) + shift[k] + 1, To(k) + shift[k]) =
                 Lower(SubSeq(working, From(k) + 1, To(k)))

\* Protection reaches as far as the tokens that lie inside a span: a stretch of
\* a span whose words do is still in the text that comes back, up to its case,
\* unless a phrase was written over it (see ProtectedUntouched of
\* PhraseRestoration for those).  A span that cuts no word is such a stretch;
\* of any other, the words it cuts may be changed, although "Mark tokens that
\* overlap protected spans" (corrector.py:275) says they may not.
ProtectedSurvives ==
  Ok => \A s \in spans : \A stretch \in Span(Len(working)) :
    /\ Covers(s, stretch)
    /\ \A w \in WordSpans(working) : Overlaps(w, stretch) => Covers(s, w)
    /\ \A p \in Range(phrases) : ~Overlaps(p, stretch)
    => HasPart(Lower(result.corrected), Lower(Slice(working, stretch)))

\* The characters before the first change that alters the length.
StablePart ==
  LET shifts == {c.start : c \in {d \in Range(result.changes) :
                                    Len(d.replacement) # d.end - d.start}}
  IN  IF shifts = {} THEN Len(doc.text) ELSE Min(shifts)

\* The module's promise to restore the original casing (case_mask.py:6), as
\* far as it is kept: up to the first change of length a letter has the case
\* it had, and behind it no capital is invented.  A text of the TITLE pattern
\* that does not begin with its first letter is the exception.
CaseKept ==
  Ok /\ mask # <<>> /\ (mask[1].pattern = "TITLE" => IsAlpha(doc.text[1])) =>
    /\ \A i \in 1 .. StablePart :
         IsAlpha(doc.text[i]) =>
           \/ IsUpper(result.corrected[i]) <=> IsUpper(doc.text[i])
           \/ \E c \in Range(result.changes) :
                c.start < i /\ i <= c.end /\ ~IsAlpha(c.replacement[i - c.start])
    /\ mask[1].pattern # "UPPER" =>
         Counted(result.corrected, IsUpper) <= Counted(doc.text, IsUpper)
    /\ mask[1].pattern = "UPPER" => ~\E i \in DOMAIN result.corrected : IsLower(result.corrected[i])

\* The measures agree with one another: no error of an example is left exactly
\* when its output is what was expected, a text that came back as it was has
\* the errors it had, and a report shows no loss when every text came nearer
\* to what was expected, and no gain when every text went further away.
MeasuresAgree ==
  /\ \A e \in Range(evaluations) :
       /\ e.exact <=> e.cer_after[1] = 0
       /\ e.exact => e.accepted /\ e.wer_after[1] = 0
       /\ ~e.changed => e.cer_before = e.cer_after /\ e.wer_before = e.wer_after
  /\ stage = "report" =>
       LET Before(i) == Levenshtein(dataset.examples[i].input, dataset.examples[i].expected)
           Behind(i) == Levenshtein(evaluations[i].output, dataset.examples[i].expected)
           gain == build_report(evaluations).cer_improvement
       IN  /\ (\A i \in DOMAIN evaluations : Behind(i) <= Before(i)) => gain >= 0
           /\ (\A i \in DOMAIN evaluations : Behind(i) >= Before(i)) => gain <= 0

\* src/tests/test_normalizer.py:367: "Invariant: normalize(normalize(text))
\* == normalize(text)."
NormalizeIdempotent ==
  doc.text # <<>> /\ Config.normalize => normalize(doc.text, Steps).text = doc.text
=============================================================================
