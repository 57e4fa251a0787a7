----------------------------- MODULE Evaluation -----------------------------
(***************************************************************************)
(* Stage 7, stage7_evaluation: what is measured of one corrected example,  *)
(* and the report over a data set.  Rates are kept as fractions of the     *)
(* same denominators, <<numerator, denominator>>.                          *)
(***************************************************************************)
EXTENDS EditDistance, CharNormalizer, Lists

\* str.split(): the words between runs of white space.
Split(text) ==
  LET Starts == {i \in DOMAIN text :
                   text[i] \notin Whitespace /\ (i = 1 \/ text[i - 1] \in Whitespace)}
      Ends == {i \in DOMAIN text :
                 text[i] \notin Whitespace /\ (i = Len(text) \/ text[i + 1] \in Whitespace)}
      from == InOrder(Starts, Ascending(Starts))
      to == InOrder(Ends, Ascending(Ends))
  IN  [k \in DOMAIN from |-> SubSeq(text, from[k], to[k])]

\* Fault: the rate divides by what was predicted.
ErrorRateOfPredicted(predicted, expected) ==
  IF predicted = <<>> THEN <<IF expected = <<>> THEN 0 ELSE 1, 1>>
  ELSE <<Levenshtein(predicted, expected), Len(predicted)>>

\* cer of texts, wer of lists of words; an empty expectation is met or not.
ErrorRate(predicted, expected) ==
  IF expected = <<>> THEN <<IF predicted = <<>> THEN 0 ELSE 1, 1>>
  ELSE <<Levenshtein(predicted, expected), Len(expected)>>

cer(predicted, expected) == ErrorRate(predicted, expected)
wer(predicted, expected) == ErrorRate(Split(predicted), Split(expected))

HasPart(text, part) ==
  \E k \in 0 .. Len(text) - Len(part) : SubSeq(text, k + 1, k + Len(part)) = part

evaluate_one(example, result) ==
  LET output == result.corrected
      accepted == output \in example.allowed \cup {example.expected}
      changed == output # example.input
  IN  [output |-> output,
       exact |-> output = example.expected,
       accepted |-> accepted,
       cer_before |-> cer(example.input, example.expected),
       cer_after |-> cer(output, example.expected),
       wer_before |-> wer(example.input, example.expected),
       wer_after |-> wer(output, example.expected),
       changed |-> changed,
       overcorrected |-> example.should_change = "no" /\ changed,
       undercorrected |-> example.should_change = "yes" /\ ~accepted,
       protected_violation |-> \E p \in example.protected : ~HasPart(output, p),
       changes_count |-> Len(result.changes)]

Plus(a, b) == <<a[1] * b[2] + b[1] * a[2], a[2] * b[2]>>
Total(rates) ==
  LET sum[k \in 0 .. Len(rates)] ==
        IF k = 0 THEN <<0, 1>> ELSE Plus(sum[k - 1], rates[k])
  IN  sum[Len(rates)]

\* (before - after) / before; the average divides out.
_safe_improvement(before, after) ==
  IF before[1] = 0 THEN 0 ELSE before[1] * after[2] - after[1] * before[2]

CountOf(evaluations, Test(_)) == Cardinality({i \in DOMAIN evaluations : Test(evaluations[i])})

build_report(evaluations) ==
  [total |-> Len(evaluations),
   exact_matches |-> CountOf(evaluations, LAMBDA e : e.exact),
   accepted_outputs |-> CountOf(evaluations, LAMBDA e : e.accepted),
   changed_examples |-> CountOf(evaluations, LAMBDA e : e.changed),
   overcorrections |-> CountOf(evaluations, LAMBDA e : e.overcorrected),
   undercorrections |-> CountOf(evaluations, LAMBDA e : e.undercorrected),
   protected_violations |-> CountOf(evaluations, LAMBDA e : e.protected_violation),
   cer_improvement |->
     _safe_improvement(Total([i \in DOMAIN evaluations |-> evaluations[i].cer_before]),
                       Total([i \in DOMAIN evaluations |-> evaluations[i].cer_after])),
   wer_improvement |->
     _safe_improvement(Total([i \in DOMAIN evaluations |-> evaluations[i].wer_before]),
                       Total([i \in DOMAIN evaluations |-> evaluations[i].wer_after]))]
=============================================================================
