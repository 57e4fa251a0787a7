----------------------------- MODULE EditDistance ---------------------------
(***************************************************************************)
(* The Levenshtein distance: _levenshtein of the candidate sources and     *)
(* edit_distance of the evaluation compute the same table row by row.      *)
(***************************************************************************)
EXTENDS Naturals, Sequences, FiniteSetsExt

\* Row i of the table, from the row before it and the i-th element of a.
NextRow(prev, ai, i, b) ==
  LET curr[j \in 0 .. Len(b)] ==
        IF j = 0 THEN i
        ELSE Min({curr[j - 1] + 1, prev[j] + 1,
                  prev[j - 1] + (IF ai = b[j] THEN 0 ELSE 1)})
  IN  curr

Levenshtein(a, b) ==
  LET row[i \in 0 .. Len(a)] ==
        IF i = 0 THEN [j \in 0 .. Len(b) |-> j] ELSE NextRow(row[i - 1], a[i], i, b)
  IN  row[Len(a)][Len(b)]
=============================================================================
