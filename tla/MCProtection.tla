---------------------------- MODULE MCProtection ----------------------------
(***************************************************************************)
(* Protection with matchers like those of resources/matchers.  "http"      *)
(* stands for the start of a URL and "@b.co" for the end of an e-mail      *)
(* address; "g" is a unit and "ng" a word that is none.                    *)
(***************************************************************************)
EXTENDS Protection

MCTypes == {"URL", "EMAIL", "UNIT", "NUMBER"}
MCNumerals == <<"0", "1", "2", "3", "4">>
MCDigits == {"0", "1", "2"}
MCWords == {"g", "ng"} \cup MCTypes
MCSymbols == MCTypes \cup ToSet(MCNumerals) \cup MCWords \cup {"<<", ">>", "_", "http", "@b.co", " "}

MCMatchers ==
  <<[type |-> "EMAIL", priority |-> 7], [type |-> "URL", priority |-> 7],
    [type |-> "UNIT", priority |-> 4], [type |-> "NUMBER", priority |-> 3]>>

\* Texts of up to five symbols, without placeholders.
PlainTexts ==
  BoundedSeq({"1", "g", "ng", " ", "@b.co", "http"}, 5)

\* All nonempty pieces [i, j) of a text, of whose symbols Holds.
Pieces(t, Holds(_)) ==
  {s \in Span(Len(t)) : Holds(SubSeq(t, s.start + 1, s.end))}

\* Leftmost matches that do not overlap, each as long as it can be.
Longest(t, set) ==
  LET long == {s \in set : \A r \in set : r.start <= s.start /\ s.end <= r.end => r = s}
      free == {s \in long : \A r \in long : Overlaps(r, s) => r = s \/ s.start < r.start}
  IN  SetToSortSeq(free, LAMBDA a, b : a.start < b.start)

Local(x) == x \in MCWords \cup MCDigits \cup {"_"}
IsEmail(x) == /\ Len(x) > 1 /\ x[Len(x)] = "@b.co"
              /\ \A i \in 1 .. Len(x) - 1 : Local(x[i])
IsUrl(x) == /\ Len(x) > 1 /\ x[1] = "http"
            /\ \A i \in 2 .. Len(x) : x[i] # " "
IsNumber(x) == \A i \in DOMAIN x : x[i] \in MCDigits
IsUnit(x) ==
  \E n \in 1 .. Len(x) - 1 :
    /\ \A i \in 1 .. n : x[i] \in MCDigits
    /\ \A i \in n + 1 .. Len(x) - 1 : x[i] = " "
    /\ x[Len(x)] = "g"

\* A unit ends at the end of a word: "\b" in the pattern.
AtBoundary(t, s) == s.end = Len(t) \/ ~Local(t[s.end + 1])

MCFind(m, t) ==
  CASE Matchers[m].type = "EMAIL" -> Longest(t, Pieces(t, IsEmail))
    [] Matchers[m].type = "URL" -> Longest(t, Pieces(t, IsUrl))
    [] Matchers[m].type = "UNIT" ->
         Longest(t, {s \in Pieces(t, IsUnit) : AtBoundary(t, s)})
    [] Matchers[m].type = "NUMBER" -> Longest(t, Pieces(t, IsNumber))
=============================================================================
