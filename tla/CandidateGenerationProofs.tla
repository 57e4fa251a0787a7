---------------------- MODULE CandidateGenerationProofs ----------------------
(***************************************************************************)
(* For every lexicon, every document and every configuration: a token that *)
(* is protected, or lies under a protected span, gets no candidate but     *)
(* itself; every source is heard that does not raise; the cache changes    *)
(* nothing; the order of the phrase evidence changes nothing; and, when    *)
(* the configuration keeps the original first, every answer begins with    *)
(* it and is within its limit.                                             *)
(*                                                                         *)
(* The answers follow the tokens: in the loop of generate_document, one    *)
(* has been given for each token before the one in work (IInv).  The       *)
(* proposals are those of the sources asked so far (Collecting), so that   *)
(* what is merged, and with it every entry of the cache (Caching), is a    *)
(* function of the lexicon and the text.                                   *)
(***************************************************************************)
EXTENDS CandidateGeneration, TLAPS, SequenceTheorems, FiniteSetTheorems, FunctionTheorems

-----------------------------------------------------------------------------
(***************************************************************************)
(* Filtered and sorted lists (module Lists).                               *)
(***************************************************************************)
\* R orders the elements of S one after the other.
Orders(R, S) ==
  /\ \A i \in S : <<i, i>> \notin R
  /\ \A i, j \in S : i # j => <<i, j>> \in R \/ <<j, i>> \in R
  /\ \A i, j, k \in S : <<i, j>> \in R /\ <<j, k>> \in R => <<i, k>> \in R

\* How many elements come before i.
Rank(S, R, i) == Cardinality({j \in S : <<j, i>> \in R})

LEMMA RankFacts ==
  ASSUME NEW S, IsFiniteSet(S), NEW R, Orders(R, S)
  PROVE  /\ Cardinality(S) \in Nat
         /\ \A i \in S : Rank(S, R, i) \in 0 .. Cardinality(S) - 1
         /\ \A i, j \in S : <<i, j>> \in R => Rank(S, R, i) < Rank(S, R, j)
         /\ \A i, j \in S : Rank(S, R, i) = Rank(S, R, j) => i = j
<1> DEFINE Below(i) == {j \in S : <<j, i>> \in R}
<1>1. Cardinality(S) \in Nat
  BY FS_CardinalityType
<1>2. \A i \in S : Below(i) \in SUBSET S /\ i \notin Below(i)
  BY DEF Orders
<1>3. \A i \in S : IsFiniteSet(Below(i)) /\ Cardinality(Below(i)) \in Nat
  <2>1. SUFFICES ASSUME NEW i \in S
                 PROVE  IsFiniteSet(Below(i)) /\ Cardinality(Below(i)) \in Nat
    OBVIOUS
  <2>2. Below(i) \in SUBSET S
    BY <1>2
  <2> HIDE DEF Below
  <2> QED
    BY <2>2, FS_Subset, FS_CardinalityType
<1>4. ASSUME NEW i \in S PROVE Cardinality(Below(i)) < Cardinality(S)
  <2>1. Below(i) \in SUBSET S /\ Below(i) # S
    BY <1>2, <1>4
  <2>2. Cardinality(Below(i)) \in Nat
    BY <1>3, <1>4
  <2> HIDE DEF Below
  <2>3. Cardinality(Below(i)) <= Cardinality(S) /\ Cardinality(Below(i)) # Cardinality(S)
    BY <2>1, FS_Subset
  <2> QED
    BY <1>1, <2>2, <2>3
<1>5. ASSUME NEW i \in S, NEW j \in S, <<i, j>> \in R
      PROVE  Cardinality(Below(i)) < Cardinality(Below(j))
  <2>1. Below(i) \in SUBSET Below(j)
    BY <1>5 DEF Orders
  <2>2. i \in Below(j) /\ i \notin Below(i)
    BY <1>2, <1>5
  <2>3. IsFiniteSet(Below(j)) /\ Cardinality(Below(i)) \in Nat /\ Cardinality(Below(j)) \in Nat
    BY <1>3, <1>5
  <2> HIDE DEF Below
  <2>4. /\ Cardinality(Below(i)) <= Cardinality(Below(j))
        /\ Cardinality(Below(i)) # Cardinality(Below(j))
    BY <2>1, <2>2, <2>3, FS_Subset
  <2> QED
    BY <2>3, <2>4
<1>6. \A i \in S : Rank(S, R, i) = Cardinality(Below(i))
  BY DEF Rank
<1> HIDE DEF Below
<1>7. \A i \in S : Rank(S, R, i) \in Nat /\ Rank(S, R, i) < Cardinality(S)
  BY <1>3, <1>4, <1>6
<1>8. \A i, j \in S : <<i, j>> \in R => Rank(S, R, i) < Rank(S, R, j)
  BY <1>5, <1>6
<1>9. \A i, j \in S : Rank(S, R, i) = Rank(S, R, j) => i = j
  <2>1. SUFFICES ASSUME NEW i \in S, NEW j \in S, Rank(S, R, i) = Rank(S, R, j), i # j
                 PROVE  FALSE
    OBVIOUS
  <2>2. <<i, j>> \in R \/ <<j, i>> \in R
    BY <2>1 DEF Orders
  <2>3. Rank(S, R, i) < Rank(S, R, j) \/ Rank(S, R, j) < Rank(S, R, i)
    BY <1>8, <2>2
  <2> QED
    BY <1>7, <2>1, <2>3
<1> QED
  BY <1>1, <1>7, <1>8, <1>9

\* A sorted list has every element of S once, each before those it precedes.
LEMMA InOrderFacts ==
  ASSUME NEW S, IsFiniteSet(S), NEW R, Orders(R, S)
  PROVE  /\ Cardinality(S) \in Nat
         /\ InOrder(S, R) \in [1 .. Cardinality(S) -> S]
         /\ \A k, l \in 1 .. Cardinality(S) :
              k < l => <<InOrder(S, R)[k], InOrder(S, R)[l]>> \in R
         /\ \A k, l \in 1 .. Cardinality(S) :
              InOrder(S, R)[k] = InOrder(S, R)[l] => k = l
         /\ \A i \in S : \E k \in 1 .. Cardinality(S) : InOrder(S, R)[k] = i
<1> DEFINE n == Cardinality(S)
           r(i) == Rank(S, R, i)
           f == [i \in S |-> r(i) + 1]
           order == InOrder(S, R)
<1>1. /\ n \in Nat
      /\ \A i \in S : r(i) \in 0 .. n - 1
      /\ \A i, j \in S : <<i, j>> \in R => r(i) < r(j)
      /\ \A i, j \in S : r(i) = r(j) => i = j
  BY RankFacts
<1>2. order = [k \in 1 .. n |-> CHOOSE i \in S : r(i) = k - 1]
  BY DEF InOrder, Rank
<1> HIDE DEF n, r, order
<1>3. f \in [S -> 1 .. n]
  BY <1>1
<1>4. \A i, j \in S : f[i] = f[j] => i = j
  BY <1>1
<1>5. \A t \in 1 .. n : \E i \in S : f[i] = t
  <2>1. IsFiniteSet(1 .. n) /\ Cardinality(1 .. n) = n
    BY <1>1, FS_Interval
  <2> HIDE DEF f
  <2>2. f \in Injection(S, 1 .. n)
    BY <1>3, <1>4, Fun_IsInj
  <2>3. f \in Surjection(S, 1 .. n)
    BY <2>1, <2>2, FS_Injection DEF n
  <2> QED
    BY <2>3, Fun_SurjectionProperties
<1>6. \A k \in 1 .. n : order[k] \in S /\ r(order[k]) = k - 1
  <2>1. SUFFICES ASSUME NEW k \in 1 .. n PROVE order[k] \in S /\ r(order[k]) = k - 1
    OBVIOUS
  <2>2. PICK i \in S : r(i) + 1 = k
    BY <1>5
  <2>3. r(i) = k - 1
    BY <1>1, <2>2
  <2>4. order[k] = CHOOSE j \in S : r(j) = k - 1
    BY <1>2
  <2> QED
    BY <2>3, <2>4
<1>7. order \in [1 .. n -> S]
  BY <1>2, <1>6
<1>8. \A k, l \in 1 .. n : order[k] = order[l] => k = l
  <2>1. SUFFICES ASSUME NEW k \in 1 .. n, NEW l \in 1 .. n, order[k] = order[l] PROVE k = l
    OBVIOUS
  <2>2. k - 1 = l - 1
    BY <1>6, <2>1
  <2> QED
    BY <1>1, <2>2
<1>9. \A k, l \in 1 .. n : k < l => <<order[k], order[l]>> \in R
  <2>1. SUFFICES ASSUME NEW k \in 1 .. n, NEW l \in 1 .. n, k < l
                 PROVE  <<order[k], order[l]>> \in R
    OBVIOUS
  <2>2. order[k] # order[l]
    BY <1>1, <1>8, <2>1
  <2>3. ~(<<order[l], order[k]>> \in R)
    BY <1>1, <1>6, <2>1
  <2> QED
    BY <1>6, <2>2, <2>3 DEF Orders
<1>10. \A i \in S : \E k \in 1 .. n : order[k] = i
  <2>1. SUFFICES ASSUME NEW i \in S PROVE \E k \in 1 .. n : order[k] = i
    OBVIOUS
  <2>2. r(i) + 1 \in 1 .. n /\ (r(i) + 1) - 1 = r(i)
    BY <1>1
  <2>3. r(order[r(i) + 1]) = r(i) /\ order[r(i) + 1] \in S
    BY <1>6, <2>2
  <2> QED
    BY <1>1, <2>2, <2>3
<1> QED
  BY <1>1, <1>7, <1>8, <1>9, <1>10 DEF n, order

\* The places a filter keeps: each once, from left to right.
Places(order, I) ==
  /\ order \in [1 .. Cardinality(I) -> I]
  /\ \A k, l \in 1 .. Cardinality(I) : k < l => order[k] < order[l]
  /\ \A k, l \in 1 .. Cardinality(I) : order[k] = order[l] => k = l
  /\ \A i \in I : \E k \in 1 .. Cardinality(I) : order[k] = i

LEMMA PickFacts ==
  ASSUME NEW list, NEW n \in Nat, NEW I \in SUBSET (1 .. n)
  PROVE  /\ IsFiniteSet(I) /\ Cardinality(I) \in Nat /\ Cardinality(I) <= n
         /\ \E order : /\ Places(order, I)
                       /\ Pick(list, I) = [k \in 1 .. Cardinality(I) |-> list[order[k]]]
<1> DEFINE R == Ascending(I)
           order == InOrder(I, R)
<1>1. IsFiniteSet(1 .. n) /\ Cardinality(1 .. n) = n
  BY FS_Interval
<1>2. IsFiniteSet(I) /\ Cardinality(I) \in Nat /\ Cardinality(I) <= n
  BY <1>1, FS_Subset, FS_CardinalityType
<1>3. \A i, j \in I : <<i, j>> \in R <=> i < j
  BY DEF Ascending
<1>4. \A i \in I : i \in Int
  OBVIOUS
<1> HIDE DEF R
<1>5. Orders(R, I)
  BY <1>3, <1>4 DEF Orders
<1>6. /\ order \in [1 .. Cardinality(I) -> I]
      /\ \A k, l \in 1 .. Cardinality(I) : k < l => <<order[k], order[l]>> \in R
      /\ \A k, l \in 1 .. Cardinality(I) : order[k] = order[l] => k = l
      /\ \A i \in I : \E k \in 1 .. Cardinality(I) : order[k] = i
  BY <1>2, <1>5, InOrderFacts
<1>7. Pick(list, I) = [k \in 1 .. Cardinality(I) |-> list[order[k]]]
  BY DEF Pick, R
<1> HIDE DEF order
<1>8. Places(order, I)
  BY <1>3, <1>6 DEF Places
<1> QED
  BY <1>2, <1>7, <1>8

\* Of the sets of a family over a finite set one is minimal.
LEMMA LeastSet ==
  ASSUME NEW S, IsFiniteSet(S), NEW T, T \subseteq SUBSET S, T # {}
  PROVE  \E x \in T : \A y \in T : ~(y \subseteq x /\ y # x)
<1>1. T \subseteq FiniteSubsetsOf(S)
  BY FS_Subset DEF FiniteSubsetsOf
<1>2. PICK x \in T : \A y \in T : ~(<<y, x>> \in StrictSubsetOrdering(S))
  BY <1>1, FS_StrictSubsetOrderingWellFounded, WFMin
<1> QED
  BY <1>2 DEF StrictSubsetOrdering

\* Of some numbers one is the least.
LEMMA LeastNumber ==
  ASSUME NEW T, T \subseteq Nat, T # {}
  PROVE  \E x \in T : \A y \in T : x <= y
<1>1. PICK t \in T : TRUE
  OBVIOUS
<1>2. IsFiniteSet(0 .. t)
  BY <1>1, FS_Interval
<1> DEFINE R == 0 .. t
           Below == {x \in SUBSET R : \E y \in T : y <= t /\ x = 0 .. y}
<1>3. R \in Below
  BY <1>1
<1>4. PICK x \in Below : \A y \in Below : ~(y \subseteq x /\ y # x)
  <2> HIDE DEF Below, R
  <2>1. IsFiniteSet(R) /\ Below \subseteq SUBSET R /\ Below # {}
    BY <1>2, <1>3 DEF Below, R
  <2> QED
    BY <2>1, LeastSet
<1>5. PICK m \in T : m <= t /\ x = 0 .. m
  BY <1>4
<1>6. ASSUME NEW y \in T, ~(m <= y) PROVE FALSE
  <2>1. y \in Nat /\ m \in Nat /\ t \in Nat
    BY <1>1
  <2>2. y < m /\ y <= t
    BY <1>5, <1>6, <2>1
  <2>3. 0 .. y \in Below
    BY <2>1, <2>2
  <2>4. 0 .. y \subseteq x /\ 0 .. y # x
    <3>1. m \in x /\ m \notin 0 .. y
      BY <1>5, <2>1, <2>2
    <3> QED
      BY <1>5, <2>1, <2>2, <3>1
  <2> QED
    BY <1>4, <2>3, <2>4
<1> QED
  BY <1>6


-----------------------------------------------------------------------------
(***************************************************************************)
(* Functions defined by recursion over 0 .. n.                             *)
(***************************************************************************)
LEMMA RecursionExists ==
  ASSUME NEW V, NEW x \in V, NEW n \in Nat, NEW step \in [1 .. n -> [V -> V]]
  PROVE  \E f \in [0 .. n -> V] : f[0] = x /\ \A i \in 1 .. n : f[i] = step[i][f[i - 1]]
<1> DEFINE Good(m, f) == /\ f \in [0 .. m -> V] /\ f[0] = x
                         /\ \A i \in 1 .. m : f[i] = step[i][f[i - 1]]
           Bad == {m \in Nat : m <= n /\ ~(\E f : Good(m, f))}
<1>1. SUFFICES ASSUME Bad # {} PROVE FALSE
  <2>1. \E f : Good(n, f)
    BY <1>1
  <2> QED
    BY <2>1
<1>2. PICK m \in Bad : \A k \in Bad : m <= k
  <2>1. Bad \subseteq Nat
    OBVIOUS
  <2> HIDE DEF Bad
  <2> QED
    BY <1>1, <2>1, LeastNumber
<1>3. m \in Nat /\ m <= n /\ ~(\E f : Good(m, f))
  OBVIOUS
<1>4. m # 0
  <2>1. Good(0, [i \in 0 .. 0 |-> x])
    OBVIOUS
  <2> QED
    BY <1>3, <2>1
<1>5. PICK f : Good(m - 1, f)
  <2>1. m - 1 \in Nat /\ ~(m <= m - 1) /\ m - 1 <= n
    BY <1>3, <1>4
  <2>2. m - 1 \notin Bad
    BY <1>2, <2>1
  <2> QED
    BY <2>1, <2>2
<1> DEFINE g == [i \in 0 .. m |-> IF i = m THEN step[m][f[m - 1]] ELSE f[i]]
<1>6. \A i \in 0 .. m - 1 : f[i] \in V
  BY <1>5
<1>7. m - 1 \in 0 .. m - 1 /\ m \in 1 .. n /\ m \in 0 .. m
  BY <1>3, <1>4
<1>8. step[m][f[m - 1]] \in V
  BY <1>6, <1>7
<1>9. g \in [0 .. m -> V]
  <2>1. \A i \in 0 .. m : i # m => i \in 0 .. m - 1
    BY <1>3
  <2> QED
    BY <1>6, <1>8, <2>1
<1>10. g[0] = x
  BY <1>3, <1>4, <1>5
<1>11. \A i \in 1 .. m : g[i] = step[i][g[i - 1]]
  <2>1. SUFFICES ASSUME NEW i \in 1 .. m PROVE g[i] = step[i][g[i - 1]]
    OBVIOUS
  <2>2. i \in 0 .. m /\ i - 1 \in 0 .. m /\ i - 1 # m
    BY <1>3
  <2>3. g[i - 1] = f[i - 1]
    BY <2>2
  <2>4. CASE i = m
    BY <2>2, <2>3, <2>4
  <2>5. CASE i # m
    <3>1. i \in 1 .. m - 1
      BY <1>3, <2>5
    <3>2. f[i] = step[i][f[i - 1]]
      BY <1>5, <3>1
    <3> QED
      BY <2>2, <2>3, <2>5, <3>2
  <2> QED
    BY <2>4, <2>5
<1>12. Good(m, g)
  BY <1>9, <1>10, <1>11
<1> QED
  BY <1>3, <1>12

\* What holds at 0 and passes from one number to the next holds up to n.
LEMMA UpTo ==
  ASSUME NEW n \in Nat, NEW G, 0 \in G, \A i \in 1 .. n : i - 1 \in G => i \in G
  PROVE  0 .. n \subseteq G
<1> DEFINE Bad == {i \in 0 .. n : i \notin G}
<1>1. SUFFICES ASSUME Bad # {} PROVE FALSE
  OBVIOUS
<1>2. PICK m \in Bad : \A k \in Bad : m <= k
  <2>1. Bad \subseteq Nat
    OBVIOUS
  <2> HIDE DEF Bad
  <2> QED
    BY <1>1, <2>1, LeastNumber
<1>3. m \in 0 .. n /\ m \notin G /\ m # 0
  OBVIOUS
<1>4. m \in 1 .. n /\ m - 1 \in 0 .. n /\ ~(m <= m - 1)
  BY <1>3
<1>5. m - 1 \in G
  BY <1>2, <1>4
<1> QED
  BY <1>3, <1>4, <1>5

LEMMA MinOfThree ==
  ASSUME NEW x \in Nat, NEW y \in Nat, NEW z \in Nat
  PROVE  Min({x, y, z}) \in Nat
<1>1. \E v \in {x, y, z} : \A u \in {x, y, z} : v <= u
  <2>1. CASE x <= y /\ x <= z
    BY <2>1
  <2>2. CASE y <= x /\ y <= z
    BY <2>2
  <2>3. CASE z <= x /\ z <= y
    BY <2>3
  <2> QED
    BY <2>1, <2>2, <2>3
<1> QED
  BY <1>1 DEF Min

LEMMA NextRowType ==
  ASSUME NEW b, Len(b) \in Nat, NEW prev \in [0 .. Len(b) -> Nat], NEW ch, NEW i \in Nat
  PROVE  NextRow(prev, ch, i, b) \in [0 .. Len(b) -> Nat]
<1> DEFINE m == Len(b)
           cost(j) == IF ch = b[j] THEN 0 ELSE 1
           e(j, v) == Min({v + 1, prev[j] + 1, prev[j - 1] + cost(j)})
           Row(c) == c = [j \in 0 .. m |-> IF j = 0 THEN i ELSE e(j, c[j - 1])]
           step == [j \in 1 .. m |-> [v \in Nat |-> e(j, v)]]
           chosen == CHOOSE c : Row(c)
<1>1. m \in Nat
  OBVIOUS
<1>2. NextRow(prev, ch, i, b) = chosen
  BY DEF NextRow
<1>3. \A j \in 1 .. m, v \in Nat : e(j, v) \in Nat
  <2>1. SUFFICES ASSUME NEW j \in 1 .. m, NEW v \in Nat PROVE e(j, v) \in Nat
    OBVIOUS
  <2>2. j \in 0 .. m /\ j - 1 \in 0 .. m
    BY <1>1
  <2>3. prev[j] \in Nat /\ prev[j - 1] \in Nat /\ cost(j) \in Nat
    BY <2>2
  <2>4. v + 1 \in Nat /\ prev[j] + 1 \in Nat /\ prev[j - 1] + cost(j) \in Nat
    BY <2>3
  <2> HIDE DEF cost
  <2> QED
    BY <2>4, MinOfThree
<1> HIDE DEF e, chosen, m
<1>4. step \in [1 .. m -> [Nat -> Nat]]
  BY <1>3
<1>5. \A j \in 1 .. m, v \in Nat : step[j][v] = e(j, v)
  OBVIOUS
<1> HIDE DEF step
<1>6. PICK f \in [0 .. m -> Nat] : f[0] = i /\ \A j \in 1 .. m : f[j] = step[j][f[j - 1]]
  <2> DEFINE V == Nat
             start == i
  <2>1. start \in V /\ step \in [1 .. m -> [V -> V]]
    BY <1>4
  <2> HIDE DEF V, start
  <2>2. \E f \in [0 .. m -> V] : f[0] = start /\ \A j \in 1 .. m : f[j] = step[j][f[j - 1]]
    BY <1>1, <2>1, RecursionExists
  <2> QED
    BY <2>2 DEF V, start
<1>7. \A j \in 1 .. m : f[j] = e(j, f[j - 1])
  <2>1. SUFFICES ASSUME NEW j \in 1 .. m PROVE f[j] = e(j, f[j - 1])
    OBVIOUS
  <2>2. j - 1 \in 0 .. m
    BY <1>1
  <2> QED
    BY <1>5, <1>6, <2>2
<1>8. Row(f)
  <2>1. \A j \in 0 .. m : f[j] = IF j = 0 THEN i ELSE e(j, f[j - 1])
    <3>1. \A j \in 0 .. m : j = 0 \/ j \in 1 .. m
      BY <1>1
    <3> QED
      BY <1>6, <1>7, <3>1
  <2> QED
    BY <2>1
<1>9. Row(chosen)
  BY <1>8 DEF chosen
<1>10. \A j \in 0 .. m : chosen[j] = IF j = 0 THEN i ELSE e(j, chosen[j - 1])
  BY <1>9
<1> DEFINE G == {j \in 0 .. m : chosen[j] \in Nat}
<1>11. 0 \in G
  BY <1>1, <1>10
<1>12. \A j \in 1 .. m : j - 1 \in G => j \in G
  <2>1. SUFFICES ASSUME NEW j \in 1 .. m, chosen[j - 1] \in Nat PROVE chosen[j] \in Nat /\ j \in 0 .. m
    OBVIOUS
  <2>2. j \in 0 .. m /\ j # 0
    BY <1>1
  <2> QED
    BY <1>3, <1>10, <2>1, <2>2
<1>13. 0 .. m \subseteq G
  <2> HIDE DEF G
  <2> QED
    BY <1>1, <1>11, <1>12, UpTo
<1>14. chosen = [j \in 0 .. m |-> chosen[j]]
  <2> DEFINE h(j) == IF j = 0 THEN i ELSE e(j, chosen[j - 1])
  <2>1. chosen = [j \in 0 .. m |-> h(j)]
    BY <1>9
  <2> HIDE DEF h
  <2> QED
    BY <2>1
<1> QED
  BY <1>2, <1>13, <1>14 DEF m

\* The distance between two texts is a number.
LEMMA LevenshteinType ==
  ASSUME NEW a, NEW b, Len(a) \in Nat, Len(b) \in Nat
  PROVE  Levenshtein(a, b) \in Nat
<1> DEFINE n == Len(a)
           m == Len(b)
           V == [0 .. m -> Nat]
           first == [j \in 0 .. m |-> j]
           Rows(c) == c = [i \in 0 .. n |-> IF i = 0 THEN first ELSE NextRow(c[i - 1], a[i], i, b)]
           step == [i \in 1 .. n |-> [r \in V |-> NextRow(r, a[i], i, b)]]
           chosen == CHOOSE c : Rows(c)
<1>1. n \in Nat /\ m \in Nat
  OBVIOUS
<1>2. Levenshtein(a, b) = chosen[n][m]
  BY DEF Levenshtein
<1>3. \A i \in 1 .. n, r \in V : NextRow(r, a[i], i, b) \in V
  BY NextRowType
<1>4. first \in V
  BY <1>1
<1> HIDE DEF chosen, m, n, V, first
<1>5. step \in [1 .. n -> [V -> V]]
  BY <1>3
<1>6. \A i \in 1 .. n, r \in V : step[i][r] = NextRow(r, a[i], i, b)
  OBVIOUS
<1> HIDE DEF step
<1>7. PICK f \in [0 .. n -> V] : f[0] = first /\ \A i \in 1 .. n : f[i] = step[i][f[i - 1]]
  BY <1>1, <1>4, <1>5, RecursionExists
<1>8. \A i \in 1 .. n : f[i] = NextRow(f[i - 1], a[i], i, b)
  <2>1. SUFFICES ASSUME NEW i \in 1 .. n PROVE f[i] = NextRow(f[i - 1], a[i], i, b)
    OBVIOUS
  <2>2. i - 1 \in 0 .. n
    BY <1>1
  <2> QED
    BY <1>6, <1>7, <2>2
<1>9. Rows(f)
  <2>1. \A i \in 0 .. n : f[i] = IF i = 0 THEN first ELSE NextRow(f[i - 1], a[i], i, b)
    <3>1. \A i \in 0 .. n : i = 0 \/ i \in 1 .. n
      BY <1>1
    <3> QED
      BY <1>7, <1>8, <3>1
  <2> QED
    BY <2>1
<1>10. Rows(chosen)
  BY <1>9 DEF chosen
<1>11. \A i \in 0 .. n : chosen[i] = IF i = 0 THEN first ELSE NextRow(chosen[i - 1], a[i], i, b)
  BY <1>10
<1> DEFINE G == {i \in 0 .. n : chosen[i] \in V}
<1>12. 0 \in G
  BY <1>1, <1>4, <1>11
<1>13. \A i \in 1 .. n : i - 1 \in G => i \in G
  <2>1. SUFFICES ASSUME NEW i \in 1 .. n, chosen[i - 1] \in V PROVE chosen[i] \in V /\ i \in 0 .. n
    OBVIOUS
  <2>2. i \in 0 .. n /\ i # 0
    BY <1>1
  <2> QED
    BY <1>3, <1>11, <2>1, <2>2
<1>14. 0 .. n \subseteq G
  <2> HIDE DEF G
  <2> QED
    BY <1>1, <1>12, <1>13, UpTo
<1>15. chosen[n] \in V /\ m \in 0 .. m
  BY <1>1, <1>14
<1> QED
  BY <1>2, <1>15 DEF V

-----------------------------------------------------------------------------
(***************************************************************************)
(* Lists of anything.                                                      *)
(***************************************************************************)
LEMMA ListFacts ==
  ASSUME NEW s, IsList(s)
  PROVE  /\ Len(s) \in Nat /\ DOMAIN s = 1 .. Len(s)
         /\ s = [i \in 1 .. Len(s) |-> s[i]]
         /\ Len(s) = 0 <=> s = <<>>
BY DEF IsList

LEMMA ListMade ==
  ASSUME NEW n \in Nat, NEW f, f = [i \in 1 .. n |-> f[i]]
  PROVE  IsList(f) /\ Len(f) = n /\ DOMAIN f = 1 .. n
<1>1. DOMAIN f = 1 .. n
  OBVIOUS
<1>2. \A i \in 1 .. n : f[i] \in Range(f)
  BY <1>1 DEF Range
<1>3. f \in [1 .. n -> Range(f)]
  BY <1>2
<1> DEFINE T == Range(f)
<1>4. f \in [1 .. n -> T]
  BY <1>3
<1> HIDE DEF T
<1>5. f \in Seq(T) /\ Len(f) = n
  BY <1>4
<1> QED
  BY <1>1, <1>5 DEF IsList, T

\* Any list of elements is one.
LEMMA ListOf ==
  ASSUME NEW T, NEW s \in Seq(T)
  PROVE  IsList(s)
<1>1. Len(s) \in Nat /\ s = [i \in 1 .. Len(s) |-> s[i]]
  OBVIOUS
<1> QED
  BY <1>1, ListMade

LEMMA ListConcat ==
  ASSUME NEW s, NEW t, IsList(s), IsList(t)
  PROVE  /\ IsList(s \o t)
         /\ Len(s \o t) = Len(s) + Len(t)
         /\ \A i \in 1 .. Len(s) : (s \o t)[i] = s[i]
         /\ \A i \in 1 .. Len(t) : (s \o t)[Len(s) + i] = t[i]
<1> DEFINE T == Range(s) \cup Range(t)
<1>1. \A i \in DOMAIN s : s[i] \in T
  BY DEF Range
<1>2. \A i \in DOMAIN t : t[i] \in T
  BY DEF Range
<1>3. /\ Len(s) \in Nat /\ DOMAIN s = 1 .. Len(s) /\ s = [i \in 1 .. Len(s) |-> s[i]]
      /\ Len(t) \in Nat /\ DOMAIN t = 1 .. Len(t) /\ t = [i \in 1 .. Len(t) |-> t[i]]
  BY ListFacts
<1> HIDE DEF T
<1>4. s \in Seq(T) /\ t \in Seq(T)
  <2>1. s \in [1 .. Len(s) -> T] /\ t \in [1 .. Len(t) -> T]
    BY <1>1, <1>2, <1>3
  <2> QED
    BY <1>3, <2>1
<1>5. s \o t \in Seq(T)
  BY <1>4
<1>6. IsList(s \o t)
  BY <1>5, ListOf
<1>7. /\ Len(s \o t) = Len(s) + Len(t)
      /\ \A i \in 1 .. Len(s) + Len(t) :
           (s \o t)[i] = IF i <= Len(s) THEN s[i] ELSE t[i - Len(s)]
  BY <1>4
<1>8. \A i \in 1 .. Len(s) : (s \o t)[i] = s[i]
  <2>1. \A i \in 1 .. Len(s) : i \in 1 .. Len(s) + Len(t) /\ i <= Len(s)
    BY <1>3
  <2> QED
    BY <1>7, <2>1
<1>9. \A i \in 1 .. Len(t) : (s \o t)[Len(s) + i] = t[i]
  <2>1. \A i \in 1 .. Len(t) : /\ Len(s) + i \in 1 .. Len(s) + Len(t)
                               /\ ~(Len(s) + i <= Len(s))
                               /\ (Len(s) + i) - Len(s) = i
    BY <1>3
  <2> QED
    BY <1>7, <2>1
<1> QED
  BY <1>6, <1>7, <1>8, <1>9

LEMMA ListSub ==
  ASSUME NEW s, IsList(s), NEW m, m \in 0 .. Len(s)
  PROVE  /\ IsList(SubSeq(s, 1, m)) /\ Len(SubSeq(s, 1, m)) = m
         /\ \A i \in 1 .. m : SubSeq(s, 1, m)[i] = s[i]
<1> DEFINE T == Range(s)
<1>1. s \in Seq(T) /\ Len(s) \in Nat
  BY ListFacts DEF IsList
<1> HIDE DEF T
<1>2. m \in Nat /\ m <= Len(s)
  BY <1>1
<1>3. SubSeq(s, 1, m) \in Seq(T) /\ Len(SubSeq(s, 1, m)) = m
  BY <1>1, <1>2
<1>4. \A i \in 1 .. m : SubSeq(s, 1, m)[i] = s[i]
  BY <1>1, <1>2
<1> QED
  BY <1>3, <1>4, ListOf

\* What a filter keeps.
LEMMA ListPick ==
  ASSUME NEW s, IsList(s), NEW I \in SUBSET (DOMAIN s)
  PROVE  /\ IsFiniteSet(I) /\ Cardinality(I) \in Nat /\ Cardinality(I) <= Len(s)
         /\ IsList(Pick(s, I)) /\ Len(Pick(s, I)) = Cardinality(I)
         /\ \E order : /\ Places(order, I)
                       /\ \A k \in 1 .. Cardinality(I) : Pick(s, I)[k] = s[order[k]]
<1>1. Len(s) \in Nat /\ DOMAIN s = 1 .. Len(s)
  BY ListFacts
<1> DEFINE n == Len(s)
<1> HIDE DEF n
<1>2. n \in Nat /\ I \in SUBSET (1 .. n)
  BY <1>1 DEF n
<1>3. /\ IsFiniteSet(I) /\ Cardinality(I) \in Nat /\ Cardinality(I) <= n
      /\ \E order : /\ Places(order, I)
                    /\ Pick(s, I) = [k \in 1 .. Cardinality(I) |-> s[order[k]]]
  BY <1>2, PickFacts
<1>4. PICK order : /\ Places(order, I)
                   /\ Pick(s, I) = [k \in 1 .. Cardinality(I) |-> s[order[k]]]
  BY <1>3
<1>5. \A k \in 1 .. Cardinality(I) : Pick(s, I)[k] = s[order[k]]
  BY <1>4
<1>6. Pick(s, I) = [k \in 1 .. Cardinality(I) |-> Pick(s, I)[k]]
  BY <1>4, <1>5
<1>7. IsList(Pick(s, I)) /\ Len(Pick(s, I)) = Cardinality(I)
  BY <1>3, <1>6, ListMade
<1> QED
  BY <1>3, <1>4, <1>5, <1>7 DEF n

-----------------------------------------------------------------------------
(***************************************************************************)
(* What the sources propose.                                               *)
(***************************************************************************)
\* The numbers ranking compares are there.
Rankable(p) ==
  /\ Weight[p.source] \in Int
  /\ p.distance \in Int /\ p.syllableFreq \in Int /\ p.wordFreq \in Int

\* A list of proposals of one source.
ProposedBy(list, name) ==
  IsList(list) /\ \A i \in DOMAIN list : Rankable(list[i]) /\ list[i].source = name

LEMMA NoElements == IsList(<<>>) /\ DOMAIN <<>> = {}
BY DEF IsList

LEMMA GetEntries ==
  ASSUME NEW dict, \A key \in DOMAIN dict : IsEntryList(dict[key]), NEW key
  PROVE  IsEntryList(Get(dict, key))
<1> QED
  BY NoElements DEF Get, IsEntryList

LEMMA LookupEntries ==
  ASSUME NEW lex \in Lexicons, NEW key
  PROVE  /\ IsEntryList(get_syllable_candidates(lex, key))
         /\ IsEntryList(lookup_accentless(lex, key))
<1>1. /\ \A k \in DOMAIN lex.syllableIndex : IsEntryList(lex.syllableIndex[k])
      /\ \A k \in DOMAIN lex.wordIndex : IsEntryList(lex.wordIndex[k])
  BY LexiconsAssumption
<1>2. \A k : IsEntryList(Get(lex.syllableIndex, k)) /\ IsEntryList(Get(lex.wordIndex, k))
  BY <1>1, GetEntries
<1>3. IsEntryList(get_syllable_candidates(lex, key))
  BY <1>2 DEF get_syllable_candidates
<1> DEFINE s == Get(lex.syllableIndex, strip_accents(key))
           t == Get(lex.wordIndex, strip_accents(key))
<1>4. IsEntryList(s) /\ IsEntryList(t)
  BY <1>2
<1>5. lookup_accentless(lex, key) = s \o t
  BY DEF lookup_accentless
<1> HIDE DEF s, t
<1>6. IsList(s) /\ IsList(t)
  BY <1>4 DEF IsEntryList
<1>7. /\ IsList(s \o t)
      /\ Len(s \o t) = Len(s) + Len(t)
      /\ \A i \in 1 .. Len(s) : (s \o t)[i] = s[i]
      /\ \A i \in 1 .. Len(t) : (s \o t)[Len(s) + i] = t[i]
  BY <1>6, ListConcat
<1>8. /\ Len(s) \in Nat /\ Len(t) \in Nat /\ DOMAIN s = 1 .. Len(s) /\ DOMAIN t = 1 .. Len(t)
      /\ DOMAIN (s \o t) = 1 .. Len(s) + Len(t)
  BY <1>6, <1>7, ListFacts
<1>9. ASSUME NEW i \in DOMAIN (s \o t)
      PROVE  IsList((s \o t)[i].surface) /\ (s \o t)[i].freq \in Int
  <2>1. CASE i \in 1 .. Len(s)
    BY <1>4, <1>7, <1>8, <2>1 DEF IsEntryList
  <2>2. CASE i \notin 1 .. Len(s)
    <3>1. i - Len(s) \in 1 .. Len(t) /\ Len(s) + (i - Len(s)) = i
      BY <1>8, <1>9, <2>2
    <3>2. (s \o t)[i] = t[i - Len(s)]
      BY <1>7, <3>1
    <3> QED
      BY <1>4, <1>8, <3>1, <3>2 DEF IsEntryList
  <2> QED
    BY <2>1, <2>2
<1> QED
  BY <1>3, <1>5, <1>7, <1>9 DEF IsEntryList

\* A filtered list of entries or texts, and one proposal for each.
LEMMA PickedEntries ==
  ASSUME NEW list, IsEntryList(list), NEW I \in SUBSET (DOMAIN list)
  PROVE  IsEntryList(Pick(list, I))
<1>1. IsList(list)
  BY DEF IsEntryList
<1>2. /\ IsList(Pick(list, I)) /\ Len(Pick(list, I)) = Cardinality(I)
      /\ \E order : /\ Places(order, I)
                    /\ \A k \in 1 .. Cardinality(I) : Pick(list, I)[k] = list[order[k]]
  BY <1>1, ListPick
<1>3. PICK order : /\ Places(order, I)
                   /\ \A k \in 1 .. Cardinality(I) : Pick(list, I)[k] = list[order[k]]
  BY <1>2
<1>4. DOMAIN Pick(list, I) = 1 .. Cardinality(I)
  BY <1>2, ListFacts
<1>5. \A k \in DOMAIN Pick(list, I) : order[k] \in DOMAIN list /\ Pick(list, I)[k] = list[order[k]]
  BY <1>3, <1>4 DEF Places
<1> QED
  BY <1>2, <1>5 DEF IsEntryList

\* A number of entries off the front.
LEMMA FrontEntries ==
  ASSUME NEW list, IsEntryList(list), NEW m, m \in 0 .. Len(list)
  PROVE  IsEntryList(SubSeq(list, 1, m))
<1>1. IsList(list)
  BY DEF IsEntryList
<1>2. /\ IsList(SubSeq(list, 1, m)) /\ Len(SubSeq(list, 1, m)) = m
      /\ \A i \in 1 .. m : SubSeq(list, 1, m)[i] = list[i]
  BY <1>1, ListSub
<1>3. DOMAIN SubSeq(list, 1, m) = 1 .. m /\ DOMAIN list = 1 .. Len(list) /\ Len(list) \in Nat
  BY <1>1, <1>2, ListFacts
<1>4. \A i \in 1 .. m : i \in DOMAIN list
  BY <1>3
<1> QED
  BY <1>2, <1>3, <1>4 DEF IsEntryList

LEMMA MinOfTwo ==
  ASSUME NEW x \in Nat, NEW y \in Nat
  PROVE  Min({x, y}) \in 0 .. x
<1>1. \E v \in {x, y} : \A u \in {x, y} : v <= u
  OBVIOUS
<1> QED
  BY <1>1 DEF Min

\* The key of a text is a text of the same length.
LEMMA KeyIsText ==
  ASSUME NEW text, IsList(text)
  PROVE  IsList(to_no_tone_key(text)) /\ Len(to_no_tone_key(text)) = Len(text)
<1> DEFINE n == Len(text)
           once == strip_accents_preserve_case(text)
           twice == Lower(once)
<1>1. n \in Nat /\ DOMAIN text = 1 .. n
  BY ListFacts
<1>2. once = [i \in 1 .. n |-> once[i]]
  <2> DEFINE f(i) == Translate(VIETNAMESE_ACCENT_MAP, text[i])
  <2>1. once = [i \in 1 .. n |-> f(i)]
    BY <1>1 DEF strip_accents_preserve_case
  <2> HIDE DEF f, once
  <2> QED
    BY <2>1
<1>3. DOMAIN once = 1 .. n
  BY <1>2
<1> HIDE DEF once
<1>4. twice = [i \in 1 .. n |-> twice[i]]
  <2> DEFINE f(i) == Translate(LowerOf, once[i])
  <2>1. twice = [i \in 1 .. n |-> f(i)]
    BY <1>3 DEF Lower
  <2> HIDE DEF f, twice
  <2> QED
    BY <2>1
<1>5. to_no_tone_key(text) = twice
  BY DEF to_no_tone_key, strip_accents, once
<1> HIDE DEF twice, n
<1>6. IsList(twice) /\ Len(twice) = n
  BY <1>1, <1>4, ListMade
<1> QED
  BY <1>5, <1>6 DEF n

LEMMA PickedTexts ==
  ASSUME NEW list, IsList(list), NEW I \in SUBSET (DOMAIN list)
  PROVE  IsList(Pick(list, I)) /\ \E m \in Nat : DOMAIN Pick(list, I) = 1 .. m
BY ListPick, ListFacts

\* One proposal for each element of a list.
LEMMA OneForEach ==
  ASSUME NEW list, IsList(list), NEW f, DOMAIN f = DOMAIN list, f = [i \in DOMAIN list |-> f[i]],
         NEW name, \A i \in DOMAIN list : Rankable(f[i]) /\ f[i].source = name
  PROVE  ProposedBy(f, name)
<1>1. Len(list) \in Nat /\ DOMAIN list = 1 .. Len(list)
  BY ListFacts
<1>2. IsList(f)
  BY <1>1, ListMade
<1> QED
  BY <1>2 DEF ProposedBy

LEMMA SourceWeights == \A s \in SourceNames : Weight[s] \in Int
BY LimitsAssumption

LEMMA IdentityTyped ==
  ASSUME NEW lex, NEW w
  PROVE  /\ ProposedBy(IdentityProposals(lex, w), "original")
         /\ Len(IdentityProposals(lex, w)) = 1
         /\ IdentityProposals(lex, w)[1].text = w
<1> DEFINE p == Proposal(w, "original", Weight["original"])
<1>1. Rankable(p) /\ p.source = "original" /\ p.text = w
  BY SourceWeights DEF Rankable, Proposal, SourceNames, Absent
<1> HIDE DEF p
<1>2. IsList(<<p>>) /\ Len(<<p>>) = 1 /\ <<p>>[1] = p /\ DOMAIN <<p>> = {1}
  <2>1. <<p>> \in Seq({p})
    OBVIOUS
  <2>2. Range(<<p>>) = {p}
    BY DEF Range
  <2> QED
    BY <2>1, <2>2 DEF IsList
<1> QED
  BY <1>1, <1>2 DEF ProposedBy, IdentityProposals, p

LEMMA OcrTyped ==
  ASSUME NEW lex \in Lexicons, NEW w
  PROVE  ProposedBy(OcrProposals(lex, w), "ocr_confusion")
<1> DEFINE all == lookup_ocr(lex, w)
           some == SubSeq(all, 1, Min({Len(all), MaxOcrReplacements}))
           texts == Pick(some, {i \in DOMAIN some : some[i] # w})
           f == [i \in DOMAIN texts |-> Proposal(texts[i], "ocr_confusion", Weight["ocr_confusion"])]
<1>1. IsList(all)
  BY LexiconsAssumption, NoElements DEF lookup_ocr, Get
<1> HIDE DEF all
<1>2. Min({Len(all), MaxOcrReplacements}) \in 0 .. Len(all)
  BY <1>1, ListFacts, LimitsAssumption, MinOfTwo
<1>3. IsList(some)
  BY <1>1, <1>2, ListSub
<1> HIDE DEF some
<1>4. IsList(texts)
  BY <1>3, PickedTexts
<1> HIDE DEF texts
<1>5. \A i \in DOMAIN texts : Rankable(f[i]) /\ f[i].source = "ocr_confusion"
  BY SourceWeights DEF Rankable, Proposal, SourceNames, Absent
<1>6. DOMAIN f = DOMAIN texts /\ f = [i \in DOMAIN texts |-> f[i]]
  OBVIOUS
<1>7. OcrProposals(lex, w) = f
  BY DEF OcrProposals, texts, some, all
<1> HIDE DEF f
<1> QED
  BY <1>4, <1>5, <1>6, <1>7, OneForEach

LEMMA SyllableTyped ==
  ASSUME NEW lex \in Lexicons, NEW w, IsList(w)
  PROVE  ProposedBy(SyllableProposals(lex, w), "syllable_map")
<1> DEFINE found == get_syllable_candidates(lex, to_no_tone_key(w))
           forms == Pick(found, {i \in DOMAIN found : found[i].surface # w})
           prior(i) == Weight["syllable_map"] + forms[i].freq \div 5
           f == [i \in DOMAIN forms |->
                   [Proposal(forms[i].surface, "syllable_map", prior(i)) EXCEPT
                      !.distance = Levenshtein(w, forms[i].surface),
                      !.syllableFreq = forms[i].freq]]
<1>1. SyllableProposals(lex, w) = f
  BY DEF SyllableProposals
<1>2. IsEntryList(found)
  BY LookupEntries
<1> HIDE DEF found, prior
<1>3. IsEntryList(forms)
  BY <1>2, PickedEntries
<1> HIDE DEF forms
<1>4. \A i \in DOMAIN forms : forms[i].freq \in Int /\ Levenshtein(w, forms[i].surface) \in Int
  <2>1. \A i \in DOMAIN forms : IsList(forms[i].surface) /\ forms[i].freq \in Int
    BY <1>3 DEF IsEntryList
  <2>2. \A i \in DOMAIN forms : Len(forms[i].surface) \in Nat
    BY <2>1, ListFacts
  <2>3. Len(w) \in Nat
    BY ListFacts
  <2> QED
    BY <2>1, <2>2, <2>3, LevenshteinType
<1>5. \A i \in DOMAIN forms : Rankable(f[i]) /\ f[i].source = "syllable_map"
  <2>1. SUFFICES ASSUME NEW i \in DOMAIN forms
                 PROVE  Rankable(f[i]) /\ f[i].source = "syllable_map"
    OBVIOUS
  <2>2. f[i] = [text |-> forms[i].surface, source |-> "syllable_map", prior |-> prior(i),
                distance |-> Levenshtein(w, forms[i].surface), known |-> FALSE,
                syllableFreq |-> forms[i].freq, wordFreq |-> Absent, tokenCount |-> 1]
    BY DEF Proposal
  <2> HIDE DEF f
  <2> QED
    BY <1>4, <2>2, SourceWeights DEF Rankable, SourceNames, Absent
<1>6. DOMAIN f = DOMAIN forms /\ f = [i \in DOMAIN forms |-> f[i]]
  OBVIOUS
<1>7. IsList(forms)
  BY <1>3 DEF IsEntryList
<1> HIDE DEF f
<1> QED
  BY <1>5, <1>6, <1>1, <1>7, OneForEach

LEMMA WordTyped ==
  ASSUME NEW lex \in Lexicons, NEW w
  PROVE  ProposedBy(WordProposals(lex, w), "word_lexicon")
<1> DEFINE kinds == {"word", "unit", "name", "location", "brand"}
           found == lookup_accentless(lex, to_no_tone_key(w))
           words == Pick(found, {i \in DOMAIN found :
                                   found[i].kind \in kinds /\ found[i].surface # w})
           prior(i) == Weight["word_lexicon"] + (3 * words[i].freq) \div 10
           f == [i \in DOMAIN words |->
                   [Proposal(words[i].surface, "word_lexicon", prior(i)) EXCEPT
                      !.known = TRUE, !.wordFreq = words[i].freq]]
<1>1. WordProposals(lex, w) = f
  BY DEF WordProposals
<1>2. IsEntryList(found)
  BY LookupEntries
<1> HIDE DEF found, prior
<1>3. IsEntryList(words)
  BY <1>2, PickedEntries
<1> HIDE DEF words
<1>4. \A i \in DOMAIN words : words[i].freq \in Int
  BY <1>3 DEF IsEntryList
<1>5. \A i \in DOMAIN words : Rankable(f[i]) /\ f[i].source = "word_lexicon"
  <2>1. SUFFICES ASSUME NEW i \in DOMAIN words
                 PROVE  Rankable(f[i]) /\ f[i].source = "word_lexicon"
    OBVIOUS
  <2>2. f[i] = [text |-> words[i].surface, source |-> "word_lexicon", prior |-> prior(i),
                distance |-> Absent, known |-> TRUE,
                syllableFreq |-> Absent, wordFreq |-> words[i].freq, tokenCount |-> 1]
    BY DEF Proposal
  <2> HIDE DEF f
  <2> QED
    BY <1>4, <2>2, SourceWeights DEF Rankable, SourceNames, Absent
<1>6. DOMAIN f = DOMAIN words /\ f = [i \in DOMAIN words |-> f[i]]
  OBVIOUS
<1>7. IsList(words)
  BY <1>3 DEF IsEntryList
<1> HIDE DEF f
<1> QED
  BY <1>5, <1>6, <1>1, <1>7, OneForEach

LEMMA AbbreviationTyped ==
  ASSUME NEW lex \in Lexicons, NEW w
  PROVE  ProposedBy(AbbreviationProposals(lex, w), "abbreviation")
<1> DEFINE found == lookup_abbreviation(lex, w)
           all == IF found = <<>> THEN <<>> ELSE found[1].expansions
           texts == Pick(all, {i \in DOMAIN all : all[i] # w})
           f == [i \in DOMAIN texts |->
                   [Proposal(texts[i], "abbreviation", Weight["abbreviation"]) EXCEPT
                      !.tokenCount = CountWords(texts[i])]]
<1>1. IsList(all)
  BY LexiconsAssumption, NoElements DEF lookup_abbreviation
<1>2. AbbreviationProposals(lex, w) = f
  BY DEF AbbreviationProposals
<1> HIDE DEF all
<1>3. IsList(texts)
  BY <1>1, PickedTexts
<1> HIDE DEF texts
<1>4. \A i \in DOMAIN texts : Rankable(f[i]) /\ f[i].source = "abbreviation"
  BY SourceWeights DEF Rankable, Proposal, SourceNames, Absent
<1>5. DOMAIN f = DOMAIN texts /\ f = [i \in DOMAIN texts |-> f[i]]
  OBVIOUS
<1> HIDE DEF f
<1> QED
  BY <1>2, <1>3, <1>4, <1>5, OneForEach

LEMMA DomainTyped ==
  ASSUME NEW lex \in Lexicons, NEW w, IsList(w)
  PROVE  ProposedBy(DomainProposals(lex, w), "domain_specific")
<1> DEFINE found == lookup_accentless(lex, to_no_tone_key(w))
           entries == Pick(found, {i \in DOMAIN found :
                                     OfDomain(found[i]) /\ found[i].surface # w})
           prior(i) == Weight["domain_specific"] + entries[i].freq \div 5
           f == [i \in DOMAIN entries |->
                   [Proposal(entries[i].surface, "domain_specific", prior(i)) EXCEPT
                      !.distance = Levenshtein(w, entries[i].surface),
                      !.wordFreq = entries[i].freq]]
<1>1. DomainProposals(lex, w) = f
  BY DEF DomainProposals
<1>2. IsEntryList(found)
  BY LookupEntries
<1> HIDE DEF found, prior
<1>3. IsEntryList(entries)
  BY <1>2, PickedEntries
<1> HIDE DEF entries
<1>4. \A i \in DOMAIN entries : entries[i].freq \in Int /\ Levenshtein(w, entries[i].surface) \in Int
  <2>1. \A i \in DOMAIN entries : IsList(entries[i].surface) /\ entries[i].freq \in Int
    BY <1>3 DEF IsEntryList
  <2>2. \A i \in DOMAIN entries : Len(entries[i].surface) \in Nat
    BY <2>1, ListFacts
  <2>3. Len(w) \in Nat
    BY ListFacts
  <2> QED
    BY <2>1, <2>2, <2>3, LevenshteinType
<1>5. \A i \in DOMAIN entries : Rankable(f[i]) /\ f[i].source = "domain_specific"
  <2>1. SUFFICES ASSUME NEW i \in DOMAIN entries
                 PROVE  Rankable(f[i]) /\ f[i].source = "domain_specific"
    OBVIOUS
  <2>2. f[i] = [text |-> entries[i].surface, source |-> "domain_specific", prior |-> prior(i),
                distance |-> Levenshtein(w, entries[i].surface), known |-> FALSE,
                syllableFreq |-> Absent, wordFreq |-> entries[i].freq, tokenCount |-> 1]
    BY DEF Proposal
  <2> HIDE DEF f
  <2> QED
    BY <1>4, <2>2, SourceWeights DEF Rankable, SourceNames, Absent
<1>6. DOMAIN f = DOMAIN entries /\ f = [i \in DOMAIN entries |-> f[i]]
  OBVIOUS
<1>7. IsList(entries)
  BY <1>3 DEF IsEntryList
<1> HIDE DEF f
<1> QED
  BY <1>5, <1>6, <1>1, <1>7, OneForEach

LEMMA EditDistanceTyped ==
  ASSUME NEW lex \in Lexicons, NEW w, IsList(w)
  PROVE  ProposedBy(EditDistanceProposals(lex, w), "edit_distance")
<1> DEFINE key == to_no_tone_key(w)
           Dist(e) == Levenshtein(to_no_tone_key(e.surface), key)
           found == IF Len(w) \in MinEditLength .. MaxEditLength
                    THEN PrefixCandidates(lex, key) ELSE <<>>
           near == Pick(found, {i \in DOMAIN found :
                     /\ found[i].surface # w
                     /\ Dist(found[i]) \in 1 .. MaxEditDistance})
           three == SubSeq(near, 1, Min({3, Len(near)}))
           f == [i \in DOMAIN three |->
                   [Proposal(three[i].surface, "edit_distance",
                             Weight["edit_distance"] + three[i].freq \div 10 - 50 * Dist(three[i]))
                    EXCEPT !.distance = Dist(three[i])]]
<1>1. EditDistanceProposals(lex, w) = f
  BY DEF EditDistanceProposals
<1>2. IsEntryList(found)
  <2>1. PrefixCandidates(lex, key) = lookup_accentless(lex, key)
    BY DEF PrefixCandidates, query_prefix
  <2>2. IsEntryList(lookup_accentless(lex, key))
    BY LookupEntries
  <2>3. IsEntryList(<<>>)
    BY NoElements DEF IsEntryList
  <2> HIDE DEF key
  <2> QED
    BY <2>1, <2>2, <2>3
<1> HIDE DEF found
<1>3. IsEntryList(near)
  BY <1>2, PickedEntries
<1> HIDE DEF near
<1>4. IsEntryList(three)
  <2>1. Len(near) \in Nat
    BY <1>3, ListFacts DEF IsEntryList
  <2>2. Min({3, Len(near)}) \in 0 .. Len(near)
    <3>1. {3, Len(near)} = {Len(near), 3}
      OBVIOUS
    <3> DEFINE m == 3
    <3>2. m \in Nat /\ {3, Len(near)} = {Len(near), m}
      BY <3>1
    <3> HIDE DEF m
    <3> QED
      BY <2>1, <3>2, MinOfTwo
  <2> QED
    BY <1>3, <2>2, FrontEntries
<1> HIDE DEF three
<1>5. \A i \in DOMAIN three : Dist(three[i]) \in Int
  <2>1. \A i \in DOMAIN three : IsList(three[i].surface)
    BY <1>4 DEF IsEntryList
  <2>2. \A i \in DOMAIN three : Len(to_no_tone_key(three[i].surface)) \in Nat
    BY <2>1, KeyIsText, ListFacts
  <2>3. Len(key) \in Nat
    BY KeyIsText, ListFacts
  <2> HIDE DEF key
  <2> QED
    BY <2>2, <2>3, LevenshteinType
<1> HIDE DEF key, Dist
<1>6. \A i \in DOMAIN three : Rankable(f[i]) /\ f[i].source = "edit_distance"
  BY <1>5, SourceWeights DEF Rankable, Proposal, SourceNames, Absent
<1>7. DOMAIN f = DOMAIN three /\ f = [i \in DOMAIN three |-> f[i]]
  OBVIOUS
<1>8. IsList(three)
  BY <1>4 DEF IsEntryList
<1> HIDE DEF f
<1> QED
  BY <1>1, <1>6, <1>7, <1>8, OneForEach

-----------------------------------------------------------------------------
(***************************************************************************)
(* What the loop over the sources collects.                                *)
(***************************************************************************)
AskedNames == SourceNames \ {"phrase_specific"}

LEMMA AskTyped ==
  ASSUME NEW lex \in Lexicons, NEW w, IsList(w), NEW name \in AskedNames
  PROVE  ProposedBy(Ask(name, lex, w), name)
<1>1. CASE name = "original"
  BY <1>1, IdentityTyped DEF Ask
<1>2. CASE name = "ocr_confusion"
  BY <1>2, OcrTyped DEF Ask
<1>3. CASE name = "syllable_map"
  BY <1>3, SyllableTyped DEF Ask
<1>4. CASE name = "word_lexicon"
  BY <1>4, WordTyped DEF Ask
<1>5. CASE name = "abbreviation"
  BY <1>5, AbbreviationTyped DEF Ask
<1>6. CASE name = "domain_specific"
  BY <1>6, DomainTyped DEF Ask
<1>7. CASE name = "edit_distance"
  BY <1>7, EditDistanceTyped DEF Ask
<1> QED
  BY <1>1, <1>2, <1>3, <1>4, <1>5, <1>6, <1>7 DEF AskedNames, SourceNames

LEMMA SourceOrderFacts ==
  /\ IsList(SourceOrder) /\ Len(SourceOrder) \in Nat
  /\ DOMAIN SourceOrder = 1 .. Len(SourceOrder)
  /\ \A k \in 1 .. Len(SourceOrder) : SourceOrder[k] \in AskedNames
  /\ "original" \in SourcesEnabled => Len(SourceOrder) >= 1 /\ SourceOrder[1] = "original"
<1> DEFINE T == AskedNames
           a == Registered("original")
           b == Registered("ocr_confusion")
           c == Registered("syllable_map")
           d == Registered("word_lexicon")
           e == Registered("abbreviation")
           f == Registered("domain_specific")
           g == Registered("edit_distance")
<1>1. /\ a \in Seq(T) /\ b \in Seq(T) /\ c \in Seq(T) /\ d \in Seq(T)
      /\ e \in Seq(T) /\ f \in Seq(T) /\ g \in Seq(T)
  <2>1. \A n \in T : <<n>> \in Seq(T)
    OBVIOUS
  <2>2. <<>> \in Seq(T)
    OBVIOUS
  <2>3. \A n \in T : Registered(n) \in Seq(T)
    BY <2>1, <2>2 DEF Registered
  <2>4. {"original", "ocr_confusion", "syllable_map", "word_lexicon", "abbreviation",
         "domain_specific", "edit_distance"} \subseteq T
    BY DEF AskedNames, SourceNames
  <2> QED
    BY <2>3, <2>4
<1>2. "original" \in SourcesEnabled => a = <<"original">>
  BY DEF Registered
<1>3. SourceOrder = a \o b \o c \o d \o e \o f \o g
  BY DEF SourceOrder
<1> HIDE DEF a, b, c, d, e, f, g, T
<1> DEFINE First(s) == /\ s \in Seq(T)
                       /\ "original" \in SourcesEnabled => Len(s) >= 1 /\ s[1] = "original"
<1>4. First(a)
  BY <1>1, <1>2
<1>5. ASSUME NEW s, First(s), NEW t \in Seq(T) PROVE First(s \o t)
  <2>1. s \in Seq(T) /\ s \o t \in Seq(T) /\ Len(s) \in Nat /\ Len(t) \in Nat
        /\ Len(s \o t) = Len(s) + Len(t)
    BY <1>5
  <2>2. Len(s) >= 1 => Len(s \o t) >= 1 /\ (s \o t)[1] = s[1]
    BY <2>1
  <2> QED
    BY <1>5, <2>1, <2>2
<1> HIDE DEF First
<1>6. First(a \o b)
  BY <1>1, <1>4, <1>5
<1>7. First(a \o b \o c)
  BY <1>1, <1>5, <1>6
<1>8. First(a \o b \o c \o d)
  BY <1>1, <1>5, <1>7
<1>9. First(a \o b \o c \o d \o e)
  BY <1>1, <1>5, <1>8
<1>10. First(a \o b \o c \o d \o e \o f)
  BY <1>1, <1>5, <1>9
<1>11. First(SourceOrder)
  BY <1>1, <1>3, <1>5, <1>10
<1>12. /\ SourceOrder \in Seq(T)
       /\ "original" \in SourcesEnabled => Len(SourceOrder) >= 1 /\ SourceOrder[1] = "original"
  BY <1>11 DEF First
<1>13. /\ IsList(SourceOrder) /\ Len(SourceOrder) \in Nat
       /\ DOMAIN SourceOrder = 1 .. Len(SourceOrder)
       /\ \A k \in 1 .. Len(SourceOrder) : SourceOrder[k] \in T
  BY <1>12, ListOf
<1> QED
  BY <1>12, <1>13 DEF T

\* A source that raises keeps what it had yielded, which is never empty.
LEMMA YieldedFacts ==
  ASSUME NEW name, NEW props, ProposedBy(props, name)
  PROVE  /\ ProposedBy(Yielded(props), name)
         /\ \A i \in DOMAIN Yielded(props) : /\ i \in DOMAIN props
                                             /\ Yielded(props)[i] = props[i]
                                             /\ props[i].text # <<>>
         /\ <<>> \notin Texts(props) => Yielded(props) = props
<1> DEFINE empty == {i \in DOMAIN props : props[i].text = <<>>}
           n == Len(props)
<1>1. IsList(props) /\ n \in Nat /\ DOMAIN props = 1 .. n
  BY ListFacts DEF ProposedBy
<1>2. CASE empty = {}
  <2>1. Yielded(props) = props
    BY <1>2 DEF Yielded
  <2>2. \A i \in DOMAIN props : props[i].text # <<>>
    BY <1>2
  <2> QED
    BY <2>1, <2>2
<1>3. CASE empty # {}
  <2>1. PICK m \in empty : \A k \in empty : m <= k
    <3>1. empty \subseteq Nat
      BY <1>1
    <3> HIDE DEF empty
    <3> QED
      BY <1>3, <3>1, LeastNumber
  <2> DEFINE x == Min(empty)
  <2>2. x \in empty /\ \A k \in empty : x <= k
    <3>1. x = CHOOSE v \in empty : \A u \in empty : v <= u
      BY DEF Min
    <3> HIDE DEF empty
    <3> QED
      BY <2>1, <3>1
  <2>3. Yielded(props) = SubSeq(props, 1, x - 1)
    BY <1>3 DEF Yielded
  <2>4. x \in 1 .. n
    BY <1>1, <2>2
  <2> HIDE DEF x, n
  <2>5. x - 1 \in 0 .. n
    BY <1>1, <2>4
  <2>6. /\ IsList(SubSeq(props, 1, x - 1)) /\ Len(SubSeq(props, 1, x - 1)) = x - 1
        /\ \A i \in 1 .. x - 1 : SubSeq(props, 1, x - 1)[i] = props[i]
    BY <1>1, <2>5, ListSub DEF n
  <2>7. DOMAIN Yielded(props) = 1 .. x - 1
    BY <2>3, <2>6, ListFacts
  <2>8. \A i \in 1 .. x - 1 : i \in DOMAIN props /\ props[i].text # <<>>
    <3>1. SUFFICES ASSUME NEW i \in 1 .. x - 1 PROVE i \in DOMAIN props /\ props[i].text # <<>>
      OBVIOUS
    <3>2. i \in DOMAIN props /\ ~(x <= i)
      BY <1>1, <2>4
    <3> QED
      BY <2>2, <3>2
  <2>9. <<>> \in Texts(props)
    BY <2>2 DEF Texts
  <2>10. ProposedBy(Yielded(props), name)
    BY <2>3, <2>6, <2>7, <2>8 DEF ProposedBy
  <2> QED
    BY <2>3, <2>6, <2>7, <2>8, <2>9, <2>10
<1> QED
  BY <1>2, <1>3

\* What the k-th source adds, and what the first m have.
Piece(lex, w, k) == Yielded(Ask(SourceOrder[k], lex, w))
Collected(lex, w, m) == FlattenSeq([k \in 1 .. m |-> Piece(lex, w, k)])

LEMMA PieceFacts ==
  ASSUME NEW lex \in Lexicons, NEW w, IsList(w), NEW k \in 1 .. Len(SourceOrder)
  PROVE  /\ ProposedBy(Piece(lex, w, k), SourceOrder[k])
         /\ ProposedBy(Ask(SourceOrder[k], lex, w), SourceOrder[k])
         /\ SourceOrder[k] \in AskedNames
         /\ \A i \in DOMAIN Piece(lex, w, k) : Piece(lex, w, k)[i].text # <<>>
         /\ LET props == Ask(SourceOrder[k], lex, w) IN
            <<>> \notin Texts(props) => Piece(lex, w, k) = props
<1>1. SourceOrder[k] \in AskedNames
  BY SourceOrderFacts
<1> DEFINE name == SourceOrder[k]
           props == Ask(name, lex, w)
<1> HIDE DEF name
<1>2. ProposedBy(props, name)
  BY <1>1, AskTyped DEF name
<1> HIDE DEF props
<1>3. /\ ProposedBy(Yielded(props), name)
      /\ \A i \in DOMAIN Yielded(props) : /\ i \in DOMAIN props
                                          /\ Yielded(props)[i] = props[i]
                                          /\ props[i].text # <<>>
      /\ <<>> \notin Texts(props) => Yielded(props) = props
  BY <1>2, YieldedFacts
<1>4. Piece(lex, w, k) = Yielded(props)
  BY DEF Piece, props, name
<1> QED
  BY <1>1, <1>2, <1>3, <1>4 DEF props, name

-----------------------------------------------------------------------------
(***************************************************************************)
(* FlattenSeq.                                                             *)
(***************************************************************************)
\* What FlattenSeq builds up from the left: the first m pieces joined.
Joins(pieces, G, m) ==
  G = [i \in 1 .. m |-> IF i = 1 THEN pieces[i] ELSE G[i - 1] \o pieces[i]]

LEMMA JoinsExists ==
  ASSUME NEW pieces, NEW n \in Nat
  PROVE  \E G : Joins(pieces, G, n)
<1> DEFINE Bad == {m \in Nat : ~(\E G : Joins(pieces, G, m))}
<1>1. SUFFICES ASSUME Bad # {} PROVE FALSE
  OBVIOUS
<1>2. PICK m \in Bad : \A k \in Bad : m <= k
  <2> HIDE DEF Bad
  <2>1. Bad \subseteq Nat
    BY DEF Bad
  <2> QED
    BY <1>1, <2>1, LeastNumber
<1>3. m \in Nat /\ ~(\E G : Joins(pieces, G, m))
  OBVIOUS
<1>4. m # 0
  <2>1. Joins(pieces, <<>>, 0)
    BY DEF Joins
  <2> QED
    BY <1>3, <2>1
<1>5. m - 1 \in Nat /\ m - 1 \notin Bad
  BY <1>2, <1>3, <1>4
<1>6. PICK G : Joins(pieces, G, m - 1)
  BY <1>5
<1> DEFINE h(i) == IF i = m THEN (IF m = 1 THEN pieces[m] ELSE G[m - 1] \o pieces[m])
                   ELSE G[i]
           H == [i \in 1 .. m |-> h(i)]
<1>7. \A i \in 1 .. m : H[i] = h(i)
  OBVIOUS
<1>8. \A i \in 1 .. m : h(i) = IF i = 1 THEN pieces[i] ELSE H[i - 1] \o pieces[i]
  <2>1. SUFFICES ASSUME NEW i \in 1 .. m
                 PROVE  h(i) = IF i = 1 THEN pieces[i] ELSE H[i - 1] \o pieces[i]
    OBVIOUS
  <2>2. i = 1 \/ (i - 1 \in 1 .. m /\ i - 1 # m /\ i # 1)
    BY <1>3, <1>4
  <2>3. i # 1 => H[i - 1] = G[i - 1]
    BY <1>7, <2>2
  <2> HIDE DEF H
  <2>4. CASE i = m
    BY <2>2, <2>3, <2>4
  <2>5. CASE i # m
    <3>1. i \in 1 .. m - 1
      BY <1>3, <2>5
    <3>2. G[i] = IF i = 1 THEN pieces[i] ELSE G[i - 1] \o pieces[i]
      BY <1>6, <3>1 DEF Joins
    <3> QED
      BY <2>2, <2>3, <2>5, <3>2
  <2> QED
    BY <2>4, <2>5
<1>9. Joins(pieces, H, m)
  <2> DEFINE r(i) == IF i = 1 THEN pieces[i] ELSE H[i - 1] \o pieces[i]
  <2>1. \A i \in 1 .. m : h(i) = r(i)
    BY <1>8
  <2>2. H = [i \in 1 .. m |-> h(i)]
    OBVIOUS
  <2> HIDE DEF H, h
  <2>3. H = [i \in 1 .. m |-> r(i)]
    BY <2>1, <2>2
  <2> QED
    BY <2>3 DEF Joins
<1> QED
  BY <1>3, <1>9

LEMMA FlattenFacts ==
  ASSUME NEW pieces, NEW n \in Nat \ {0}, n = Len(pieces)
  PROVE  \E G : /\ G[1] = pieces[1]
                /\ \A i \in 2 .. n : G[i] = G[i - 1] \o pieces[i]
                /\ FlattenSeq(pieces) = G[n]
<1> DEFINE G == CHOOSE G : Joins(pieces, G, n)
<1>1. Joins(pieces, G, n)
  BY JoinsExists
<1>2. FlattenSeq(pieces) = G[n]
  BY DEF FlattenSeq, Joins
<1> HIDE DEF G
<1>3. \A i \in 1 .. n : G[i] = IF i = 1 THEN pieces[i] ELSE G[i - 1] \o pieces[i]
  BY <1>1 DEF Joins
<1>4. G[1] = pieces[1]
  <2>1. 1 \in 1 .. n
    OBVIOUS
  <2> QED
    BY <1>3, <2>1
<1>5. \A i \in 2 .. n : G[i] = G[i - 1] \o pieces[i]
  <2>1. SUFFICES ASSUME NEW i \in 2 .. n PROVE G[i] = G[i - 1] \o pieces[i]
    OBVIOUS
  <2>2. i \in 1 .. n /\ i # 1
    OBVIOUS
  <2> QED
    BY <1>3, <2>2
<1> QED
  BY <1>2, <1>4, <1>5

LEMMA FlattenGrows ==
  ASSUME NEW piece, NEW m \in Nat, IsList(piece[1])
  PROVE  FlattenSeq([k \in 1 .. m + 1 |-> piece[k]])
           = FlattenSeq([k \in 1 .. m |-> piece[k]]) \o piece[m + 1]
<1> DEFINE s == [k \in 1 .. m |-> piece[k]]
           t == [k \in 1 .. m + 1 |-> piece[k]]
           l == m + 1
<1>1. Len(s) = m /\ Len(t) = l /\ l \in Nat \ {0}
  <2>1. s = [k \in 1 .. m |-> s[k]] /\ t = [k \in 1 .. l |-> t[k]] /\ l \in Nat
    OBVIOUS
  <2> HIDE DEF s, t, l
  <2>2. Len(s) = m /\ Len(t) = l
    BY <2>1, ListMade
  <2> QED
    BY <2>1, <2>2 DEF l
<1>2. \A k \in 1 .. l : t[k] = piece[k]
  OBVIOUS
<1>3. \A k \in 1 .. m : s[k] = piece[k]
  OBVIOUS
<1>4. m = 0 => FlattenSeq(s) = <<>>
  <2>1. SUFFICES ASSUME m = 0 PROVE FlattenSeq(s) = <<>>
    OBVIOUS
  <2>2. s = <<>>
    BY <2>1
  <2>3. FlattenSeq(s) = s
    BY <2>2 DEF FlattenSeq
  <2> QED
    BY <2>2, <2>3
<1> HIDE DEF s, t
<1>5. PICK H : /\ H[1] = t[1]
               /\ \A i \in 2 .. l : H[i] = H[i - 1] \o t[i]
               /\ FlattenSeq(t) = H[l]
  <2> HIDE DEF l
  <2> QED
    BY <1>1, FlattenFacts
<1>6. CASE m = 0
  <2>1. FlattenSeq(t) = piece[1] /\ FlattenSeq(s) = <<>> /\ l = 1
    <3>1. l = 1 /\ 1 \in 1 .. l
      BY <1>6
    <3> HIDE DEF l
    <3> QED
      BY <1>2, <1>4, <1>5, <1>6, <3>1
  <2>2. <<>> \o piece[1] = piece[1]
    <3> DEFINE T == Range(piece[1])
               p == piece[1]
    <3>1. p \in Seq(T)
      BY DEF IsList
    <3> HIDE DEF T, p
    <3>2. <<>> \o p = p
      BY <3>1
    <3> QED
      BY <3>2 DEF p
  <2> QED
    BY <1>6, <2>1, <2>2 DEF s, t
<1>7. CASE m # 0
  <2>1. m \in Nat \ {0}
    BY <1>7
  <2>2. PICK G : /\ G[1] = s[1]
                 /\ \A i \in 2 .. m : G[i] = G[i - 1] \o s[i]
                 /\ FlattenSeq(s) = G[m]
    BY <1>1, <2>1, FlattenFacts
  <2> DEFINE Same == {i \in 0 .. m : i = 0 \/ G[i] = H[i]}
  <2>3. \A i \in 1 .. m : i - 1 \in Same => i \in Same
    <3>1. SUFFICES ASSUME NEW i \in 1 .. m, i - 1 = 0 \/ G[i - 1] = H[i - 1]
                   PROVE  G[i] = H[i]
      OBVIOUS
    <3>2. s[i] = piece[i] /\ t[i] = piece[i]
      BY <1>2, <1>3
    <3>3. CASE i = 1
      BY <1>5, <2>2, <3>2, <3>3
    <3>4. CASE i # 1
      <4>1. i \in 2 .. m /\ i \in 2 .. l /\ i - 1 # 0
        BY <3>4
      <4> QED
        BY <1>5, <2>2, <3>1, <3>2, <4>1
    <3> QED
      BY <3>3, <3>4
  <2>4. 0 \in Same
    OBVIOUS
  <2>5. m \in Same
    <3> HIDE DEF Same
    <3>1. 0 .. m \subseteq Same
      BY <2>3, <2>4, UpTo
    <3> QED
      BY <3>1
  <2>6. G[m] = H[m]
    BY <2>1, <2>5
  <2>7. l \in 2 .. l /\ l - 1 = m /\ l \in 1 .. l
    BY <2>1
  <2>8. H[l] = H[m] \o t[l] /\ t[l] = piece[l]
    BY <1>2, <1>5, <2>7
  <2> QED
    BY <1>5, <2>2, <2>6, <2>8 DEF s, t
<1> QED
  BY <1>6, <1>7

LEMMA FlattenNone ==
  ASSUME NEW piece
  PROVE  FlattenSeq([k \in 1 .. 0 |-> piece[k]]) = <<>>
<1> DEFINE s == [k \in 1 .. 0 |-> piece[k]]
<1>1. s = <<>>
  OBVIOUS
<1>2. FlattenSeq(s) = s
  BY <1>1 DEF FlattenSeq
<1> QED
  BY <1>1, <1>2

LEMMA CollectedNone ==
  ASSUME NEW lex, NEW w
  PROVE  Collected(lex, w, 0) = <<>>
<1> DEFINE piece == [k \in Nat |-> Piece(lex, w, k)]
<1>1. [k \in 1 .. 0 |-> Piece(lex, w, k)] = [k \in 1 .. 0 |-> piece[k]]
  OBVIOUS
<1> HIDE DEF piece
<1> QED
  BY <1>1, FlattenNone DEF Collected

LEMMA CollectedNext ==
  ASSUME NEW lex \in Lexicons, NEW w, IsList(w), NEW m \in Nat, m + 1 <= Len(SourceOrder)
  PROVE  Collected(lex, w, m + 1) = Collected(lex, w, m) \o Piece(lex, w, m + 1)
<1> DEFINE piece == [k \in Nat |-> Piece(lex, w, k)]
<1>1. [k \in 1 .. m |-> Piece(lex, w, k)] = [k \in 1 .. m |-> piece[k]]
  OBVIOUS
<1>2. [k \in 1 .. m + 1 |-> Piece(lex, w, k)] = [k \in 1 .. m + 1 |-> piece[k]]
  OBVIOUS
<1>3. piece[1] = Piece(lex, w, 1) /\ piece[m + 1] = Piece(lex, w, m + 1)
  OBVIOUS
<1>4. 1 \in 1 .. Len(SourceOrder)
  BY SourceOrderFacts
<1>5. IsList(piece[1])
  BY <1>3, <1>4, PieceFacts DEF ProposedBy
<1> HIDE DEF piece
<1>6. FlattenSeq([k \in 1 .. m + 1 |-> piece[k]])
        = FlattenSeq([k \in 1 .. m |-> piece[k]]) \o piece[m + 1]
  BY <1>5, FlattenGrows
<1> QED
  BY <1>1, <1>2, <1>3, <1>6 DEF Collected

LEMMA RangeConcat ==
  ASSUME NEW s, NEW t, IsList(s), IsList(t)
  PROVE  IsList(s \o t) /\ Range(s \o t) = Range(s) \cup Range(t)
<1>1. /\ Len(s) \in Nat /\ DOMAIN s = 1 .. Len(s) /\ Len(t) \in Nat /\ DOMAIN t = 1 .. Len(t)
  BY ListFacts
<1>2. /\ IsList(s \o t)
      /\ Len(s \o t) = Len(s) + Len(t)
      /\ \A i \in 1 .. Len(s) : (s \o t)[i] = s[i]
      /\ \A i \in 1 .. Len(t) : (s \o t)[Len(s) + i] = t[i]
  BY ListConcat
<1>3. DOMAIN (s \o t) = 1 .. Len(s) + Len(t)
  BY <1>2, ListFacts
<1> DEFINE r == s \o t
<1> HIDE DEF r
<1>4. ASSUME NEW p \in Range(r) PROVE p \in Range(s) \cup Range(t)
  <2>1. PICK i \in 1 .. Len(s) + Len(t) : p = r[i]
    BY <1>3 DEF Range, r
  <2>2. CASE i \in 1 .. Len(s)
    BY <1>1, <1>2, <2>1, <2>2 DEF Range, r
  <2>3. CASE i \notin 1 .. Len(s)
    <3>1. i - Len(s) \in 1 .. Len(t) /\ Len(s) + (i - Len(s)) = i
      BY <1>1, <2>3
    <3>2. p = t[i - Len(s)]
      BY <1>2, <2>1, <3>1 DEF r
    <3> QED
      BY <1>1, <3>1, <3>2 DEF Range
  <2> QED
    BY <2>2, <2>3
<1>5. ASSUME NEW i \in 1 .. Len(s) PROVE s[i] \in Range(r)
  <2>1. i \in DOMAIN r /\ r[i] = s[i]
    BY <1>1, <1>2, <1>3 DEF r
  <2> QED
    BY <2>1 DEF Range
<1>6. ASSUME NEW i \in 1 .. Len(t) PROVE t[i] \in Range(r)
  <2>1. Len(s) + i \in DOMAIN r /\ r[Len(s) + i] = t[i]
    BY <1>1, <1>2, <1>3 DEF r
  <2> QED
    BY <2>1 DEF Range
<1>7. Range(s) \subseteq Range(r) /\ Range(t) \subseteq Range(r)
  BY <1>1, <1>5, <1>6 DEF Range
<1> QED
  BY <1>2, <1>4, <1>7 DEF r

\* Proposals of the sources of the loop, that can be ranked.
Sound(list) ==
  /\ IsList(list)
  /\ \A p \in Range(list) : Rankable(p) /\ p.source \in AskedNames /\ p.text # <<>>

LEMMA CollectedFacts ==
  ASSUME NEW lex \in Lexicons, NEW w, IsList(w)
  PROVE  \A m \in 0 .. Len(SourceOrder) :
           /\ Sound(Collected(lex, w, m))
           /\ \A k \in 1 .. m : Range(Piece(lex, w, k)) \subseteq Range(Collected(lex, w, m))
<1> DEFINE n == Len(SourceOrder)
           C(m) == Collected(lex, w, m)
           P(k) == Piece(lex, w, k)
           G == {m \in 0 .. n : Sound(C(m)) /\ \A k \in 1 .. m : Range(P(k)) \subseteq Range(C(m))}
<1>1. n \in Nat
  BY SourceOrderFacts
<1>2. 0 \in G
  <2>1. C(0) = <<>>
    BY CollectedNone
  <2>2. Sound(<<>>)
    BY NoElements DEF Sound, Range
  <2>3. \A k \in 1 .. 0 : FALSE
    OBVIOUS
  <2> HIDE DEF C, P
  <2> QED
    BY <1>1, <2>1, <2>2, <2>3
<1>3. ASSUME NEW m \in 1 .. n, m - 1 \in G PROVE m \in G
  <2>1. m - 1 \in Nat /\ (m - 1) + 1 = m /\ m <= n /\ m \in 0 .. n
    BY <1>1
  <2>2. C(m) = C(m - 1) \o P(m)
    <3> DEFINE l == m - 1
    <3>1. l \in Nat /\ l + 1 = m /\ l + 1 <= Len(SourceOrder)
      BY <2>1
    <3> HIDE DEF l
    <3>2. C(l + 1) = C(l) \o P(l + 1)
      BY <3>1, CollectedNext
    <3> QED
      BY <3>1, <3>2 DEF l
  <2>3. /\ ProposedBy(P(m), SourceOrder[m]) /\ SourceOrder[m] \in AskedNames
        /\ \A i \in DOMAIN P(m) : P(m)[i].text # <<>>
    BY PieceFacts
  <2>4. /\ Sound(C(m - 1))
        /\ \A k \in 1 .. m - 1 : Range(P(k)) \subseteq Range(C(m - 1))
    BY <1>3
  <2> HIDE DEF C, P, n
  <2>5. IsList(C(m)) /\ Range(C(m)) = Range(C(m - 1)) \cup Range(P(m))
    BY <2>2, <2>3, <2>4, RangeConcat DEF Sound, ProposedBy
  <2>6. \A p \in Range(P(m)) : Rankable(p) /\ p.source \in AskedNames /\ p.text # <<>>
    BY <2>3 DEF ProposedBy, Range
  <2>7. Sound(C(m))
    BY <2>4, <2>5, <2>6 DEF Sound
  <2>8. \A k \in 1 .. m : Range(P(k)) \subseteq Range(C(m))
    <3>1. \A k \in 1 .. m : k = m \/ k \in 1 .. m - 1
      BY <2>1
    <3> QED
      BY <2>4, <2>5, <3>1
  <2> QED
    BY <2>1, <2>7, <2>8
<1>4. 0 .. n \subseteq G
  <2> HIDE DEF G, n
  <2> QED
    BY <1>1, <1>2, <1>3, UpTo
<1> QED
  BY <1>4

LEMMA AllProposalsFacts ==
  ASSUME NEW lex \in Lexicons, NEW w, IsList(w)
  PROVE  /\ AllProposals(lex, w) = Collected(lex, w, Len(SourceOrder))
         /\ Sound(AllProposals(lex, w))
         /\ \A k \in 1 .. Len(SourceOrder) :
              Range(Piece(lex, w, k)) \subseteq Range(AllProposals(lex, w))
<1>1. AllProposals(lex, w) = Collected(lex, w, Len(SourceOrder))
  BY SourceOrderFacts DEF AllProposals, Collected, Piece
<1>2. Len(SourceOrder) \in 0 .. Len(SourceOrder)
  BY SourceOrderFacts
<1> QED
  BY <1>1, <1>2, CollectedFacts

-----------------------------------------------------------------------------
(***************************************************************************)
(* The phrase evidence.                                                    *)
(***************************************************************************)
LEMMA ImageFinite ==
  ASSUME NEW f, NEW S, IsFiniteSet(S)
  PROVE  IsFiniteSet({f[i] : i \in S}) /\ Cardinality({f[i] : i \in S}) \in Nat
<1> DEFINE T == {f[i] : i \in S}
           g == [i \in S |-> f[i]]
<1>1. g \in [S -> T] /\ \A t \in T : \E i \in S : g[i] = t
  OBVIOUS
<1> HIDE DEF g, T
<1>2. g \in Surjection(S, T)
  BY <1>1, Fun_IsSurj
<1>3. IsFiniteSet(T)
  BY <1>2, FS_Surjection
<1>4. Cardinality(T) \in Nat
  BY <1>3, FS_CardinalityType
<1> QED
  BY <1>3, <1>4 DEF T

\* The texts of a list are a finite set.
LEMMA TextsFinite ==
  ASSUME NEW props, IsList(props)
  PROVE  IsFiniteSet(Texts(props))
<1> DEFINE f == [i \in DOMAIN props |-> props[i].text]
<1>1. DOMAIN props = 1 .. Len(props) /\ Len(props) \in Nat
  BY ListFacts
<1>2. IsFiniteSet(DOMAIN props)
  <2> DEFINE one == 1
             n == Len(props)
  <2>1. one \in Int /\ n \in Int /\ DOMAIN props = one .. n
    BY <1>1
  <2> HIDE DEF one, n
  <2> QED
    BY <2>1, FS_Interval
<1>3. Texts(props) = {f[i] : i \in DOMAIN props}
  BY DEF Texts
<1> HIDE DEF f
<1> QED
  BY <1>2, <1>3, ImageFinite

\* What the phrase source may add to the proposals: evidence for some of their
\* texts, or for the word when there are none.
Evidence(list, props) ==
  /\ IsList(list)
  /\ \A i \in DOMAIN list :
       /\ Rankable(list[i]) /\ list[i].source = "phrase_specific" /\ list[i].text # <<>>
       /\ props # <<>> => list[i].text \in Texts(props)
  /\ props = <<>> => Len(list) <= 1

LEMMA EvidenceFacts ==
  ASSUME NEW props, IsList(props), NEW w, NEW tagged,
         tagged \subseteq IF props = <<>> THEN {w} ELSE Texts(props),
         NEW order \in SetToSeqs(tagged)
  PROVE  LET list == Yielded([i \in DOMAIN order |->
                       Proposal(order[i], "phrase_specific", Weight["phrase_specific"])])
         IN  Evidence(list, props) /\ (tagged = {} => list = <<>>)
<1> DEFINE f == [i \in DOMAIN order |->
                   Proposal(order[i], "phrase_specific", Weight["phrase_specific"])]
           c == Cardinality(tagged)
<1>1. IsFiniteSet({w}) /\ Cardinality({w}) = 1
  BY FS_Singleton
<1>2. IsFiniteSet(tagged) /\ c \in Nat /\ (props = <<>> => c <= 1)
  <2> DEFINE S == IF props = <<>> THEN {w} ELSE Texts(props)
  <2>1. IsFiniteSet(S) /\ (props = <<>> => Cardinality(S) = 1)
    BY <1>1, TextsFinite
  <2>2. tagged \in SUBSET S
    OBVIOUS
  <2> HIDE DEF S
  <2>3. IsFiniteSet(tagged) /\ c <= Cardinality(S)
    BY <2>1, <2>2, FS_Subset
  <2>4. c \in Nat
    BY <2>3, FS_CardinalityType
  <2> QED
    BY <2>1, <2>3, <2>4
<1>3. order \in [1 .. c -> tagged]
  BY DEF SetToSeqs
<1>4. tagged = {} => c = 0
  BY FS_EmptySet
<1> HIDE DEF c
<1>5. IsList(order) /\ Len(order) = c /\ DOMAIN order = 1 .. c
  BY <1>2, <1>3, ListMade
<1>6. \A i \in DOMAIN order : /\ Rankable(f[i]) /\ f[i].source = "phrase_specific"
                              /\ f[i].text = order[i]
  BY SourceWeights DEF Rankable, Proposal, SourceNames, Absent
<1>7. DOMAIN f = DOMAIN order /\ f = [i \in DOMAIN order |-> f[i]]
  OBVIOUS
<1> HIDE DEF f
<1>8. ProposedBy(f, "phrase_specific")
  BY <1>5, <1>6, <1>7, OneForEach
<1> DEFINE list == Yielded(f)
<1>9. /\ ProposedBy(list, "phrase_specific")
      /\ \A i \in DOMAIN list : i \in DOMAIN f /\ list[i] = f[i] /\ f[i].text # <<>>
  BY <1>8, YieldedFacts
<1> HIDE DEF list
<1>10. \A i \in DOMAIN list : /\ list[i].text # <<>>
                              /\ props # <<>> => list[i].text \in Texts(props)
  BY <1>3, <1>5, <1>6, <1>7, <1>9
<1>11. Len(list) \in Nat /\ DOMAIN list = 1 .. Len(list) /\ (Len(list) = 0 <=> list = <<>>)
  BY <1>9, ListFacts DEF ProposedBy
<1>12. Len(list) <= c
  <2>1. CASE Len(list) = 0
    BY <1>2, <2>1
  <2>2. CASE Len(list) # 0
    <3>1. Len(list) \in DOMAIN list
      BY <1>11, <2>2
    <3>2. Len(list) \in 1 .. c
      BY <1>5, <1>7, <1>9, <3>1
    <3> QED
      BY <1>2, <3>2
  <2> QED
    BY <2>1, <2>2
<1>13. Evidence(list, props)
  BY <1>2, <1>9, <1>10, <1>11, <1>12 DEF Evidence, ProposedBy
<1>14. tagged = {} => list = <<>>
  BY <1>4, <1>11, <1>12
<1> QED
  BY <1>13, <1>14 DEF list, f

-----------------------------------------------------------------------------
(***************************************************************************)
(* The loop over the tokens.                                               *)
(***************************************************************************)
\* The answers are a sequence; of what, the argument does not ask.
Answered == \E S : output \in Seq(S)

\* The answer for token i is the token alone.
Alone(i) ==
  /\ Len(output[i].candidates) = 1
  /\ output[i].candidates[1].text = document.tokens[i].text

\* What has been answered so far.
KeptAlone ==
  \A i \in DOMAIN output \cap DOMAIN document.tokens :
    IsIdentityOnly(document.tokens[i], document.spans) => Alone(i)

\* Where the loop over the tokens is.
InStep ==
  /\ document \in Documents \cup {NoDocument}
  /\ phase = "tokens" => at = Len(output) + 1
  /\ phase \in {"sources", "merge"} /\ document.tokens # <<>> =>
       /\ at = Len(output) + 1
       /\ ~IsIdentityOnly(document.tokens[at], document.spans)

IInv == Answered /\ KeptAlone /\ InStep

\* A token without characters there are none of: one that lies under a span
\* lies within its ends.
LEMMA CoveredIsProtected ==
  ASSUME document \in Documents \cup {NoDocument}, NEW i \in DOMAIN document.tokens,
         NEW s \in document.spans,
         document.tokens[i].start .. document.tokens[i].end - 1 \subseteq s.start .. s.end - 1
  PROVE  IsIdentityOnly(document.tokens[i], document.spans)
<1>1. document # NoDocument
  BY DEF NoDocument
<1>2. /\ document.tokens[i].start \in Int /\ document.tokens[i].end \in Int
      /\ document.tokens[i].start < document.tokens[i].end
      /\ s.start \in Int /\ s.end \in Int
  BY <1>1, DocumentsAssumption
<1> DEFINE from == document.tokens[i].start
           to == document.tokens[i].end
<1>3. from \in from .. to - 1 /\ to - 1 \in from .. to - 1
  BY <1>2
<1>4. s.start <= from /\ to <= s.end
  BY <1>2, <1>3
<1> QED
  BY <1>4 DEF IsIdentityOnly, IsProtected

LEMMA KeptIsEnough == IInv => ProtectedAlone
<1>1. SUFFICES ASSUME IInv, NEW i \in DOMAIN output \cap DOMAIN document.tokens,
                      \/ document.tokens[i].protected
                      \/ \E s \in document.spans :
                           document.tokens[i].start .. document.tokens[i].end - 1
                             \subseteq s.start .. s.end - 1
               PROVE  Alone(i)
  BY DEF ProtectedAlone, Alone
<1>2. IsIdentityOnly(document.tokens[i], document.spans)
  <2>1. CASE document.tokens[i].protected
    BY <2>1 DEF IsIdentityOnly, IsProtected
  <2>2. CASE \E s \in document.spans :
               document.tokens[i].start .. document.tokens[i].end - 1
                 \subseteq s.start .. s.end - 1
    BY <1>1, <2>2, CoveredIsProtected DEF IInv, InStep
  <2> QED
    BY <1>1, <2>1, <2>2
<1> QED
  BY <1>1, <1>2 DEF IInv, KeptAlone

-----------------------------------------------------------------------------
\* One more element, whatever it is.
LEMMA AppendFacts ==
  ASSUME NEW seq, \E S : seq \in Seq(S), NEW x
  PROVE  /\ \E S : Append(seq, x) \in Seq(S)
         /\ Len(seq) \in Nat
         /\ Len(Append(seq, x)) = Len(seq) + 1
         /\ DOMAIN seq = 1 .. Len(seq)
         /\ DOMAIN Append(seq, x) = DOMAIN seq \cup {Len(seq) + 1}
         /\ \A i \in DOMAIN seq : Append(seq, x)[i] = seq[i]
         /\ Append(seq, x)[Len(seq) + 1] = x
<1>1. PICK S : seq \in Seq(S)
  OBVIOUS
<1> DEFINE T == S \cup {x}
<1>2. seq \in Seq(T) /\ x \in T
  BY <1>1
<1> HIDE DEF T
<1>3. /\ Append(seq, x) \in Seq(T)
      /\ Len(seq) \in Nat
      /\ Len(Append(seq, x)) = Len(seq) + 1
      /\ DOMAIN seq = 1 .. Len(seq)
      /\ DOMAIN Append(seq, x) = 1 .. Len(seq) + 1
      /\ \A i \in 1 .. Len(seq) : Append(seq, x)[i] = seq[i]
      /\ Append(seq, x)[Len(seq) + 1] = x
  BY <1>2
<1> QED
  BY <1>3

\* An answer for the token in work, which is the token alone if it has to be.
LEMMA EmitStep ==
  ASSUME IInv, NEW cands, Emit(cands), document' = document,
         at = Len(output) + 1,
         IsIdentityOnly(document.tokens[at], document.spans) =>
           Len(cands) = 1 /\ cands[1].text = document.tokens[at].text
  PROVE  Answered' /\ KeptAlone' /\ at' = Len(output') + 1
<1> DEFINE answer == [text |-> document.tokens[at].text,
                      protected |-> IsProtected(document.tokens[at], document.spans),
                      candidates |-> cands]
<1>1. output' = Append(output, answer) /\ at' = at + 1
  BY DEF Emit
<1>2. answer.candidates = cands
  OBVIOUS
<1> HIDE DEF answer
<1>3. /\ \E S : Append(output, answer) \in Seq(S)
      /\ Len(output) \in Nat
      /\ Len(Append(output, answer)) = Len(output) + 1
      /\ DOMAIN Append(output, answer) = DOMAIN output \cup {at}
      /\ \A i \in DOMAIN output : Append(output, answer)[i] = output[i]
      /\ Append(output, answer)[at] = answer
  BY AppendFacts DEF IInv, Answered
<1>4. Answered' /\ at' = Len(output') + 1
  BY <1>1, <1>3 DEF Answered
<1>5. SUFFICES ASSUME NEW i \in DOMAIN output' \cap DOMAIN document.tokens,
                      IsIdentityOnly(document.tokens[i], document.spans)
               PROVE  Alone(i)'
  BY <1>4 DEF KeptAlone, IsIdentityOnly, IsProtected
<1>6. CASE i = at
  BY <1>1, <1>2, <1>3, <1>5, <1>6 DEF Alone
<1>7. CASE i \in DOMAIN output
  BY <1>1, <1>3, <1>5, <1>7 DEF IInv, KeptAlone, Alone
<1> QED
  BY <1>1, <1>3, <1>5, <1>6, <1>7

\* What changes neither the document nor the answers keeps them in step.
LEMMA SameAnswers ==
  ASSUME IInv, UNCHANGED <<document, output>>
  PROVE  Answered' /\ KeptAlone'
BY DEF IInv, Answered, KeptAlone, Alone, IsIdentityOnly, IsProtected

LEMMA IInvInit == Init => IInv
<1>1. SUFFICES ASSUME Init
               PROVE  IInv
  OBVIOUS
<1>2. output = <<>> /\ document = NoDocument /\ phase = "idle"
  BY <1>1 DEF Init
<1>3. output \in Seq({})
  BY <1>2
<1> QED
  BY <1>2, <1>3 DEF IInv, Answered, KeptAlone, InStep

LEMMA GenerateTokenStep ==
  ASSUME IInv, NEW w, NEW p, GenerateToken(w, p)
  PROVE  IInv'
<1>1. output' = output /\ phase = "idle"
  BY DEF GenerateToken
<1>2. CASE UNCHANGED <<work, phase>>
  <2>1. document' = document /\ phase' = "idle"
    BY <1>1, <1>2 DEF work
  <2> QED
    BY <1>1, <2>1, SameAnswers DEF IInv, InStep
<1>3. CASE document' = NoDocument /\ phase' = "sources"
  <2>1. document'.tokens = <<>>
    BY <1>3 DEF NoDocument
  <2>2. Answered'
    BY <1>1 DEF IInv, Answered
  <2> QED
    BY <1>3, <2>1, <2>2 DEF IInv, KeptAlone, InStep
<1> QED
  BY <1>2, <1>3 DEF GenerateToken

LEMMA GenerateDocumentStep ==
  ASSUME IInv, NEW d \in Documents, GenerateDocument(d)
  PROVE  IInv'
<1>1. output' = <<>> /\ document' = d /\ phase' = "tokens" /\ at' = 1
  BY DEF GenerateDocument
<1>2. output' \in Seq({}) /\ Len(output') = 0 /\ DOMAIN output' = {}
  BY <1>1
<1> QED
  BY <1>1, <1>2 DEF IInv, Answered, KeptAlone, InStep

LEMMA NextTokenStep ==
  ASSUME IInv, NextToken
  PROVE  IInv'
<1>1. document' = document /\ phase = "tokens" /\ at = Len(output) + 1
  BY DEF NextToken, IInv, InStep
<1> DEFINE token == document.tokens[at]
<1>2. CASE /\ IsIdentityOnly(token, document.spans)
           /\ Emit(Identity(token.text)) /\ phase' = phase
  <2>1. Len(Identity(token.text)) = 1 /\ Identity(token.text)[1].text = token.text
    BY DEF Identity
  <2>2. Answered' /\ KeptAlone' /\ at' = Len(output') + 1
    BY <1>1, <1>2, <2>1, EmitStep
  <2> QED
    BY <1>1, <1>2, <2>2 DEF IInv, InStep
<1>3. CASE /\ ~IsIdentityOnly(token, document.spans)
           /\ phase' = "sources" /\ UNCHANGED <<at, output>>
  <2>1. Answered' /\ KeptAlone'
    BY <1>1, <1>3, SameAnswers
  <2>2. InStep'
    BY <1>1, <1>3 DEF IInv, InStep, IsIdentityOnly, IsProtected
  <2> QED
    BY <2>1, <2>2 DEF IInv
<1> QED
  BY <1>2, <1>3 DEF NextToken

LEMMA FinishTokenStep ==
  ASSUME IInv, FinishToken
  PROVE  IInv'
<1> DEFINE cands == Finished(proposals, word)
<1>1. document' = document /\ phase = "merge"
  BY DEF FinishToken
<1>2. CASE document.tokens # <<>> /\ Emit(cands) /\ phase' = "tokens"
  <2>1. /\ at = Len(output) + 1
        /\ ~IsIdentityOnly(document.tokens[at], document.spans)
    BY <1>1, <1>2 DEF IInv, InStep
  <2> HIDE DEF cands
  <2>2. Answered' /\ KeptAlone' /\ at' = Len(output') + 1
    BY <1>1, <1>2, <2>1, EmitStep
  <2> QED
    BY <1>1, <1>2, <2>2 DEF IInv, InStep
<1>3. CASE document.tokens = <<>> /\ phase' = "idle" /\ output' = output
  BY <1>1, <1>3, SameAnswers DEF IInv, InStep
<1> QED
  BY <1>2, <1>3 DEF FinishToken

LEMMA IInvStep == IInv /\ [Next]_vars => IInv'
<1>1. SUFFICES ASSUME IInv, [Next]_vars
               PROVE  IInv'
  OBVIOUS
<1>2. CASE \E w \in Words, p \in BOOLEAN : GenerateToken(w, p)
  BY <1>1, <1>2, GenerateTokenStep
<1>3. CASE \E d \in Documents : GenerateDocument(d)
  BY <1>1, <1>3, GenerateDocumentStep
<1>4. CASE NextToken
  BY <1>1, <1>4, NextTokenStep
<1>5. CASE DocumentDone
  <2>1. document' = document /\ output' = output /\ phase' = "idle"
    BY <1>5 DEF DocumentDone, work
  <2> QED
    BY <1>1, <2>1, SameAnswers DEF IInv, InStep
<1>6. CASE AskSource \/ AskPhraseEvidence
  <2>1. /\ UNCHANGED <<document, output, at>>
        /\ phase = "sources" /\ phase' \in {"sources", "merge"}
    BY <1>6 DEF AskSource, AskPhraseEvidence
  <2> QED
    BY <1>1, <2>1, SameAnswers DEF IInv, InStep, IsIdentityOnly, IsProtected
<1>7. CASE FinishToken
  BY <1>1, <1>7, FinishTokenStep
<1>8. CASE UNCHANGED vars
  <2>1. UNCHANGED <<document, output, at, phase>>
    BY <1>8 DEF vars
  <2> QED
    BY <1>1, <2>1, SameAnswers DEF IInv, InStep, IsIdentityOnly, IsProtected
<1> QED
  BY <1>1, <1>2, <1>3, <1>4, <1>5, <1>6, <1>7, <1>8 DEF Next

LEMMA Invariance == Spec => []IInv
BY IInvInit, IInvStep, PTL DEF Spec

\* A token that is protected or lies under a protected span gets no candidate
\* but itself (generator.py:358), whatever the sources and the spans are.
THEOREM ProtectedAloneCorrect == Spec => []ProtectedAlone
BY KeptIsEnough, Invariance, PTL

-----------------------------------------------------------------------------
(***************************************************************************)
(* The loop over the sources: the proposals are those of the sources asked *)
(* so far, then the phrase evidence.                                       *)
(***************************************************************************)
Collecting ==
  /\ lexicon \in Lexicons
  /\ phase \in {"idle", "tokens", "sources", "merge"}
  /\ phase \in {"sources", "merge"} =>
       /\ IsList(word)
       /\ document.tokens = <<>> => word \in Words
       /\ document.tokens # <<>> => /\ at \in DOMAIN document.tokens
                                    /\ word = document.tokens[at].text
  /\ phase = "sources" => /\ source \in 1 .. Len(SourceOrder) + 1
                          /\ proposals = Collected(lexicon, word, source - 1)
  /\ phase = "merge" =>
       \E e : /\ Evidence(e, AllProposals(lexicon, word))
              /\ proposals = AllProposals(lexicon, word) \o e
              /\ document.tokens = <<>> => e = <<>>

LEMMA CollectingIdle ==
  ASSUME Collecting, lexicon' = lexicon, phase' \in {"idle", "tokens"}
  PROVE  Collecting'
BY DEF Collecting

LEMMA StartCollecting ==
  ASSUME Collecting, lexicon' = lexicon, phase' = "sources", source' = 1, proposals' = <<>>,
         IsList(word'),
         document'.tokens = <<>> => word' \in Words,
         document'.tokens # <<>> => /\ at' \in DOMAIN document'.tokens
                                    /\ word' = document'.tokens[at'].text
  PROVE  Collecting'
<1>1. source' \in 1 .. Len(SourceOrder) + 1 /\ source' - 1 = 0
  BY SourceOrderFacts
<1>2. Collected(lexicon', word', source' - 1) = <<>>
  BY <1>1, CollectedNone
<1> QED
  BY <1>1, <1>2 DEF Collecting

LEMMA CollectingInit == Init => Collecting
BY DEF Init, Collecting

LEMMA CollectingToken ==
  ASSUME Collecting, NEW w \in Words, NEW p, GenerateToken(w, p)
  PROVE  Collecting'
<1>1. lexicon' = lexicon /\ phase = "idle"
  BY DEF GenerateToken
<1>2. CASE UNCHANGED phase
  BY <1>1, <1>2, CollectingIdle
<1>3. CASE phase' = "sources" /\ document' = NoDocument /\ word' = w /\ source' = 1 /\ proposals' = <<>>
  <2>1. IsList(w) /\ document'.tokens = <<>>
    BY <1>3, WordsAssumption DEF NoDocument
  <2> QED
    BY <1>1, <1>3, <2>1, StartCollecting
<1> QED
  BY <1>2, <1>3 DEF GenerateToken

LEMMA CollectingNext ==
  ASSUME IInv, Collecting, NextToken
  PROVE  Collecting'
<1>1. lexicon' = lexicon /\ phase = "tokens" /\ document' = document /\ at <= Len(document.tokens)
  BY DEF NextToken
<1>2. CASE UNCHANGED phase
  BY <1>1, <1>2, CollectingIdle
<1>3. CASE /\ phase' = "sources" /\ word' = document.tokens[at].text /\ source' = 1
           /\ proposals' = <<>> /\ at' = at
  <2>1. at \in DOMAIN document.tokens /\ document.tokens # <<>> /\ IsList(document.tokens[at].text)
    <3>1. document \in Documents \cup {NoDocument} /\ at = Len(output) + 1
      BY <1>1 DEF IInv, InStep
    <3>2. Len(output) \in Nat
      BY DEF IInv, Answered
    <3>3. document # NoDocument
      <4>1. SUFFICES ASSUME document = NoDocument PROVE FALSE
        OBVIOUS
      <4>2. Len(document.tokens) = 0
        BY <4>1 DEF NoDocument
      <4> QED
        BY <1>1, <3>1, <3>2, <4>2
    <3>4. /\ IsList(document.tokens)
          /\ \A i \in DOMAIN document.tokens : IsList(document.tokens[i].text)
      BY <3>1, <3>3, DocumentsAssumption
    <3>5. DOMAIN document.tokens = 1 .. Len(document.tokens) /\ Len(document.tokens) \in Nat
      BY <3>4, ListFacts
    <3>6. at \in DOMAIN document.tokens
      BY <1>1, <3>1, <3>2, <3>5
    <3> QED
      BY <3>4, <3>6
  <2> QED
    BY <1>1, <1>3, <2>1, StartCollecting
<1> QED
  BY <1>2, <1>3 DEF NextToken

LEMMA CollectingAsk ==
  ASSUME Collecting, AskSource
  PROVE  Collecting'
<1>1. /\ phase = "sources" /\ source <= Len(SourceOrder)
      /\ proposals' = proposals \o Yielded(Ask(SourceOrder[source], lexicon, word))
      /\ source' = source + 1
      /\ UNCHANGED <<lexicon, phase, document, at, word>>
  BY DEF AskSource, SourceAfter
<1>2. /\ lexicon \in Lexicons /\ IsList(word) /\ source \in 1 .. Len(SourceOrder) + 1
      /\ proposals = Collected(lexicon, word, source - 1)
  BY <1>1 DEF Collecting
<1>3. Len(SourceOrder) \in Nat
  BY SourceOrderFacts
<1>4. Collected(lexicon, word, source) = Collected(lexicon, word, source - 1) \o Piece(lexicon, word, source)
  <2> DEFINE m == source - 1
  <2>1. m \in Nat /\ m + 1 = source /\ m + 1 <= Len(SourceOrder)
    BY <1>1, <1>2, <1>3
  <2> HIDE DEF m
  <2>2. Collected(lexicon, word, m + 1) = Collected(lexicon, word, m) \o Piece(lexicon, word, m + 1)
    BY <1>2, <2>1, CollectedNext
  <2> QED
    BY <2>1, <2>2 DEF m
<1>5. proposals' = Collected(lexicon, word, source)
  BY <1>1, <1>2, <1>4 DEF Piece
<1>6. source' \in 1 .. Len(SourceOrder) + 1 /\ source' - 1 = source
  BY <1>1, <1>2, <1>3
<1> QED
  BY <1>1, <1>5, <1>6 DEF Collecting

LEMMA CollectingEvidence ==
  ASSUME Collecting, AskPhraseEvidence
  PROVE  Collecting'
<1> DEFINE all == AllProposals(lexicon, word)
           texts == IF proposals = <<>> THEN {word} ELSE Texts(proposals)
           tagged == {t \in texts : /\ "phrase_specific" \in SourcesEnabled
                                    /\ document.tokens # <<>>
                                    /\ FormsPhrase(lexicon, document.tokens, at, t)}
           Found(order) == Yielded([i \in DOMAIN order |->
                             Proposal(order[i], "phrase_specific", Weight["phrase_specific"])])
<1>1. /\ phase = "sources" /\ source > Len(SourceOrder) /\ phase' = "merge"
      /\ UNCHANGED <<lexicon, document, at, word, source>>
  BY DEF AskPhraseEvidence
<1>2. PICK order \in SetToSeqs(tagged) : proposals' = proposals \o Found(order)
  BY DEF AskPhraseEvidence
<1>3. /\ lexicon \in Lexicons /\ IsList(word) /\ source \in 1 .. Len(SourceOrder) + 1
      /\ proposals = Collected(lexicon, word, source - 1)
  BY <1>1 DEF Collecting
<1>4. source - 1 = Len(SourceOrder)
  BY <1>1, <1>3, SourceOrderFacts
<1>5. proposals = all /\ IsList(all)
  BY <1>3, <1>4, AllProposalsFacts DEF Sound
<1>6. tagged \subseteq IF all = <<>> THEN {word} ELSE Texts(all)
  BY <1>5
<1>7. document.tokens = <<>> => tagged = {}
  OBVIOUS
<1> HIDE DEF tagged, all
<1>8. Evidence(Found(order), all) /\ (tagged = {} => Found(order) = <<>>)
  BY <1>2, <1>5, <1>6, EvidenceFacts
<1> HIDE DEF Found
<1> QED
  BY <1>1, <1>2, <1>5, <1>7, <1>8 DEF Collecting, all

LEMMA CollectingStep == IInv /\ Collecting /\ [Next]_vars => Collecting'
<1>1. SUFFICES ASSUME IInv, Collecting, [Next]_vars
               PROVE  Collecting'
  OBVIOUS
<1>2. CASE \E w \in Words, p \in BOOLEAN : GenerateToken(w, p)
  BY <1>1, <1>2, CollectingToken
<1>3. CASE \E d \in Documents : GenerateDocument(d)
  <2>1. lexicon' = lexicon /\ phase' = "tokens"
    BY <1>3 DEF GenerateDocument
  <2> QED
    BY <1>1, <2>1, CollectingIdle
<1>4. CASE NextToken
  BY <1>1, <1>4, CollectingNext
<1>5. CASE DocumentDone
  <2>1. lexicon' = lexicon /\ phase' = "idle"
    BY <1>5 DEF DocumentDone
  <2> QED
    BY <1>1, <2>1, CollectingIdle
<1>6. CASE AskSource
  BY <1>1, <1>6, CollectingAsk
<1>7. CASE AskPhraseEvidence
  BY <1>1, <1>7, CollectingEvidence
<1>8. CASE FinishToken
  <2>1. lexicon' = lexicon /\ phase' \in {"idle", "tokens"}
    BY <1>8 DEF FinishToken
  <2> QED
    BY <1>1, <2>1, CollectingIdle
<1>9. CASE UNCHANGED vars
  <2>1. UNCHANGED <<lexicon, phase, document, at, word, source, proposals>>
    BY <1>9 DEF vars
  <2> QED
    BY <1>1, <2>1 DEF Collecting
<1> QED
  BY <1>1, <1>2, <1>3, <1>4, <1>5, <1>6, <1>7, <1>8, <1>9 DEF Next

LEMMA CollectingInvariance == Spec => [](IInv /\ Collecting)
<1>1. Init => IInv /\ Collecting
  BY IInvInit, CollectingInit
<1>2. IInv /\ Collecting /\ [Next]_vars => (IInv /\ Collecting)'
  BY IInvStep, CollectingStep
<1> QED
  BY <1>1, <1>2, PTL DEF Spec

LEMMA EverySourceHeard == Collecting => OtherSourcesHeard
<1>1. SUFFICES ASSUME Collecting, phase = "merge", NEW k \in DOMAIN SourceOrder,
                      <<>> \notin Texts(Ask(SourceOrder[k], lexicon, word))
               PROVE  Texts(Ask(SourceOrder[k], lexicon, word)) \subseteq Texts(proposals)
  BY DEF OtherSourcesHeard
<1> DEFINE all == AllProposals(lexicon, word)
           props == Ask(SourceOrder[k], lexicon, word)
<1>2. PICK e : Evidence(e, all) /\ proposals = all \o e
  BY <1>1 DEF Collecting
<1>3. lexicon \in Lexicons /\ IsList(word) /\ k \in 1 .. Len(SourceOrder)
  BY <1>1, SourceOrderFacts DEF Collecting
<1>4. Piece(lexicon, word, k) = props
  BY <1>1, <1>3, PieceFacts
<1>5. Range(props) \subseteq Range(all) /\ IsList(all)
  BY <1>3, <1>4, AllProposalsFacts DEF Sound
<1> HIDE DEF all, props
<1>6. Range(proposals) = Range(all) \cup Range(e)
  BY <1>2, <1>5, RangeConcat DEF Evidence
<1>7. Range(props) \subseteq Range(proposals)
  BY <1>5, <1>6
<1>8. Texts(props) \subseteq Texts(proposals)
  BY <1>7 DEF Texts, Range
<1> QED
  BY <1>8 DEF props

\* A source that raises halfway silences no other: whatever the sources propose,
\* every text of a source whose proposals are all nonempty is merged
\* (generator.py:224).
THEOREM OtherSourcesHeardCorrect == Spec => []OtherSourcesHeard
BY CollectingInvariance, EverySourceHeard, PTL

-----------------------------------------------------------------------------
(***************************************************************************)
(* The cache.                                                              *)
(***************************************************************************)
LEMMA ListAppend ==
  ASSUME NEW s, IsList(s), NEW x
  PROVE  /\ IsList(Append(s, x)) /\ Len(Append(s, x)) = Len(s) + 1
         /\ \A i \in 1 .. Len(s) : Append(s, x)[i] = s[i]
         /\ Append(s, x)[Len(s) + 1] = x
<1> DEFINE T == Range(s) \cup {x}
<1>1. Len(s) \in Nat /\ DOMAIN s = 1 .. Len(s) /\ s = [i \in 1 .. Len(s) |-> s[i]]
  BY ListFacts
<1>2. \A i \in DOMAIN s : s[i] \in T
  BY DEF Range
<1>3. x \in T
  OBVIOUS
<1> HIDE DEF T
<1>4. s \in Seq(T)
  <2>1. s \in [1 .. Len(s) -> T]
    BY <1>1, <1>2
  <2> QED
    BY <1>1, <2>1
<1>5. /\ Append(s, x) \in Seq(T) /\ Len(Append(s, x)) = Len(s) + 1
      /\ \A i \in 1 .. Len(s) : Append(s, x)[i] = s[i]
      /\ Append(s, x)[Len(s) + 1] = x
  BY <1>3, <1>4
<1>6. IsList(Append(s, x))
  BY <1>5, ListOf
<1> QED
  BY <1>5, <1>6

\* Every entry from the a-th on.
LEMMA ListTail ==
  ASSUME NEW s, IsList(s), NEW a \in Nat \ {0}
  PROVE  /\ IsList(SubSeq(s, a, Len(s)))
         /\ Len(SubSeq(s, a, Len(s))) = IF a <= Len(s) THEN Len(s) - a + 1 ELSE 0
         /\ \A i \in 1 .. Len(SubSeq(s, a, Len(s))) :
              i + a - 1 \in 1 .. Len(s) /\ SubSeq(s, a, Len(s))[i] = s[i + a - 1]
<1> DEFINE n == Len(s)
           T == Range(s)
           t == SubSeq(s, a, n)
<1>1. n \in Nat /\ s \in Seq(T)
  BY ListFacts DEF IsList
<1> HIDE DEF T
<1>2. CASE a <= n
  <2>1. t \in Seq(T) /\ Len(t) = n - a + 1 /\ \A i \in 1 .. n - a + 1 : t[i] = s[i + a - 1]
    BY <1>1, <1>2
  <2>2. IsList(t)
    BY <2>1, ListOf
  <2>3. \A i \in 1 .. n - a + 1 : i + a - 1 \in 1 .. n
    BY <1>1, <1>2
  <2> QED
    BY <1>2, <2>1, <2>2, <2>3
<1>3. CASE ~(a <= n)
  <2>1. t = <<>>
    BY <1>1, <1>3
  <2> QED
    BY <1>3, <2>1, NoElements
<1> QED
  BY <1>2, <1>3

\* A cache in order: no two entries with one key, the last one asked for key.
IsStore(store) ==
  /\ IsList(store)
  /\ \A i, j \in DOMAIN store : store[i].key = store[j].key => i = j

LEMMA GetFacts ==
  ASSUME NEW c, c = [store |-> c.store, hits |-> c.hits, misses |-> c.misses],
         IsStore(c.store), NEW key, Holds(c, key)
  PROVE  LET d == AfterGet(c, key) IN
         /\ d = [store |-> d.store, hits |-> d.hits, misses |-> d.misses]
         /\ IsStore(d.store) /\ Range(d.store) \subseteq Range(c.store)
         /\ Len(d.store) = Len(c.store)
         /\ d.store # <<>> /\ Last(d.store).key = key
         /\ \E i \in DOMAIN c.store : c.store[i].key = key /\ CacheValue(c, key) = c.store[i].value
<1> DEFINE s == c.store
           I == {i \in DOMAIN s : s[i].key # key}
           p == Pick(s, I)
           x == Entry(c, key)
           n == Len(s)
           d == AfterGet(c, key)
<1>1. /\ d.store = Append(p, x)
      /\ d = [store |-> d.store, hits |-> d.hits, misses |-> d.misses]
  <2> DEFINE h == c.hits + 1
  <2> HIDE DEF h
  <2>1. d = [c EXCEPT !.hits = h, !.store = Append(p, x)]
    BY DEF AfterGet, h
  <2> HIDE DEF d, p, x
  <2>2. d = [store |-> Append(p, x), hits |-> h, misses |-> c.misses]
    BY <2>1
  <2> QED
    BY <2>2
<1>2. IsList(s) /\ n \in Nat /\ DOMAIN s = 1 .. n
  BY ListFacts DEF IsStore
<1>3. PICK j \in DOMAIN s : s[j].key = key
  BY DEF Holds, Keys
<1>4. x = s[j] /\ CacheValue(c, key) = s[j].value
  <2>1. s[j] \in {s[i] : i \in DOMAIN s}
    OBVIOUS
  <2>2. \A e \in {s[i] : i \in DOMAIN s} : e.key = key => e = s[j]
    BY <1>3 DEF IsStore
  <2>3. x = CHOOSE e \in {s[i] : i \in DOMAIN s} : e.key = key
    BY DEF Entry
  <2>4. x = s[j]
    BY <1>3, <2>1, <2>2, <2>3
  <2> QED
    BY <2>4 DEF CacheValue
<1> HIDE DEF x, d
<1>5. I = DOMAIN s \ {j} /\ I \in SUBSET (DOMAIN s)
  BY <1>3 DEF IsStore
<1>6. Cardinality(I) = n - 1
  <2>1. IsFiniteSet(DOMAIN s) /\ Cardinality(DOMAIN s) = n
    <3> DEFINE one == 1
    <3>1. one \in Int /\ n \in Int /\ DOMAIN s = one .. n
      BY <1>2
    <3> HIDE DEF one, n, s
    <3>2. IsFiniteSet(one .. n) /\ Cardinality(one .. n) = IF one > n THEN 0 ELSE n - one + 1
      BY <3>1, FS_Interval
    <3> QED
      BY <1>2, <3>1, <3>2 DEF one
  <2> HIDE DEF I
  <2>2. Cardinality(DOMAIN s \ {j}) = Cardinality(DOMAIN s) - 1
    BY <1>3, <2>1, FS_RemoveElement
  <2> QED
    BY <1>5, <2>1, <2>2
<1> HIDE DEF I
<1>7. /\ IsList(p) /\ Len(p) = n - 1
      /\ \E order : /\ Places(order, I)
                    /\ \A k \in 1 .. Cardinality(I) : p[k] = s[order[k]]
  BY <1>2, <1>5, <1>6, ListPick
<1>8. PICK order : /\ Places(order, I)
                   /\ \A k \in 1 .. Cardinality(I) : p[k] = s[order[k]]
  BY <1>7
<1> HIDE DEF p
<1>9. /\ IsList(d.store) /\ Len(d.store) = n
      /\ \A k \in 1 .. n - 1 : d.store[k] = p[k]
      /\ d.store[n] = x
  <2>1. /\ IsList(Append(p, x)) /\ Len(Append(p, x)) = Len(p) + 1
        /\ \A k \in 1 .. Len(p) : Append(p, x)[k] = p[k]
        /\ Append(p, x)[Len(p) + 1] = x
    BY <1>7, ListAppend
  <2>2. (n - 1) + 1 = n
    BY <1>2
  <2> QED
    BY <1>1, <1>7, <2>1, <2>2
<1>10. DOMAIN d.store = 1 .. n /\ n >= 1
  BY <1>2, <1>3, <1>9, ListFacts
<1> DEFINE from == [k \in 1 .. n |-> IF k = n THEN j ELSE order[k]]
<1>11. \A k \in 1 .. n : /\ from[k] \in DOMAIN s /\ d.store[k] = s[from[k]]
                         /\ (k # n => from[k] \in I /\ from[k] = order[k] /\ k \in 1 .. n - 1)
                         /\ (k = n => from[k] = j)
  <2>1. SUFFICES ASSUME NEW k \in 1 .. n
                 PROVE  /\ from[k] \in DOMAIN s /\ d.store[k] = s[from[k]]
                        /\ (k # n => from[k] \in I /\ from[k] = order[k] /\ k \in 1 .. n - 1)
                        /\ (k = n => from[k] = j)
    OBVIOUS
  <2>2. CASE k = n
    BY <1>3, <1>4, <1>9, <2>2
  <2>3. CASE k # n
    <3>1. k \in 1 .. n - 1
      BY <1>2, <2>3
    <3>2. order[k] \in I /\ d.store[k] = s[order[k]]
      BY <1>6, <1>8, <1>9, <3>1 DEF Places
    <3> QED
      BY <1>5, <2>3, <3>1, <3>2
  <2> QED
    BY <2>2, <2>3
<1> HIDE DEF from
<1>12. \A k, l \in 1 .. n : from[k] = from[l] => k = l
  <2>1. \A k, l \in 1 .. n - 1 : order[k] = order[l] => k = l
    BY <1>6, <1>8 DEF Places
  <2>2. j \notin I
    BY <1>5
  <2> QED
    BY <1>11, <2>1, <2>2
<1>13. IsStore(d.store)
  BY <1>9, <1>10, <1>11, <1>12 DEF IsStore
<1>14. Range(d.store) \subseteq Range(s)
  BY <1>10, <1>11 DEF Range
<1>15. d.store # <<>> /\ Last(d.store).key = key
  BY <1>3, <1>4, <1>9, <1>10, ListFacts DEF Last
<1> QED
  BY <1>1, <1>3, <1>4, <1>9, <1>13, <1>14, <1>15 DEF d

LEMMA MissFacts ==
  ASSUME NEW c, c = [store |-> c.store, hits |-> c.hits, misses |-> c.misses],
         NEW key, ~Holds(c, key)
  PROVE  LET d == AfterGet(c, key) IN
         d = [store |-> d.store, hits |-> d.hits, misses |-> d.misses] /\ d.store = c.store
<1> DEFINE d == AfterGet(c, key)
           m == c.misses + 1
<1> HIDE DEF m
<1>1. d = [c EXCEPT !.misses = m]
  BY DEF AfterGet, m
<1> HIDE DEF d
<1>2. d = [store |-> c.store, hits |-> c.hits, misses |-> m]
  BY <1>1
<1> QED
  BY <1>2 DEF d

\* The entries a cache has room for.
LEMMA RoomFacts ==
  /\ Max({1, MaxSize}) \in Nat /\ 1 <= Max({1, MaxSize}) /\ MaxSize <= Max({1, MaxSize})
<1>1. \E v \in {1, MaxSize} : \A u \in {1, MaxSize} : v >= u
  BY MaxSizeAssumption
<1> QED
  BY <1>1, MaxSizeAssumption DEF Max

Kept(key, value) == [key |-> key, value |-> value]

\* What a put of a new key leaves.
Stored(c, key, value) ==
  LET d == AfterPut(c, key, value) IN
  /\ d = [store |-> d.store, hits |-> d.hits, misses |-> d.misses]
  /\ IsStore(d.store)
  /\ Range(d.store) \subseteq Range(c.store) \cup {Kept(key, value)}
  /\ Len(d.store) <= Max({1, MaxSize})
  /\ d.store # <<>> /\ Last(d.store).key = key

LEMMA PutFacts ==
  ASSUME NEW c, c = [store |-> c.store, hits |-> c.hits, misses |-> c.misses],
         IsStore(c.store), Len(c.store) <= Max({1, MaxSize}),
         NEW key, ~Holds(c, key), NEW value
  PROVE  Stored(c, key, value)
<1> DEFINE s == c.store
           n == Len(s)
           tenth == IF MaxSize \div 10 > 1 THEN MaxSize \div 10 ELSE 1
           kept == Evicted(s)
           x == Kept(key, value)
           d == AfterPut(c, key, value)
           room == Max({1, MaxSize})
           a == tenth + 1
<1>1. IsList(s) /\ n \in Nat /\ DOMAIN s = 1 .. n
  BY ListFacts DEF IsStore
<1>2. /\ tenth \in Nat /\ tenth >= 1
      /\ MaxSize >= 1 => tenth <= MaxSize
      /\ MaxSize = 0 => tenth = 1
  <2>1. MaxSize \div 10 \in Nat /\ MaxSize \div 10 <= MaxSize
    BY MaxSizeAssumption
  <2> QED
    BY <2>1, MaxSizeAssumption
<1>3. kept = IF n >= MaxSize THEN SubSeq(s, a, n) ELSE s
  BY DEF Evicted
<1>4. room \in Nat /\ 1 <= room /\ MaxSize <= room /\ n <= room
  BY RoomFacts
<1> HIDE DEF tenth, kept, room
<1>5. /\ IsList(kept) /\ Len(kept) \in Nat /\ Len(kept) + 1 <= room
      /\ \E shift \in Nat : \A i \in 1 .. Len(kept) : i + shift \in 1 .. n /\ kept[i] = s[i + shift]
  <2>1. CASE n >= MaxSize
    <3>1. a \in Nat \ {0}
      BY <1>2
    <3> HIDE DEF a
    <3>2. /\ IsList(SubSeq(s, a, Len(s)))
          /\ Len(SubSeq(s, a, Len(s))) = IF a <= Len(s) THEN Len(s) - a + 1 ELSE 0
          /\ \A i \in 1 .. Len(SubSeq(s, a, Len(s))) :
               i + a - 1 \in 1 .. Len(s) /\ SubSeq(s, a, Len(s))[i] = s[i + a - 1]
      BY <1>1, <3>1, ListTail
    <3>3. /\ IsList(kept) /\ Len(kept) = IF a <= n THEN n - a + 1 ELSE 0
          /\ \A i \in 1 .. Len(kept) : i + a - 1 \in 1 .. n /\ kept[i] = s[i + a - 1]
      BY <1>3, <2>1, <3>2
    <3>4. Len(kept) \in Nat /\ Len(kept) + 1 <= room
      BY <1>1, <1>2, <1>4, <2>1, <3>1, <3>3, MaxSizeAssumption DEF a
    <3>5. \A i \in 1 .. Len(kept) : i + a - 1 = i + tenth
      BY <1>2, <3>4 DEF a
    <3> QED
      BY <1>2, <3>3, <3>4, <3>5
  <2>2. CASE ~(n >= MaxSize)
    <3>1. kept = s /\ n + 1 <= room
      BY <1>1, <1>3, <1>4, <2>2, MaxSizeAssumption
    <3>2. 0 \in Nat /\ \A i \in 1 .. n : i + 0 = i
      BY <1>1
    <3> QED
      BY <1>1, <3>1, <3>2
  <2> QED
    BY <2>1, <2>2
<1>6. PICK shift \in Nat : \A i \in 1 .. Len(kept) : i + shift \in 1 .. n /\ kept[i] = s[i + shift]
  BY <1>5
<1>7. DOMAIN kept = 1 .. Len(kept)
  BY <1>5, ListFacts
<1>8. \A i \in DOMAIN s : s[i].key # key
  BY DEF Holds, Keys
<1>9. \A i \in 1 .. Len(kept) : kept[i].key # key
  BY <1>1, <1>6, <1>8
<1>10. d.store = Append(kept, x) /\ d = [store |-> d.store, hits |-> d.hits, misses |-> d.misses]
  <2>1. ~(\E i \in DOMAIN kept : kept[i].key = key)
    BY <1>7, <1>9
  <2>2. d = [c EXCEPT !.store = Append(kept, x)]
    BY <2>1 DEF AfterPut, kept, Kept
  <2> HIDE DEF d, x
  <2>3. d = [store |-> Append(kept, x), hits |-> c.hits, misses |-> c.misses]
    BY <2>2
  <2> QED
    BY <2>3
<1> HIDE DEF d
<1>11. /\ IsList(d.store) /\ Len(d.store) = Len(kept) + 1
       /\ \A i \in 1 .. Len(kept) : d.store[i] = kept[i]
       /\ d.store[Len(kept) + 1] = x
  BY <1>5, <1>10, ListAppend
<1>12. DOMAIN d.store = 1 .. Len(kept) + 1
  BY <1>11, ListFacts
<1>13. \A i \in 1 .. Len(kept) + 1 : i = Len(kept) + 1 \/ i \in 1 .. Len(kept)
  BY <1>5
<1>14. x.key = key
  BY DEF Kept
<1> HIDE DEF x
<1>15. \A i, j \in 1 .. Len(kept) : kept[i].key = kept[j].key => i = j
  <2>1. SUFFICES ASSUME NEW i \in 1 .. Len(kept), NEW j \in 1 .. Len(kept), kept[i].key = kept[j].key
                 PROVE  i = j
    OBVIOUS
  <2>2. i + shift = j + shift
    BY <1>1, <1>6, <2>1 DEF IsStore
  <2> QED
    BY <1>5, <2>2
<1>16. IsStore(d.store)
  BY <1>9, <1>11, <1>12, <1>13, <1>14, <1>15 DEF IsStore
<1>17. \A i \in 1 .. Len(kept) : kept[i] \in Range(s)
  BY <1>1, <1>6 DEF Range
<1>18. Range(d.store) \subseteq Range(s) \cup {x}
  BY <1>11, <1>12, <1>13, <1>17 DEF Range
<1>19. d.store # <<>> /\ Last(d.store).key = key
  BY <1>5, <1>11, <1>14, ListFacts DEF Last
<1> QED
  BY <1>5, <1>10, <1>11, <1>16, <1>18, <1>19 DEF d, x, room, Stored

\* What a generation without a cache gives.
Fresh(lex, w, p) == IF p THEN Identity(w) ELSE Finished(AllProposals(lex, w), w)

RightEntry(e, lex) ==
  \E w \in Words, p \in BOOLEAN : e.key = Key(w, p) /\ e.value = Fresh(lex, w, p)

Caching ==
  /\ cache = [store |-> cache.store, hits |-> cache.hits, misses |-> cache.misses]
  /\ IsStore(cache.store)
  /\ Len(cache.store) <= Max({1, MaxSize})
  /\ \A e \in Range(cache.store) : RightEntry(e, lexicon)
  /\ cache.store # <<>> => Last(cache.store).key = Key(returned.asked, returned.protected)
  /\ phase \in {"sources", "merge"} /\ document.tokens = <<>> =>
       ~Holds(cache, Key(word, FALSE))
  /\ returned.asked # <<>> =>
       /\ returned.asked \in Words /\ returned.protected \in BOOLEAN
       /\ returned.candidates = Fresh(lexicon, returned.asked, returned.protected)

LEMMA KeyFacts ==
  ASSUME NEW v, NEW q, NEW w, NEW p, Key(v, q) = Key(w, p)
  PROVE  v = w /\ q = p
BY DEF Key

LEMMA CachingInit == Init => Caching
<1>1. SUFFICES ASSUME Init PROVE Caching
  OBVIOUS
<1>2. /\ cache = [store |-> <<>>, hits |-> 0, misses |-> 0] /\ phase = "idle"
      /\ returned.asked = <<>>
  BY <1>1 DEF Init, EmptyCache
<1>3. /\ cache.store = <<>>
      /\ cache = [store |-> cache.store, hits |-> cache.hits, misses |-> cache.misses]
  BY <1>2
<1>4. IsStore(<<>>) /\ Range(<<>>) = {} /\ Len(<<>>) = 0
  BY NoElements DEF IsStore, Range
<1> QED
  BY <1>2, <1>3, <1>4, RoomFacts DEF Caching

\* A step that neither asks nor fills the cache.
LEMMA CachingKept ==
  ASSUME Caching, UNCHANGED <<lexicon, cache, returned>>,
         phase' \in {"sources", "merge"} /\ document'.tokens = <<>> =>
           phase \in {"sources", "merge"} /\ document.tokens = <<>> /\ word' = word
  PROVE  Caching'
BY DEF Caching

\* A new answer, with its entry in the cache.
LEMMA CachingAnswer ==
  ASSUME Caching, NEW w \in Words, NEW p \in BOOLEAN,
         NEW before,
         before = [store |-> before.store, hits |-> before.hits, misses |-> before.misses],
         before.store = cache.store, ~Holds(cache, Key(w, p)),
         cache' = AfterPut(before, Key(w, p), Fresh(lexicon, w, p)),
         returned' = [asked |-> w, protected |-> p, candidates |-> Fresh(lexicon, w, p)],
         lexicon' = lexicon, phase' = "idle"
  PROVE  Caching'
<1> DEFINE asked == Key(w, p)
           answer == Fresh(lexicon, w, p)
           d == AfterPut(before, asked, answer)
           e == Kept(asked, answer)
<1> HIDE DEF asked, answer
<1>1. /\ IsStore(before.store) /\ Len(before.store) <= Max({1, MaxSize}) /\ ~Holds(before, asked)
      /\ before = [store |-> before.store, hits |-> before.hits, misses |-> before.misses]
  BY DEF Caching, Holds, Keys, asked
<1>2. /\ d = [store |-> d.store, hits |-> d.hits, misses |-> d.misses]
      /\ IsStore(d.store)
      /\ Range(d.store) \subseteq Range(before.store) \cup {e}
      /\ Len(d.store) <= Max({1, MaxSize})
      /\ d.store # <<>> /\ Last(d.store).key = asked
  <2>1. Stored(before, asked, answer)
    BY <1>1, PutFacts
  <2> QED
    BY <2>1 DEF Stored
<1>3. cache' = d
  BY DEF asked, answer
<1> HIDE DEF d
<1>4. RightEntry(e, lexicon)
  BY DEF RightEntry, Kept, asked, answer
<1>5. \A x \in Range(d.store) : RightEntry(x, lexicon)
  BY <1>2, <1>4 DEF Caching
<1>6. returned'.asked = w /\ returned'.protected = p /\ returned'.candidates = answer
  BY DEF answer
<1>7. \A x \in Range(cache'.store) : RightEntry(x, lexicon')
  BY <1>3, <1>5
<1>8. Last(cache'.store).key = Key(returned'.asked, returned'.protected)
  BY <1>2, <1>3, <1>6 DEF asked
<1> QED
  BY <1>2, <1>3, <1>6, <1>7, <1>8 DEF Caching, answer

LEMMA CachingToken ==
  ASSUME Caching, NEW w \in Words, NEW p \in BOOLEAN, GenerateToken(w, p)
  PROVE  Caching'
<1> DEFINE key == Key(w, p)
           asked == AfterGet(cache, key)
<1>1. phase = "idle" /\ lexicon' = lexicon
  BY DEF GenerateToken
<1>2. cache = [store |-> cache.store, hits |-> cache.hits, misses |-> cache.misses]
  BY DEF Caching
<1>3. CASE /\ Holds(cache, key) /\ cache' = asked /\ phase' = phase
           /\ returned' = [asked |-> w, protected |-> p, candidates |-> CacheValue(cache, key)]
  <2> HIDE DEF key
  <2>1. /\ asked = [store |-> asked.store, hits |-> asked.hits, misses |-> asked.misses]
        /\ IsStore(asked.store) /\ Range(asked.store) \subseteq Range(cache.store)
        /\ Len(asked.store) = Len(cache.store)
        /\ asked.store # <<>> /\ Last(asked.store).key = key
        /\ \E i \in DOMAIN cache.store :
             cache.store[i].key = key /\ CacheValue(cache, key) = cache.store[i].value
    BY <1>2, <1>3, GetFacts DEF Caching
  <2>2. PICK i \in DOMAIN cache.store :
          cache.store[i].key = key /\ CacheValue(cache, key) = cache.store[i].value
    BY <2>1
  <2>3. RightEntry(cache.store[i], lexicon)
    BY DEF Caching, Range
  <2>4. PICK v \in Words, q \in BOOLEAN :
          Key(w, p) = Key(v, q) /\ cache.store[i].value = Fresh(lexicon, v, q)
    BY <2>2, <2>3 DEF RightEntry, key
  <2>5. CacheValue(cache, key) = Fresh(lexicon, w, p)
    BY <2>2, <2>4, KeyFacts
  <2> HIDE DEF asked
  <2>6. /\ returned'.asked = w /\ returned'.protected = p
        /\ returned'.candidates = Fresh(lexicon, w, p)
    BY <1>3, <2>5
  <2>7. \A e \in Range(cache'.store) : RightEntry(e, lexicon')
    BY <1>1, <1>3, <2>1 DEF Caching
  <2>8. Len(cache'.store) <= Max({1, MaxSize})
    BY <1>3, <2>1 DEF Caching
  <2>9. Last(cache'.store).key = Key(returned'.asked, returned'.protected)
    BY <1>3, <2>1, <2>6 DEF key
  <2> QED
    BY <1>1, <1>3, <2>1, <2>6, <2>7, <2>8, <2>9 DEF Caching
<1>4. CASE /\ ~Holds(cache, key) /\ p /\ phase' = phase
           /\ cache' = AfterPut(asked, key, Identity(w))
           /\ returned' = [asked |-> w, protected |-> p, candidates |-> Identity(w)]
  <2>1. /\ asked = [store |-> asked.store, hits |-> asked.hits, misses |-> asked.misses]
        /\ asked.store = cache.store
    BY <1>2, <1>4, MissFacts
  <2>2. Fresh(lexicon, w, p) = Identity(w)
    BY <1>4 DEF Fresh
  <2> HIDE DEF asked
  <2> QED
    BY <1>1, <1>4, <2>1, <2>2, CachingAnswer
<1>5. CASE /\ ~Holds(cache, key) /\ ~p /\ cache' = asked /\ phase' = "sources"
           /\ document' = NoDocument /\ word' = w /\ returned' = returned
  <2>1. /\ asked = [store |-> asked.store, hits |-> asked.hits, misses |-> asked.misses]
        /\ asked.store = cache.store
    BY <1>2, <1>5, MissFacts
  <2> HIDE DEF asked
  <2>2. ~Holds(cache', Key(word', FALSE))
    <3>1. p = FALSE
      BY <1>5
    <3> QED
      BY <1>5, <2>1, <3>1 DEF Holds, Keys
  <2>3. cache'.store = cache.store
    BY <1>5, <2>1
  <2>4. cache' = [store |-> cache'.store, hits |-> cache'.hits, misses |-> cache'.misses]
    BY <1>5, <2>1
  <2> QED
    BY <1>1, <1>5, <2>2, <2>3, <2>4 DEF Caching
<1> QED
  BY <1>3, <1>4, <1>5 DEF GenerateToken, work

LEMMA CachingFinish ==
  ASSUME IInv, Collecting, Caching, FinishToken
  PROVE  Caching'
<1>1. phase = "merge" /\ UNCHANGED <<lexicon, document, word>>
  BY DEF FinishToken
<1>2. CASE phase' = "tokens" /\ UNCHANGED <<cache, returned>>
  BY <1>1, <1>2, CachingKept
<1>3. CASE /\ document.tokens = <<>>
           /\ cache' = AfterPut(cache, Key(word, FALSE), Finished(proposals, word))
           /\ returned' = [asked |-> word, protected |-> FALSE,
                           candidates |-> Finished(proposals, word)]
           /\ phase' = "idle"
  <2>1. /\ word \in Words /\ lexicon \in Lexicons /\ IsList(word)
        /\ \E e : /\ proposals = AllProposals(lexicon, word) \o e
                  /\ e = <<>>
    BY <1>1, <1>3 DEF Collecting
  <2>2. proposals = AllProposals(lexicon, word)
    <3> DEFINE all == AllProposals(lexicon, word)
               T == Range(all)
    <3>1. IsList(all)
      BY <2>1, AllProposalsFacts DEF Sound
    <3>2. proposals = all \o <<>>
      BY <2>1
    <3>3. all \in Seq(T)
      BY <3>1 DEF IsList
    <3> HIDE DEF all, T
    <3> QED
      BY <3>2, <3>3 DEF all
  <2>3. Finished(proposals, word) = Fresh(lexicon, word, FALSE)
    BY <2>2 DEF Fresh
  <2>4. ~Holds(cache, Key(word, FALSE))
    BY <1>1, <1>3 DEF Caching
  <2>5. cache = [store |-> cache.store, hits |-> cache.hits, misses |-> cache.misses]
    BY DEF Caching
  <2>6. FALSE \in BOOLEAN
    OBVIOUS
  <2> DEFINE p == FALSE
  <2>7. /\ p \in BOOLEAN
        /\ cache' = AfterPut(cache, Key(word, p), Fresh(lexicon, word, p))
        /\ returned' = [asked |-> word, protected |-> p, candidates |-> Fresh(lexicon, word, p)]
        /\ ~Holds(cache, Key(word, p))
    BY <1>3, <2>3, <2>4, <2>6
  <2> HIDE DEF p
  <2> QED
    BY <1>1, <1>3, <2>1, <2>5, <2>7, CachingAnswer
<1> QED
  BY <1>2, <1>3 DEF FinishToken

LEMMA CachingStep == IInv /\ Collecting /\ Caching /\ [Next]_vars => Caching'
<1>1. SUFFICES ASSUME IInv, Collecting, Caching, [Next]_vars
               PROVE  Caching'
  OBVIOUS
<1>2. CASE \E w \in Words, p \in BOOLEAN : GenerateToken(w, p)
  BY <1>1, <1>2, CachingToken
<1>3. CASE \E d \in Documents : GenerateDocument(d)
  <2>1. UNCHANGED <<lexicon, cache, returned>> /\ phase' = "tokens"
    BY <1>3 DEF GenerateDocument
  <2> QED
    BY <1>1, <2>1, CachingKept
<1>4. CASE NextToken
  <2>1. UNCHANGED <<lexicon, cache, returned, document>> /\ phase = "tokens"
    BY <1>4 DEF NextToken
  <2>2. phase' \in {"sources", "merge"} => document.tokens # <<>>
    <3>1. phase' \in {"sources", "merge"} => at' = at /\ phase' = "sources"
      BY <1>4, <2>1 DEF NextToken
    <3>2. Collecting'
      BY <1>1, CollectingStep
    <3>3. SUFFICES ASSUME phase' = "sources", document.tokens = <<>> PROVE FALSE
      BY <3>1
    <3>4. at <= Len(document.tokens) /\ at = Len(output) + 1 /\ Len(output) \in Nat
      BY <1>1, <1>4, <2>1 DEF NextToken, IInv, InStep, Answered
    <3>5. Len(document.tokens) = 0
      BY <3>3
    <3> QED
      BY <3>4, <3>5
  <2> QED
    BY <1>1, <2>1, <2>2, CachingKept
<1>5. CASE DocumentDone
  <2>1. UNCHANGED <<lexicon, cache, returned>> /\ phase' = "idle"
    BY <1>5 DEF DocumentDone
  <2> QED
    BY <1>1, <2>1, CachingKept
<1>6. CASE AskSource \/ AskPhraseEvidence
  <2>1. UNCHANGED <<lexicon, cache, returned, document, word>> /\ phase = "sources"
    BY <1>6 DEF AskSource, AskPhraseEvidence
  <2> QED
    BY <1>1, <2>1, CachingKept
<1>7. CASE FinishToken
  BY <1>1, <1>7, CachingFinish
<1>8. CASE UNCHANGED vars
  <2>1. UNCHANGED <<lexicon, cache, returned, phase, document, word>>
    BY <1>8 DEF vars
  <2> QED
    BY <1>1, <2>1, CachingKept
<1> QED
  BY <1>1, <1>2, <1>3, <1>4, <1>5, <1>6, <1>7, <1>8 DEF Next

LEMMA CachingInvariance == Spec => [](IInv /\ Collecting /\ Caching)
<1>1. Init => IInv /\ Collecting /\ Caching
  BY IInvInit, CollectingInit, CachingInit
<1>2. IInv /\ Collecting /\ Caching /\ [Next]_vars => (IInv /\ Collecting /\ Caching)'
  BY IInvStep, CollectingStep, CachingStep
<1> QED
  BY <1>1, <1>2, PTL DEF Spec

LEMMA CacheIsTransparent == Caching => CacheTransparent
<1>1. SUFFICES ASSUME Caching PROVE CacheTransparent
  OBVIOUS
<1>2. ASSUME NEW i \in DOMAIN cache.store
      PROVE  \E w \in Words, p \in BOOLEAN :
               /\ cache.store[i].key = Key(w, p)
               /\ cache.store[i].value =
                    IF p THEN Identity(w) ELSE Finished(AllProposals(lexicon, w), w)
               /\ \A v \in Words, q \in BOOLEAN : Key(v, q) = Key(w, p) => v = w /\ p = q
  <2>1. RightEntry(cache.store[i], lexicon)
    BY <1>1 DEF Caching, Range
  <2>2. PICK w \in Words, p \in BOOLEAN :
          cache.store[i].key = Key(w, p) /\ cache.store[i].value = Fresh(lexicon, w, p)
    BY <2>1 DEF RightEntry
  <2>3. \A v \in Words, q \in BOOLEAN : Key(v, q) = Key(w, p) => v = w /\ p = q
    BY DEF Key
  <2> QED
    BY <2>2, <2>3 DEF Fresh
<1>3. /\ Len(cache.store) <= Max({1, MaxSize})
      /\ cache.store # <<>> => Last(cache.store).key = Key(returned.asked, returned.protected)
  BY <1>1 DEF Caching
<1> QED
  BY <1>2, <1>3 DEF CacheTransparent

\* The cache changes nothing but the time (cache.py:34): whatever was asked before
\* and whatever its size, every entry is what a fresh generation would give, no
\* two requests share one, and what was used last will be evicted last.
THEOREM CacheTransparentCorrect == Spec => []CacheTransparent
BY CachingInvariance, CacheIsTransparent, PTL

-----------------------------------------------------------------------------
(***************************************************************************)
(* Merging, ranking and trimming.                                          *)
(***************************************************************************)
Numbers(S) == S \subseteq Int

LEMMA MaxOfSome ==
  ASSUME NEW nums, Numbers(nums), IsFiniteSet(nums), nums # {}
  PROVE  Max(nums) \in nums /\ \A y \in nums : Max(nums) >= y
<1> DEFINE Greater(x) == {y \in nums : y > x}
           family == {Greater(x) : x \in nums}
<1> HIDE DEF family
<1>1. family \subseteq SUBSET nums /\ family # {} /\ IsFiniteSet(nums)
  BY DEF family
<1>2. PICK A \in family : \A B \in family : ~(B \subseteq A /\ B # A)
  BY <1>1, LeastSet
<1>3. PICK x \in nums : A = Greater(x)
  BY DEF family
<1>4. ASSUME NEW y \in nums, ~(x >= y) PROVE FALSE
  <2>1. y > x /\ x \in Int /\ \A z \in nums : z \in Int
    BY <1>4 DEF Numbers
  <2>2. Greater(y) \subseteq Greater(x)
    <3>1. SUFFICES ASSUME NEW z \in nums, z > y PROVE z > x
      OBVIOUS
    <3>2. x \in Int /\ y \in Int /\ z \in Int /\ y > x /\ z > y
      BY <2>1, <3>1
    <3> QED
      BY <3>2
  <2>3. y \in Greater(x) /\ y \notin Greater(y)
    BY <2>1
  <2>4. Greater(y) \in family
    BY DEF family
  <2> QED
    BY <1>2, <1>3, <2>2, <2>3, <2>4
<1>5. \E z \in nums : \A y \in nums : z >= y
  BY <1>4
<1> QED
  BY <1>5 DEF Max

LEMMA MinOfSome ==
  ASSUME NEW nums, Numbers(nums), IsFiniteSet(nums), nums # {}
  PROVE  Min(nums) \in nums
<1> DEFINE Less(x) == {y \in nums : y < x}
           family == {Less(x) : x \in nums}
<1> HIDE DEF family
<1>1. family \subseteq SUBSET nums /\ family # {} /\ IsFiniteSet(nums)
  BY DEF family
<1>2. PICK A \in family : \A B \in family : ~(B \subseteq A /\ B # A)
  BY <1>1, LeastSet
<1>3. PICK x \in nums : A = Less(x)
  BY DEF family
<1>4. ASSUME NEW y \in nums, ~(x <= y) PROVE FALSE
  <2>1. y < x /\ x \in Int /\ \A z \in nums : z \in Int
    BY <1>4 DEF Numbers
  <2>2. Less(y) \subseteq Less(x)
    <3>1. SUFFICES ASSUME NEW z \in nums, z < y PROVE z < x
      OBVIOUS
    <3>2. x \in Int /\ y \in Int /\ z \in Int /\ y < x /\ z < y
      BY <2>1, <3>1
    <3> QED
      BY <3>2
  <2>3. y \in Less(x) /\ y \notin Less(y)
    BY <2>1
  <2>4. Less(y) \in family
    BY DEF family
  <2> QED
    BY <1>2, <1>3, <2>2, <2>3, <2>4
<1>5. \E z \in nums : \A y \in nums : z <= y
  BY <1>4
<1> QED
  BY <1>5 DEF Min

LEMMA MostOrNone ==
  ASSUME NEW nums, Numbers(nums), IsFiniteSet(nums)
  PROVE  MaxOrAbsent(nums) \in Int /\ MinOrAbsent(nums) \in Int
<1> DEFINE there == Present(nums)
<1>1. there \subseteq nums
  BY DEF Present
<1> HIDE DEF there
<1>2. IsFiniteSet(there)
  BY <1>1, FS_Subset
<1>3. Numbers(there)
  BY <1>1 DEF Numbers
<1>4. CASE there = {}
  BY <1>4 DEF MaxOrAbsent, MinOrAbsent, Absent, there
<1>5. CASE there # {}
  <2>1. Max(there) \in there /\ Min(there) \in there
    BY <1>2, <1>3, <1>5, MaxOfSome, MinOfSome
  <2>2. Max(there) \in Int /\ Min(there) \in Int
    BY <1>3, <2>1 DEF Numbers
  <2> QED
    BY <1>5, <2>2 DEF MaxOrAbsent, MinOrAbsent, there
<1> QED
  BY <1>4, <1>5

LEMMA MaxWithNumber ==
  ASSUME NEW nums, Numbers(nums), IsFiniteSet(nums), NEW n, n \in Int
  PROVE  Max(nums \cup {n}) \in Int /\ Max({n} \cup nums) \in Int
<1> DEFINE more == nums \cup {n}
<1>1. more # {} /\ more = {n} \cup nums
  OBVIOUS
<1>2. Numbers(more)
  BY DEF Numbers
<1>3. IsFiniteSet(more)
  BY FS_AddElement
<1> HIDE DEF more
<1>4. Max(more) \in more
  BY <1>1, <1>2, <1>3, MaxOfSome
<1>5. Max(more) \in Int
  BY <1>2, <1>4 DEF Numbers
<1> QED
  BY <1>1, <1>5 DEF more

LEMMA OfTwoNumbers ==
  ASSUME NEW x \in Int, NEW y \in Int
  PROVE  Min({x, y}) \in Int /\ Max({x, y}) \in Int
<1>1. \E z \in {x, y} : \A u \in {x, y} : z <= u
  OBVIOUS
<1>2. \E z \in {x, y} : \A u \in {x, y} : z >= u
  OBVIOUS
<1> QED
  BY <1>1, <1>2 DEF Min, Max

\* What ranking compares is a tuple of five numbers.
IsKey(k) == k \in [1 .. 5 -> Int]

\* Proposals that can be merged: every source has a weight, every optional number is one.
Mergeable(props) ==
  IsList(props) /\ \A i \in DOMAIN props : Rankable(props[i]) /\ props[i].source \in SourceNames

LEMMA FieldFinite ==
  ASSUME NEW f, NEW S, IsFiniteSet(S), \A i \in S : f[i] \in Int
  PROVE  IsFiniteSet({f[i] : i \in S}) /\ Numbers({f[i] : i \in S})
BY ImageFinite DEF Numbers

LEMMA KeyIsTyped ==
  ASSUME NEW props, Mergeable(props), NEW text, NEW w
  PROVE  IsKey(SortKey(MergedCandidate(props, text, w)))
<1> DEFINE mine == {i \in DOMAIN props : props[i].text = text}
           c == MergedCandidate(props, text, w)
<1>1. IsFiniteSet(mine) /\ Cardinality(mine) \in Nat
  <2>1. DOMAIN props = 1 .. Len(props) /\ Len(props) \in Nat
    BY ListFacts DEF Mergeable
  <2>2. IsFiniteSet(DOMAIN props)
    <3> DEFINE one == 1
               n == Len(props)
    <3>1. one \in Int /\ n \in Int /\ DOMAIN props = one .. n
      BY <2>1
    <3> HIDE DEF one, n
    <3>2. IsFiniteSet(one .. n)
      BY <3>1, FS_Interval
    <3> QED
      BY <3>1, <3>2
  <2>3. mine \subseteq DOMAIN props
    OBVIOUS
  <2> HIDE DEF mine
  <2> QED
    BY <2>2, <2>3, FS_Subset, FS_CardinalityType
<1>2. /\ c.sources = {props[i].source : i \in mine} /\ c.evidence = Cardinality(mine)
      /\ c.distance = MinOrAbsent({props[i].distance : i \in mine})
      /\ c.syllableFreq = MaxOrAbsent({props[i].syllableFreq : i \in mine})
      /\ c.wordFreq = MaxOrAbsent({props[i].wordFreq : i \in mine})
  BY DEF MergedCandidate
<1>3. \A i \in mine : /\ Weight[props[i].source] \in Int /\ props[i].distance \in Int
                      /\ props[i].syllableFreq \in Int /\ props[i].wordFreq \in Int
  BY DEF Mergeable, Rankable
<1> HIDE DEF mine, c
<1>4. c.distance \in Int /\ c.syllableFreq \in Int /\ c.wordFreq \in Int
  <2> DEFINE f == [i \in mine |-> props[i].distance]
             g == [i \in mine |-> props[i].syllableFreq]
             h == [i \in mine |-> props[i].wordFreq]
  <2>1. /\ {f[i] : i \in mine} = {props[i].distance : i \in mine}
        /\ {g[i] : i \in mine} = {props[i].syllableFreq : i \in mine}
        /\ {h[i] : i \in mine} = {props[i].wordFreq : i \in mine}
    OBVIOUS
  <2>2. \A i \in mine : f[i] \in Int /\ g[i] \in Int /\ h[i] \in Int
    BY <1>3
  <2> HIDE DEF f, g, h
  <2>3. /\ IsFiniteSet({f[i] : i \in mine}) /\ Numbers({f[i] : i \in mine})
        /\ IsFiniteSet({g[i] : i \in mine}) /\ Numbers({g[i] : i \in mine})
        /\ IsFiniteSet({h[i] : i \in mine}) /\ Numbers({h[i] : i \in mine})
    BY <1>1, <2>2, FieldFinite
  <2> DEFINE F == {f[i] : i \in mine}
             G == {g[i] : i \in mine}
             H == {h[i] : i \in mine}
  <2>4. c.distance = MinOrAbsent(F) /\ c.syllableFreq = MaxOrAbsent(G) /\ c.wordFreq = MaxOrAbsent(H)
    BY <1>2, <2>1
  <2> HIDE DEF F, G, H
  <2>5. MinOrAbsent(F) \in Int /\ MaxOrAbsent(G) \in Int /\ MaxOrAbsent(H) \in Int
    BY <2>3, MostOrNone DEF F, G, H
  <2> QED
    BY <2>4, <2>5
<1>5. Max({Weight[s] : s \in c.sources} \cup {0}) \in Int
  <2> DEFINE f == [i \in mine |-> Weight[props[i].source]]
             F == {f[i] : i \in mine}
             zero == 0
  <2>1. {Weight[s] : s \in c.sources} = F
    BY <1>2
  <2>2. \A i \in mine : f[i] \in Int
    BY <1>3
  <2> HIDE DEF f
  <2>3. IsFiniteSet(F) /\ Numbers(F)
    BY <1>1, <2>2, FieldFinite
  <2>4. zero \in Int
    OBVIOUS
  <2> HIDE DEF F, zero
  <2>5. Max(F \cup {zero}) \in Int
    BY <2>3, <2>4, MaxWithNumber
  <2> QED
    BY <2>1, <2>5 DEF zero
<1>6. compute_prior_score(c) \in Int
  <2> DEFINE weight == Max({Weight[s] : s \in c.sources} \cup {0})
             seen == Min({c.evidence, 5})
             sum == weight + (IF c.known THEN 50 ELSE 0)
                    + (3 * OrZero(c.syllableFreq)) \div 10
                    + (15 * OrZero(c.wordFreq)) \div 100
                    + (IF c.original THEN 50 ELSE 0) + 20 * seen
  <2>1. weight \in Int
    BY <1>5
  <2>2. seen \in Int
    BY <1>1, <1>2, OfTwoNumbers
  <2>3. OrZero(c.syllableFreq) \in Int /\ OrZero(c.wordFreq) \in Int
    BY <1>4 DEF OrZero
  <2> HIDE DEF weight, seen
  <2>4. sum \in Int
    BY <2>1, <2>2, <2>3
  <2>5. compute_prior_score(c) = Max({0, Min({1000, sum})})
    BY DEF compute_prior_score, weight, seen
  <2> HIDE DEF sum
  <2>6. Min({1000, sum}) \in Int
    BY <2>4, OfTwoNumbers
  <2>7. Max({0, Min({1000, sum})}) \in Int
    BY <2>6, OfTwoNumbers
  <2> QED
    BY <2>5, <2>7
<1>7. OrZero(c.syllableFreq) \in Int /\ OrZero(c.wordFreq) \in Int /\ c.evidence \in Int
  BY <1>1, <1>2, <1>4 DEF OrZero
<1>8. -(IF c.distance \in {Absent, 0} THEN 999 ELSE c.distance) \in Int
  BY <1>4
<1> QED
  BY <1>6, <1>7, <1>8 DEF SortKey, IsKey, c

\* Keys are compared place by place: of two that differ, one is above the other.
LEMMA AboveOrders ==
  /\ \A k, l : IsKey(k) /\ IsKey(l) => ~(Above(k, l) /\ Above(l, k)) /\ ~Above(k, k)
  /\ \A k, l : IsKey(k) /\ IsKey(l) /\ k # l => Above(k, l) \/ Above(l, k)
  /\ \A k, l, m : IsKey(k) /\ IsKey(l) /\ IsKey(m) /\ Above(k, l) /\ Above(l, m) => Above(k, m)
<1>1. ASSUME NEW k, IsKey(k), Above(k, k) PROVE FALSE
  BY <1>1 DEF IsKey, Above
<1>2. ASSUME NEW k, NEW l, NEW m, IsKey(k), IsKey(l), IsKey(m), Above(k, l), Above(l, m)
      PROVE  Above(k, m)
  <2>1. PICK a \in 1 .. 5 : k[a] > l[a] /\ \A b \in 1 .. a - 1 : k[b] = l[b]
    BY <1>2 DEF IsKey, Above
  <2>2. PICK c \in 1 .. 5 : l[c] > m[c] /\ \A b \in 1 .. c - 1 : l[b] = m[b]
    BY <1>2 DEF IsKey, Above
  <2>3. DOMAIN k = 1 .. 5 /\ \A i \in 1 .. 5 : k[i] \in Int /\ l[i] \in Int /\ m[i] \in Int
    BY <1>2 DEF IsKey
  <2>4. \E n \in 1 .. 5 : k[n] > m[n] /\ \A b \in 1 .. n - 1 : k[b] = m[b]
    <3>1. CASE a < c
      <4>1. k[a] > m[a] /\ \A b \in 1 .. a - 1 : k[b] = m[b]
        BY <2>1, <2>2, <2>3, <3>1
      <4> QED
        BY <4>1
    <3>2. CASE a = c
      <4>1. k[a] > m[a] /\ \A b \in 1 .. a - 1 : k[b] = m[b]
        BY <2>1, <2>2, <2>3, <3>2
      <4> QED
        BY <4>1
    <3>3. CASE a > c
      <4>1. k[c] > m[c] /\ \A b \in 1 .. c - 1 : k[b] = m[b]
        BY <2>1, <2>2, <2>3, <3>3
      <4> QED
        BY <4>1
    <3> QED
      BY <3>1, <3>2, <3>3
  <2> QED
    BY <2>3, <2>4 DEF Above
<1>3. ASSUME NEW k, NEW l, IsKey(k), IsKey(l), k # l
      PROVE  Above(k, l) \/ Above(l, k)
  <2>1. /\ DOMAIN k = 1 .. 5 /\ DOMAIN l = 1 .. 5
        /\ \A i \in 1 .. 5 : k[i] \in Int /\ l[i] \in Int
    BY <1>3 DEF IsKey
  <2>2. \E n \in 1 .. 5 : k[n] # l[n] /\ \A b \in 1 .. n - 1 : k[b] = l[b]
    <3>1. \E n \in 1 .. 5 : k[n] # l[n]
      BY <1>3 DEF IsKey
    <3>2. CASE k[1] # l[1]
      BY <3>2
    <3>3. CASE k[1] = l[1] /\ k[2] # l[2]
      BY <3>3
    <3>4. CASE k[1] = l[1] /\ k[2] = l[2] /\ k[3] # l[3]
      <4>1. \A b \in 1 .. 3 - 1 : b = 1 \/ b = 2
        OBVIOUS
      <4> QED
        BY <3>4, <4>1
    <3>5. CASE k[1] = l[1] /\ k[2] = l[2] /\ k[3] = l[3] /\ k[4] # l[4]
      <4>1. \A b \in 1 .. 4 - 1 : b = 1 \/ b = 2 \/ b = 3
        OBVIOUS
      <4> QED
        BY <3>5, <4>1
    <3>6. CASE k[1] = l[1] /\ k[2] = l[2] /\ k[3] = l[3] /\ k[4] = l[4] /\ k[5] # l[5]
      <4>1. \A b \in 1 .. 5 - 1 : b = 1 \/ b = 2 \/ b = 3 \/ b = 4
        OBVIOUS
      <4> QED
        BY <3>6, <4>1
    <3>7. \A n \in 1 .. 5 : n = 1 \/ n = 2 \/ n = 3 \/ n = 4 \/ n = 5
      OBVIOUS
    <3> QED
      BY <3>1, <3>2, <3>3, <3>4, <3>5, <3>6, <3>7
  <2>3. PICK n \in 1 .. 5 : k[n] # l[n] /\ \A b \in 1 .. n - 1 : k[b] = l[b]
    BY <2>2
  <2>4. k[n] > l[n] \/ l[n] > k[n]
    BY <2>1, <2>3
  <2> QED
    BY <2>1, <2>3, <2>4 DEF Above
<1> QED
  BY <1>1, <1>2, <1>3

LEMMA BeforeOrders ==
  ASSUME NEW n \in Nat, NEW keys, DOMAIN keys = 1 .. n, \A i \in 1 .. n : IsKey(keys[i])
  PROVE  Orders(Before(keys), 1 .. n)
<1> DEFINE Comes(i, j) == Above(keys[i], keys[j]) \/ (keys[i] = keys[j] /\ i < j)
<1>1. \A i, j \in 1 .. n : <<i, j>> \in Before(keys) <=> Comes(i, j)
  BY DEF Before
<1>2. \A i \in 1 .. n : ~Comes(i, i)
  BY AboveOrders
<1>3. ASSUME NEW i \in 1 .. n, NEW j \in 1 .. n, i # j
      PROVE  Comes(i, j) \/ Comes(j, i)
  <2>1. CASE keys[i] = keys[j]
    <3>1. i < j \/ j < i
      BY <1>3
    <3> QED
      BY <2>1, <3>1
  <2>2. CASE keys[i] # keys[j]
    BY <2>2, AboveOrders
  <2> QED
    BY <2>1, <2>2
<1>4. ASSUME NEW i \in 1 .. n, NEW j \in 1 .. n, NEW k \in 1 .. n, Comes(i, j), Comes(j, k)
      PROVE  Comes(i, k)
  <2>1. IsKey(keys[i]) /\ IsKey(keys[j]) /\ IsKey(keys[k])
    OBVIOUS
  <2>2. CASE keys[i] = keys[j] /\ keys[j] = keys[k]
    <3>1. ~Above(keys[i], keys[j]) /\ ~Above(keys[j], keys[k])
      BY <2>1, <2>2, AboveOrders
    <3>2. i < j /\ j < k
      BY <1>4, <3>1
    <3>3. i < k
      BY <3>2
    <3> QED
      BY <2>2, <3>3
  <2>3. CASE keys[i] # keys[j] /\ keys[j] = keys[k]
    BY <1>4, <2>3
  <2>4. CASE keys[i] = keys[j] /\ keys[j] # keys[k]
    BY <1>4, <2>4
  <2>5. CASE keys[i] # keys[j] /\ keys[j] # keys[k]
    <3>1. Above(keys[i], keys[j]) /\ Above(keys[j], keys[k])
      BY <1>4, <2>5
    <3> QED
      BY <2>1, <3>1, AboveOrders
  <2> QED
    BY <2>2, <2>3, <2>4, <2>5
<1> HIDE DEF Comes
<1> QED
  BY <1>1, <1>2, <1>3, <1>4 DEF Orders

\* Sorting moves the candidates about and loses none.
LEMMA SortedFacts ==
  ASSUME NEW cands, IsList(cands), \A i \in DOMAIN cands : IsKey(SortKey(cands[i]))
  PROVE  /\ IsList(Sorted(cands)) /\ DOMAIN Sorted(cands) = DOMAIN cands
         /\ \E order \in [DOMAIN cands -> DOMAIN cands] :
              /\ \A k \in DOMAIN cands : Sorted(cands)[k] = cands[order[k]]
              /\ \A k, l \in DOMAIN cands : order[k] = order[l] => k = l
              /\ \A i \in DOMAIN cands : \E k \in DOMAIN cands : order[k] = i
<1> DEFINE n == Len(cands)
           keys == [i \in DOMAIN cands |-> SortKey(cands[i])]
           D == 1 .. n
           R == Before(keys)
           order == InOrder(D, R)
<1>1. n \in Nat /\ DOMAIN cands = D
  BY ListFacts
<1>2. Orders(R, D)
  <2>1. DOMAIN keys = D /\ \A i \in D : IsKey(keys[i])
    BY <1>1
  <2> HIDE DEF keys
  <2> QED
    BY <1>1, <2>1, BeforeOrders
<1>3. IsFiniteSet(D) /\ Cardinality(D) = n
  <2> DEFINE one == 1
  <2>1. one \in Int /\ n \in Int /\ D = one .. n
    BY <1>1
  <2> HIDE DEF one, n, D
  <2>2. IsFiniteSet(one .. n) /\ Cardinality(one .. n) = IF one > n THEN 0 ELSE n - one + 1
    BY <2>1, FS_Interval
  <2>3. (IF one > n THEN 0 ELSE n - one + 1) = n
    BY <1>1 DEF one
  <2> QED
    BY <2>1, <2>2, <2>3
<1>4. Sorted(cands) = [k \in D |-> cands[order[k]]]
  BY <1>1 DEF Sorted
<1> HIDE DEF D, R
<1>5. /\ order \in [1 .. Cardinality(D) -> D]
      /\ \A k, l \in 1 .. Cardinality(D) : order[k] = order[l] => k = l
      /\ \A i \in D : \E k \in 1 .. Cardinality(D) : order[k] = i
  BY <1>2, <1>3, InOrderFacts
<1>6. 1 .. Cardinality(D) = D
  BY <1>3 DEF D
<1> HIDE DEF order, n
<1>7. IsList(Sorted(cands)) /\ DOMAIN Sorted(cands) = D
  <2>1. Sorted(cands) = [k \in 1 .. n |-> Sorted(cands)[k]]
    BY <1>4 DEF D
  <2> QED
    BY <1>1, <2>1, ListMade DEF D
<1> QED
  BY <1>1, <1>4, <1>5, <1>6, <1>7

\* Candidates for w: one per text, one of them the original, fit to be ranked.
Candidates(c, w) ==
  /\ IsList(c)
  /\ \A i, j \in DOMAIN c : c[i].text = c[j].text => i = j
  /\ \A i \in DOMAIN c : (c[i].original <=> c[i].text = w) /\ IsKey(SortKey(c[i]))
  /\ \E i \in DOMAIN c : c[i].text = w

\* Some of the candidates, each at most once.
FewOf(d, c) ==
  /\ IsList(d)
  /\ \E from \in [DOMAIN d -> DOMAIN c] :
       /\ \A k \in DOMAIN d : d[k] = c[from[k]]
       /\ \A k, l \in DOMAIN d : from[k] = from[l] => k = l

\* What generate_token promises.
Leads(c, w) ==
  /\ IsList(c) /\ Len(c) >= 1 /\ c[1].text = w
  /\ \A i, j \in DOMAIN c : c[i].text = c[j].text => i = j

LEMMA MergeFacts ==
  ASSUME NEW props, Mergeable(props), NEW w, \E i \in DOMAIN props : props[i].text = w
  PROVE  Candidates(Merge(props, w), w)
<1> DEFINE n == Len(props)
           first == {i \in DOMAIN props : \A j \in 1 .. i - 1 : props[j].text # props[i].text}
           f == [i \in DOMAIN props |-> MergedCandidate(props, props[i].text, w)]
           M == Merge(props, w)
<1>1. n \in Nat /\ DOMAIN props = 1 .. n
  BY ListFacts DEF Mergeable
<1>2. IsList(f) /\ DOMAIN f = DOMAIN props
  <2>1. f = [i \in 1 .. n |-> f[i]] /\ DOMAIN f = 1 .. n
    BY <1>1
  <2> HIDE DEF f, n
  <2> QED
    BY <1>1, <2>1, ListMade
<1>3. \A i \in DOMAIN props : /\ f[i].text = props[i].text
                              /\ f[i].original <=> f[i].text = w
                              /\ IsKey(SortKey(f[i]))
  <2>1. SUFFICES ASSUME NEW i \in DOMAIN props
                 PROVE  /\ f[i].text = props[i].text
                        /\ f[i].original <=> f[i].text = w
                        /\ IsKey(SortKey(f[i]))
    OBVIOUS
  <2>2. f[i] = MergedCandidate(props, props[i].text, w)
    OBVIOUS
  <2>3. f[i].text = props[i].text /\ (f[i].original <=> f[i].text = w)
    BY <2>2 DEF MergedCandidate
  <2> HIDE DEF f
  <2> QED
    BY <2>2, <2>3, KeyIsTyped
<1>4. M = Pick(f, first) /\ first \in SUBSET (DOMAIN f)
  BY <1>2 DEF Merge
<1>5. \E k \in first : props[k].text = w
  <2> DEFINE T == {i \in 1 .. n : props[i].text = w}
  <2>1. T \subseteq Nat /\ T # {}
    BY <1>1
  <2> HIDE DEF T
  <2>2. PICK i \in T : \A j \in T : i <= j
    BY <2>1, LeastNumber
  <2>3. ASSUME NEW j \in 1 .. i - 1, props[j].text = props[i].text PROVE FALSE
    <3>1. i \in 1 .. n /\ props[i].text = w
      BY <2>2 DEF T
    <3>2. j \in 1 .. n /\ ~(i <= j)
      BY <1>1, <3>1
    <3>3. j \in T
      BY <2>3, <3>1, <3>2 DEF T
    <3> QED
      BY <2>2, <3>2, <3>3
  <2> QED
    BY <1>1, <2>2, <2>3 DEF T
<1>6. \A i, j \in first : props[i].text = props[j].text => i = j
  <2>1. SUFFICES ASSUME NEW i \in first, NEW j \in first, props[i].text = props[j].text, i # j
                 PROVE  FALSE
    OBVIOUS
  <2>2. i \in 1 .. j - 1 \/ j \in 1 .. i - 1
    BY <1>1, <2>1
  <2> QED
    BY <2>1, <2>2
<1> HIDE DEF f, first, M
<1>7. /\ IsList(M) /\ Len(M) = Cardinality(first)
      /\ \E order : /\ Places(order, first)
                    /\ \A k \in 1 .. Cardinality(first) : M[k] = f[order[k]]
  BY <1>2, <1>4, ListPick
<1>8. PICK order : /\ Places(order, first)
                   /\ \A k \in 1 .. Cardinality(first) : M[k] = f[order[k]]
  BY <1>7
<1>9. DOMAIN M = 1 .. Cardinality(first)
  BY <1>7, ListFacts
<1>10. \A k \in DOMAIN M : /\ order[k] \in first /\ order[k] \in DOMAIN props
                           /\ M[k] = f[order[k]] /\ M[k].text = props[order[k]].text
  BY <1>2, <1>3, <1>4, <1>8, <1>9 DEF Places
<1>11. \A k, l \in DOMAIN M : order[k] = order[l] => k = l
  BY <1>8, <1>9 DEF Places
<1>12. \A k, l \in DOMAIN M : M[k].text = M[l].text => k = l
  BY <1>6, <1>10, <1>11
<1>13. \E k \in DOMAIN M : M[k].text = w
  <2>1. PICK i \in first : props[i].text = w
    BY <1>5
  <2>2. PICK k \in DOMAIN M : order[k] = i
    BY <1>8, <1>9 DEF Places
  <2> QED
    BY <1>10, <2>1, <2>2
<1> QED
  BY <1>3, <1>7, <1>10, <1>12, <1>13 DEF Candidates, M

LEMMA SortedCandidates ==
  ASSUME NEW c, NEW w, Candidates(c, w)
  PROVE  Candidates(Sorted(c), w)
<1> DEFINE d == Sorted(c)
<1>1. /\ IsList(d) /\ DOMAIN d = DOMAIN c
      /\ \E order \in [DOMAIN c -> DOMAIN c] :
           /\ \A k \in DOMAIN c : d[k] = c[order[k]]
           /\ \A k, l \in DOMAIN c : order[k] = order[l] => k = l
           /\ \A i \in DOMAIN c : \E k \in DOMAIN c : order[k] = i
  BY SortedFacts DEF Candidates
<1> HIDE DEF d
<1>2. PICK order \in [DOMAIN c -> DOMAIN c] :
           /\ \A k \in DOMAIN c : d[k] = c[order[k]]
           /\ \A k, l \in DOMAIN c : order[k] = order[l] => k = l
           /\ \A i \in DOMAIN c : \E k \in DOMAIN c : order[k] = i
  BY <1>1
<1>3. \A k \in DOMAIN d : order[k] \in DOMAIN c /\ d[k] = c[order[k]]
  BY <1>1, <1>2
<1>4. \A k, l \in DOMAIN d : d[k].text = d[l].text => k = l
  <2>1. SUFFICES ASSUME NEW k \in DOMAIN d, NEW l \in DOMAIN d, d[k].text = d[l].text
                 PROVE  k = l
    OBVIOUS
  <2>2. order[k] = order[l]
    BY <1>3, <2>1 DEF Candidates
  <2> QED
    BY <1>1, <1>2, <2>2
<1>5. \E k \in DOMAIN d : d[k].text = w
  <2>1. PICK i \in DOMAIN c : c[i].text = w
    BY DEF Candidates
  <2>2. PICK k \in DOMAIN c : order[k] = i
    BY <1>2
  <2> QED
    BY <1>1, <1>3, <2>1, <2>2
<1>6. \A k \in DOMAIN d : (d[k].original <=> d[k].text = w) /\ IsKey(SortKey(d[k]))
  BY <1>3 DEF Candidates
<1> QED
  BY <1>1, <1>4, <1>5, <1>6 DEF Candidates, d

LEMMA OriginalAlone ==
  ASSUME NEW c, NEW w, Candidates(c, w)
  PROVE  /\ IsList(Originals(c)) /\ Len(Originals(c)) = 1
         /\ \E j \in DOMAIN c : Originals(c)[1] = c[j] /\ c[j].text = w /\ c[j].original
<1> DEFINE I == {i \in DOMAIN c : c[i].original}
<1>1. PICK j \in DOMAIN c : c[j].text = w /\ c[j].original
  BY DEF Candidates
<1>2. I = {j} /\ I \in SUBSET (DOMAIN c)
  BY <1>1 DEF Candidates
<1>3. Cardinality({j}) = 1
  BY FS_Singleton
<1>4. Originals(c) = Pick(c, I) /\ IsList(c)
  BY DEF Originals, Candidates
<1> HIDE DEF I
<1>5. /\ IsList(Pick(c, I)) /\ Len(Pick(c, I)) = Cardinality(I)
      /\ \E order : /\ Places(order, I)
                    /\ \A k \in 1 .. Cardinality(I) : Pick(c, I)[k] = c[order[k]]
  BY <1>2, <1>4, ListPick
<1>6. PICK order : /\ Places(order, I)
                   /\ \A k \in 1 .. Cardinality(I) : Pick(c, I)[k] = c[order[k]]
  BY <1>5
<1>7. 1 \in 1 .. Cardinality(I)
  BY <1>2, <1>3
<1>8. order[1] = j
  <2>1. order[1] \in I
    BY <1>6, <1>7 DEF Places
  <2> QED
    BY <1>2, <2>1
<1>9. Pick(c, I)[1] = c[j]
  BY <1>6, <1>7, <1>8
<1> QED
  BY <1>1, <1>2, <1>3, <1>4, <1>5, <1>9

LEMMA OthersFew ==
  ASSUME NEW c, NEW w, Candidates(c, w)
  PROVE  /\ FewOf(Others(c), c)
         /\ \A k \in DOMAIN Others(c) : Others(c)[k].text # w
<1> DEFINE I == {i \in DOMAIN c : ~c[i].original}
           d == Others(c)
<1>1. d = Pick(c, I) /\ IsList(c) /\ I \in SUBSET (DOMAIN c)
  BY DEF Others, Candidates
<1>2. \A i \in I : c[i].text # w /\ i \in DOMAIN c
  BY DEF Candidates
<1> HIDE DEF I, d
<1>3. /\ IsList(d) /\ Len(d) = Cardinality(I)
      /\ \E order : /\ Places(order, I)
                    /\ \A k \in 1 .. Cardinality(I) : d[k] = c[order[k]]
  BY <1>1, ListPick
<1>4. PICK order : /\ Places(order, I)
                   /\ \A k \in 1 .. Cardinality(I) : d[k] = c[order[k]]
  BY <1>3
<1>5. DOMAIN d = 1 .. Cardinality(I)
  BY <1>3, ListFacts
<1>6. order \in [DOMAIN d -> DOMAIN c] /\ \A k \in DOMAIN d : order[k] \in I
  BY <1>1, <1>4, <1>5 DEF Places
<1>7. \A k, l \in DOMAIN d : order[k] = order[l] => k = l
  BY <1>4, <1>5 DEF Places
<1>8. \A k \in DOMAIN d : d[k] = c[order[k]]
  BY <1>4, <1>5
<1>9. FewOf(d, c)
  BY <1>3, <1>6, <1>7, <1>8 DEF FewOf
<1>10. \A k \in DOMAIN d : d[k].text # w
  BY <1>2, <1>6, <1>8
<1> QED
  BY <1>9, <1>10 DEF d

\* The original, then some of the others.
LEMMA OriginalThenOthers ==
  ASSUME NEW c, NEW w, Candidates(c, w), NEW rest, FewOf(rest, c),
         \A k \in DOMAIN rest : rest[k].text # w
  PROVE  /\ Leads(Originals(c) \o rest, w) /\ Candidates(Originals(c) \o rest, w)
         /\ Len(Originals(c) \o rest) = 1 + Len(rest)
<1> DEFINE d == Originals(c) \o rest
           n == Len(rest)
<1>1. /\ IsList(Originals(c)) /\ Len(Originals(c)) = 1
      /\ \E j \in DOMAIN c : Originals(c)[1] = c[j] /\ c[j].text = w /\ c[j].original
  BY OriginalAlone
<1>2. PICK j \in DOMAIN c : Originals(c)[1] = c[j] /\ c[j].text = w /\ c[j].original
  BY <1>1
<1>3. IsList(rest) /\ n \in Nat /\ DOMAIN rest = 1 .. n
  BY ListFacts DEF FewOf
<1>4. /\ IsList(d) /\ Len(d) = 1 + n /\ d[1] = c[j]
      /\ \A i \in 1 .. n : d[1 + i] = rest[i]
  <2> DEFINE o == Originals(c)
  <2> HIDE DEF o
  <2>0. IsList(o)
    BY <1>1 DEF o
  <2>1. /\ IsList(o \o rest) /\ Len(o \o rest) = Len(o) + Len(rest)
        /\ \A i \in 1 .. Len(o) : (o \o rest)[i] = o[i]
        /\ \A i \in 1 .. Len(rest) : (o \o rest)[Len(o) + i] = rest[i]
    BY <1>3, <2>0, ListConcat
  <2>2. Len(o) = 1 /\ o[1] = c[j] /\ 1 \in 1 .. 1
    BY <1>1, <1>2 DEF o
  <2> QED
    BY <2>1, <2>2 DEF o
<1> HIDE DEF d, n
<1>5. DOMAIN d = 1 .. 1 + n
  BY <1>4, ListFacts
<1>6. PICK from \in [DOMAIN rest -> DOMAIN c] :
        /\ \A k \in DOMAIN rest : rest[k] = c[from[k]]
        /\ \A k, l \in DOMAIN rest : from[k] = from[l] => k = l
  BY DEF FewOf
<1>7. \A k \in 1 .. 1 + n :
        \/ k = 1 /\ d[k] = c[j]
        \/ k # 1 /\ k - 1 \in 1 .. n /\ d[k] = rest[k - 1] /\ d[k].text # w
  <2>1. SUFFICES ASSUME NEW k \in 1 .. 1 + n, k # 1
                 PROVE  k - 1 \in 1 .. n /\ d[k] = rest[k - 1] /\ d[k].text # w
    BY <1>4
  <2>2. k - 1 \in 1 .. n /\ 1 + (k - 1) = k
    BY <1>3, <2>1
  <2>3. d[k] = rest[k - 1]
    BY <1>4, <2>2
  <2> QED
    BY <1>3, <2>2, <2>3
<1>8. \A i \in 1 .. n : /\ rest[i] = c[from[i]] /\ from[i] \in DOMAIN c
  BY <1>3, <1>6
<1>9. \A k, l \in DOMAIN d : d[k].text = d[l].text => k = l
  <2>1. SUFFICES ASSUME NEW k \in 1 .. 1 + n, NEW l \in 1 .. 1 + n, d[k].text = d[l].text
                 PROVE  k = l
    BY <1>5
  <2>2. CASE k = 1 \/ l = 1
    BY <1>2, <1>7, <2>1, <2>2
  <2>3. CASE k # 1 /\ l # 1
    <3>1. /\ k - 1 \in 1 .. n /\ d[k] = c[from[k - 1]] /\ from[k - 1] \in DOMAIN c
          /\ l - 1 \in 1 .. n /\ d[l] = c[from[l - 1]] /\ from[l - 1] \in DOMAIN c
      BY <1>7, <1>8, <2>3
    <3>2. from[k - 1] = from[l - 1]
      BY <2>1, <3>1 DEF Candidates
    <3>3. k - 1 = l - 1
      BY <1>3, <1>6, <3>1, <3>2
    <3> QED
      BY <1>3, <3>3
  <2> QED
    BY <2>2, <2>3
<1>10. \A k \in DOMAIN d : \E i \in DOMAIN c : d[k] = c[i]
  BY <1>5, <1>7, <1>8
<1>11. \A k \in DOMAIN d : (d[k].original <=> d[k].text = w) /\ IsKey(SortKey(d[k]))
  BY <1>10 DEF Candidates
<1>12. 1 \in DOMAIN d /\ d[1].text = w /\ Len(d) >= 1
  BY <1>2, <1>3, <1>4, <1>5
<1> QED
  BY <1>4, <1>9, <1>11, <1>12 DEF Leads, Candidates, d, n

LEMMA FrontFew ==
  ASSUME NEW c, NEW d, FewOf(d, c), NEW m, m \in 0 .. Len(d)
  PROVE  /\ FewOf(SubSeq(d, 1, m), c) /\ Len(SubSeq(d, 1, m)) = m
         /\ \A i \in DOMAIN SubSeq(d, 1, m) : i \in DOMAIN d /\ SubSeq(d, 1, m)[i] = d[i]
<1> DEFINE e == SubSeq(d, 1, m)
<1>1. IsList(d) /\ DOMAIN d = 1 .. Len(d) /\ Len(d) \in Nat
  BY ListFacts DEF FewOf
<1>2. IsList(e) /\ Len(e) = m /\ \A i \in 1 .. m : e[i] = d[i]
  BY <1>1, ListSub
<1> HIDE DEF e
<1>3. DOMAIN e = 1 .. m
  BY <1>2, ListFacts
<1>4. PICK from \in [DOMAIN d -> DOMAIN c] :
        /\ \A k \in DOMAIN d : d[k] = c[from[k]]
        /\ \A k, l \in DOMAIN d : from[k] = from[l] => k = l
  BY DEF FewOf
<1>5. \A i \in DOMAIN e : i \in DOMAIN d /\ e[i] = d[i]
  BY <1>1, <1>2, <1>3
<1> DEFINE less == [k \in DOMAIN e |-> from[k]]
<1>6. /\ less \in [DOMAIN e -> DOMAIN c]
      /\ \A k \in DOMAIN e : e[k] = c[less[k]]
      /\ \A k, l \in DOMAIN e : less[k] = less[l] => k = l
  BY <1>4, <1>5
<1> HIDE DEF less
<1>7. FewOf(e, c)
  BY <1>2, <1>6 DEF FewOf
<1> QED
  BY <1>2, <1>5, <1>7 DEF e

LEMMA FinishedLeads ==
  ASSUME KeepOriginalFirst, NEW props, Mergeable(props), NEW w,
         \E i \in DOMAIN props : props[i].text = w
  PROVE  Leads(Finished(props, w), w) /\ Len(Finished(props, w)) \in 1 .. MaxCandidates
<1> DEFINE sorted == Sorted(Merge(props, w))
           ranked == rank_candidates(Merge(props, w))
           again == Sorted(ranked)
           few == Min({Len(Others(again)), MaxCandidates - 1})
           cut == SubSeq(Others(again), 1, few)
<1>1. Candidates(sorted, w)
  BY MergeFacts, SortedCandidates
<1>2. ranked = Originals(sorted) \o Others(sorted)
  BY DEF rank_candidates
<1> HIDE DEF sorted
<1>3. Leads(ranked, w) /\ Candidates(ranked, w)
  BY <1>1, <1>2, OthersFew, OriginalThenOthers
<1> HIDE DEF ranked
<1>4. Candidates(again, w)
  BY <1>3, SortedCandidates
<1>5. /\ Len(Originals(again)) = 1 /\ IsList(Originals(again))
      /\ FewOf(Others(again), again)
      /\ \A k \in DOMAIN Others(again) : Others(again)[k].text # w
  BY <1>4, OriginalAlone, OthersFew
<1> HIDE DEF again
<1>6. Len(Others(again)) \in Nat
  BY <1>5, ListFacts DEF FewOf
<1>7. few \in 0 .. Len(Others(again)) /\ few <= MaxCandidates - 1
  <2> DEFINE x == Len(Others(again))
             y == MaxCandidates - 1
  <2>1. x \in Nat /\ y \in Nat
    BY <1>6, ConfigAssumption
  <2> HIDE DEF x, y
  <2>2. Min({x, y}) \in 0 .. x /\ Min({y, x}) \in 0 .. y
    BY <2>1, MinOfTwo
  <2>3. {x, y} = {y, x}
    OBVIOUS
  <2>4. Min({x, y}) \in 0 .. x /\ Min({x, y}) <= y
    BY <2>1, <2>2, <2>3
  <2> QED
    BY <2>4 DEF x, y
<1> HIDE DEF few
<1>8. /\ FewOf(cut, again) /\ Len(cut) = few
      /\ \A i \in DOMAIN cut : i \in DOMAIN Others(again) /\ cut[i] = Others(again)[i]
  BY <1>5, <1>7, FrontFew
<1> HIDE DEF cut
<1>9. \A i \in DOMAIN cut : cut[i].text # w
  BY <1>5, <1>8
<1>10. /\ Leads(Originals(again) \o cut, w)
       /\ Len(Originals(again) \o cut) = 1 + few
  BY <1>4, <1>8, <1>9, OriginalThenOthers
<1>11. CASE Len(ranked) > MaxCandidates
  <2>1. Originals(again) # <<>>
    BY <1>5
  <2>2. trim_candidate_list(ranked) = Originals(again) \o cut
    BY <2>1 DEF trim_candidate_list, again, few, cut
  <2>3. Finished(props, w) = Originals(again) \o cut
    BY <1>11, <2>2 DEF Finished, ranked
  <2>4. 1 + few \in 1 .. MaxCandidates
    BY <1>6, <1>7, ConfigAssumption
  <2> QED
    BY <1>10, <2>3, <2>4
<1>12. CASE ~(Len(ranked) > MaxCandidates)
  <2>1. Finished(props, w) = ranked
    BY <1>12 DEF Finished, ranked
  <2>2. Len(ranked) \in Nat
    BY <1>3, ListFacts DEF Leads
  <2>3. Len(ranked) \in 1 .. MaxCandidates
    BY <1>3, <1>12, <2>2, ConfigAssumption DEF Leads
  <2> QED
    BY <1>3, <2>1, <2>3
<1> QED
  BY <1>11, <1>12

LEMMA IdentityLeads ==
  ASSUME NEW w
  PROVE  Leads(Identity(w), w) /\ Len(Identity(w)) \in 1 .. MaxCandidates
<1> DEFINE c == Identity(w)
<1>1. /\ Len(c) = 1 /\ c[1].text = w /\ \E T : c \in Seq(T)
  <2> DEFINE x == c[1]
  <2>1. c = <<x>>
    BY DEF Identity
  <2> HIDE DEF c, x
  <2>2. c \in Seq({x})
    <3>1. <<x>> \in Seq({x})
      OBVIOUS
    <3> QED
      BY <2>1, <3>1
  <2> QED
    BY <2>2 DEF Identity, c
<1> HIDE DEF c
<1>2. IsList(c)
  BY <1>1, ListOf
<1>3. DOMAIN c = 1 .. 1
  BY <1>1, <1>2, ListFacts
<1>4. 1 \in 1 .. MaxCandidates
  BY ConfigAssumption
<1> QED
  BY <1>1, <1>2, <1>3, <1>4 DEF Leads, c

\* What is merged for a nonempty text holds the text itself.
LEMMA OriginalHeard ==
  ASSUME "original" \in SourcesEnabled, NEW lex \in Lexicons, NEW w, IsList(w), w # <<>>,
         NEW e, Evidence(e, AllProposals(lex, w))
  PROVE  /\ Mergeable(AllProposals(lex, w) \o e)
         /\ LET props == AllProposals(lex, w) \o e IN
            \E i \in DOMAIN props : props[i].text = w
<1> DEFINE all == AllProposals(lex, w)
           props == all \o e
           identity == IdentityProposals(lex, w)
           one == 1
<1>1. one \in 1 .. Len(SourceOrder) /\ SourceOrder[one] = "original"
  BY SourceOrderFacts
<1>2. Ask(SourceOrder[one], lex, w) = identity
  BY <1>1 DEF Ask
<1>3. Len(identity) = 1 /\ identity[1].text = w /\ IsList(identity)
  BY IdentityTyped DEF ProposedBy
<1>4. DOMAIN identity = 1 .. 1
  BY <1>3, ListFacts
<1>5. <<>> \notin Texts(identity)
  BY <1>3, <1>4 DEF Texts
<1>6. identity[1] \in Range(identity)
  BY <1>4 DEF Range
<1> HIDE DEF identity, one, all
<1>7. Piece(lex, w, one) = identity
  BY <1>1, <1>2, <1>5, PieceFacts
<1>8. Range(identity) \subseteq Range(all) /\ Sound(all)
  BY <1>1, <1>7, AllProposalsFacts DEF all
<1>9. IsList(e) /\ IsList(all) /\ Evidence(e, all)
  BY <1>8 DEF Evidence, Sound, all
<1>10. IsList(props) /\ Range(props) = Range(all) \cup Range(e)
  BY <1>9, RangeConcat
<1>11. \A p \in Range(all) : Rankable(p) /\ p.source \in SourceNames
  BY <1>8 DEF Sound, AskedNames
<1>12. \A p \in Range(e) : Rankable(p) /\ p.source \in SourceNames
  BY <1>9 DEF Evidence, Range, SourceNames
<1> HIDE DEF props
<1>13. \A i \in DOMAIN props : props[i] \in Range(props)
  BY DEF Range
<1>14. Mergeable(props)
  BY <1>10, <1>11, <1>12, <1>13 DEF Mergeable
<1>15. identity[1] \in Range(props)
  BY <1>6, <1>8, <1>10
<1>16. \E i \in DOMAIN props : props[i].text = w
  BY <1>3, <1>15 DEF Range
<1> QED
  BY <1>14, <1>16 DEF props, all

-----------------------------------------------------------------------------
(***************************************************************************)
(* Every answer leads with what was asked for.                             *)
(***************************************************************************)
Promise(text, candidates) ==
  text # <<>> => Leads(candidates, text) /\ Len(candidates) \in 1 .. MaxCandidates

Leading == \A i \in DOMAIN output : Promise(output[i].text, output[i].candidates)

LEMMA MergePromise ==
  ASSUME KeepOriginalFirst, "original" \in SourcesEnabled,
         NEW lex \in Lexicons, NEW w, IsList(w), NEW e, Evidence(e, AllProposals(lex, w))
  PROVE  Promise(w, Finished(AllProposals(lex, w) \o e, w))
<1> DEFINE props == AllProposals(lex, w) \o e
<1>1. SUFFICES ASSUME w # <<>>
               PROVE  Leads(Finished(props, w), w) /\ Len(Finished(props, w)) \in 1 .. MaxCandidates
  BY DEF Promise
<1>2. Mergeable(props) /\ \E i \in DOMAIN props : props[i].text = w
  BY <1>1, OriginalHeard
<1> HIDE DEF props
<1> QED
  BY <1>2, FinishedLeads

LEMMA FreshPromise ==
  ASSUME KeepOriginalFirst, "original" \in SourcesEnabled,
         NEW lex \in Lexicons, NEW w \in Words, NEW p \in BOOLEAN
  PROVE  Promise(w, Fresh(lex, w, p))
<1>1. CASE p
  BY <1>1, IdentityLeads DEF Fresh, Promise
<1>2. CASE ~p
  <2> DEFINE all == AllProposals(lex, w)
             R == Range(all)
  <2>1. IsList(w)
    BY WordsAssumption
  <2>2. IsList(all)
    BY <2>1, AllProposalsFacts DEF Sound
  <2>3. Evidence(<<>>, all)
    <3>1. IsList(<<>>) /\ DOMAIN <<>> = {} /\ Len(<<>>) = 0
      BY NoElements
    <3> QED
      BY <3>1 DEF Evidence
  <2>4. Promise(w, Finished(all \o <<>>, w))
    BY <2>1, <2>3, MergePromise
  <2>5. all \o <<>> = all
    <3>1. all \in Seq(R)
      BY <2>2 DEF IsList
    <3> HIDE DEF all, R
    <3> QED
      BY <3>1
  <2> QED
    BY <1>2, <2>4, <2>5 DEF Fresh
<1> QED
  BY <1>1, <1>2

LEMMA LeadingEmit ==
  ASSUME IInv, Leading, NEW cands, Emit(cands), NEW text, Promise(text, cands),
         document.tokens[at].text = text
  PROVE  Leading'
<1> DEFINE x == [text |-> text, protected |-> IsProtected(document.tokens[at], document.spans),
                 candidates |-> cands]
<1>1. output' = Append(output, x) /\ x.text = text /\ x.candidates = cands
  BY DEF Emit
<1> HIDE DEF x
<1>2. \E S : output \in Seq(S)
  BY DEF IInv, Answered
<1>3. /\ DOMAIN output' = DOMAIN output \cup {Len(output) + 1}
      /\ \A i \in DOMAIN output : output'[i] = output[i]
      /\ output'[Len(output) + 1] = x
  BY <1>1, <1>2, AppendFacts
<1> QED
  BY <1>1, <1>3 DEF Leading

LEMMA LeadingStep ==
  KeepOriginalFirst /\ "original" \in SourcesEnabled =>
    (IInv /\ Collecting /\ Leading /\ [Next]_vars => Leading')
<1>1. SUFFICES ASSUME KeepOriginalFirst, "original" \in SourcesEnabled,
                      IInv, Collecting, Leading, [Next]_vars
               PROVE  Leading'
  OBVIOUS
<1>2. ASSUME output' = output PROVE Leading'
  BY <1>1, <1>2 DEF Leading
<1>3. CASE \E w \in Words, p \in BOOLEAN : GenerateToken(w, p)
  BY <1>2, <1>3 DEF GenerateToken
<1>4. CASE \E d \in Documents : GenerateDocument(d)
  BY <1>4 DEF GenerateDocument, Leading
<1>5. CASE NextToken
  <2> DEFINE text == document.tokens[at].text
  <2>1. output' = output \/ Emit(Identity(text))
    BY <1>5 DEF NextToken
  <2>2. Promise(text, Identity(text))
    BY IdentityLeads DEF Promise
  <2> HIDE DEF text
  <2>3. ASSUME Emit(Identity(text)) PROVE Leading'
    BY <1>1, <2>2, <2>3, LeadingEmit DEF text
  <2> QED
    BY <1>2, <2>1, <2>3
<1>6. CASE DocumentDone \/ AskSource \/ AskPhraseEvidence
  BY <1>2, <1>6 DEF DocumentDone, AskSource, AskPhraseEvidence
<1>7. CASE FinishToken
  <2> DEFINE cands == Finished(proposals, word)
  <2>1. /\ phase = "merge"
        /\ output' = output \/ (document.tokens # <<>> /\ Emit(cands))
    BY <1>7 DEF FinishToken
  <2>2. CASE document.tokens # <<>> /\ Emit(cands)
    <3>1. /\ IsList(word) /\ lexicon \in Lexicons /\ word = document.tokens[at].text
      BY <1>1, <2>1, <2>2 DEF Collecting
    <3>2. PICK e : /\ Evidence(e, AllProposals(lexicon, word))
                   /\ proposals = AllProposals(lexicon, word) \o e
      BY <1>1, <2>1 DEF Collecting
    <3>3. Promise(word, cands)
      BY <1>1, <3>1, <3>2, MergePromise
    <3> HIDE DEF cands
    <3> QED
      BY <1>1, <2>2, <3>1, <3>3, LeadingEmit
  <2> QED
    BY <1>2, <2>1, <2>2
<1>8. CASE UNCHANGED vars
  BY <1>2, <1>8 DEF vars
<1> QED
  BY <1>1, <1>3, <1>4, <1>5, <1>6, <1>7, <1>8 DEF Next

LEMMA LeadingIsFirst ==
  KeepOriginalFirst /\ "original" \in SourcesEnabled =>
    (Collecting /\ Caching /\ Leading => OriginalFirst)
<1>1. SUFFICES ASSUME KeepOriginalFirst, "original" \in SourcesEnabled,
                      Collecting, Caching, Leading,
                      NEW a \in Answers, a.text # <<>>
               PROVE  Promise(a.text, a.candidates)
  BY DEF OriginalFirst, Promise, Leads
<1>2. CASE \E i \in DOMAIN output : a = [text |-> output[i].text, candidates |-> output[i].candidates]
  BY <1>1, <1>2 DEF Leading
<1>3. CASE a = [text |-> returned.asked, candidates |-> returned.candidates]
  <2>1. a.text = returned.asked /\ a.candidates = returned.candidates
    BY <1>3
  <2>2. /\ returned.asked \in Words /\ returned.protected \in BOOLEAN
        /\ returned.candidates = Fresh(lexicon, returned.asked, returned.protected)
        /\ lexicon \in Lexicons
    BY <1>1, <2>1 DEF Caching, Collecting
  <2> QED
    BY <1>1, <2>1, <2>2, FreshPromise
<1> QED
  BY <1>1, <1>2, <1>3 DEF Answers

\* With keep_original_first and the original among the sources, as configured by
\* default (config.py), stage 5 finds the text itself first in every list: whatever
\* the other sources propose or fail at, however the scores fall and whatever
\* trimming cuts (generator.py:253), in a document, fresh or from the cache.
THEOREM OriginalFirstCorrect ==
  KeepOriginalFirst /\ "original" \in SourcesEnabled => (Spec => []OriginalFirst)
<1>1. SUFFICES ASSUME KeepOriginalFirst /\ "original" \in SourcesEnabled
               PROVE  Spec => []OriginalFirst
  OBVIOUS
<1>2. Init => Leading
  BY DEF Init, Leading
<1>3. IInv /\ Collecting /\ Leading /\ [Next]_vars => Leading'
  BY <1>1, LeadingStep
<1>4. Collecting /\ Caching /\ Leading => OriginalFirst
  BY <1>1, LeadingIsFirst
<1>5. Spec => [](IInv /\ Collecting /\ Caching)
  BY CachingInvariance
<1> QED
  BY <1>2, <1>3, <1>4, <1>5, PTL DEF Spec

-----------------------------------------------------------------------------
(***************************************************************************)
(* The order of the phrase evidence.                                       *)
(***************************************************************************)
LEMMA AscendingOrders ==
  ASSUME NEW n \in Nat, NEW I \in SUBSET (1 .. n)
  PROVE  IsFiniteSet(I) /\ Orders(Ascending(I), I)
<1>1. \A i, j \in I : <<i, j>> \in Ascending(I) <=> i < j
  BY DEF Ascending
<1>2. \A i \in I : i \in Int
  OBVIOUS
<1>3. Orders(Ascending(I), I)
  BY <1>1, <1>2 DEF Orders
<1>4. IsFiniteSet(I)
  BY PickFacts
<1> QED
  BY <1>3, <1>4

\* A filter that keeps a stretch of a list.
PicksStretch(s, a, m) == Pick(s, a + 1 .. a + m) = [k \in 1 .. m |-> s[a + k]]

LEMMA PickStretch ==
  ASSUME NEW s, NEW a \in Nat, NEW m \in Nat
  PROVE  PicksStretch(s, a, m)
<1> DEFINE I == a + 1 .. a + m
           R == Ascending(I)
           n == a + m
           Size(i) == Cardinality({j \in I : <<j, i>> \in R})
<1>1. n \in Nat /\ I \in SUBSET (1 .. n)
  OBVIOUS
<1>2. IsFiniteSet(I) /\ Orders(R, I)
  <2> HIDE DEF I, n
  <2> QED
    BY <1>1, AscendingOrders
<1>3. Cardinality(I) = m
  <2> DEFINE first == a + 1
             last == a + m
  <2>1. first \in Int /\ last \in Int
    OBVIOUS
  <2> HIDE DEF first, last
  <2>2. Cardinality(first .. last) = IF first > last THEN 0 ELSE last - first + 1
    BY <2>1, FS_Interval
  <2>3. (IF first > last THEN 0 ELSE last - first + 1) = m
    BY DEF first, last
  <2> QED
    BY <2>2, <2>3 DEF first, last
<1>4. ASSUME NEW k \in 1 .. m PROVE Size(a + k) = k - 1
  <2> DEFINE first == a + 1
             last == a + k - 1
  <2>1. {j \in I : <<j, a + k>> \in R} = first .. last
    BY DEF Ascending
  <2>2. first \in Int /\ last \in Int
    OBVIOUS
  <2> HIDE DEF first, last, I
  <2>3. Cardinality(first .. last) = IF first > last THEN 0 ELSE last - first + 1
    BY <2>2, FS_Interval
  <2>4. (IF first > last THEN 0 ELSE last - first + 1) = k - 1
    BY DEF first, last
  <2> QED
    BY <2>1, <2>3, <2>4
<1>5. \A i, j \in I : Size(i) = Size(j) => i = j
  <2> HIDE DEF I, R
  <2>1. \A i, j \in I : Rank(I, R, i) = Rank(I, R, j) => i = j
    BY <1>2, RankFacts
  <2> QED
    BY <2>1 DEF Rank
<1>6. \A k \in 1 .. m : a + k \in I
  OBVIOUS
<1> HIDE DEF I, R
<1>7. ASSUME NEW k \in 1 .. m PROVE InOrder(I, R)[k] = a + k
  <2> DEFINE x == CHOOSE i \in I : Size(i) = k - 1
  <2>1. InOrder(I, R)[k] = x
    BY <1>3 DEF InOrder
  <2>2. a + k \in I /\ Size(a + k) = k - 1
    BY <1>4, <1>6
  <2> HIDE DEF Size
  <2>3. x \in I /\ Size(x) = k - 1
    BY <2>2
  <2> HIDE DEF x
  <2> QED
    BY <1>5, <2>1, <2>2, <2>3
<1>8. Pick(s, I) = [k \in 1 .. m |-> s[InOrder(I, R)[k]]]
  BY <1>3 DEF Pick, R
<1> QED
  BY <1>7, <1>8 DEF I, PicksStretch

SameAt(s, t, I) == \A i \in I : s[i] = t[i]

LEMMA PickSame ==
  ASSUME NEW s, NEW t, NEW I, IsFiniteSet(I), Orders(Ascending(I), I), SameAt(s, t, I)
  PROVE  Pick(s, I) = Pick(t, I)
<1> DEFINE order == InOrder(I, Ascending(I))
<1>1. order \in [1 .. Cardinality(I) -> I]
  BY InOrderFacts
<1>2. /\ Pick(s, I) = [k \in 1 .. Cardinality(I) |-> s[order[k]]]
      /\ Pick(t, I) = [k \in 1 .. Cardinality(I) |-> t[order[k]]]
  BY DEF Pick
<1> HIDE DEF order
<1>3. \A k \in 1 .. Cardinality(I) : s[order[k]] = t[order[k]]
  BY <1>1 DEF SameAt
<1> QED
  BY <1>2, <1>3

\* A candidate does not depend on the order of what it is merged from.
LEMMA MergedSame ==
  ASSUME NEW p, NEW q, NEW D, IsFiniteSet(D), DOMAIN p = D, DOMAIN q = D,
         NEW turn \in [D -> D], \A i \in D : q[i] = p[turn[i]],
         \A i, j \in D : turn[i] = turn[j] => i = j,
         \A j \in D : \E i \in D : turn[i] = j,
         NEW text, NEW w
  PROVE  MergedCandidate(q, text, w) = MergedCandidate(p, text, w)
<1> DEFINE P == {i \in D : p[i].text = text}
           Q == {i \in D : q[i].text = text}
<1>1. \A i \in Q : turn[i] \in P /\ q[i] = p[turn[i]]
  OBVIOUS
<1>2. \A j \in P : \E i \in Q : turn[i] = j /\ q[i] = p[j]
  OBVIOUS
<1>3. Cardinality(P) = Cardinality(Q)
  <2> DEFINE f == [i \in Q |-> turn[i]]
  <2>1. IsFiniteSet(Q)
    <3>1. Q \subseteq D
      OBVIOUS
    <3> HIDE DEF Q
    <3> QED
      BY <3>1, FS_Subset
  <2>2. f \in [Q -> P]
    BY <1>1
  <2>3. \A j \in P : \E i \in Q : f[i] = j
    BY <1>2
  <2>4. \A i, j \in Q : f[i] = f[j] => i = j
    OBVIOUS
  <2>5. DOMAIN f = Q
    OBVIOUS
  <2> HIDE DEF f, P, Q
  <2>6. f \in Bijection(Q, P)
    BY <2>2, <2>3, <2>4, <2>5 DEF Bijection, Injection, Surjection, IsInjective
  <2>7. ExistsBijection(Q, P)
    BY <2>6 DEF ExistsBijection
  <2> QED
    BY <2>1, <2>7, FS_Bijection
<1>4. /\ {i \in DOMAIN p : p[i].text = text} = P
      /\ {i \in DOMAIN q : q[i].text = text} = Q
  OBVIOUS
<1> HIDE DEF P, Q
<1>5. /\ {q[i].source : i \in Q} = {p[i].source : i \in P}
      /\ {q[i].prior : i \in Q} = {p[i].prior : i \in P}
      /\ {q[i].distance : i \in Q} = {p[i].distance : i \in P}
  BY <1>1, <1>2
<1>6. /\ {q[i].syllableFreq : i \in Q} = {p[i].syllableFreq : i \in P}
      /\ {q[i].wordFreq : i \in Q} = {p[i].wordFreq : i \in P}
      /\ {q[i].tokenCount : i \in Q} = {p[i].tokenCount : i \in P}
  BY <1>1, <1>2
<1>7. (\E i \in Q : q[i].known) <=> (\E i \in P : p[i].known)
  BY <1>1, <1>2
<1> QED
  BY <1>3, <1>4, <1>5, <1>6, <1>7 DEF MergedCandidate

LEMMA ReverseFacts ==
  ASSUME NEW s, IsList(s)
  PROVE  /\ IsList(Reverse(s)) /\ Len(Reverse(s)) = Len(s) /\ DOMAIN Reverse(s) = DOMAIN s
         /\ \A i \in 1 .. Len(s) :
              Len(s) - i + 1 \in 1 .. Len(s) /\ Reverse(s)[i] = s[Len(s) - i + 1]
<1> DEFINE n == Len(s)
           t == Reverse(s)
<1>1. n \in Nat /\ DOMAIN s = 1 .. n
  BY ListFacts
<1>2. t = [i \in 1 .. n |-> s[n - i + 1]]
  BY DEF Reverse
<1>3. \A i \in 1 .. n : n - i + 1 \in 1 .. n
  BY <1>1
<1> HIDE DEF t, n
<1>4. t = [i \in 1 .. n |-> t[i]]
  BY <1>2
<1>5. IsList(t) /\ Len(t) = n /\ DOMAIN t = 1 .. n
  BY <1>1, <1>4, ListMade
<1> QED
  BY <1>1, <1>2, <1>3, <1>5 DEF t, n

\* With the evidence turned round, the candidates are the same and so is their order.
LEMMA MergeTurned ==
  ASSUME NEW all, Sound(all), NEW e, Evidence(e, all), NEW w
  PROVE  Merge(all \o Reverse(e), w) = Merge(all \o e, w)
<1> DEFINE a == Len(all)
           m == Len(e)
           D == 1 .. a + m
           p == all \o e
           q == all \o Reverse(e)
           turn == [i \in D |-> IF i <= a THEN i ELSE a + m - (i - a) + 1]
           firstOf(s) == {i \in DOMAIN s : \A j \in 1 .. i - 1 : s[j].text # s[i].text}
           merged(s) == [i \in DOMAIN s |-> MergedCandidate(s, s[i].text, w)]
<1>1. IsList(all) /\ IsList(e) /\ a \in Nat /\ m \in Nat /\ DOMAIN e = 1 .. m
  BY ListFacts DEF Sound, Evidence
<1>2. /\ IsList(Reverse(e)) /\ Len(Reverse(e)) = m
      /\ \A i \in 1 .. m : m - i + 1 \in 1 .. m /\ Reverse(e)[i] = e[m - i + 1]
  BY <1>1, ReverseFacts
<1>3. /\ IsList(p) /\ Len(p) = a + m
      /\ \A i \in 1 .. a : p[i] = all[i]
      /\ \A i \in 1 .. m : p[a + i] = e[i]
  BY <1>1, ListConcat
<1>4. /\ IsList(q) /\ Len(q) = a + m
      /\ \A i \in 1 .. a : q[i] = all[i]
      /\ \A i \in 1 .. m : q[a + i] = Reverse(e)[i]
  <2> DEFINE r == Reverse(e)
  <2> HIDE DEF r, m
  <2>1. IsList(r) /\ Len(r) = m
    BY <1>2 DEF r
  <2>2. /\ IsList(all \o r) /\ Len(all \o r) = Len(all) + Len(r)
        /\ \A i \in 1 .. Len(all) : (all \o r)[i] = all[i]
        /\ \A i \in 1 .. Len(r) : (all \o r)[Len(all) + i] = r[i]
    BY <1>1, <2>1, ListConcat
  <2> QED
    BY <2>1, <2>2 DEF r
<1> HIDE DEF p, q, a, m
<1>5. DOMAIN p = D /\ DOMAIN q = D
  BY <1>3, <1>4, ListFacts
<1>6. \A i \in D : (i <= a /\ i \in 1 .. a) \/ (i > a /\ i - a \in 1 .. m /\ a + (i - a) = i)
  BY <1>1
<1>7. /\ turn \in [D -> D]
      /\ \A i \in D : turn[turn[i]] = i
  BY <1>1
<1>8. \A i \in D : q[i] = p[turn[i]]
  <2>1. SUFFICES ASSUME NEW i \in D PROVE q[i] = p[turn[i]]
    OBVIOUS
  <2>2. CASE i <= a
    <3>1. i \in 1 .. a /\ turn[i] = i
      BY <1>1, <2>2
    <3> QED
      BY <1>3, <1>4, <3>1
  <2>3. CASE ~(i <= a)
    <3> DEFINE k == i - a
               l == m - k + 1
    <3>1. k \in 1 .. m /\ a + k = i /\ turn[i] = a + l
      BY <1>1, <2>3
    <3>2. q[i] = Reverse(e)[k]
      BY <1>4, <3>1
    <3>3. l \in 1 .. m /\ Reverse(e)[k] = e[l]
      BY <1>2, <3>1
    <3>4. p[a + l] = e[l]
      BY <1>3, <3>3
    <3> QED
      BY <3>1, <3>2, <3>3, <3>4
  <2> QED
    BY <2>2, <2>3
<1>9. \A text : MergedCandidate(q, text, w) = MergedCandidate(p, text, w)
  <2>1. IsFiniteSet(D)
    <3> DEFINE one == 1
               n == a + m
    <3>1. one \in Int /\ n \in Int
      BY <1>1
    <3> HIDE DEF one, n
    <3>2. IsFiniteSet(one .. n)
      BY <3>1, FS_Interval
    <3> QED
      BY <3>2 DEF one, n
  <2>2. \A i, j \in D : turn[i] = turn[j] => i = j
    BY <1>7
  <2>3. \A j \in D : \E i \in D : turn[i] = j
    BY <1>7
  <2> HIDE DEF turn, D
  <2> QED
    BY <1>5, <1>7, <1>8, <2>1, <2>2, <2>3, MergedSame
<1>10. CASE all = <<>>
  <2>1. a = 0 /\ (m = 0 \/ m = 1)
    BY <1>1, <1>10 DEF Evidence, a, m
  <2>2. \A i \in D : turn[i] = i
    BY <1>1, <2>1
  <2>3. \A i \in D : q[i] = p[i]
    BY <1>8, <2>2
  <2>4. p = [i \in 1 .. a + m |-> p[i]] /\ q = [i \in 1 .. a + m |-> q[i]]
    BY <1>3, <1>4, ListFacts
  <2>5. p = q
    BY <2>3, <2>4
  <2> QED
    BY <2>5 DEF p, q
<1>11. CASE all # <<>>
  <2> DEFINE P == firstOf(p)
             Q == firstOf(q)
  <2>1. ASSUME NEW i \in 1 .. m PROVE \E j \in 1 .. a : all[j].text = e[i].text
    <3>1. e[i].text \in Texts(all) /\ DOMAIN all = 1 .. a
      BY <1>1, <1>11, ListFacts DEF Evidence, Sound, a
    <3> QED
      BY <3>1 DEF Texts
  <2>2. \A i \in P : i \in 1 .. a
    <3>1. SUFFICES ASSUME NEW i \in P, ~(i \in 1 .. a) PROVE FALSE
      OBVIOUS
    <3>2. i \in D /\ i - a \in 1 .. m /\ a + (i - a) = i /\ i > a
      BY <1>5, <1>6, <3>1
    <3>3. p[i] = e[i - a]
      BY <1>3, <3>2
    <3>4. PICK j \in 1 .. a : all[j].text = e[i - a].text
      BY <2>1, <3>2
    <3>5. j \in 1 .. i - 1 /\ p[j].text = p[i].text
      BY <1>1, <1>3, <3>2, <3>3, <3>4
    <3> QED
      BY <3>1, <3>5
  <2>3. \A i \in Q : i \in 1 .. a
    <3>1. SUFFICES ASSUME NEW i \in Q, ~(i \in 1 .. a) PROVE FALSE
      OBVIOUS
    <3>2. i \in D /\ i - a \in 1 .. m /\ a + (i - a) = i /\ i > a
      BY <1>5, <1>6, <3>1
    <3>3. q[i] = Reverse(e)[i - a]
      BY <1>4, <3>2
    <3> DEFINE l == m - (i - a) + 1
    <3>4. l \in 1 .. m /\ q[i] = e[l]
      BY <1>2, <3>2, <3>3
    <3> HIDE DEF l
    <3>5. PICK j \in 1 .. a : all[j].text = e[l].text
      BY <2>1, <3>4
    <3>6. j \in 1 .. i - 1 /\ q[j].text = q[i].text
      BY <1>1, <1>4, <3>2, <3>4, <3>5
    <3> QED
      BY <3>1, <3>6
  <2>4. \A i \in 1 .. a : p[i] = all[i] /\ q[i] = all[i] /\ i \in D
    BY <1>1, <1>3, <1>4
  <2>5. ASSUME NEW i \in 1 .. a PROVE i \in P <=> i \in Q
    <3>1. \A j \in 1 .. i - 1 : j \in 1 .. a
      BY <1>1
    <3> QED
      BY <1>5, <2>4, <3>1
  <2>6. P = Q
    BY <2>2, <2>3, <2>5
  <2>7. P \in SUBSET (1 .. a)
    BY <2>2
  <2>8. \A i \in P : merged(q)[i] = merged(p)[i]
    <3>1. SUFFICES ASSUME NEW i \in P PROVE merged(q)[i] = merged(p)[i]
      OBVIOUS
    <3>2. i \in D /\ q[i] = p[i]
      BY <2>2, <2>4
    <3>3. MergedCandidate(q, q[i].text, w) = MergedCandidate(p, p[i].text, w)
      BY <1>9, <3>2
    <3> QED
      BY <1>5, <3>2, <3>3
  <2>9. Merge(p, w) = Pick(merged(p), P) /\ Merge(q, w) = Pick(merged(q), Q)
    BY DEF Merge
  <2> DEFINE f == merged(p)
             g == merged(q)
  <2>10. f = merged(p) /\ g = merged(q) /\ \A i \in P : g[i] = f[i]
    BY <2>8
  <2> HIDE DEF f, g, P
  <2>11. Pick(g, P) = Pick(f, P)
    <3>1. IsFiniteSet(P) /\ Orders(Ascending(P), P)
      BY <1>1, <2>7, AscendingOrders
    <3>2. SameAt(g, f, P)
      BY <2>10 DEF SameAt
    <3> QED
      BY <3>1, <3>2, PickSame
  <2> QED
    BY <2>6, <2>9, <2>11 DEF f, g, p, q
<1> QED
  BY <1>10, <1>11

LEMMA OrderIsIrrelevant == Collecting => EvidenceOrderIrrelevant
<1>1. SUFFICES ASSUME Collecting, phase = "merge" PROVE EvidenceOrderIrrelevant
  BY DEF EvidenceOrderIrrelevant
<1> DEFINE all == AllProposals(lexicon, word)
           a == Len(all)
<1>2. PICK e : Evidence(e, all) /\ proposals = all \o e
  BY <1>1 DEF Collecting
<1>3. lexicon \in Lexicons /\ IsList(word)
  BY <1>1 DEF Collecting
<1>4. Sound(all)
  BY <1>3, AllProposalsFacts
<1> DEFINE m == Len(e)
           isEvidence == {i \in DOMAIN proposals : proposals[i].source = "phrase_specific"}
           isOther == {i \in DOMAIN proposals : ~(proposals[i].source = "phrase_specific")}
<1> HIDE DEF all
<1>5. /\ IsList(all) /\ IsList(e) /\ a \in Nat /\ m \in Nat
      /\ DOMAIN e = 1 .. m /\ DOMAIN all = 1 .. a
      /\ all = [i \in 1 .. a |-> all[i]] /\ e = [i \in 1 .. m |-> e[i]]
  BY <1>2, <1>4, ListFacts DEF Sound, Evidence
<1>6. /\ IsList(proposals) /\ Len(proposals) = a + m
      /\ \A i \in 1 .. a : proposals[i] = all[i]
      /\ \A i \in 1 .. m : proposals[a + i] = e[i]
  BY <1>2, <1>5, ListConcat
<1> HIDE DEF a, m
<1>7. DOMAIN proposals = 1 .. a + m
  BY <1>6, ListFacts
<1>8. \A i \in 1 .. a : proposals[i].source # "phrase_specific"
  <2>1. \A i \in 1 .. a : all[i].source \in AskedNames
    BY <1>4, <1>5 DEF Sound, Range
  <2> QED
    BY <1>6, <2>1 DEF AskedNames
<1>9. \A i \in 1 .. m : proposals[a + i].source = "phrase_specific"
  BY <1>2, <1>5, <1>6 DEF Evidence
<1>10. \A i \in 1 .. a + m : i \in 1 .. a \/ (i \in a + 1 .. a + m /\ i - a \in 1 .. m /\ a + (i - a) = i)
  BY <1>5
<1>11. isOther = 1 .. a /\ isEvidence = a + 1 .. a + m
  <2>1. \A i \in 1 .. a + m : i \in 1 .. a <=> proposals[i].source # "phrase_specific"
    <3>1. SUFFICES ASSUME NEW i \in 1 .. a + m, ~(i \in 1 .. a)
                   PROVE  proposals[i].source = "phrase_specific"
      BY <1>8
    <3>2. i - a \in 1 .. m /\ a + (i - a) = i
      BY <1>10, <3>1
    <3> QED
      BY <1>9, <3>2
  <2>2. isOther \subseteq 1 .. a /\ 1 .. a \subseteq isOther
    BY <1>5, <1>7, <2>1
  <2>3. isEvidence \subseteq a + 1 .. a + m /\ a + 1 .. a + m \subseteq isEvidence
    BY <1>5, <1>7, <1>10, <2>1
  <2> QED
    BY <2>2, <2>3
<1>12. Pick(proposals, isEvidence) = e
  <2>1. Pick(proposals, a + 1 .. a + m) = [k \in 1 .. m |-> proposals[a + k]]
    <3>1. PicksStretch(proposals, a, m)
      BY <1>5, PickStretch
    <3> QED
      BY <3>1 DEF PicksStretch
  <2>2. [k \in 1 .. m |-> proposals[a + k]] = [k \in 1 .. m |-> e[k]]
    BY <1>6
  <2> QED
    BY <1>5, <1>11, <2>1, <2>2
<1>13. Pick(proposals, isOther) = all
  <2> DEFINE zero == 0
  <2>1. zero \in Nat
    OBVIOUS
  <2>2. zero + 1 .. zero + a = 1 .. a
    BY <1>5
  <2> HIDE DEF zero
  <2>3. Pick(proposals, zero + 1 .. zero + a) = [k \in 1 .. a |-> proposals[zero + k]]
    <3>1. PicksStretch(proposals, zero, a)
      BY <1>5, <2>1, PickStretch
    <3> QED
      BY <3>1 DEF PicksStretch
  <2>4. [k \in 1 .. a |-> proposals[zero + k]] = [k \in 1 .. a |-> all[k]]
    BY <1>5, <1>6 DEF zero
  <2> QED
    BY <1>5, <1>11, <2>2, <2>3, <2>4
<1>14. Merge(all \o Reverse(e), word) = Merge(proposals, word)
  BY <1>2, <1>4, MergeTurned
<1>15. Finished(all \o Reverse(e), word) = Finished(proposals, word)
  BY <1>14 DEF Finished
<1> QED
  BY <1>12, <1>13, <1>15 DEF EvidenceOrderIrrelevant

\* The phrase source is handed a set, whose order no two processes share: the
\* answer is the same with the evidence turned round (generator.py:239).
THEOREM EvidenceOrderIrrelevantCorrect == Spec => []EvidenceOrderIrrelevant
BY CollectingInvariance, OrderIsIrrelevant, PTL
=============================================================================
