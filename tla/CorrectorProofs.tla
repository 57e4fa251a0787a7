--------------------------- MODULE CorrectorProofs --------------------------
(***************************************************************************)
(* For every set of examples, configurations and words:                    *)
(*  - of a protected span all but the words it cuts is in the text that    *)
(*    comes back, up to its case, unless a phrase was written over it;     *)
(*  - the positions of the change log hold in the given text where Stage 1 *)
(*    counted nothing, and, shifted, in the text that comes back;          *)
(*  - the capitals come back as far as their positions can carry them;     *)
(*  - the measures of an evaluation agree with one another and with the    *)
(*    report.                                                              *)
(*                                                                         *)
(* The first three rest on one invariant, IInv: what every stage has found *)
(* is about the text that is in work then, its changes lie within that     *)
(* text and apart from one another, and what was handed back is the text   *)
(* with them applied and its case put back.  apply_changes is followed     *)
(* from left to right: between two changes stands what stood there before, *)
(* moved by what the changes before added.  Of the measures it is enough   *)
(* that each is that of its example (Evaluated) and that the edit distance *)
(* is 0 for equal texts only (LevenshteinFacts).                           *)
(***************************************************************************)
EXTENDS Corrector, TLAPS, FiniteSetTheorems, FunctionTheorems, WellFoundedInduction

-----------------------------------------------------------------------------
(***************************************************************************)
(* Lists: sorted and filtered ones, their parts, and recursion over the    *)
(* numbers up to a bound.                                                  *)
(***************************************************************************)
\* R orders the elements of S one after the other.
Orders(R, S) ==
  /\ \A i \in S : <<i, i>> \notin R
  /\ \A i, j \in S : i # j => <<i, j>> \in R \/ <<j, i>> \in R
  /\ \A i, j, k \in S : <<i, j>> \in R /\ <<j, k>> \in R => <<i, k>> \in R

\* How many elements come before i.
Rank(S, R, i) == Cardinality({j \in S : <<j, i>> \in R})

LEMMA RankFacts ==
  ASSUME NEW S, IsFiniteSet(S), NEW R, Orders(R, S)
  PROVE  /\ Cardinality(S) \in Nat
         /\ \A i \in S : Rank(S, R, i) \in 0 .. Cardinality(S) - 1
         /\ \A i, j \in S : <<i, j>> \in R => Rank(S, R, i) < Rank(S, R, j)
         /\ \A i, j \in S : Rank(S, R, i) = Rank(S, R, j) => i = j
<1> DEFINE Below(i) == {j \in S : <<j, i>> \in R}
<1>1. Cardinality(S) \in Nat
  BY FS_CardinalityType
<1>2. \A i \in S : Below(i) \in SUBSET S /\ i \notin Below(i)
  BY DEF Orders
<1>3. \A i \in S : IsFiniteSet(Below(i)) /\ Cardinality(Below(i)) \in Nat
  <2>1. SUFFICES ASSUME NEW i \in S
                 PROVE  IsFiniteSet(Below(i)) /\ Cardinality(Below(i)) \in Nat
    OBVIOUS
  <2>2. Below(i) \in SUBSET S
    BY <1>2
  <2> HIDE DEF Below
  <2> QED
    BY <2>2, FS_Subset, FS_CardinalityType
<1>4. ASSUME NEW i \in S PROVE Cardinality(Below(i)) < Cardinality(S)
  <2>1. Below(i) \in SUBSET S /\ Below(i) # S
    BY <1>2, <1>4
  <2>2. Cardinality(Below(i)) \in Nat
    BY <1>3, <1>4
  <2> HIDE DEF Below
  <2>3. Cardinality(Below(i)) <= Cardinality(S) /\ Cardinality(Below(i)) # Cardinality(S)
    BY <2>1, FS_Subset
  <2> QED
    BY <1>1, <2>2, <2>3
<1>5. ASSUME NEW i \in S, NEW j \in S, <<i, j>> \in R
      PROVE  Cardinality(Below(i)) < Cardinality(Below(j))
  <2>1. Below(i) \in SUBSET Below(j)
    BY <1>5 DEF Orders
  <2>2. i \in Below(j) /\ i \notin Below(i)
    BY <1>2, <1>5
  <2>3. IsFiniteSet(Below(j)) /\ Cardinality(Below(i)) \in Nat /\ Cardinality(Below(j)) \in Nat
    BY <1>3, <1>5
  <2> HIDE DEF Below
  <2>4. /\ Cardinality(Below(i)) <= Cardinality(Below(j))
        /\ Cardinality(Below(i)) # Cardinality(Below(j))
    BY <2>1, <2>2, <2>3, FS_Subset
  <2> QED
    BY <2>3, <2>4
<1>6. \A i \in S : Rank(S, R, i) = Cardinality(Below(i))
  BY DEF Rank
<1> HIDE DEF Below
<1>7. \A i \in S : Rank(S, R, i) \in Nat /\ Rank(S, R, i) < Cardinality(S)
  BY <1>3, <1>4, <1>6
<1>8. \A i, j \in S : <<i, j>> \in R => Rank(S, R, i) < Rank(S, R, j)
  BY <1>5, <1>6
<1>9. \A i, j \in S : Rank(S, R, i) = Rank(S, R, j) => i = j
  <2>1. SUFFICES ASSUME NEW i \in S, NEW j \in S, Rank(S, R, i) = Rank(S, R, j), i # j
                 PROVE  FALSE
    OBVIOUS
  <2>2. <<i, j>> \in R \/ <<j, i>> \in R
    BY <2>1 DEF Orders
  <2>3. Rank(S, R, i) < Rank(S, R, j) \/ Rank(S, R, j) < Rank(S, R, i)
    BY <1>8, <2>2
  <2> QED
    BY <1>7, <2>1, <2>3
<1> QED
  BY <1>1, <1>7, <1>8, <1>9

\* A sorted list has every element of S once, each before those it precedes.
LEMMA InOrderFacts ==
  ASSUME NEW S, IsFiniteSet(S), NEW R, Orders(R, S)
  PROVE  /\ Cardinality(S) \in Nat
         /\ InOrder(S, R) \in [1 .. Cardinality(S) -> S]
         /\ \A k, l \in 1 .. Cardinality(S) :
              k < l => <<InOrder(S, R)[k], InOrder(S, R)[l]>> \in R
         /\ \A k, l \in 1 .. Cardinality(S) :
              InOrder(S, R)[k] = InOrder(S, R)[l] => k = l
         /\ \A i \in S : \E k \in 1 .. Cardinality(S) : InOrder(S, R)[k] = i
<1> DEFINE n == Cardinality(S)
           r(i) == Rank(S, R, i)
           f == [i \in S |-> r(i) + 1]
           order == InOrder(S, R)
<1>1. /\ n \in Nat
      /\ \A i \in S : r(i) \in 0 .. n - 1
      /\ \A i, j \in S : <<i, j>> \in R => r(i) < r(j)
      /\ \A i, j \in S : r(i) = r(j) => i = j
  BY RankFacts
<1>2. order = [k \in 1 .. n |-> CHOOSE i \in S : r(i) = k - 1]
  BY DEF InOrder, Rank
<1> HIDE DEF n, r, order
<1>3. f \in [S -> 1 .. n]
  BY <1>1
<1>4. \A i, j \in S : f[i] = f[j] => i = j
  BY <1>1
<1>5. \A t \in 1 .. n : \E i \in S : f[i] = t
  <2>1. IsFiniteSet(1 .. n) /\ Cardinality(1 .. n) = n
    BY <1>1, FS_Interval
  <2> HIDE DEF f
  <2>2. f \in Injection(S, 1 .. n)
    BY <1>3, <1>4, Fun_IsInj
  <2>3. f \in Surjection(S, 1 .. n)
    BY <2>1, <2>2, FS_Injection DEF n
  <2> QED
    BY <2>3, Fun_SurjectionProperties
<1>6. \A k \in 1 .. n : order[k] \in S /\ r(order[k]) = k - 1
  <2>1. SUFFICES ASSUME NEW k \in 1 .. n PROVE order[k] \in S /\ r(order[k]) = k - 1
    OBVIOUS
  <2>2. PICK i \in S : r(i) + 1 = k
    BY <1>5
  <2>3. r(i) = k - 1
    BY <1>1, <2>2
  <2>4. order[k] = CHOOSE j \in S : r(j) = k - 1
    BY <1>2
  <2> QED
    BY <2>3, <2>4
<1>7. order \in [1 .. n -> S]
  BY <1>2, <1>6
<1>8. \A k, l \in 1 .. n : order[k] = order[l] => k = l
  <2>1. SUFFICES ASSUME NEW k \in 1 .. n, NEW l \in 1 .. n, order[k] = order[l] PROVE k = l
    OBVIOUS
  <2>2. k - 1 = l - 1
    BY <1>6, <2>1
  <2> QED
    BY <1>1, <2>2
<1>9. \A k, l \in 1 .. n : k < l => <<order[k], order[l]>> \in R
  <2>1. SUFFICES ASSUME NEW k \in 1 .. n, NEW l \in 1 .. n, k < l
                 PROVE  <<order[k], order[l]>> \in R
    OBVIOUS
  <2>2. order[k] # order[l]
    BY <1>1, <1>8, <2>1
  <2>3. ~(<<order[l], order[k]>> \in R)
    BY <1>1, <1>6, <2>1
  <2> QED
    BY <1>6, <2>2, <2>3 DEF Orders
<1>10. \A i \in S : \E k \in 1 .. n : order[k] = i
  <2>1. SUFFICES ASSUME NEW i \in S PROVE \E k \in 1 .. n : order[k] = i
    OBVIOUS
  <2>2. r(i) + 1 \in 1 .. n /\ (r(i) + 1) - 1 = r(i)
    BY <1>1
  <2>3. r(order[r(i) + 1]) = r(i) /\ order[r(i) + 1] \in S
    BY <1>6, <2>2
  <2> QED
    BY <1>1, <2>2, <2>3
<1> QED
  BY <1>1, <1>7, <1>8, <1>9, <1>10 DEF n, order

\* The places a filter keeps: each once, from left to right.
Places(order, I) ==
  /\ order \in [1 .. Cardinality(I) -> I]
  /\ \A k, l \in 1 .. Cardinality(I) : k < l => order[k] < order[l]
  /\ \A k, l \in 1 .. Cardinality(I) : order[k] = order[l] => k = l
  /\ \A i \in I : \E k \in 1 .. Cardinality(I) : order[k] = i

LEMMA PickFacts ==
  ASSUME NEW list, NEW n \in Nat, NEW I \in SUBSET (1 .. n)
  PROVE  /\ IsFiniteSet(I) /\ Cardinality(I) \in Nat /\ Cardinality(I) <= n
         /\ \E order : /\ Places(order, I)
                       /\ Pick(list, I) = [k \in 1 .. Cardinality(I) |-> list[order[k]]]
<1> DEFINE R == Ascending(I)
           order == InOrder(I, R)
<1>1. IsFiniteSet(1 .. n) /\ Cardinality(1 .. n) = n
  BY FS_Interval
<1>2. IsFiniteSet(I) /\ Cardinality(I) \in Nat /\ Cardinality(I) <= n
  BY <1>1, FS_Subset, FS_CardinalityType
<1>3. \A i, j \in I : <<i, j>> \in R <=> i < j
  BY DEF Ascending
<1>4. \A i \in I : i \in Int
  OBVIOUS
<1> HIDE DEF R
<1>5. Orders(R, I)
  BY <1>3, <1>4 DEF Orders
<1>6. /\ order \in [1 .. Cardinality(I) -> I]
      /\ \A k, l \in 1 .. Cardinality(I) : k < l => <<order[k], order[l]>> \in R
      /\ \A k, l \in 1 .. Cardinality(I) : order[k] = order[l] => k = l
      /\ \A i \in I : \E k \in 1 .. Cardinality(I) : order[k] = i
  BY <1>2, <1>5, InOrderFacts
<1>7. Pick(list, I) = [k \in 1 .. Cardinality(I) |-> list[order[k]]]
  BY DEF Pick, R
<1> HIDE DEF order
<1>8. Places(order, I)
  BY <1>3, <1>6 DEF Places
<1> QED
  BY <1>2, <1>7, <1>8

\* Of the sets of a family over a finite set one is minimal.
LEMMA LeastSet ==
  ASSUME NEW S, IsFiniteSet(S), NEW T, T \subseteq SUBSET S, T # {}
  PROVE  \E x \in T : \A y \in T : ~(y \subseteq x /\ y # x)
<1>1. T \subseteq FiniteSubsetsOf(S)
  BY FS_Subset DEF FiniteSubsetsOf
<1>2. PICK x \in T : \A y \in T : ~(<<y, x>> \in StrictSubsetOrdering(S))
  BY <1>1, FS_StrictSubsetOrderingWellFounded, WFMin
<1> QED
  BY <1>2 DEF StrictSubsetOrdering

\* Of some numbers one is the least.
LEMMA LeastNumber ==
  ASSUME NEW T, T \subseteq Nat, T # {}
  PROVE  \E x \in T : \A y \in T : x <= y
<1>1. PICK t \in T : TRUE
  OBVIOUS
<1>2. IsFiniteSet(0 .. t)
  BY <1>1, FS_Interval
<1> DEFINE R == 0 .. t
           Below == {x \in SUBSET R : \E y \in T : y <= t /\ x = 0 .. y}
<1>3. R \in Below
  BY <1>1
<1>4. PICK x \in Below : \A y \in Below : ~(y \subseteq x /\ y # x)
  <2> HIDE DEF Below, R
  <2>1. IsFiniteSet(R) /\ Below \subseteq SUBSET R /\ Below # {}
    BY <1>2, <1>3 DEF Below, R
  <2> QED
    BY <2>1, LeastSet
<1>5. PICK m \in T : m <= t /\ x = 0 .. m
  BY <1>4
<1>6. ASSUME NEW y \in T, ~(m <= y) PROVE FALSE
  <2>1. y \in Nat /\ m \in Nat /\ t \in Nat
    BY <1>1
  <2>2. y < m /\ y <= t
    BY <1>5, <1>6, <2>1
  <2>3. 0 .. y \in Below
    BY <2>1, <2>2
  <2>4. 0 .. y \subseteq x /\ 0 .. y # x
    <3>1. m \in x /\ m \notin 0 .. y
      BY <1>5, <2>1, <2>2
    <3> QED
      BY <1>5, <2>1, <2>2, <3>1
  <2> QED
    BY <1>4, <2>3, <2>4
<1> QED
  BY <1>6

LEMMA RecursionExists ==
  ASSUME NEW V, NEW x \in V, NEW n \in Nat, NEW step \in [1 .. n -> [V -> V]]
  PROVE  \E f \in [0 .. n -> V] : f[0] = x /\ \A i \in 1 .. n : f[i] = step[i][f[i - 1]]
<1> DEFINE Good(m, f) == /\ f \in [0 .. m -> V] /\ f[0] = x
                         /\ \A i \in 1 .. m : f[i] = step[i][f[i - 1]]
           Bad == {m \in Nat : m <= n /\ ~(\E f : Good(m, f))}
<1>1. SUFFICES ASSUME Bad # {} PROVE FALSE
  <2>1. \E f : Good(n, f)
    BY <1>1
  <2> QED
    BY <2>1
<1>2. PICK m \in Bad : \A k \in Bad : m <= k
  <2>1. Bad \subseteq Nat
    OBVIOUS
  <2> HIDE DEF Bad
  <2> QED
    BY <1>1, <2>1, LeastNumber
<1>3. m \in Nat /\ m <= n /\ ~(\E f : Good(m, f))
  OBVIOUS
<1>4. m # 0
  <2>1. Good(0, [i \in 0 .. 0 |-> x])
    OBVIOUS
  <2> QED
    BY <1>3, <2>1
<1>5. PICK f : Good(m - 1, f)
  <2>1. m - 1 \in Nat /\ ~(m <= m - 1) /\ m - 1 <= n
    BY <1>3, <1>4
  <2>2. m - 1 \notin Bad
    BY <1>2, <2>1
  <2> QED
    BY <2>1, <2>2
<1> DEFINE g == [i \in 0 .. m |-> IF i = m THEN step[m][f[m - 1]] ELSE f[i]]
<1>6. \A i \in 0 .. m - 1 : f[i] \in V
  BY <1>5
<1>7. m - 1 \in 0 .. m - 1 /\ m \in 1 .. n /\ m \in 0 .. m
  BY <1>3, <1>4
<1>8. step[m][f[m - 1]] \in V
  BY <1>6, <1>7
<1>9. g \in [0 .. m -> V]
  <2>1. \A i \in 0 .. m : i # m => i \in 0 .. m - 1
    BY <1>3
  <2> QED
    BY <1>6, <1>8, <2>1
<1>10. g[0] = x
  BY <1>3, <1>4, <1>5
<1>11. \A i \in 1 .. m : g[i] = step[i][g[i - 1]]
  <2>1. SUFFICES ASSUME NEW i \in 1 .. m PROVE g[i] = step[i][g[i - 1]]
    OBVIOUS
  <2>2. i \in 0 .. m /\ i - 1 \in 0 .. m /\ i - 1 # m
    BY <1>3
  <2>3. g[i - 1] = f[i - 1]
    BY <2>2
  <2>4. CASE i = m
    BY <2>2, <2>3, <2>4
  <2>5. CASE i # m
    <3>1. i \in 1 .. m - 1
      BY <1>3, <2>5
    <3>2. f[i] = step[i][f[i - 1]]
      BY <1>5, <3>1
    <3> QED
      BY <2>2, <2>3, <2>5, <3>2
  <2> QED
    BY <2>4, <2>5
<1>12. Good(m, g)
  BY <1>9, <1>10, <1>11
<1> QED
  BY <1>3, <1>12

\* What holds at 0 and passes from one number to the next holds up to n.
LEMMA UpTo ==
  ASSUME NEW n \in Nat, NEW G, 0 \in G, \A i \in 1 .. n : i - 1 \in G => i \in G
  PROVE  0 .. n \subseteq G
<1> DEFINE Bad == {i \in 0 .. n : i \notin G}
<1>1. SUFFICES ASSUME Bad # {} PROVE FALSE
  OBVIOUS
<1>2. PICK m \in Bad : \A k \in Bad : m <= k
  <2>1. Bad \subseteq Nat
    OBVIOUS
  <2> HIDE DEF Bad
  <2> QED
    BY <1>1, <2>1, LeastNumber
<1>3. m \in 0 .. n /\ m \notin G /\ m # 0
  OBVIOUS
<1>4. m \in 1 .. n /\ m - 1 \in 0 .. n /\ ~(m <= m - 1)
  BY <1>3
<1>5. m - 1 \in G
  BY <1>2, <1>4
<1> QED
  BY <1>3, <1>4, <1>5

LEMMA ListFacts ==
  ASSUME NEW s, IsList(s)
  PROVE  /\ Len(s) \in Nat /\ DOMAIN s = 1 .. Len(s)
         /\ s = [i \in 1 .. Len(s) |-> s[i]]
         /\ Len(s) = 0 <=> s = <<>>
BY DEF IsList

LEMMA ListMade ==
  ASSUME NEW n \in Nat, NEW f, f = [i \in 1 .. n |-> f[i]]
  PROVE  IsList(f) /\ Len(f) = n /\ DOMAIN f = 1 .. n
<1>1. DOMAIN f = 1 .. n
  OBVIOUS
<1>2. \A i \in 1 .. n : f[i] \in Range(f)
  BY <1>1 DEF Range
<1>3. f \in [1 .. n -> Range(f)]
  BY <1>2
<1> DEFINE T == Range(f)
<1>4. f \in [1 .. n -> T]
  BY <1>3
<1> HIDE DEF T
<1>5. f \in Seq(T) /\ Len(f) = n
  BY <1>4
<1> QED
  BY <1>1, <1>5 DEF IsList, T

\* Any list of elements is one.
LEMMA ListOf ==
  ASSUME NEW T, NEW s \in Seq(T)
  PROVE  IsList(s)
<1>1. Len(s) \in Nat /\ s = [i \in 1 .. Len(s) |-> s[i]]
  OBVIOUS
<1> QED
  BY <1>1, ListMade

LEMMA NoElements == IsList(<<>>) /\ DOMAIN <<>> = {}
BY DEF IsList

LEMMA ListConcat ==
  ASSUME NEW s, NEW t, IsList(s), IsList(t)
  PROVE  /\ IsList(s \o t)
         /\ Len(s \o t) = Len(s) + Len(t)
         /\ \A i \in 1 .. Len(s) : (s \o t)[i] = s[i]
         /\ \A i \in 1 .. Len(t) : (s \o t)[Len(s) + i] = t[i]
<1> DEFINE T == Range(s) \cup Range(t)
<1>1. \A i \in DOMAIN s : s[i] \in T
  BY DEF Range
<1>2. \A i \in DOMAIN t : t[i] \in T
  BY DEF Range
<1>3. /\ Len(s) \in Nat /\ DOMAIN s = 1 .. Len(s) /\ s = [i \in 1 .. Len(s) |-> s[i]]
      /\ Len(t) \in Nat /\ DOMAIN t = 1 .. Len(t) /\ t = [i \in 1 .. Len(t) |-> t[i]]
  BY ListFacts
<1> HIDE DEF T
<1>4. s \in Seq(T) /\ t \in Seq(T)
  <2>1. s \in [1 .. Len(s) -> T] /\ t \in [1 .. Len(t) -> T]
    BY <1>1, <1>2, <1>3
  <2> QED
    BY <1>3, <2>1
<1>5. s \o t \in Seq(T)
  BY <1>4
<1>6. IsList(s \o t)
  BY <1>5, ListOf
<1>7. /\ Len(s \o t) = Len(s) + Len(t)
      /\ \A i \in 1 .. Len(s) + Len(t) :
           (s \o t)[i] = IF i <= Len(s) THEN s[i] ELSE t[i - Len(s)]
  BY <1>4
<1>8. \A i \in 1 .. Len(s) : (s \o t)[i] = s[i]
  <2>1. \A i \in 1 .. Len(s) : i \in 1 .. Len(s) + Len(t) /\ i <= Len(s)
    BY <1>3
  <2> QED
    BY <1>7, <2>1
<1>9. \A i \in 1 .. Len(t) : (s \o t)[Len(s) + i] = t[i]
  <2>1. \A i \in 1 .. Len(t) : /\ Len(s) + i \in 1 .. Len(s) + Len(t)
                               /\ ~(Len(s) + i <= Len(s))
                               /\ (Len(s) + i) - Len(s) = i
    BY <1>3
  <2> QED
    BY <1>7, <2>1
<1> QED
  BY <1>6, <1>7, <1>8, <1>9

LEMMA ListSub ==
  ASSUME NEW s, IsList(s), NEW m, m \in 0 .. Len(s)
  PROVE  /\ IsList(SubSeq(s, 1, m)) /\ Len(SubSeq(s, 1, m)) = m
         /\ \A i \in 1 .. m : SubSeq(s, 1, m)[i] = s[i]
<1> DEFINE T == Range(s)
<1>1. s \in Seq(T) /\ Len(s) \in Nat
  BY ListFacts DEF IsList
<1> HIDE DEF T
<1>2. m \in Nat /\ m <= Len(s)
  BY <1>1
<1>3. SubSeq(s, 1, m) \in Seq(T) /\ Len(SubSeq(s, 1, m)) = m
  BY <1>1, <1>2
<1>4. \A i \in 1 .. m : SubSeq(s, 1, m)[i] = s[i]
  BY <1>1, <1>2
<1> QED
  BY <1>3, <1>4, ListOf

\* What a filter keeps.
LEMMA ListPick ==
  ASSUME NEW s, IsList(s), NEW I \in SUBSET (DOMAIN s)
  PROVE  /\ IsFiniteSet(I) /\ Cardinality(I) \in Nat /\ Cardinality(I) <= Len(s)
         /\ IsList(Pick(s, I)) /\ Len(Pick(s, I)) = Cardinality(I)
         /\ \E order : /\ Places(order, I)
                       /\ \A k \in 1 .. Cardinality(I) : Pick(s, I)[k] = s[order[k]]
<1>1. Len(s) \in Nat /\ DOMAIN s = 1 .. Len(s)
  BY ListFacts
<1> DEFINE n == Len(s)
<1> HIDE DEF n
<1>2. n \in Nat /\ I \in SUBSET (1 .. n)
  BY <1>1 DEF n
<1>3. /\ IsFiniteSet(I) /\ Cardinality(I) \in Nat /\ Cardinality(I) <= n
      /\ \E order : /\ Places(order, I)
                    /\ Pick(s, I) = [k \in 1 .. Cardinality(I) |-> s[order[k]]]
  BY <1>2, PickFacts
<1>4. PICK order : /\ Places(order, I)
                   /\ Pick(s, I) = [k \in 1 .. Cardinality(I) |-> s[order[k]]]
  BY <1>3
<1>5. \A k \in 1 .. Cardinality(I) : Pick(s, I)[k] = s[order[k]]
  BY <1>4
<1>6. Pick(s, I) = [k \in 1 .. Cardinality(I) |-> Pick(s, I)[k]]
  BY <1>4, <1>5
<1>7. IsList(Pick(s, I)) /\ Len(Pick(s, I)) = Cardinality(I)
  BY <1>3, <1>6, ListMade
<1> QED
  BY <1>3, <1>4, <1>5, <1>7 DEF n

LEMMA ListAppend ==
  ASSUME NEW s, IsList(s), NEW x
  PROVE  /\ IsList(Append(s, x)) /\ Len(Append(s, x)) = Len(s) + 1
         /\ \A i \in 1 .. Len(s) : Append(s, x)[i] = s[i]
         /\ Append(s, x)[Len(s) + 1] = x
<1> DEFINE T == Range(s) \cup {x}
<1>1. Len(s) \in Nat /\ DOMAIN s = 1 .. Len(s) /\ s = [i \in 1 .. Len(s) |-> s[i]]
  BY ListFacts
<1>2. \A i \in DOMAIN s : s[i] \in T
  BY DEF Range
<1>3. x \in T
  OBVIOUS
<1> HIDE DEF T
<1>4. s \in Seq(T)
  <2>1. s \in [1 .. Len(s) -> T]
    BY <1>1, <1>2
  <2> QED
    BY <1>1, <2>1
<1>5. /\ Append(s, x) \in Seq(T) /\ Len(Append(s, x)) = Len(s) + 1
      /\ \A i \in 1 .. Len(s) : Append(s, x)[i] = s[i]
      /\ Append(s, x)[Len(s) + 1] = x
  BY <1>3, <1>4
<1>6. IsList(Append(s, x))
  BY <1>5, ListOf
<1> QED
  BY <1>5, <1>6

\* Every entry from the a-th on.
LEMMA ListTail ==
  ASSUME NEW s, IsList(s), NEW a \in Nat \ {0}
  PROVE  /\ IsList(SubSeq(s, a, Len(s)))
         /\ Len(SubSeq(s, a, Len(s))) = IF a <= Len(s) THEN Len(s) - a + 1 ELSE 0
         /\ \A i \in 1 .. Len(SubSeq(s, a, Len(s))) :
              i + a - 1 \in 1 .. Len(s) /\ SubSeq(s, a, Len(s))[i] = s[i + a - 1]
<1> DEFINE n == Len(s)
           T == Range(s)
           t == SubSeq(s, a, n)
<1>1. n \in Nat /\ s \in Seq(T)
  BY ListFacts DEF IsList
<1> HIDE DEF T
<1>2. CASE a <= n
  <2>1. t \in Seq(T) /\ Len(t) = n - a + 1 /\ \A i \in 1 .. n - a + 1 : t[i] = s[i + a - 1]
    BY <1>1, <1>2
  <2>2. IsList(t)
    BY <2>1, ListOf
  <2>3. \A i \in 1 .. n - a + 1 : i + a - 1 \in 1 .. n
    BY <1>1, <1>2
  <2> QED
    BY <1>2, <2>1, <2>2, <2>3
<1>3. CASE ~(a <= n)
  <2>1. t = <<>>
    BY <1>1, <1>3
  <2> QED
    BY <1>3, <2>1, NoElements
<1> QED
  BY <1>2, <1>3

LEMMA ImageFinite ==
  ASSUME NEW f, NEW S, IsFiniteSet(S)
  PROVE  IsFiniteSet({f[i] : i \in S}) /\ Cardinality({f[i] : i \in S}) \in Nat
<1> DEFINE T == {f[i] : i \in S}
           g == [i \in S |-> f[i]]
<1>1. g \in [S -> T] /\ \A t \in T : \E i \in S : g[i] = t
  OBVIOUS
<1> HIDE DEF g, T
<1>2. g \in Surjection(S, T)
  BY <1>1, Fun_IsSurj
<1>3. IsFiniteSet(T)
  BY <1>2, FS_Surjection
<1>4. Cardinality(T) \in Nat
  BY <1>3, FS_CardinalityType
<1> QED
  BY <1>3, <1>4 DEF T

\* Part of a list, from behind its a-th element to its b-th.
LEMMA ListSlice ==
  ASSUME NEW s, IsList(s), NEW a \in Nat, NEW b \in Nat, a <= b, b <= Len(s)
  PROVE  /\ IsList(SubSeq(s, a + 1, b)) /\ Len(SubSeq(s, a + 1, b)) = b - a
         /\ \A i \in 1 .. b - a : SubSeq(s, a + 1, b)[i] = s[a + i]
<1> DEFINE T == Range(s)
           t == SubSeq(s, a + 1, b)
<1>1. s \in Seq(T) /\ Len(s) \in Nat
  BY ListFacts DEF IsList
<1> HIDE DEF T
<1>2. t \in Seq(T) /\ Len(t) = b - a
  BY <1>1
<1>3. \A i \in 1 .. b - a : t[i] = s[a + i]
  BY <1>1
<1> QED
  BY <1>2, <1>3, ListOf

-----------------------------------------------------------------------------
(***************************************************************************)
(* What apply_changes does to a text.                                      *)
(***************************************************************************)
\* A change of characters that are there.
Fits(c, n) ==
  /\ c.start \in Nat /\ c.end \in Nat /\ c.start < c.end /\ c.end <= n
  /\ IsList(c.replacement)

\* Changes from left to right, none of which touches another one.
InLine(log, n) ==
  /\ IsList(log)
  /\ \A k \in DOMAIN log : Fits(log[k], n)
  /\ \A k, l \in DOMAIN log : k < l => log[k].end <= log[l].start

\* The text between the k-th change and the one after it.
GapFrom(log, k) == IF k = 0 THEN 0 ELSE log[k].end
GapTo(log, k, n) == IF k = Len(log) THEN n ELSE log[k + 1].start

ShiftOf(log) ==
  CHOOSE s : s = [k \in 0 .. Len(log) |->
                    IF k = 0 THEN 0
                    ELSE s[k - 1] + Len(log[k].replacement) - (log[k].end - log[k].start)]

LEMMA ShiftFacts ==
  ASSUME NEW log, NEW n, InLine(log, n)
  PROVE  /\ ShiftOf(log) \in [0 .. Len(log) -> Int]
         /\ ShiftOf(log)[0] = 0
         /\ \A k \in 1 .. Len(log) :
              ShiftOf(log)[k] =
              ShiftOf(log)[k - 1] + Len(log[k].replacement) - (log[k].end - log[k].start)
<1> DEFINE m == Len(log)
           e(k, v) == v + Len(log[k].replacement) - (log[k].end - log[k].start)
           Row(s) == s = [k \in 0 .. m |-> IF k = 0 THEN 0 ELSE e(k, s[k - 1])]
           step == [k \in 1 .. m |-> [v \in Int |-> e(k, v)]]
           chosen == CHOOSE s : Row(s)
<1>1. m \in Nat /\ DOMAIN log = 1 .. m
  BY ListFacts DEF InLine
<1>2. ShiftOf(log) = chosen
  BY DEF ShiftOf
<1>3. \A k \in 1 .. m, v \in Int : e(k, v) \in Int
  <2>1. SUFFICES ASSUME NEW k \in 1 .. m, NEW v \in Int PROVE e(k, v) \in Int
    OBVIOUS
  <2>2. Fits(log[k], n)
    BY <1>1 DEF InLine
  <2>3. Len(log[k].replacement) \in Nat
    BY <2>2, ListFacts DEF Fits
  <2> QED
    BY <2>2, <2>3 DEF Fits
<1> HIDE DEF e, chosen, m
<1>4. step \in [1 .. m -> [Int -> Int]]
  BY <1>3
<1>5. \A k \in 1 .. m, v \in Int : step[k][v] = e(k, v)
  OBVIOUS
<1> HIDE DEF step
<1>6. PICK f \in [0 .. m -> Int] : f[0] = 0 /\ \A k \in 1 .. m : f[k] = step[k][f[k - 1]]
  <2> DEFINE V == Int
             start == 0
  <2>1. m \in Nat /\ start \in V /\ step \in [1 .. m -> [V -> V]]
    BY <1>1, <1>4
  <2> HIDE DEF V, start, Row
  <2>2. \E f \in [0 .. m -> V] : f[0] = start /\ \A j \in 1 .. m : f[j] = step[j][f[j - 1]]
    BY <2>1, RecursionExists
  <2> QED
    BY <2>2 DEF V, start
<1>7. \A k \in 1 .. m : f[k] = e(k, f[k - 1])
  <2>1. SUFFICES ASSUME NEW k \in 1 .. m PROVE f[k] = e(k, f[k - 1])
    OBVIOUS
  <2>2. k - 1 \in 0 .. m
    BY <1>1
  <2> QED
    BY <1>5, <1>6, <2>2
<1>8. Row(f)
  <2>1. \A k \in 0 .. m : f[k] = IF k = 0 THEN 0 ELSE e(k, f[k - 1])
    <3>1. \A k \in 0 .. m : k = 0 \/ k \in 1 .. m
      BY <1>1
    <3> QED
      BY <1>6, <1>7, <3>1
  <2> QED
    BY <2>1
<1>9. Row(chosen)
  BY <1>8 DEF chosen
<1>10. \A k \in 0 .. m : chosen[k] = IF k = 0 THEN 0 ELSE e(k, chosen[k - 1])
  BY <1>9
<1> DEFINE G == {k \in 0 .. m : chosen[k] \in Int}
<1>11. 0 \in G
  BY <1>1, <1>10
<1>12. \A k \in 1 .. m : k - 1 \in G => k \in G
  <2>1. SUFFICES ASSUME NEW k \in 1 .. m, chosen[k - 1] \in Int
                 PROVE  chosen[k] \in Int /\ k \in 0 .. m
    OBVIOUS
  <2>2. k \in 0 .. m /\ k # 0
    BY <1>1
  <2> QED
    BY <1>3, <1>10, <2>1, <2>2
<1>13. 0 .. m \subseteq G
  <2> HIDE DEF G
  <2> QED
    BY <1>1, <1>11, <1>12, UpTo
<1>14. chosen = [k \in 0 .. m |-> chosen[k]]
  <2> DEFINE h(k) == IF k = 0 THEN 0 ELSE e(k, chosen[k - 1])
  <2>1. chosen = [k \in 0 .. m |-> h(k)]
    BY <1>9
  <2> HIDE DEF h
  <2> QED
    BY <2>1
<1>15. chosen \in [0 .. m -> Int]
  BY <1>13, <1>14
<1>16. \A k \in 1 .. m : k \in 0 .. m /\ k # 0
  BY <1>1
<1>17. \A k \in 1 .. m : chosen[k] = e(k, chosen[k - 1])
  BY <1>10, <1>16
<1>18. chosen[0] = 0
  BY <1>1, <1>10
<1> QED
  BY <1>2, <1>15, <1>17, <1>18 DEF m, e

-----------------------------------------------------------------------------
(***************************************************************************)
(* The text with its changes applied.                                      *)
(***************************************************************************)
\* What apply_changes has put together, change after change.
Done(text, log) ==
  CHOOSE done : done =
    [k \in 0 .. Len(log) |->
       IF k = 0 THEN [pieces |-> <<>>, cursor |-> 0]
       ELSE IF log[k].start < done[k - 1].cursor THEN done[k - 1]
       ELSE [pieces |-> done[k - 1].pieces
                        \o SubSeq(text, done[k - 1].cursor + 1, log[k].start)
                        \o log[k].replacement,
             cursor |-> log[k].end]]

\* One change more.
Extended(text, log, k, v) ==
  IF log[k].start < v.cursor THEN v
  ELSE [pieces |-> v.pieces \o SubSeq(text, v.cursor + 1, log[k].start) \o log[k].replacement,
        cursor |-> log[k].end]

LEMMA DoneFacts ==
  ASSUME NEW text, IsList(text), NEW log, InLine(log, Len(text))
  PROVE  /\ Done(text, log)[0] = [pieces |-> <<>>, cursor |-> 0]
         /\ \A k \in 1 .. Len(log) :
              Done(text, log)[k] = Extended(text, log, k, Done(text, log)[k - 1])
         /\ \A k \in 0 .. Len(log) : IsList(Done(text, log)[k].pieces)
<1> DEFINE m == Len(log)
           T == Range(text) \cup UNION {Range(log[k].replacement) : k \in 1 .. m}
           V == [pieces : Seq(T), cursor : Nat]
           first == [pieces |-> <<>>, cursor |-> 0]
           joined(k, v) == v.pieces \o SubSeq(text, v.cursor + 1, log[k].start) \o log[k].replacement
           e(k, v) == IF log[k].start < v.cursor THEN v
                      ELSE [pieces |-> joined(k, v), cursor |-> log[k].end]
           Row(d) == d = [k \in 0 .. m |-> IF k = 0 THEN first ELSE e(k, d[k - 1])]
           step == [k \in 1 .. m |-> [v \in V |-> e(k, v)]]
           chosen == CHOOSE d : Row(d)
<1>1. m \in Nat /\ DOMAIN log = 1 .. m
  BY ListFacts DEF InLine
<1>2. Done(text, log) = chosen
  BY DEF Done
<1>3. text \in Seq(T)
  <2>1. Range(text) \subseteq T /\ text \in Seq(Range(text))
    BY DEF IsList
  <2> HIDE DEF T
  <2> QED
    BY <2>1
<1>4. \A k \in 1 .. m : log[k].replacement \in Seq(T)
  <2>1. SUFFICES ASSUME NEW k \in 1 .. m PROVE log[k].replacement \in Seq(T)
    OBVIOUS
  <2> DEFINE r == log[k].replacement
  <2>2. r \in Seq(Range(r))
    BY <1>1 DEF InLine, Fits, IsList
  <2>3. Range(r) \subseteq T
    OBVIOUS
  <2> HIDE DEF T, r
  <2>4. r \in Seq(T)
    BY <2>2, <2>3
  <2> QED
    BY <2>4 DEF r
<1> HIDE DEF T
<1>5. \A k \in 1 .. m, v \in V : e(k, v) \in V
  <2>1. SUFFICES ASSUME NEW k \in 1 .. m, NEW v \in V PROVE e(k, v) \in V
    OBVIOUS
  <2>2. v.pieces \in Seq(T) /\ v.cursor \in Nat
    OBVIOUS
  <2>3. log[k].start \in Nat /\ log[k].end \in Nat /\ log[k].start <= Len(text)
    <3>1. Fits(log[k], Len(text))
      BY <1>1 DEF InLine
    <3>2. Len(text) \in Nat
      BY <1>3
    <3> QED
      BY <3>1, <3>2 DEF Fits
  <2>4. CASE log[k].start < v.cursor
    BY <2>4
  <2>5. CASE ~(log[k].start < v.cursor)
    <3> DEFINE a == v.cursor + 1
               b == log[k].start
               part == SubSeq(text, a, b)
               r == log[k].replacement
    <3>1. a \in 1 .. Len(text) + 1 /\ b \in 0 .. Len(text) /\ a \in Nat /\ b \in Nat
      BY <1>3, <2>2, <2>3, <2>5
    <3> HIDE DEF a, b
    <3>2. part \in Seq(T)
      BY <1>3, <3>1
    <3>3. r \in Seq(T)
      BY <1>4
    <3> HIDE DEF part, r
    <3>4. v.pieces \o part \in Seq(T)
      BY <2>2, <3>2
    <3>5. v.pieces \o part \o r \in Seq(T)
      BY <3>3, <3>4
    <3>6. joined(k, v) \in Seq(T)
      BY <3>5 DEF part, r, a, b
    <3> HIDE DEF joined
    <3> QED
      BY <2>3, <2>5, <3>6
  <2> QED
    BY <2>4, <2>5
<1>6. first \in V
  OBVIOUS
<1> HIDE DEF e, chosen, m, V, first, joined
<1>7. step \in [1 .. m -> [V -> V]]
  BY <1>5
<1>8. \A k \in 1 .. m, v \in V : step[k][v] = e(k, v)
  OBVIOUS
<1> HIDE DEF step
<1>9. PICK f \in [0 .. m -> V] : f[0] = first /\ \A k \in 1 .. m : f[k] = step[k][f[k - 1]]
  <2>1. m \in Nat
    BY <1>1
  <2> HIDE DEF Row
  <2> QED
    BY <2>1, <1>6, <1>7, RecursionExists
<1>10. \A k \in 1 .. m : f[k] = e(k, f[k - 1])
  <2>1. SUFFICES ASSUME NEW k \in 1 .. m PROVE f[k] = e(k, f[k - 1])
    OBVIOUS
  <2>2. k - 1 \in 0 .. m
    BY <1>1
  <2> QED
    BY <1>8, <1>9, <2>2
<1>11. Row(f)
  <2>1. \A k \in 0 .. m : f[k] = IF k = 0 THEN first ELSE e(k, f[k - 1])
    <3>1. \A k \in 0 .. m : k = 0 \/ k \in 1 .. m
      BY <1>1
    <3> QED
      BY <1>9, <1>10, <3>1
  <2> QED
    BY <2>1
<1>12. Row(chosen)
  BY <1>11 DEF chosen
<1>13. \A k \in 0 .. m : chosen[k] = IF k = 0 THEN first ELSE e(k, chosen[k - 1])
  BY <1>12
<1> DEFINE G == {k \in 0 .. m : chosen[k] \in V}
<1>14. 0 \in G
  BY <1>1, <1>6, <1>13
<1>15. \A k \in 1 .. m : k - 1 \in G => k \in G
  <2>1. SUFFICES ASSUME NEW k \in 1 .. m, chosen[k - 1] \in V
                 PROVE  chosen[k] \in V /\ k \in 0 .. m
    OBVIOUS
  <2>2. k \in 0 .. m /\ k # 0
    BY <1>1
  <2> QED
    BY <1>5, <1>13, <2>1, <2>2
<1>16. 0 .. m \subseteq G
  <2> HIDE DEF G
  <2> QED
    BY <1>1, <1>14, <1>15, UpTo
<1>17. \A k \in 0 .. m : IsList(chosen[k].pieces)
  <2>1. SUFFICES ASSUME NEW k \in 0 .. m PROVE IsList(chosen[k].pieces)
    OBVIOUS
  <2>2. chosen[k] \in V
    BY <1>16
  <2>3. chosen[k].pieces \in Seq(T)
    BY <2>2 DEF V
  <2> QED
    BY <2>3, ListOf
<1>18. \A k \in 1 .. m : k \in 0 .. m /\ k # 0
  BY <1>1
<1>19. \A k \in 1 .. m : chosen[k] = Extended(text, log, k, chosen[k - 1])
  <2>1. \A k \in 1 .. m : chosen[k] = e(k, chosen[k - 1])
    BY <1>13, <1>18
  <2>2. \A k, v : e(k, v) = Extended(text, log, k, v)
    BY DEF e, joined, Extended
  <2> QED
    BY <2>1, <2>2
<1>20. chosen[0] = first
  BY <1>1, <1>13
<1> QED
  BY <1>2, <1>17, <1>19, <1>20 DEF m, first

\* `part' stands in the list s behind its a-th element.
StandsAt(s, a, part) ==
  a \in Nat /\ a + Len(part) <= Len(s) /\ \A i \in 1 .. Len(part) : s[a + i] = part[i]

LEMMA StandsInConcat ==
  ASSUME NEW s, NEW t, IsList(s), IsList(t)
  PROVE  /\ StandsAt(s \o t, Len(s), t)
         /\ \A a, part : IsList(part) /\ StandsAt(s, a, part) => StandsAt(s \o t, a, part)
<1>1. /\ Len(s) \in Nat /\ Len(t) \in Nat /\ Len(s \o t) = Len(s) + Len(t)
      /\ \A i \in 1 .. Len(s) : (s \o t)[i] = s[i]
      /\ \A i \in 1 .. Len(t) : (s \o t)[Len(s) + i] = t[i]
  BY ListConcat, ListFacts
<1> DEFINE u == s \o t
<1> HIDE DEF u
<1>2. StandsAt(u, Len(s), t)
  BY <1>1 DEF StandsAt, u
<1>3. ASSUME NEW a, NEW part, IsList(part), StandsAt(s, a, part) PROVE StandsAt(u, a, part)
  <2>1. Len(part) \in Nat /\ a \in Nat /\ a + Len(part) <= Len(s)
    BY <1>3, ListFacts DEF StandsAt
  <2>2. \A i \in 1 .. Len(part) : a + i \in 1 .. Len(s)
    BY <1>1, <2>1
  <2>3. \A i \in 1 .. Len(part) : u[a + i] = part[i]
    BY <1>1, <1>3, <2>2 DEF StandsAt, u
  <2>4. a + Len(part) <= Len(u)
    BY <1>1, <2>1 DEF u
  <2> QED
    BY <2>1, <2>3, <2>4 DEF StandsAt
<1> QED
  BY <1>2, <1>3 DEF u

\* The k-th gap of the text, and where the changes have moved it.
Gap(text, log, k) == SubSeq(text, GapFrom(log, k) + 1, GapTo(log, k, Len(text)))

LEMMA GapFacts ==
  ASSUME NEW text, IsList(text), NEW log, InLine(log, Len(text)), NEW k \in 0 .. Len(log)
  PROVE  /\ GapFrom(log, k) \in Nat /\ GapTo(log, k, Len(text)) \in Nat
         /\ GapFrom(log, k) <= GapTo(log, k, Len(text)) /\ GapTo(log, k, Len(text)) <= Len(text)
         /\ IsList(Gap(text, log, k))
         /\ Len(Gap(text, log, k)) = GapTo(log, k, Len(text)) - GapFrom(log, k)
         /\ \A i \in 1 .. Len(Gap(text, log, k)) : Gap(text, log, k)[i] = text[GapFrom(log, k) + i]
<1> DEFINE a == GapFrom(log, k)
           b == GapTo(log, k, Len(text))
<1>1. Len(text) \in Nat /\ Len(log) \in Nat /\ DOMAIN log = 1 .. Len(log)
  BY ListFacts DEF InLine
<1>2. \A l \in 1 .. Len(log) : /\ log[l].start \in Nat /\ log[l].end \in Nat
                               /\ log[l].start <= Len(text) /\ log[l].end <= Len(text)
  <2>1. SUFFICES ASSUME NEW l \in 1 .. Len(log)
                 PROVE  /\ log[l].start \in Nat /\ log[l].end \in Nat
                        /\ log[l].start <= Len(text) /\ log[l].end <= Len(text)
    OBVIOUS
  <2>2. Fits(log[l], Len(text))
    BY <1>1 DEF InLine
  <2> QED
    BY <1>1, <2>2 DEF Fits
<1>3. a \in Nat /\ a <= Len(text)
  BY <1>1, <1>2 DEF GapFrom
<1> DEFINE m == Len(log)
<1> HIDE DEF m
<1>7. m \in Nat /\ k \in Nat /\ k <= m
  BY <1>1 DEF m
<1>8. k # m => k + 1 \in 1 .. m
  BY <1>7
<1>9. k # 0 => k \in 1 .. m /\ k < k + 1
  BY <1>7
<1>4. b \in Nat /\ b <= Len(text)
  <2>1. CASE k = m
    BY <1>1, <2>1 DEF GapTo, m
  <2>2. CASE k # m
    <3>1. b = log[k + 1].start
      BY <2>2 DEF GapTo, m
    <3> QED
      BY <1>2, <1>8, <2>2, <3>1 DEF m
  <2> QED
    BY <2>1, <2>2
<1>5. a <= b
  <2>1. CASE k = Len(log)
    BY <1>3, <2>1 DEF GapTo
  <2>2. CASE k # Len(log) /\ k = 0
    <3>1. b = log[k + 1].start /\ a = 0
      BY <2>2 DEF GapTo, GapFrom
    <3> QED
      BY <1>4, <3>1
  <2>3. CASE k # Len(log) /\ k # 0
    <3>1. k \in 1 .. Len(log) /\ k + 1 \in 1 .. Len(log) /\ k < k + 1
      BY <1>8, <1>9, <2>3 DEF m
    <3>2. log[k].end <= log[k + 1].start
      BY <1>1, <3>1 DEF InLine
    <3> QED
      BY <2>3, <3>2 DEF GapTo, GapFrom
  <2> QED
    BY <2>1, <2>2, <2>3
<1> HIDE DEF a, b
<1>6. /\ IsList(SubSeq(text, a + 1, b)) /\ Len(SubSeq(text, a + 1, b)) = b - a
      /\ \A i \in 1 .. b - a : SubSeq(text, a + 1, b)[i] = text[a + i]
  BY <1>3, <1>4, <1>5, ListSlice
<1> QED
  BY <1>3, <1>4, <1>5, <1>6 DEF a, b, Gap

\* What stands in the pieces put together after k changes: the gaps before
\* each of them and what they write, one behind the other.
Joined(text, log, k) ==
  LET pieces == Done(text, log)[k].pieces
      shift == ShiftOf(log)
  IN  /\ Done(text, log)[k].cursor = GapFrom(log, k)
      /\ Len(pieces) = GapFrom(log, k) + shift[k]
      /\ \A j \in 0 .. k - 1 : StandsAt(pieces, GapFrom(log, j) + shift[j], Gap(text, log, j))
      /\ \A j \in 1 .. k : StandsAt(pieces, log[j].start + shift[j - 1], log[j].replacement)

LEMMA JoinedStep ==
  ASSUME NEW text, IsList(text), NEW log, InLine(log, Len(text)), NEW k \in 1 .. Len(log),
         Joined(text, log, k - 1)
  PROVE  Joined(text, log, k)
<1> DEFINE done == Done(text, log)
           shift == ShiftOf(log)
           p == done[k - 1].pieces
           from == GapFrom(log, k - 1)
           a == Gap(text, log, k - 1)
           r == log[k].replacement
<1>1. Len(text) \in Nat /\ Len(log) \in Nat /\ DOMAIN log = 1 .. Len(log)
  BY ListFacts DEF InLine
<1>2. k - 1 \in 0 .. Len(log) /\ k \in 0 .. Len(log) /\ k # 0
  BY <1>1
<1>3. GapTo(log, k - 1, Len(text)) = log[k].start
  <2>1. k - 1 # Len(log) /\ (k - 1) + 1 = k
    BY <1>1
  <2> QED
    BY <2>1 DEF GapTo
<1>4. /\ from \in Nat /\ log[k].start \in Nat /\ from <= log[k].start
      /\ IsList(a) /\ Len(a) = log[k].start - from
  BY <1>2, <1>3, GapFacts
<1>5. /\ IsList(r) /\ Len(r) \in Nat
      /\ log[k].end \in Nat
  <2>1. Fits(log[k], Len(text))
    BY <1>1 DEF InLine
  <2> QED
    BY <2>1, ListFacts DEF Fits
<1>6. /\ shift[k] \in Int /\ shift[k - 1] \in Int
      /\ shift[k] = shift[k - 1] + Len(r) - (log[k].end - log[k].start)
  <2>1. /\ \A j \in 0 .. Len(log) : shift[j] \in Int
        /\ \A j \in 1 .. Len(log) :
             shift[j] = shift[j - 1] + Len(log[j].replacement) - (log[j].end - log[j].start)
    BY ShiftFacts
  <2> HIDE DEF shift
  <2> QED
    BY <1>2, <2>1
<1>7. /\ done[k - 1].cursor = from
      /\ Len(p) = from + shift[k - 1]
      /\ \A j \in 0 .. (k - 1) - 1 : StandsAt(p, GapFrom(log, j) + shift[j], Gap(text, log, j))
      /\ \A j \in 1 .. k - 1 : StandsAt(p, log[j].start + shift[j - 1], log[j].replacement)
  BY DEF Joined
<1>8. IsList(p) /\ Len(p) \in Nat
  BY <1>2, DoneFacts, ListFacts
<1>9. done[k] = [pieces |-> p \o a \o r, cursor |-> log[k].end]
  <2>1. ~(log[k].start < done[k - 1].cursor)
    BY <1>4, <1>7
  <2>2. done[k] = [pieces |-> p \o SubSeq(text, from + 1, log[k].start) \o r,
                   cursor |-> log[k].end]
    <3>1. done[k] = Extended(text, log, k, done[k - 1])
      BY DoneFacts
    <3> HIDE DEF done
    <3> QED
      BY <1>7, <2>1, <3>1 DEF Extended
  <2>3. a = SubSeq(text, from + 1, log[k].start)
    BY <1>3 DEF Gap
  <2> QED
    BY <2>2, <2>3
<1>10. GapFrom(log, k) = log[k].end
  BY <1>2 DEF GapFrom
<1> DEFINE pa == p \o a
           q == pa \o r
<1>11. done[k].pieces = q /\ done[k].cursor = log[k].end
  <2> HIDE DEF done, p, a, r
  <2> QED
    BY <1>9
<1> HIDE DEF done, shift, p, a, r, from
<1>12. /\ IsList(pa) /\ Len(pa) = Len(p) + Len(a) /\ StandsAt(pa, Len(p), a)
       /\ \A x, part : IsList(part) /\ StandsAt(p, x, part) => StandsAt(pa, x, part)
  BY <1>4, <1>8, ListConcat, StandsInConcat
<1> HIDE DEF pa
<1>13. /\ Len(q) = Len(pa) + Len(r) /\ StandsAt(q, Len(pa), r)
       /\ \A x, part : IsList(part) /\ StandsAt(pa, x, part) => StandsAt(q, x, part)
  BY <1>5, <1>12, ListConcat, StandsInConcat
<1> HIDE DEF q
<1>14. Len(pa) = log[k].start + shift[k - 1]
  <2>1. from \in Nat /\ log[k].start \in Nat /\ Len(a) = log[k].start - from
    BY <1>4
  <2>2. Len(p) = from + shift[k - 1] /\ shift[k - 1] \in Int /\ Len(pa) = Len(p) + Len(a)
    BY <1>6, <1>7, <1>12
  <2> QED
    BY <2>1, <2>2
<1>15. Len(q) = log[k].end + shift[k]
  <2>1. log[k].start \in Nat /\ log[k].end \in Nat /\ Len(r) \in Nat
    BY <1>4, <1>5
  <2>2. Len(q) = Len(pa) + Len(r) /\ shift[k - 1] \in Int
    BY <1>6, <1>13
  <2>3. shift[k] = shift[k - 1] + Len(r) - (log[k].end - log[k].start)
    BY <1>6
  <2> QED
    BY <1>14, <2>1, <2>2, <2>3
<1>16. ASSUME NEW j \in 0 .. k - 1
       PROVE  StandsAt(q, GapFrom(log, j) + shift[j], Gap(text, log, j))
  <2>1. IsList(Gap(text, log, j))
    <3>1. j \in 0 .. Len(log)
      BY <1>1, <1>16
    <3> QED
      BY <3>1, GapFacts
  <2>2. CASE j = k - 1
    <3>1. StandsAt(q, Len(p), a)
      BY <1>4, <1>12, <1>13
    <3> QED
      BY <1>7, <2>2, <3>1 DEF from, a
  <2>3. CASE j # k - 1
    <3>1. j \in 0 .. (k - 1) - 1
      BY <1>1, <1>16, <2>3
    <3> QED
      BY <1>7, <1>12, <1>13, <2>1, <3>1
  <2> QED
    BY <2>2, <2>3
<1>17. ASSUME NEW j \in 1 .. k
       PROVE  StandsAt(q, log[j].start + shift[j - 1], log[j].replacement)
  <2>1. IsList(log[j].replacement)
    <3>1. j \in DOMAIN log
      BY <1>1, <1>17
    <3> QED
      BY <3>1 DEF InLine, Fits
  <2>2. CASE j = k
    BY <1>13, <1>14, <2>2 DEF r
  <2>3. CASE j # k
    <3>1. j \in 1 .. k - 1
      BY <1>1, <1>17, <2>3
    <3> QED
      BY <1>7, <1>12, <1>13, <2>1, <3>1
  <2> QED
    BY <2>2, <2>3
<1> QED
  BY <1>10, <1>11, <1>15, <1>16, <1>17 DEF Joined, done, shift

\* The text with the changes: every gap and every replacement stands where the
\* lengths of the changes before it have moved it.
Applied(text, log, out) ==
  LET shift == ShiftOf(log)
  IN  /\ IsList(out) /\ Len(out) = Len(text) + shift[Len(log)]
      /\ \A j \in 0 .. Len(log) : StandsAt(out, GapFrom(log, j) + shift[j], Gap(text, log, j))
      /\ \A j \in 1 .. Len(log) : StandsAt(out, log[j].start + shift[j - 1], log[j].replacement)

LEMMA AppliedFacts ==
  ASSUME NEW text, IsList(text), NEW log, InLine(log, Len(text))
  PROVE  Applied(text, log, apply_changes(text, log))
<1> DEFINE m == Len(log)
           shift == ShiftOf(log)
           G == {k \in 0 .. m : Joined(text, log, k)}
<1>1. m \in Nat /\ Len(text) \in Nat /\ DOMAIN log = 1 .. m
  BY ListFacts DEF InLine
<1>2. 0 \in G
  <2>1. Joined(text, log, 0)
    <3>1. Done(text, log)[0].pieces = <<>> /\ Done(text, log)[0].cursor = 0
      BY DoneFacts
    <3>2. ShiftOf(log)[0] = 0 /\ GapFrom(log, 0) = 0
      BY ShiftFacts DEF GapFrom
    <3>3. Len(<<>>) = 0
      OBVIOUS
    <3> QED
      BY <3>1, <3>2, <3>3 DEF Joined
  <2> QED
    BY <1>1, <2>1
<1>3. \A k \in 1 .. m : k - 1 \in G => k \in G
  BY <1>1, JoinedStep
<1>4. Joined(text, log, m)
  <2> HIDE DEF G, m
  <2>1. 0 .. m \subseteq G
    BY <1>1, <1>2, <1>3, UpTo
  <2>2. m \in 0 .. m
    BY <1>1
  <2> QED
    BY <2>1, <2>2 DEF G
<1> DEFINE p == Done(text, log)[m].pieces
           a == Gap(text, log, m)
           out == p \o a
<1>5. m \in 0 .. Len(log) /\ GapTo(log, m, Len(text)) = Len(text)
  BY <1>1 DEF GapTo
<1>6. apply_changes(text, log) = out
  <2>1. apply_changes(text, log) = p \o SubSeq(text, Done(text, log)[m].cursor + 1, Len(text))
    BY DEF apply_changes, Done
  <2>2. Done(text, log)[m].cursor = GapFrom(log, m)
    BY <1>4 DEF Joined
  <2> QED
    BY <1>5, <2>1, <2>2 DEF Gap
<1>7. IsList(p) /\ Len(p) \in Nat
  BY <1>5, DoneFacts, ListFacts
<1>8. IsList(a) /\ Len(a) = Len(text) - GapFrom(log, m) /\ GapFrom(log, m) \in Nat
  BY <1>5, GapFacts
<1>9. /\ Len(p) = GapFrom(log, m) + shift[m]
      /\ \A j \in 0 .. m - 1 : StandsAt(p, GapFrom(log, j) + shift[j], Gap(text, log, j))
      /\ \A j \in 1 .. m : StandsAt(p, log[j].start + shift[j - 1], log[j].replacement)
  BY <1>4 DEF Joined
<1>10. shift[m] \in Int
  BY <1>5, ShiftFacts
<1> HIDE DEF p, shift
<1>11. /\ IsList(out) /\ Len(out) = Len(p) + Len(a) /\ StandsAt(out, Len(p), a)
       /\ \A x, part : IsList(part) /\ StandsAt(p, x, part) => StandsAt(out, x, part)
  <2> HIDE DEF a
  <2> QED
    BY <1>7, <1>8, ListConcat, StandsInConcat
<1>12. Len(out) = Len(text) + shift[m]
  <2> HIDE DEF out, a, m
  <2> QED
    BY <1>1, <1>8, <1>9, <1>10, <1>11
<1> HIDE DEF out
<1>13. ASSUME NEW j \in 0 .. m
       PROVE  StandsAt(out, GapFrom(log, j) + shift[j], Gap(text, log, j))
  <2>1. CASE j = m
    BY <1>9, <1>11, <2>1
  <2>2. CASE j # m
    <3>1. j \in 0 .. m - 1
      <4> HIDE DEF m
      <4> QED
        BY <1>1, <1>13, <2>2
    <3>2. IsList(Gap(text, log, j))
      BY <1>13, GapFacts
    <3> QED
      BY <1>9, <1>11, <3>1, <3>2
  <2> QED
    BY <2>1, <2>2
<1>14. ASSUME NEW j \in 1 .. m
       PROVE  StandsAt(out, log[j].start + shift[j - 1], log[j].replacement)
  <2>1. IsList(log[j].replacement)
    BY <1>1, <1>14 DEF InLine, Fits
  <2> QED
    BY <1>9, <1>11, <1>14, <2>1
<1> QED
  BY <1>6, <1>11, <1>12, <1>13, <1>14 DEF Applied, shift

-----------------------------------------------------------------------------
(***************************************************************************)
(* Letters, raised and lowered.                                            *)
(***************************************************************************)
Capitals == {"A", "O", "D", "B", "A'", "A^", "O'", "DD", "ETH"}
Smalls == {"a", "o", "d", "b", "a'", "a^", "o'", "dd", "eth"}

LEMMA LowerOfFacts ==
  /\ DOMAIN LowerOf = Capitals
  /\ \A up \in Capitals : LowerOf[up] \in Smalls
  /\ \A ch \in Smalls : \E up \in Capitals : LowerOf[up] = ch
  /\ Range(LowerOf) = Smalls
  /\ Smalls \cap Capitals = {}
<1>1. DOMAIN LowerOf = Capitals
  BY DEF LowerOf, Capitals
<1>2. /\ LowerOf["A"] = "a" /\ LowerOf["O"] = "o" /\ LowerOf["D"] = "d" /\ LowerOf["B"] = "b"
      /\ LowerOf["A'"] = "a'" /\ LowerOf["A^"] = "a^" /\ LowerOf["O'"] = "o'"
      /\ LowerOf["DD"] = "dd" /\ LowerOf["ETH"] = "eth"
  BY DEF LowerOf
<1>3. \A up \in Capitals : LowerOf[up] \in Smalls
  BY <1>2 DEF Capitals, Smalls
<1>4. \A ch \in Smalls : \E up \in Capitals : LowerOf[up] = ch
  BY <1>2 DEF Capitals, Smalls
<1>5. Range(LowerOf) = Smalls
  BY <1>1, <1>3, <1>4 DEF Range
<1>6. Smalls \cap Capitals = {}
  BY DEF Smalls, Capitals
<1> QED
  BY <1>1, <1>3, <1>4, <1>5, <1>6

\* Letters are raised and lowered without becoming other letters.
LEMMA TranslateFacts ==
  ASSUME NEW ch
  PROVE  /\ Translate(LowerOf, Translate(LowerOf, ch)) = Translate(LowerOf, ch)
         /\ Translate(LowerOf, Translate(UpperOf, ch)) = Translate(LowerOf, ch)
         /\ IsUpper(ch) <=> ch \in Capitals
         /\ IsLower(ch) <=> ch \in Smalls
         /\ ~IsUpper(Translate(LowerOf, ch))
         /\ IsAlpha(ch) => IsUpper(Translate(UpperOf, ch))
         /\ ~IsLower(Translate(UpperOf, ch))
         /\ IsAlpha(Translate(LowerOf, ch)) <=> IsAlpha(ch)
<1>1. /\ DOMAIN LowerOf = Capitals /\ Range(LowerOf) = Smalls /\ Smalls \cap Capitals = {}
      /\ \A up \in Capitals : LowerOf[up] \in Smalls
      /\ \A c \in Smalls : \E up \in Capitals : LowerOf[up] = c
  BY LowerOfFacts
<1>2. DOMAIN UpperOf = Smalls
  BY <1>1 DEF UpperOf
<1>3. \A c \in Smalls : UpperOf[c] \in Capitals /\ LowerOf[UpperOf[c]] = c
  <2>1. SUFFICES ASSUME NEW c \in Smalls
                 PROVE  UpperOf[c] \in Capitals /\ LowerOf[UpperOf[c]] = c
    OBVIOUS
  <2>2. UpperOf[c] = CHOOSE up \in DOMAIN LowerOf : LowerOf[up] = c
    BY <1>1 DEF UpperOf
  <2>3. \E up \in DOMAIN LowerOf : LowerOf[up] = c
    BY <1>1
  <2> QED
    BY <1>1, <2>2, <2>3
<1>4. IsUpper(ch) <=> ch \in Capitals
  BY <1>1 DEF IsUpper
<1>5. IsLower(ch) <=> ch \in Smalls
  BY <1>1 DEF IsLower
<1>6. CASE ch \in Capitals
  <2>1. Translate(LowerOf, ch) = LowerOf[ch] /\ LowerOf[ch] \in Smalls
    BY <1>1, <1>6 DEF Translate
  <2>2. Translate(UpperOf, ch) = ch
    BY <1>1, <1>2, <1>6 DEF Translate
  <2>3. Translate(LowerOf, LowerOf[ch]) = LowerOf[ch]
    BY <1>1, <2>1 DEF Translate
  <2> QED
    BY <1>1, <1>4, <1>5, <1>6, <2>1, <2>2, <2>3 DEF IsUpper, IsLower, IsAlpha
<1>7. CASE ch \in Smalls
  <2>1. Translate(LowerOf, ch) = ch
    BY <1>1, <1>7 DEF Translate
  <2>2. Translate(UpperOf, ch) = UpperOf[ch] /\ UpperOf[ch] \in Capitals
    BY <1>2, <1>3, <1>7 DEF Translate
  <2>3. Translate(LowerOf, UpperOf[ch]) = ch
    BY <1>1, <1>3, <1>7, <2>2 DEF Translate
  <2> QED
    BY <1>1, <1>4, <1>5, <1>7, <2>1, <2>2, <2>3 DEF IsUpper, IsLower, IsAlpha
<1>8. CASE ch \notin Capitals /\ ch \notin Smalls
  <2>1. Translate(LowerOf, ch) = ch /\ Translate(UpperOf, ch) = ch
    BY <1>1, <1>2, <1>8 DEF Translate
  <2> QED
    BY <1>4, <1>5, <1>8, <2>1 DEF IsAlpha
<1> QED
  BY <1>6, <1>7, <1>8

\* A text with every character translated on its own.
LEMMA ListMapped ==
  ASSUME NEW s, IsList(s), NEW t, t = [i \in DOMAIN s |-> t[i]]
  PROVE  IsList(t) /\ Len(t) = Len(s) /\ DOMAIN t = DOMAIN s
BY ListFacts, ListMade

LEMMA LowerFacts ==
  ASSUME NEW s, IsList(s)
  PROVE  /\ IsList(Lower(s)) /\ Len(Lower(s)) = Len(s) /\ DOMAIN Lower(s) = DOMAIN s
         /\ \A i \in DOMAIN s : Lower(s)[i] = Translate(LowerOf, s[i])
<1>1. Lower(s) = [i \in DOMAIN s |-> Lower(s)[i]]
  BY DEF Lower
<1>2. \A i \in DOMAIN s : Lower(s)[i] = Translate(LowerOf, s[i])
  BY DEF Lower
<1> QED
  BY <1>1, <1>2, ListMapped

\* One text is the other one in another case.
SameButCase(s, t) ==
  /\ IsList(t) /\ DOMAIN s = DOMAIN t
  /\ \A i \in DOMAIN s : Translate(LowerOf, s[i]) = Translate(LowerOf, t[i])

Patterns == {"LOWER", "UPPER", "TITLE", "MIXED", "UNKNOWN"}

LEMMA RestoreFacts ==
  ASSUME NEW text, IsList(text), NEW pattern \in Patterns, NEW original
  PROVE  SameButCase(text, restore_case(text, pattern, original))
<1> DEFINE out == restore_case(text, pattern, original)
<1>1. CASE pattern = "LOWER"
  <2>1. out = [i \in DOMAIN text |-> Translate(LowerOf, text[i])]
    BY <1>1 DEF restore_case, Lower
  <2> HIDE DEF out
  <2>2. IsList(out) /\ DOMAIN out = DOMAIN text
    BY <2>1, ListMapped
  <2> QED
    BY <2>1, <2>2, TranslateFacts DEF SameButCase, out
<1>2. CASE pattern = "UPPER"
  <2>1. out = [i \in DOMAIN text |-> Translate(UpperOf, text[i])]
    BY <1>2 DEF restore_case, Upper
  <2> HIDE DEF out
  <2>2. IsList(out) /\ DOMAIN out = DOMAIN text
    BY <2>1, ListMapped
  <2> QED
    BY <2>1, <2>2, TranslateFacts DEF SameButCase, out
<1>3. CASE pattern = "TITLE"
  <2>1. out = [i \in DOMAIN text |-> Translate(IF i = 1 THEN UpperOf ELSE LowerOf, text[i])]
    BY <1>3 DEF restore_case, _to_title_case
  <2> HIDE DEF out
  <2>2. IsList(out) /\ DOMAIN out = DOMAIN text
    BY <2>1, ListMapped
  <2>3. \A i \in DOMAIN text : out[i] \in {Translate(UpperOf, text[i]), Translate(LowerOf, text[i])}
    BY <2>1
  <2> QED
    BY <2>2, <2>3, TranslateFacts DEF SameButCase, out
<1>4. CASE pattern = "MIXED"
  <2> DEFINE Table(i) == IF i <= Len(original) /\ IsUpper(original[i]) THEN UpperOf ELSE LowerOf
  <2>1. out = [i \in DOMAIN text |-> Translate(Table(i), text[i])]
    BY <1>4 DEF restore_case, _apply_mixed_case
  <2>2. \A i : Table(i) \in {UpperOf, LowerOf}
    OBVIOUS
  <2> HIDE DEF out, Table
  <2>3. IsList(out) /\ DOMAIN out = DOMAIN text
    BY <2>1, ListMapped
  <2>4. \A i \in DOMAIN text : out[i] \in {Translate(UpperOf, text[i]), Translate(LowerOf, text[i])}
    BY <2>1, <2>2
  <2> QED
    BY <2>3, <2>4, TranslateFacts DEF SameButCase, out
<1>5. CASE pattern = "UNKNOWN"
  <2>1. out = text
    BY <1>5 DEF restore_case
  <2> QED
    BY <2>1 DEF SameButCase
<1> QED
  BY <1>1, <1>2, <1>3, <1>4, <1>5 DEF Patterns

LEMMA SameLower ==
  ASSUME NEW s, NEW t, IsList(s), SameButCase(s, t)
  PROVE  IsList(t) /\ Len(t) = Len(s) /\ Lower(t) = Lower(s)
<1>1. IsList(t) /\ DOMAIN s = DOMAIN t
  BY DEF SameButCase
<1>2. Len(t) = Len(s)
  BY <1>1, ListFacts
<1>3. Lower(t) = Lower(s)
  BY DEF Lower, SameButCase
<1> QED
  BY <1>1, <1>2, <1>3

\* What stands in a text is a part of it, in any case.
LEMMA PartStands ==
  ASSUME NEW s, IsList(s), NEW part, IsList(part), NEW a, StandsAt(s, a, part)
  PROVE  /\ SubSeq(s, a + 1, a + Len(part)) = part
         /\ HasPart(s, part)
<1>1. /\ Len(s) \in Nat /\ Len(part) \in Nat /\ DOMAIN part = 1 .. Len(part)
      /\ part = [i \in 1 .. Len(part) |-> part[i]]
  BY ListFacts
<1>2. a \in Nat /\ a + Len(part) <= Len(s) /\ \A i \in 1 .. Len(part) : s[a + i] = part[i]
  BY DEF StandsAt
<1> DEFINE n == Len(part)
           b == a + n
           t == SubSeq(s, a + 1, b)
<1>3. b \in Nat /\ a <= b /\ b <= Len(s) /\ b - a = n
  BY <1>1, <1>2
<1>4. IsList(t) /\ Len(t) = n /\ \A i \in 1 .. n : t[i] = s[a + i]
  <2> HIDE DEF b, n
  <2>1. IsList(t) /\ Len(t) = b - a /\ \A i \in 1 .. b - a : t[i] = s[a + i]
    BY <1>2, <1>3, ListSlice
  <2> QED
    BY <1>3, <2>1
<1>5. t = [i \in 1 .. n |-> t[i]]
  <2> HIDE DEF t, n
  <2> QED
    BY <1>4, ListFacts
<1>6. t = part
  <2> HIDE DEF t
  <2> QED
    BY <1>1, <1>2, <1>4, <1>5
<1>7. a \in 0 .. Len(s) - Len(part)
  BY <1>1, <1>2
<1> QED
  BY <1>6, <1>7 DEF HasPart

LEMMA LowerStands ==
  ASSUME NEW s, IsList(s), NEW part, IsList(part), NEW a, StandsAt(s, a, part)
  PROVE  StandsAt(Lower(s), a, Lower(part))
<1>1. /\ Len(s) \in Nat /\ DOMAIN s = 1 .. Len(s) /\ Len(part) \in Nat /\ DOMAIN part = 1 .. Len(part)
  BY ListFacts
<1>2. /\ Len(Lower(s)) = Len(s) /\ Len(Lower(part)) = Len(part)
      /\ \A i \in 1 .. Len(s) : Lower(s)[i] = Translate(LowerOf, s[i])
      /\ \A i \in 1 .. Len(part) : Lower(part)[i] = Translate(LowerOf, part[i])
  BY <1>1, LowerFacts
<1>3. a \in Nat /\ a + Len(part) <= Len(s) /\ \A i \in 1 .. Len(part) : s[a + i] = part[i]
  BY DEF StandsAt
<1>4. \A i \in 1 .. Len(part) : a + i \in 1 .. Len(s)
  BY <1>1, <1>3
<1> QED
  BY <1>2, <1>3, <1>4 DEF StandsAt

-----------------------------------------------------------------------------
\* A stretch that no change touches lies in one of the gaps.
LEMMA GapAround ==
  ASSUME NEW text, IsList(text), NEW log, InLine(log, Len(text)),
         NEW from \in Nat, NEW to \in Nat, from < to, to <= Len(text),
         \A k \in DOMAIN log : ~(log[k].start < to /\ from < log[k].end)
  PROVE  \E k \in 0 .. Len(log) :
           GapFrom(log, k) <= from /\ to <= GapTo(log, k, Len(text))
<1> DEFINE m == Len(log)
           n == Len(text)
           G == {k \in 0 .. m : GapFrom(log, k) <= from}
<1>1. m \in Nat /\ n \in Nat /\ DOMAIN log = 1 .. m
  BY ListFacts DEF InLine
<1>2. SUFFICES ASSUME \A k \in 0 .. m : GapFrom(log, k) <= from => ~(to <= GapTo(log, k, n))
               PROVE  FALSE
  OBVIOUS
<1> HIDE DEF m, n
<1>3. 0 \in G
  BY <1>1 DEF GapFrom
<1>4. \A k \in 1 .. m : k - 1 \in G => k \in G
  <2>1. SUFFICES ASSUME NEW k \in 1 .. m, k - 1 \in G PROVE k \in G
    OBVIOUS
  <2>2. k - 1 \in 0 .. m /\ k - 1 # m /\ (k - 1) + 1 = k /\ k # 0 /\ k \in 0 .. m
    BY <1>1
  <2>3. GapTo(log, k - 1, n) = log[k].start
    BY <2>2 DEF GapTo, m
  <2>4. ~(to <= log[k].start)
    BY <1>2, <2>1, <2>2, <2>3
  <2>5. log[k].start \in Nat /\ log[k].end \in Nat
    BY <1>1 DEF InLine, Fits
  <2>6. ~(from < log[k].end)
    BY <1>1, <2>4, <2>5
  <2>7. GapFrom(log, k) = log[k].end
    BY <2>2 DEF GapFrom
  <2> QED
    BY <2>2, <2>5, <2>6, <2>7
<1>5. m \in G
  <2> HIDE DEF G
  <2>1. 0 .. m \subseteq G
    BY <1>1, <1>3, <1>4, UpTo
  <2> QED
    BY <1>1, <2>1
<1>6. GapTo(log, m, n) = n
  BY DEF GapTo, m
<1> QED
  BY <1>1, <1>2, <1>5, <1>6 DEF n

\* Such a stretch stands in the text with the changes.
LEMMA StretchStands ==
  ASSUME NEW text, IsList(text), NEW log, InLine(log, Len(text)),
         NEW out, Applied(text, log, out),
         NEW from \in Nat, NEW to \in Nat, from < to, to <= Len(text),
         \A k \in DOMAIN log : ~(log[k].start < to /\ from < log[k].end)
  PROVE  \E a \in Nat : StandsAt(out, a, SubSeq(text, from + 1, to))
<1> DEFINE shift == ShiftOf(log)
           part == SubSeq(text, from + 1, to)
<1>1. PICK k \in 0 .. Len(log) : GapFrom(log, k) <= from /\ to <= GapTo(log, k, Len(text))
  BY GapAround
<1> DEFINE g == GapFrom(log, k)
           e == GapTo(log, k, Len(text))
           gap == Gap(text, log, k)
<1>2. /\ g \in Nat /\ e \in Nat /\ Len(gap) = e - g
      /\ \A i \in 1 .. Len(gap) : gap[i] = text[g + i]
  BY GapFacts
<1>3. /\ IsList(part) /\ Len(part) = to - from
      /\ \A i \in 1 .. to - from : part[i] = text[from + i]
  <2>1. from <= to
    OBVIOUS
  <2> QED
    BY <2>1, ListSlice
<1>4. StandsAt(out, g + shift[k], gap)
  BY DEF Applied
<1>5. shift[k] \in Int
  BY ShiftFacts
<1>6. IsList(out) /\ Len(out) \in Nat
  BY ListFacts DEF Applied
<1>7. g <= from /\ to <= e
  BY <1>1
<1> HIDE DEF g, e, gap, part, shift
<1> DEFINE a == from + shift[k]
           b == g + shift[k]
<1>8. b \in Nat /\ b + Len(gap) <= Len(out) /\ \A i \in 1 .. Len(gap) : out[b + i] = gap[i]
  BY <1>4 DEF StandsAt
<1>9. a \in Nat /\ a = b + (from - g) /\ a + Len(part) <= Len(out)
  <2>1. g \in Nat /\ e \in Nat /\ Len(gap) = e - g /\ Len(part) = to - from
    BY <1>2, <1>3
  <2>2. b \in Nat /\ b + Len(gap) <= Len(out)
    BY <1>8
  <2>3. a = b + (from - g)
    BY <1>5, <2>1
  <2> HIDE DEF a, b
  <2> QED
    BY <1>6, <1>7, <2>1, <2>2, <2>3
<1>10. ASSUME NEW i \in 1 .. Len(part) PROVE out[a + i] = part[i]
  <2> DEFINE j == (from - g) + i
  <2>1. j \in 1 .. Len(gap) /\ g + j = from + i /\ b + j = a + i /\ i \in 1 .. to - from
    <3>1. /\ g \in Nat /\ e \in Nat /\ Len(gap) = e - g
          /\ Len(part) = to - from /\ i \in 1 .. Len(part)
      BY <1>2, <1>3, <1>10
    <3>2. i \in Nat /\ 1 <= i /\ i <= to - from
      BY <3>1
    <3>3. b + j = a + i
      BY <1>5, <3>1, <3>2
    <3> HIDE DEF a, b
    <3> QED
      BY <1>7, <3>1, <3>2, <3>3
  <2> HIDE DEF j, a, b
  <2>2. out[b + j] = gap[j] /\ gap[j] = text[g + j]
    BY <1>2, <1>8, <2>1
  <2> QED
    BY <1>3, <2>1, <2>2
<1> HIDE DEF a
<1>11. StandsAt(out, a, part)
  BY <1>9, <1>10 DEF StandsAt
<1> QED
  BY <1>9, <1>11 DEF part

-----------------------------------------------------------------------------
(***************************************************************************)
(* The changes that the stages hand over.                                  *)
(***************************************************************************)
\* Changes that do not touch one another can be put in line.
LEMMA InTextOrderFacts ==
  ASSUME NEW C, IsFiniteSet(C), NEW n, \A c \in C : Fits(c, n),
         \A c, d \in C : c # d => ~Overlaps(c, d)
  PROVE  InLine(InTextOrder(C), n) /\ Range(InTextOrder(C)) = C
<1> DEFINE R == {q \in C \X C : q[1].start < q[2].start}
           log == InTextOrder(C)
           m == Cardinality(C)
<1>1. \A c, d \in C : <<c, d>> \in R <=> c.start < d.start
  OBVIOUS
<1>2. \A c \in C : c.start \in Nat /\ c.end \in Nat /\ c.start < c.end
  BY DEF Fits
<1>3. \A c, d \in C : c # d => c.end <= d.start \/ d.end <= c.start
  BY <1>2 DEF Overlaps
<1> HIDE DEF R
<1>4. Orders(R, C)
  <2>1. \A c \in C : <<c, c>> \notin R
    BY <1>1, <1>2
  <2>2. \A c, d \in C : c # d => <<c, d>> \in R \/ <<d, c>> \in R
    <3>1. SUFFICES ASSUME NEW c \in C, NEW d \in C, c # d
                   PROVE  c.start < d.start \/ d.start < c.start
      BY <1>1
    <3> QED
      BY <1>2, <1>3, <3>1
  <2>3. \A c, d, e \in C : <<c, d>> \in R /\ <<d, e>> \in R => <<c, e>> \in R
    <3>1. SUFFICES ASSUME NEW c \in C, NEW d \in C, NEW e \in C, c.start < d.start, d.start < e.start
                   PROVE  c.start < e.start
      BY <1>1
    <3> QED
      BY <1>2, <3>1
  <2> QED
    BY <2>1, <2>2, <2>3 DEF Orders
<1>5. log = InOrder(C, R)
  BY DEF InTextOrder, R
<1>6. /\ m \in Nat /\ log \in [1 .. m -> C]
      /\ \A k, l \in 1 .. m : k < l => <<log[k], log[l]>> \in R
      /\ \A c \in C : \E k \in 1 .. m : log[k] = c
  BY <1>4, <1>5, InOrderFacts
<1> HIDE DEF log, m
<1>7. IsList(log) /\ Len(log) = m /\ DOMAIN log = 1 .. m
  <2>1. log = [k \in 1 .. m |-> log[k]]
    BY <1>6
  <2> QED
    BY <1>6, <2>1, ListMade
<1>8. \A k \in 1 .. m : log[k] \in C
  BY <1>6
<1>9. ASSUME NEW k \in 1 .. m, NEW l \in 1 .. m, k < l PROVE log[k].end <= log[l].start
  <2>1. log[k] \in C /\ log[l] \in C /\ log[k].start < log[l].start
    BY <1>1, <1>6, <1>8, <1>9
  <2>2. log[k] # log[l]
    BY <1>2, <2>1
  <2> QED
    BY <1>2, <1>3, <2>1, <2>2
<1>10. InLine(log, n)
  BY <1>7, <1>8, <1>9 DEF InLine
<1>11. Range(log) = C
  BY <1>6, <1>7, <1>8 DEF Range
<1> QED
  BY <1>10, <1>11 DEF log

LEMMA WordSpanFacts ==
  ASSUME NEW text, IsList(text)
  PROVE  /\ IsFiniteSet(WordSpans(text))
         /\ \A s \in WordSpans(text) :
              /\ s.start \in Nat /\ s.end \in Nat /\ s.start < s.end /\ s.end <= Len(text)
              /\ s = [start |-> s.start, end |-> s.end]
         /\ \A a, b \in WordSpans(text) : Overlaps(a, b) => a = b
<1> DEFINE n == Len(text)
           A == 0 .. n
           P == A \X A
           f == [q \in P |-> [start |-> q[1], end |-> q[2]]]
<1>1. n \in Nat
  BY ListFacts
<1>2. IsFiniteSet(WordSpans(text))
  <2>1. IsFiniteSet(A)
    <3> HIDE DEF n
    <3> QED
      BY <1>1, FS_Interval
  <2>2. IsFiniteSet(P)
    <3> HIDE DEF A
    <3> QED
      BY <2>1, FS_Product
  <2>3. WordSpans(text) \subseteq {f[q] : q \in P}
    <3>1. SUFFICES ASSUME NEW s \in WordSpans(text) PROVE s \in {f[q] : q \in P}
      OBVIOUS
    <3>2. s \in [start : A, end : A]
      BY <3>1 DEF WordSpans, Span
    <3>3. <<s.start, s.end>> \in P /\ f[<<s.start, s.end>>] = s
      <4> HIDE DEF A
      <4> QED
        BY <3>2
    <3> HIDE DEF f, P
    <3> QED
      BY <3>3
  <2> HIDE DEF f, P
  <2>4. IsFiniteSet({f[q] : q \in P})
    BY <2>2, ImageFinite
  <2> QED
    BY <2>3, <2>4, FS_Subset
<1>3. ASSUME NEW s \in WordSpans(text)
      PROVE  /\ s.start \in Nat /\ s.end \in Nat /\ s.start < s.end /\ s.end <= n
             /\ s = [start |-> s.start, end |-> s.end]
  <2>1. s \in [start : A, end : A] /\ s.start < s.end
    BY <1>3 DEF WordSpans, Span
  <2> HIDE DEF n
  <2> QED
    BY <1>1, <2>1
<1>4. ASSUME NEW a \in WordSpans(text), NEW b \in WordSpans(text), Overlaps(a, b)
      PROVE  a.start >= b.start /\ a.end >= b.end
  <2>1. /\ a.start \in Nat /\ a.end \in Nat /\ a.start < a.end /\ a.end <= n
        /\ b.start \in Nat /\ b.end \in Nat /\ b.start < b.end /\ b.end <= n
    BY <1>3
  <2>2. a.start < b.end /\ b.start < a.end
    BY <1>4 DEF Overlaps
  <2>3. /\ \A i \in a.start + 1 .. a.end : IsAlpha(text[i])
        /\ \A i \in b.start + 1 .. b.end : IsAlpha(text[i])
        /\ b.start > 0 => ~IsAlpha(text[b.start])
        /\ a.end < n => ~IsAlpha(text[a.end + 1])
    BY DEF WordSpans
  <2> HIDE DEF n
  <2>4. ASSUME a.start < b.start PROVE FALSE
    <3>1. b.start \in a.start + 1 .. a.end /\ b.start > 0
      BY <2>1, <2>2, <2>4
    <3> QED
      BY <2>3, <3>1
  <2>5. ASSUME a.end < b.end PROVE FALSE
    <3>1. a.end + 1 \in b.start + 1 .. b.end /\ a.end < n
      BY <1>1, <2>1, <2>2, <2>5
    <3> QED
      BY <2>3, <3>1
  <2> QED
    BY <2>1, <2>4, <2>5
<1>5. ASSUME NEW a \in WordSpans(text), NEW b \in WordSpans(text), Overlaps(a, b)
      PROVE  a = b
  <2>1. Overlaps(b, a)
    BY <1>5 DEF Overlaps
  <2>2. a.start >= b.start /\ a.end >= b.end
    BY <1>4, <1>5
  <2>3. b.start >= a.start /\ b.end >= a.end
    BY <1>4, <2>1
  <2>4. a.start = b.start /\ a.end = b.end
    BY <1>3, <2>2, <2>3
  <2>5. a = [start |-> a.start, end |-> a.end] /\ b = [start |-> b.start, end |-> b.end]
    BY <1>3
  <2> QED
    BY <2>4, <2>5
<1> QED
  BY <1>2, <1>3, <1>5

\* A change of the text in work.
IsChange(c) ==
  /\ Fits(c, Len(working))
  /\ c.original = Slice(working, c)
  /\ \E s \in WordSpans(working) : c.start = s.start

\* A change of a word that is free of protection.
IsWordChange(c) ==
  /\ IsChange(c)
  /\ \E s \in WordSpans(working) : Free(s) /\ c.start = s.start /\ c.end = s.end

ChangesFit ==
  /\ IsFiniteSet(Range(changes))
  /\ \A c \in Range(changes) : IsWordChange(c)
  /\ \A c, d \in Range(changes) : c # d => ~Overlaps(c, d)

PhrasesFit ==
  \/ Range(phrases) = {}
  \/ \E c : IsChange(c) /\ Range(phrases) = {c}

LEMMA AcceptedFacts ==
  ASSUME ChangesFit, PhrasesFit
  PROVE  /\ InLine(Accepted, Len(working))
         /\ \A c \in Range(Accepted) :
              IsChange(c) /\ (c \in Range(phrases) \/ IsWordChange(c))
<1> DEFINE K == {c \in Range(changes) : \A p \in Range(phrases) : ~Overlaps(c, p)}
           P == Range(phrases)
           C == K \cup P
<1>1. IsFiniteSet(K)
  <2>1. IsFiniteSet(Range(changes)) /\ K \subseteq Range(changes)
    BY DEF ChangesFit
  <2> QED
    BY <2>1, FS_Subset
<1>2. IsFiniteSet(P)
  <2>1. CASE P = {}
    BY <2>1, FS_EmptySet
  <2>2. CASE \E c : P = {c}
    BY <2>2, FS_Singleton
  <2> QED
    BY <2>1, <2>2 DEF PhrasesFit
<1>3. IsFiniteSet(C)
  BY <1>1, <1>2, FS_Union
<1>4. \A c \in C : IsChange(c) /\ (c \in P \/ IsWordChange(c))
  BY DEF ChangesFit, PhrasesFit, IsWordChange
<1>5. \A c, d \in C : c # d => ~Overlaps(c, d)
  <2>1. SUFFICES ASSUME NEW c \in C, NEW d \in C, c # d PROVE ~Overlaps(c, d)
    OBVIOUS
  <2>2. CASE c \in K /\ d \in K
    BY <2>1, <2>2 DEF ChangesFit
  <2>3. CASE c \in K /\ d \in P
    BY <2>3
  <2>4. CASE c \in P /\ d \in K
    BY <2>4 DEF Overlaps
  <2>5. CASE c \in P /\ d \in P
    BY <2>1, <2>5 DEF PhrasesFit
  <2> QED
    BY <2>2, <2>3, <2>4, <2>5
<1>6. \A c \in C : Fits(c, Len(working))
  BY <1>4 DEF IsChange
<1>7. Accepted = InTextOrder(C)
  BY DEF Accepted
<1> HIDE DEF C
<1>8. InLine(InTextOrder(C), Len(working)) /\ Range(InTextOrder(C)) = C
  BY <1>3, <1>5, <1>6, InTextOrderFacts
<1> QED
  BY <1>4, <1>7, <1>8

-----------------------------------------------------------------------------
(***************************************************************************)
(* Stage 1: where nothing was counted nothing was changed.                 *)
(***************************************************************************)
LEMMA CountFacts ==
  ASSUME NEW text, IsList(text), NEW S, S \subseteq DOMAIN text
  PROVE  Cardinality(S) \in Nat /\ (Cardinality(S) = 0 => S = {})
<1> DEFINE n == Len(text)
           one == 1
<1>1. n \in Int /\ one \in Int /\ DOMAIN text = one .. n
  BY ListFacts
<1> HIDE DEF n, one
<1>2. IsFiniteSet(DOMAIN text)
  BY <1>1, FS_Interval
<1>3. IsFiniteSet(S)
  BY <1>2, FS_Subset
<1> QED
  BY <1>3, FS_CardinalityType, FS_EmptySet

\* A filter that keeps every place keeps the list.
LEMMA PickAll ==
  ASSUME NEW s, IsList(s)
  PROVE  Pick(s, DOMAIN s) = s
<1> DEFINE n == Len(s)
           I == 1 .. n
<1>1. n \in Nat /\ DOMAIN s = I /\ s = [i \in I |-> s[i]]
  BY ListFacts
<1> HIDE DEF n
<1>2. Cardinality(I) = n
  <2> HIDE DEF I
  <2> DEFINE one == 1
  <2>1. one \in Int /\ n \in Int /\ I = one .. n
    BY <1>1 DEF I
  <2>2. Cardinality(1 .. n) = n
    BY <1>1, FS_Interval
  <2> QED
    BY <2>2 DEF I
<1>3. PICK order : /\ Places(order, I)
                   /\ Pick(s, I) = [k \in 1 .. Cardinality(I) |-> s[order[k]]]
  <2>1. n \in Nat /\ I \in SUBSET (1 .. n)
    BY <1>1
  <2> HIDE DEF I
  <2> QED
    BY <2>1, PickFacts
<1>4. /\ order \in [1 .. n -> 1 .. n]
      /\ \A k, l \in 1 .. n : k < l => order[k] < order[l]
      /\ \A i \in 1 .. n : \E k \in 1 .. n : order[k] = i
  BY <1>2, <1>3 DEF Places
\* No place can be left of where it was, nor right of it.
<1>5. \A k \in 0 .. n : k = 0 \/ order[k] = k
  <2> DEFINE G == {k \in 0 .. n : \A j \in 1 .. k : order[j] = j}
  <2>1. 0 \in G
    BY <1>1
  <2>2. \A k \in 1 .. n : k - 1 \in G => k \in G
    <3>1. SUFFICES ASSUME NEW k \in 1 .. n, k - 1 \in G PROVE k \in G
      OBVIOUS
    <3>2. PICK l \in 1 .. n : order[l] = k
      BY <1>4
    <3>3. l >= k
      <4>1. SUFFICES ASSUME l < k PROVE FALSE
        BY <1>1
      <4>2. l \in 1 .. k - 1
        BY <1>1, <4>1
      <4>3. order[l] = l
        BY <3>1, <4>2
      <4> QED
        BY <3>2, <4>1, <4>3
    <3>4. order[k] >= k
      <4>1. SUFFICES ASSUME order[k] < k PROVE FALSE
        BY <1>1, <1>4
      <4>2. order[k] \in 1 .. k - 1
        BY <1>1, <1>4, <4>1
      <4>3. order[order[k]] = order[k]
        BY <3>1, <4>2
      <4>4. order[k] \in 1 .. n
        BY <1>4
      <4>5. order[order[k]] < order[k]
        BY <1>4, <4>1, <4>4
      <4> QED
        BY <4>3, <4>4, <4>5
    <3>5. l = k
      <4>1. SUFFICES ASSUME k < l PROVE FALSE
        BY <1>1, <3>3
      <4>2. order[k] < order[l] /\ order[k] \in 1 .. n
        BY <1>4, <4>1
      <4> QED
        BY <3>2, <3>4, <4>2
    <3>6. \A j \in 1 .. k : j = k \/ j \in 1 .. k - 1
      BY <1>1
    <3>7. \A j \in 1 .. k : order[j] = j
      BY <3>1, <3>2, <3>5, <3>6
    <3> QED
      BY <1>1, <3>7
  <2>3. 0 .. n \subseteq G
    <3> HIDE DEF G
    <3> QED
      BY <1>1, <2>1, <2>2, UpTo
  <2>4. \A k \in 0 .. n : k # 0 => k \in 1 .. k
    BY <1>1
  <2> QED
    BY <2>3, <2>4
<1>6. \A k \in 1 .. n : order[k] = k
  <2>1. \A k \in 1 .. n : k \in 0 .. n /\ k # 0
    BY <1>1
  <2> QED
    BY <1>5, <2>1
<1>7. Pick(s, I) = [k \in 1 .. n |-> s[k]]
  <2>1. Pick(s, I) = [k \in 1 .. n |-> s[order[k]]]
    BY <1>2, <1>3
  <2> QED
    BY <1>6, <2>1
<1> QED
  BY <1>1, <1>7

\* NFC hands back a text.
Compose(done, ch) ==
  IF done # <<>> /\ <<Last(done), ch>> \in DOMAIN Composites
  THEN Append(Front(done), Composites[<<Last(done), ch>>])
  ELSE Append(done, ch)

LEMMA NFCIsList ==
  ASSUME NEW text, IsList(text)
  PROVE  IsList(NFC(text))
<1> DEFINE n == Len(text)
           T == Range(text) \cup Range(Composites)
           V == Seq(T)
           first == <<>>
           e(k, v) == Compose(v, text[k])
           Row(c) == c = [k \in 0 .. n |-> IF k = 0 THEN first ELSE e(k, c[k - 1])]
           step == [k \in 1 .. n |-> [v \in V |-> e(k, v)]]
           chosen == CHOOSE c : Row(c)
<1>1. n \in Nat /\ DOMAIN text = 1 .. n
  BY ListFacts
<1>2. NFC(text) = chosen[n]
  BY DEF NFC, Compose
<1>3. \A k \in 1 .. n : text[k] \in T
  BY <1>1 DEF Range
<1>4. \A p \in DOMAIN Composites : Composites[p] \in T
  BY DEF Range
<1> HIDE DEF T
<1>5. \A k \in 1 .. n, v \in V : e(k, v) \in V
  <2>1. SUFFICES ASSUME NEW k \in 1 .. n, NEW v \in V PROVE e(k, v) \in V
    OBVIOUS
  <2>2. CASE v # <<>> /\ <<Last(v), text[k]>> \in DOMAIN Composites
    <3> DEFINE c == Composites[<<Last(v), text[k]>>]
               u == SubSeq(v, 1, Len(v) - 1)
    <3>1. c \in T
      BY <1>4, <2>2
    <3>2. u \in V
      BY <2>2
    <3> HIDE DEF c
    <3>3. Append(u, c) \in V
      BY <3>1, <3>2
    <3> QED
      BY <2>2, <3>3 DEF Compose, Front, c
  <2>3. CASE ~(v # <<>> /\ <<Last(v), text[k]>> \in DOMAIN Composites)
    <3>1. Append(v, text[k]) \in V
      BY <1>3
    <3> QED
      BY <2>3, <3>1 DEF Compose
  <2> QED
    BY <2>2, <2>3
<1>6. first \in V
  OBVIOUS
<1> HIDE DEF e, chosen, n, V, first
<1>7. step \in [1 .. n -> [V -> V]]
  BY <1>5
<1>8. \A k \in 1 .. n, v \in V : step[k][v] = e(k, v)
  OBVIOUS
<1> HIDE DEF step
<1>9. PICK f \in [0 .. n -> V] : f[0] = first /\ \A k \in 1 .. n : f[k] = step[k][f[k - 1]]
  <2>1. n \in Nat
    BY <1>1
  <2> HIDE DEF Row
  <2> QED
    BY <2>1, <1>6, <1>7, RecursionExists
<1>10. \A k \in 1 .. n : f[k] = e(k, f[k - 1])
  <2>1. SUFFICES ASSUME NEW k \in 1 .. n PROVE f[k] = e(k, f[k - 1])
    OBVIOUS
  <2>2. k - 1 \in 0 .. n
    BY <1>1
  <2> QED
    BY <1>8, <1>9, <2>2
<1>11. Row(f)
  <2>1. \A k \in 0 .. n : f[k] = IF k = 0 THEN first ELSE e(k, f[k - 1])
    <3>1. \A k \in 0 .. n : k = 0 \/ k \in 1 .. n
      BY <1>1
    <3> QED
      BY <1>9, <1>10, <3>1
  <2> QED
    BY <2>1
<1>12. Row(chosen)
  BY <1>11 DEF chosen
<1>13. \A k \in 0 .. n : chosen[k] = IF k = 0 THEN first ELSE e(k, chosen[k - 1])
  BY <1>12
<1> DEFINE G == {k \in 0 .. n : chosen[k] \in V}
<1>14. 0 \in G
  BY <1>1, <1>6, <1>13
<1>15. \A k \in 1 .. n : k - 1 \in G => k \in G
  <2>1. SUFFICES ASSUME NEW k \in 1 .. n, chosen[k - 1] \in V
                 PROVE  chosen[k] \in V /\ k \in 0 .. n
    OBVIOUS
  <2>2. k \in 0 .. n /\ k # 0
    BY <1>1
  <2> QED
    BY <1>5, <1>13, <2>1, <2>2
<1>16. chosen[n] \in V
  <2> HIDE DEF G
  <2>1. 0 .. n \subseteq G
    BY <1>1, <1>14, <1>15, UpTo
  <2>2. n \in 0 .. n
    BY <1>1
  <2> QED
    BY <2>1, <2>2 DEF G
<1> QED
  BY <1>2, <1>16, ListOf DEF V

\* A document whose statistics tell whether its text is still the one given.
Tells(out, text) ==
  /\ IsList(out.text)
  /\ \A k \in DOMAIN out.stats : out.stats[k] \in Nat
  /\ (\A k \in DOMAIN out.stats : out.stats[k] = 0) => out.text = text

LEMMA UnicodeTells ==
  ASSUME NEW text, IsList(text)
  PROVE  Tells(normalize_unicode(text), text)
<1> DEFINE t == NFC(text)
           D == Differences(text, t)
           out == normalize_unicode(text)
<1>1. IsList(t)
  BY NFCIsList
<1>2. /\ Len(text) \in Nat /\ DOMAIN text = 1 .. Len(text) /\ text = [i \in 1 .. Len(text) |-> text[i]]
      /\ Len(t) \in Nat /\ DOMAIN t = 1 .. Len(t) /\ t = [i \in 1 .. Len(t) |-> t[i]]
  BY <1>1, ListFacts
<1>3. out.text = t /\ out.stats = [unicode_changes |-> Cardinality(D)]
  BY DEF normalize_unicode
<1>4. DOMAIN out.stats = {"unicode_changes"} /\ out.stats["unicode_changes"] = Cardinality(D)
  BY <1>3
<1> HIDE DEF t, out
<1>5. Cardinality(D) \in Nat /\ (Cardinality(D) = 0 => D = {})
  <2> DEFINE A == D \cap DOMAIN text
             B == D \cap DOMAIN t
             n == Len(text)
             m == Len(t)
             one == 1
  <2>1. one \in Int /\ n \in Int /\ m \in Int /\ DOMAIN text = one .. n /\ DOMAIN t = one .. m
    BY <1>2
  <2> HIDE DEF one, n, m
  <2>2. IsFiniteSet(DOMAIN text) /\ IsFiniteSet(DOMAIN t)
    BY <2>1, FS_Interval
  <2>3. D \subseteq DOMAIN text \cup DOMAIN t
    BY DEF Differences
  <2> HIDE DEF D
  <2>4. IsFiniteSet(D)
    BY <2>2, <2>3, FS_Union, FS_Subset
  <2> QED
    BY <2>4, FS_CardinalityType, FS_EmptySet
<1>6. ASSUME D = {} PROVE t = text
  <2>1. \A i \in DOMAIN text \cup DOMAIN t :
          ~(i > Len(text)) /\ ~(i > Len(t)) /\ text[i] = t[i]
    BY <1>6 DEF Differences
  <2> DEFINE n == Len(text)
             m == Len(t)
  <2>2. n \in Nat /\ m \in Nat /\ DOMAIN text = 1 .. n /\ DOMAIN t = 1 .. m
    BY <1>2
  <2> HIDE DEF n, m
  <2>3. n = m
    <3>1. SUFFICES ASSUME n # m PROVE FALSE
      OBVIOUS
    <3>2. n \in DOMAIN text \/ n = 0
      BY <2>2
    <3>3. m \in DOMAIN t \/ m = 0
      BY <2>2
    <3>4. ~(n > m) /\ ~(m > n)
      BY <2>1, <2>2, <3>2, <3>3 DEF n, m
    <3> QED
      BY <2>2, <3>1, <3>4
  <2>4. \A i \in 1 .. n : text[i] = t[i]
    BY <2>1, <2>2
  <2> QED
    BY <1>2, <2>3, <2>4 DEF n, m
<1> HIDE DEF D
<1> QED
  BY <1>1, <1>3, <1>4, <1>5, <1>6 DEF Tells, out

LEMMA InvisibleTells ==
  ASSUME NEW text, IsList(text)
  PROVE  Tells(remove_invisible(text), text)
<1> DEFINE out == remove_invisible(text)
           I == {i \in DOMAIN text : text[i] \notin DOMAIN Invisible}
           S(k) == {i \in DOMAIN text : text[i] \in DOMAIN Invisible /\ Invisible[text[i]] = k}
<1>1. out.text = Pick(text, I)
  BY DEF remove_invisible
<1>2. out.stats = [k \in Range(Invisible) |-> Cardinality(S(k))]
  BY DEF remove_invisible, Counted
<1>3. \A k : Cardinality(S(k)) \in Nat /\ (Cardinality(S(k)) = 0 => S(k) = {})
  <2>1. \A k : S(k) \subseteq DOMAIN text
    OBVIOUS
  <2> HIDE DEF S
  <2> QED
    BY <2>1, CountFacts
<1>4. IsList(Pick(text, I))
  <2>1. I \in SUBSET (DOMAIN text)
    OBVIOUS
  <2> HIDE DEF I
  <2> QED
    BY <2>1, ListPick
<1>5. \A i \in DOMAIN text :
        text[i] \in DOMAIN Invisible => /\ Invisible[text[i]] \in Range(Invisible)
                                        /\ i \in S(Invisible[text[i]])
  BY DEF Range
<1> HIDE DEF out, S
<1>6. ASSUME \A k \in DOMAIN out.stats : out.stats[k] = 0
      PROVE  out.text = text
  <2>1. \A k \in Range(Invisible) : S(k) = {}
    BY <1>2, <1>3, <1>6
  <2>2. I = DOMAIN text
    BY <1>5, <2>1
  <2> QED
    BY <1>1, <2>2, PickAll
<1>7. \A k \in DOMAIN out.stats : out.stats[k] \in Nat
  BY <1>2, <1>3
<1> QED
  BY <1>1, <1>4, <1>6, <1>7 DEF Tells, out

LEMMA WhitespaceTells ==
  ASSUME NEW text, IsList(text)
  PROVE  Tells(normalize_whitespace(text), text)
<1> DEFINE out == normalize_whitespace(text)
           I == {i \in DOMAIN text : ~(text[i] = "\r" /\ i < Len(text) /\ text[i + 1] = "\n")}
           left == Pick(text, I)
           lines == LineEnds(text)
           R == {i \in DOMAIN text : text[i] = "\r"}
           S == {i \in DOMAIN text : text[i] \in NonstandardSpaces}
<1>1. IsList(left)
  <2>1. I \in SUBSET (DOMAIN text)
    OBVIOUS
  <2> HIDE DEF I
  <2> QED
    BY <2>1, ListPick
<1>2. lines = [k \in DOMAIN left |-> IF left[k] = "\r" THEN "\n" ELSE left[k]]
  BY DEF LineEnds
<1>3. out.text = [i \in DOMAIN lines |-> IF lines[i] \in NonstandardSpaces THEN " " ELSE lines[i]]
  BY DEF normalize_whitespace
<1>4. out.stats = [normalized_linebreaks |-> Cardinality(R), converted_spaces |-> Cardinality(S)]
  BY DEF normalize_whitespace, Counted
<1>5. /\ Cardinality(R) \in Nat /\ (Cardinality(R) = 0 => R = {})
      /\ Cardinality(S) \in Nat /\ (Cardinality(S) = 0 => S = {})
  <2>1. R \subseteq DOMAIN text /\ S \subseteq DOMAIN text
    OBVIOUS
  <2> HIDE DEF R, S
  <2> QED
    BY <2>1, CountFacts
<1>6. /\ DOMAIN out.stats = {"normalized_linebreaks", "converted_spaces"}
      /\ out.stats["normalized_linebreaks"] = Cardinality(R)
      /\ out.stats["converted_spaces"] = Cardinality(S)
  BY <1>4
<1> HIDE DEF out, lines
<1>7. IsList(out.text)
  <2>1. IsList(lines)
    <3> HIDE DEF left
    <3> QED
      BY <1>1, <1>2, ListMapped
  <2> QED
    BY <1>3, <2>1, ListMapped
<1>8. ASSUME \A k \in DOMAIN out.stats : out.stats[k] = 0
      PROVE  out.text = text
  <2>1. R = {} /\ S = {}
    <3> HIDE DEF R, S
    <3> QED
      BY <1>5, <1>6, <1>8
  <2>2. \A i \in DOMAIN text : text[i] # "\r" /\ text[i] \notin NonstandardSpaces
    BY <2>1
  <2>3. I = DOMAIN text
    BY <2>2
  <2>4. left = text
    BY <2>3, PickAll
  <2> HIDE DEF left
  <2>5. text = [i \in DOMAIN text |-> text[i]]
    BY ListFacts
  <2>6. lines = text
    <3>1. lines = [k \in DOMAIN text |-> text[k]]
      BY <1>2, <2>2, <2>4
    <3> QED
      BY <2>5, <3>1
  <2>7. out.text = [i \in DOMAIN text |-> text[i]]
    BY <1>3, <2>2, <2>6
  <2> QED
    BY <2>5, <2>7
<1>9. \A k \in DOMAIN out.stats : out.stats[k] \in Nat
  BY <1>5, <1>6
<1> QED
  BY <1>7, <1>8, <1>9 DEF Tells, out

\* What a step changes is told by the statistics of the document.
LEMMA MergeTells ==
  ASSUME NEW text, NEW before, Tells(before, text), NEW out, Tells(out, before.text)
  PROVE  Tells([text |-> out.text, stats |-> _merge_stats(before.stats, out.stats)], text)
<1> DEFINE target == before.stats
           source == out.stats
           x(k) == IF k \in DOMAIN target THEN target[k] ELSE 0
           y(k) == IF k \in DOMAIN source THEN source[k] ELSE 0
           merged == _merge_stats(target, source)
           D == DOMAIN target \cup DOMAIN source
<1>1. merged = [k \in D |-> x(k) + y(k)]
  BY DEF _merge_stats
<1>2. \A k : x(k) \in Nat /\ y(k) \in Nat
  BY DEF Tells
<1>3. /\ \A k \in DOMAIN target : k \in D /\ x(k) = target[k]
      /\ \A k \in DOMAIN source : k \in D /\ y(k) = source[k]
  OBVIOUS
<1> HIDE DEF merged, x, y, D
<1>4. DOMAIN merged = D /\ \A k \in D : merged[k] \in Nat
  BY <1>1, <1>2
<1>5. ASSUME \A k \in DOMAIN merged : merged[k] = 0
      PROVE  out.text = text
  <2>1. \A k \in D : x(k) = 0 /\ y(k) = 0
    <3>1. SUFFICES ASSUME NEW k \in D PROVE x(k) = 0 /\ y(k) = 0
      OBVIOUS
    <3>2. x(k) + y(k) = 0
      BY <1>1, <1>4, <1>5
    <3> QED
      BY <1>2, <3>2
  <2> QED
    BY <1>3, <2>1 DEF Tells
<1>6. IsList(out.text)
  BY DEF Tells
<1> QED
  BY <1>4, <1>5, <1>6 DEF Tells, merged

LEMMA NormalizeTells ==
  ASSUME NEW text, IsList(text)
  PROVE  Tells(normalize(text, Steps), text)
<1> DEFINE order == <<"normalize_unicode", "remove_invisible", "normalize_whitespace">>
           joined(before, out) ==
             [text |-> out.text, stats |-> _merge_stats(before.stats, out.stats)]
           d0 == [text |-> text, stats |-> <<>>]
           d1 == joined(d0, normalize_unicode(d0.text))
           d2 == joined(d1, remove_invisible(d1.text))
           d3 == joined(d2, normalize_whitespace(d2.text))
           e(k, d) == IF order[k] \notin Steps THEN d
                      ELSE joined(d, Run(order[k], d.text))
           Row(a) == a = [k \in 0 .. 3 |-> IF k = 0 THEN d0 ELSE e(k, a[k - 1])]
           f == [k \in 0 .. 3 |-> IF k = 0 THEN d0 ELSE IF k = 1 THEN d1
                                  ELSE IF k = 2 THEN d2 ELSE d3]
           chosen == CHOOSE a : Row(a)
<1>1. normalize(text, Steps) = chosen[3]
  BY DEF normalize, Document
<1>2. /\ order[1] = "normalize_unicode" /\ order[2] = "remove_invisible"
      /\ order[3] = "normalize_whitespace"
      /\ order[1] \in Steps /\ order[2] \in Steps /\ order[3] \in Steps
  BY DEF Steps
<1>3. \A t : /\ Run("normalize_unicode", t) = normalize_unicode(t)
             /\ Run("remove_invisible", t) = remove_invisible(t)
             /\ Run("normalize_whitespace", t) = normalize_whitespace(t)
  BY DEF Run
<1>4. /\ \A d : e(1, d) = joined(d, normalize_unicode(d.text))
      /\ \A d : e(2, d) = joined(d, remove_invisible(d.text))
      /\ \A d : e(3, d) = joined(d, normalize_whitespace(d.text))
  <2> HIDE DEF order, joined
  <2> QED
    BY <1>2, <1>3
<1>5. e(1, d0) = d1 /\ e(2, d1) = d2 /\ e(3, d2) = d3
  <2> HIDE DEF e, joined, d0
  <2> QED
    BY <1>4
<1>6. Tells(d0, text)
  BY DEF Tells
<1>7. Tells(d1, text)
  <2>1. Tells(normalize_unicode(d0.text), d0.text)
    BY UnicodeTells
  <2> HIDE DEF d0
  <2> QED
    BY <1>6, <2>1, MergeTells
<1> HIDE DEF d1
<1>8. Tells(d2, text)
  <2>1. Tells(remove_invisible(d1.text), d1.text)
    BY <1>7, InvisibleTells DEF Tells
  <2> QED
    BY <1>7, <2>1, MergeTells
<1> HIDE DEF d2
<1>9. Tells(d3, text)
  <2>1. Tells(normalize_whitespace(d2.text), d2.text)
    BY <1>8, WhitespaceTells DEF Tells
  <2> QED
    BY <1>8, <2>1, MergeTells
<1> HIDE DEF d3, d0, e, chosen
<1>10. Row(f)
  <2>1. f[0] = d0 /\ f[1] = d1 /\ f[2] = d2 /\ f[3] = d3
    OBVIOUS
  <2>2. f = [k \in 0 .. 3 |-> f[k]]
    OBVIOUS
  <2> HIDE DEF f
  <2>3. \A k \in 0 .. 3 : f[k] = IF k = 0 THEN d0 ELSE e(k, f[k - 1])
    <3>1. \A k \in 0 .. 3 : k = 0 \/ k = 1 \/ k = 2 \/ k = 3
      OBVIOUS
    <3>2. 1 - 1 = 0 /\ 2 - 1 = 1 /\ 3 - 1 = 2
      OBVIOUS
    <3> QED
      BY <1>5, <2>1, <3>1, <3>2
  <2> QED
    BY <2>2, <2>3
<1>11. Row(chosen)
  BY <1>10 DEF chosen
<1>12. \A k \in 0 .. 3 : chosen[k] = IF k = 0 THEN d0 ELSE e(k, chosen[k - 1])
  BY <1>11
<1>13. chosen[3] = d3
  <2>1. chosen[0] = d0
    BY <1>12
  <2>2. chosen[1] = e(1, chosen[1 - 1]) /\ 1 - 1 = 0
    BY <1>12
  <2>3. chosen[2] = e(2, chosen[2 - 1]) /\ 2 - 1 = 1
    BY <1>12
  <2>4. chosen[3] = e(3, chosen[3 - 1]) /\ 3 - 1 = 2
    BY <1>12
  <2> QED
    BY <1>5, <2>1, <2>2, <2>3, <2>4
<1> QED
  BY <1>1, <1>9, <1>13

-----------------------------------------------------------------------------
(***************************************************************************)
(* What the call in work has to go on with.                                *)
(***************************************************************************)
LEMMA AfterFacts ==
  /\ After("normalize") = "protect" /\ After("protect") = "generate"
  /\ After("generate") = "phrases" /\ After("phrases") = "decide"
  /\ After("decide") = "rebuild"
<1> DEFINE At(k, s) == Stages[k - 1] = s
<1>1. /\ Len(Stages) = 6 /\ 2 .. 6 = {2, 3, 4, 5, 6}
      /\ Stages[1] = "normalize" /\ Stages[2] = "protect" /\ Stages[3] = "generate"
      /\ Stages[4] = "phrases" /\ Stages[5] = "decide" /\ Stages[6] = "rebuild"
  BY DEF Stages
<1>2. /\ \A s : At(2, s) <=> s = "normalize"
      /\ \A s : At(3, s) <=> s = "protect"
      /\ \A s : At(4, s) <=> s = "generate"
      /\ \A s : At(5, s) <=> s = "phrases"
      /\ \A s : At(6, s) <=> s = "decide"
  <2>1. 2 - 1 = 1 /\ 3 - 1 = 2 /\ 4 - 1 = 3 /\ 5 - 1 = 4 /\ 6 - 1 = 5
    OBVIOUS
  <2> QED
    BY <1>1, <2>1
<1>3. \A s : After(s) = Stages[CHOOSE k \in {2, 3, 4, 5, 6} : At(k, s)]
  BY <1>1 DEF After
<1> HIDE DEF At
<1>4. (CHOOSE k \in {2, 3, 4, 5, 6} : At(k, "normalize")) = 2
  BY <1>2
<1>5. (CHOOSE k \in {2, 3, 4, 5, 6} : At(k, "protect")) = 3
  BY <1>2
<1>6. (CHOOSE k \in {2, 3, 4, 5, 6} : At(k, "generate")) = 4
  BY <1>2
<1>7. (CHOOSE k \in {2, 3, 4, 5, 6} : At(k, "phrases")) = 5
  BY <1>2
<1>8. (CHOOSE k \in {2, 3, 4, 5, 6} : At(k, "decide")) = 6
  BY <1>2
<1> QED
  BY <1>1, <1>3, <1>4, <1>5, <1>6, <1>7, <1>8

\* There is an example in work.
Working == stage \notin {"report", "aborted"}
Given ==
  /\ dataset \in Datasets
  /\ IsList(evaluations)
  /\ Working => Len(evaluations) < Len(dataset.examples)

\* The text and its mask are those of the example.
Prepared ==
  /\ doc = IF Config.normalize THEN normalize(Example.input, Steps)
           ELSE [text |-> Example.input, stats |-> <<>>]
  /\ mask = IF Config.mask THEN <<create_case_mask(doc.text)>> ELSE <<>>
  /\ working = IF Config.mask THEN Lower(doc.text) ELSE doc.text

SpansFit == spans \subseteq Span(Len(working))

\* What came back is the text in work with the accepted changes.
Handed ==
  /\ result.changes = Accepted
  /\ result.corrected = IF mask = <<>> THEN apply_changes(working, Accepted)
                        ELSE apply_case_mask(apply_changes(working, Accepted), mask[1])

IInv ==
  /\ Given
  /\ stage \in {"protect", "generate", "phrases", "decide", "rebuild"} \/ Ok => Prepared
  /\ stage \in {"generate", "phrases", "decide", "rebuild"} \/ Ok => SpansFit
  /\ stage \in {"decide", "rebuild"} \/ Ok => PhrasesFit
  /\ stage = "rebuild" \/ Ok => ChangesFit
  /\ Ok => Handed

LEMMA InputIsList ==
  ASSUME Given, Working
  PROVE  IsList(Example.input)
<1> DEFINE all == dataset.examples
<1>1. /\ IsList(all)
      /\ \A k \in DOMAIN all : IsList(all[k].input)
  BY CorrectorAssumption DEF Given
<1> HIDE DEF all
<1>2. Len(evaluations) \in Nat /\ Len(all) \in Nat /\ DOMAIN all = 1 .. Len(all)
  BY <1>1, ListFacts DEF Given
<1>3. Len(evaluations) + 1 \in DOMAIN all
  BY <1>2 DEF Given, all
<1> QED
  BY <1>1, <1>3 DEF Example, all

LEMMA PreparedFacts ==
  ASSUME Given, Working, Prepared
  PROVE  /\ IsList(doc.text) /\ IsList(working)
         /\ Len(working) = Len(doc.text) /\ DOMAIN working = DOMAIN doc.text
<1>1. IsList(doc.text)
  <2>1. CASE Config.normalize
    BY <2>1, InputIsList, NormalizeTells DEF Prepared, Tells
  <2>2. CASE ~Config.normalize
    BY <2>2, InputIsList DEF Prepared
  <2> QED
    BY <2>1, <2>2
<1> QED
  BY <1>1, LowerFacts DEF Prepared

\* A change that a stage proposes is one of the text in work.
LEMMA TokenChangeFits ==
  ASSUME IsList(working), NEW s \in WordSpans(working), Free(s), NEW c \in TokenChange(s)
  PROVE  IsWordChange(c)
<1>1. /\ s.start \in Nat /\ s.end \in Nat /\ s.start < s.end /\ s.end <= Len(working)
  BY WordSpanFacts
<1>2. PICK r \in Replacements :
        c = [start |-> s.start, end |-> s.end, original |-> Slice(working, s),
             replacement |-> r, phrase |-> FALSE]
  BY DEF TokenChange
<1>3. c.start = s.start /\ c.end = s.end /\ c.replacement = r /\ c.original = Slice(working, s)
  BY <1>2
<1>4. IsList(r)
  BY <1>2, CorrectorAssumption
<1>5. Slice(working, c) = Slice(working, s)
  BY <1>3 DEF Slice
<1> QED
  BY <1>1, <1>3, <1>4, <1>5 DEF IsWordChange, IsChange, Fits

LEMMA IslandChangeFits ==
  ASSUME IsList(working), NEW c \in IslandChanges(working)
  PROVE  IsChange(c)
<1>1. PICK q \in {r \in WordSpans(working) \X WordSpans(working) : Island(working, r[1], r[2])} :
        \E first \in Restored(Slice(working, q[1])), last \in Restored(Slice(working, q[2])) :
          c = IslandChange(working, q[1], q[2], first, last)
  BY DEF IslandChanges
<1> DEFINE a == q[1]
           b == q[2]
<1>2. a \in WordSpans(working) /\ b \in WordSpans(working) /\ Island(working, a, b)
  BY <1>1
<1>3. PICK first \in Restored(Slice(working, a)), last \in Restored(Slice(working, b)) :
        c = IslandChange(working, a, b, first, last)
  BY <1>1
<1> HIDE DEF a, b
<1>4. /\ a.start \in Nat /\ a.end \in Nat /\ a.start < a.end /\ a.end <= Len(working)
      /\ b.start \in Nat /\ b.end \in Nat /\ b.start < b.end /\ b.end <= Len(working)
  BY <1>2, WordSpanFacts
<1>5. a.start < b.start
  BY <1>2 DEF Island
<1>6. a.end <= b.start
  <2>1. SUFFICES ASSUME b.start < a.end PROVE FALSE
    BY <1>4
  <2>2. Overlaps(a, b)
    BY <1>4, <1>5, <2>1 DEF Overlaps
  <2>3. a = b
    BY <1>2, <2>2, WordSpanFacts
  <2> QED
    BY <1>4, <1>5, <2>3
<1>7. ASSUME NEW s \in WordSpans(working) PROVE IsList(Slice(working, s))
  <2>1. s.start \in Nat /\ s.end \in Nat /\ s.start <= s.end /\ s.end <= Len(working)
    BY <1>7, WordSpanFacts
  <2> QED
    BY <2>1, ListSlice DEF Slice
<1>8. IsList(first) /\ IsList(last)
  BY <1>2, <1>3, <1>7, CorrectorAssumption DEF Restored
<1> DEFINE mid == SubSeq(working, a.end + 1, b.start)
<1>9. IsList(mid)
  <2>1. b.start <= Len(working)
    <3>1. Len(working) \in Nat
      BY ListFacts
    <3> QED
      BY <1>4, <3>1
  <2> QED
    BY <1>4, <1>6, <2>1, ListSlice
<1> HIDE DEF mid
<1>10. IsList(first \o mid \o last)
  <2>1. IsList(first \o mid)
    BY <1>8, <1>9, ListConcat
  <2> QED
    BY <1>8, <2>1, ListConcat
<1>11. /\ c.start = a.start /\ c.end = b.end /\ c.replacement = first \o mid \o last
       /\ c.original = SubSeq(working, a.start + 1, b.end)
  BY <1>3 DEF IslandChange, CharEnd, mid
<1>12. Slice(working, c) = c.original
  BY <1>11 DEF Slice
<1>13. c.start < c.end
  BY <1>4, <1>5, <1>11
<1> QED
  BY <1>2, <1>4, <1>10, <1>11, <1>12, <1>13 DEF IsChange, Fits

LEMMA RangeOfNoneAndOne == Range(<<>>) = {} /\ \A c : Range(<<c>>) = {c}
BY DEF Range

LEMMA PhrasesStep ==
  ASSUME IsList(working), Phrases
  PROVE  PhrasesFit'
<1>1. working' = working
  BY DEF Phrases
<1>2. phrases' = <<>> \/ \E c \in IslandChanges(working) : phrases' = <<c>>
  BY DEF Phrases
<1>3. CASE phrases' = <<>>
  BY <1>3, RangeOfNoneAndOne DEF PhrasesFit
<1>4. CASE \E c \in IslandChanges(working) : phrases' = <<c>>
  <2>1. PICK c \in IslandChanges(working) : phrases' = <<c>>
    BY <1>4
  <2>2. IsChange(c)
    BY IslandChangeFits
  <2>3. IsChange(c)'
    BY <1>1, <2>2 DEF IsChange
  <2>4. Range(phrases)' = {c}
    BY <2>1, RangeOfNoneAndOne
  <2> QED
    BY <2>3, <2>4 DEF PhrasesFit
<1> QED
  BY <1>2, <1>3, <1>4

LEMMA DecideStep ==
  ASSUME IsList(working), Decide
  PROVE  ChangesFit'
<1>1. working' = working /\ spans' = spans
  BY DEF Decide
<1>2. PICK S \in SUBSET {s \in WordSpans(working) : Free(s)} :
        \E f \in [S -> UNION {TokenChange(s) : s \in S}] :
          /\ \A s \in S : f[s] \in TokenChange(s)
          /\ changes' = InTextOrder(Range(f))
  BY DEF Decide
<1>3. PICK f \in [S -> UNION {TokenChange(s) : s \in S}] :
        /\ \A s \in S : f[s] \in TokenChange(s)
        /\ changes' = InTextOrder(Range(f))
  BY <1>2
<1> DEFINE C == {f[s] : s \in S}
<1>4. Range(f) = C
  BY <1>3 DEF Range
<1>5. \A s \in S : s \in WordSpans(working) /\ Free(s)
  BY <1>2
<1>6. \A s \in S : /\ IsWordChange(f[s])
                   /\ f[s].start = s.start /\ f[s].end = s.end
  <2>1. SUFFICES ASSUME NEW s \in S
                 PROVE  IsWordChange(f[s]) /\ f[s].start = s.start /\ f[s].end = s.end
    OBVIOUS
  <2>2. f[s] \in TokenChange(s)
    BY <1>3
  <2>3. f[s].start = s.start /\ f[s].end = s.end
    BY <2>2 DEF TokenChange
  <2> QED
    BY <1>5, <2>2, <2>3, TokenChangeFits
<1>7. IsFiniteSet(C)
  <2>1. IsFiniteSet(S)
    BY <1>2, WordSpanFacts, FS_Subset
  <2> QED
    BY <2>1, ImageFinite
<1>8. ASSUME NEW c \in C, NEW d \in C, c # d PROVE ~Overlaps(c, d)
  <2>1. PICK s \in S : c = f[s]
    OBVIOUS
  <2>2. PICK t \in S : d = f[t]
    OBVIOUS
  <2>3. s # t
    BY <1>8, <2>1, <2>2
  <2>4. ~Overlaps(s, t)
    BY <1>5, <2>3, WordSpanFacts
  <2> QED
    BY <1>6, <2>1, <2>2, <2>4 DEF Overlaps
<1>9. \A c \in C : IsWordChange(c)
  BY <1>6
<1> HIDE DEF C
<1>10. \A c \in C : Fits(c, Len(working))
  BY <1>9 DEF IsWordChange, IsChange
<1>11. Range(changes)' = C
  <2>1. Range(InTextOrder(C)) = C
    BY <1>7, <1>8, <1>10, InTextOrderFacts
  <2> QED
    BY <1>3, <1>4, <2>1
<1>12. \A c \in C : IsWordChange(c)'
  BY <1>1, <1>9 DEF IsWordChange, IsChange, Free
<1> QED
  BY <1>7, <1>8, <1>11, <1>12 DEF ChangesFit

\* What the stages have found stays true while nobody writes the text.
LEMMA StillFits ==
  ASSUME working' = working
  PROVE  /\ (SpansFit /\ spans' = spans) => SpansFit'
         /\ (PhrasesFit /\ phrases' = phrases) => PhrasesFit'
         /\ (ChangesFit /\ changes' = changes /\ spans' = spans) => ChangesFit'
<1>1. \A c : IsChange(c) => IsChange(c)'
  BY DEF IsChange
<1>2. (SpansFit /\ spans' = spans) => SpansFit'
  BY DEF SpansFit
<1>3. (PhrasesFit /\ phrases' = phrases) => PhrasesFit'
  BY <1>1 DEF PhrasesFit
<1>4. ASSUME ChangesFit, changes' = changes, spans' = spans PROVE ChangesFit'
  <2>1. \A c : IsWordChange(c) => IsWordChange(c)'
    BY <1>1, <1>4 DEF IsWordChange, Free
  <2> QED
    BY <1>4, <2>1 DEF ChangesFit
<1> QED
  BY <1>2, <1>3, <1>4

LEMMA StillPrepared ==
  ASSUME UNCHANGED <<dataset, evaluations, doc, mask, working>>
  PROVE  /\ Prepared => Prepared'
         /\ Given /\ (Working' => Working) => Given'
BY DEF Prepared, Given, Config, Example

LEMMA IInvInit == Init => IInv
<1>1. SUFFICES ASSUME Init PROVE IInv
  OBVIOUS
<1>2. stage = "call" /\ ~Ok
  BY <1>1 DEF Init, Ok
<1>3. Given
  <2>1. dataset \in Datasets /\ evaluations = <<>>
    BY <1>1 DEF Init
  <2>2. IsList(dataset.examples) /\ dataset.examples # <<>>
    BY <2>1, CorrectorAssumption
  <2>3. Len(dataset.examples) > 0 /\ Len(<<>>) = 0
    BY <2>2, ListFacts
  <2> QED
    BY <2>1, <2>3, NoElements DEF Given
<1> QED
  BY <1>2, <1>3 DEF IInv

\* Nothing is asked of the call in work.
LEMMA Unasked ==
  ASSUME Given', ~Ok', stage' \notin {"protect", "generate", "phrases", "decide", "rebuild"}
  PROVE  IInv'
BY DEF IInv

LEMMA EnterKeeps == IInv /\ Enter => IInv'
<1>1. SUFFICES ASSUME IInv, Enter PROVE IInv'
  OBVIOUS
<1>2. /\ stage' \in {"answered", "normalize"} /\ doc' = Nothing
      /\ dataset' = dataset /\ evaluations' = evaluations /\ stage = "call"
  BY <1>1 DEF Enter
<1>3. Given'
  BY <1>1, <1>2 DEF IInv, Given, Working
<1>4. ~Ok'
  BY <1>2 DEF Ok, Nothing
<1> QED
  BY <1>2, <1>3, <1>4, Unasked

LEMMA AnswerKeeps ==
  ASSUME IInv, Working, NEW status, NEW corrected, NEW log, Answer(status, corrected, log),
         status # "ok"
  PROVE  IInv'
<1>1. /\ stage' = "answered" /\ dataset' = dataset /\ evaluations' = evaluations
      /\ result' = [status |-> status, corrected |-> corrected, changes |-> log, failed_at |-> stage]
  BY DEF Answer
<1>2. Given'
  BY <1>1 DEF IInv, Given
<1>3. ~Ok'
  BY <1>1 DEF Ok
<1> QED
  BY <1>1, <1>2, <1>3, Unasked

LEMMA NormalizeKeeps == IInv /\ Normalize => IInv'
<1>1. SUFFICES ASSUME IInv, Normalize PROVE IInv'
  OBVIOUS
<1>2. /\ stage = "normalize" /\ stage' = "protect"
      /\ dataset' = dataset /\ evaluations' = evaluations
  BY <1>1, AfterFacts DEF Normalize, Go
<1>3. Config' = Config /\ Example' = Example
  BY <1>2 DEF Config, Example
<1>4. /\ doc' = IF Config.normalize THEN normalize(Example.input, Steps)
                ELSE [text |-> Example.input, stats |-> <<>>]
      /\ mask' = IF Config.mask THEN <<create_case_mask(doc'.text)>> ELSE <<>>
      /\ working' = IF Config.mask THEN mask'[1].working ELSE doc'.text
  BY <1>1 DEF Normalize
<1>5. working' = IF Config.mask THEN Lower(doc'.text) ELSE doc'.text
  BY <1>4 DEF create_case_mask
<1>6. Prepared'
  BY <1>3, <1>4, <1>5 DEF Prepared
<1>7. Given'
  BY <1>1, <1>2 DEF IInv, Given, Working
<1>8. ~Ok'
  BY <1>2 DEF Ok
<1> QED
  BY <1>2, <1>6, <1>7, <1>8 DEF IInv

\* A stage goes on: the text in work is still the one of the example.
LEMMA GoKeeps ==
  ASSUME IInv, Go, stage \in {"protect", "generate", "phrases", "decide"},
         UNCHANGED <<doc, mask, working>>
  PROVE  /\ stage' # "answered" /\ stage' = After(stage)
         /\ Given /\ Prepared /\ IsList(working)
         /\ Given' /\ Prepared' /\ ~Ok'
<1>1. stage' = After(stage) /\ dataset' = dataset /\ evaluations' = evaluations
  BY DEF Go
<1>2. stage' # "answered"
  BY <1>1, AfterFacts
<1>3. Given /\ Prepared /\ Working
  BY DEF IInv, Working
<1>4. IsList(working)
  BY <1>3, PreparedFacts
<1>5. Given' /\ Prepared'
  BY <1>1, <1>3, StillPrepared
<1> QED
  BY <1>1, <1>2, <1>3, <1>4, <1>5 DEF Ok

LEMMA ProtectKeeps == IInv /\ Protect => IInv'
<1>1. SUFFICES ASSUME IInv, Protect PROVE IInv'
  OBVIOUS
<1>2. /\ stage = "protect" /\ Go /\ UNCHANGED <<doc, mask, working, changes, phrases>>
      /\ spans' \in IF Config.protect THEN {{}} \cup Fitting(working) ELSE {{}}
  BY <1>1 DEF Protect
<1>3. stage' = "generate" /\ Given' /\ Prepared' /\ ~Ok'
  BY <1>1, <1>2, GoKeeps, AfterFacts
<1>4. SpansFit'
  BY <1>2 DEF SpansFit, Fitting
<1> QED
  BY <1>3, <1>4 DEF IInv

LEMMA GenerateKeeps == IInv /\ Generate => IInv'
<1>1. SUFFICES ASSUME IInv, Generate PROVE IInv'
  OBVIOUS
<1>2. stage = "generate" /\ Go /\ UNCHANGED <<doc, mask, working, spans, changes, phrases>>
  BY <1>1 DEF Generate, inner
<1>3. stage' = "phrases" /\ Given' /\ Prepared' /\ ~Ok'
  BY <1>1, <1>2, GoKeeps, AfterFacts
<1>4. SpansFit'
  BY <1>1, <1>2, StillFits DEF IInv
<1> QED
  BY <1>3, <1>4 DEF IInv

LEMMA PhrasesKeeps == IInv /\ Phrases => IInv'
<1>1. SUFFICES ASSUME IInv, Phrases PROVE IInv'
  OBVIOUS
<1>2. stage = "phrases" /\ Go /\ UNCHANGED <<doc, mask, working, spans, changes>>
  BY <1>1 DEF Phrases
<1>3. stage' = "decide" /\ Given' /\ Prepared' /\ ~Ok' /\ IsList(working)
  BY <1>1, <1>2, GoKeeps, AfterFacts
<1>4. SpansFit'
  BY <1>1, <1>2, StillFits DEF IInv
<1>5. PhrasesFit'
  BY <1>1, <1>3, PhrasesStep
<1> QED
  BY <1>3, <1>4, <1>5 DEF IInv

LEMMA DecideKeeps == IInv /\ Decide => IInv'
<1>1. SUFFICES ASSUME IInv, Decide PROVE IInv'
  OBVIOUS
<1>2. stage = "decide" /\ Go /\ UNCHANGED <<doc, mask, working, spans, phrases>>
  BY <1>1 DEF Decide
<1>3. stage' = "rebuild" /\ Given' /\ Prepared' /\ ~Ok' /\ IsList(working)
  BY <1>1, <1>2, GoKeeps, AfterFacts
<1>4. SpansFit' /\ PhrasesFit'
  BY <1>1, <1>2, StillFits DEF IInv
<1>5. ChangesFit'
  BY <1>1, <1>3, DecideStep
<1> QED
  BY <1>3, <1>4, <1>5 DEF IInv

LEMMA RebuildKeeps == IInv /\ Rebuild => IInv'
<1>1. SUFFICES ASSUME IInv, Rebuild PROVE IInv'
  OBVIOUS
<1> DEFINE applied == apply_changes(working, Accepted)
           corrected == IF mask = <<>> THEN applied ELSE apply_case_mask(applied, mask[1])
<1>2. /\ stage = "rebuild" /\ Answer("ok", corrected, Accepted)
      /\ UNCHANGED <<doc, mask, working, spans, changes, phrases>>
  BY <1>1 DEF Rebuild, inner
<1>3. /\ stage' = "answered" /\ dataset' = dataset /\ evaluations' = evaluations
      /\ result'.corrected = corrected /\ result'.changes = Accepted
  BY <1>2 DEF Answer
<1>4. Given /\ Prepared /\ SpansFit /\ PhrasesFit /\ ChangesFit /\ Working
  BY <1>1, <1>2 DEF IInv, Working
<1>5. Given' /\ Prepared'
  BY <1>2, <1>3, <1>4, StillPrepared
<1>6. SpansFit' /\ PhrasesFit' /\ ChangesFit'
  BY <1>2, <1>4, StillFits
<1>7. Accepted' = Accepted
  BY <1>2 DEF Accepted
<1>8. Handed'
  BY <1>2, <1>3, <1>7 DEF Handed
<1> QED
  BY <1>3, <1>5, <1>6, <1>8 DEF IInv

\* Between two calls.
LEMMA BetweenKeeps == IInv /\ (Evaluate \/ Abort \/ Again) => IInv'
<1>1. SUFFICES ASSUME IInv, Evaluate \/ Abort \/ Again PROVE IInv'
  OBVIOUS
<1>2. Given
  BY <1>1 DEF IInv
<1>3. CASE Evaluate
  <2>1. /\ evaluations' = Append(evaluations, evaluate_one(Example, result))
        /\ stage' = IF Len(evaluations') < Len(dataset.examples) THEN "call" ELSE "report"
        /\ dataset' = dataset
    BY <1>3 DEF Evaluate
  <2>2. IsList(evaluations)'
    BY <1>2, <2>1, ListAppend DEF Given
  <2>3. Given'
    BY <1>2, <2>1, <2>2 DEF Given, Working
  <2>4. stage' \in {"call", "report"}
    BY <2>1
  <2> QED
    BY <2>3, <2>4, Unasked DEF Ok
<1>4. CASE Abort
  <2>1. stage' = "aborted" /\ dataset' = dataset /\ evaluations' = evaluations
    BY <1>4 DEF Abort
  <2>2. Given'
    BY <1>2, <2>1 DEF Given, Working
  <2> QED
    BY <2>1, <2>2, Unasked DEF Ok
<1>5. CASE Again
  <2>1. stage' = "call" /\ dataset' = dataset /\ evaluations' = <<>>
    BY <1>5 DEF Again
  <2>2. IsList(dataset.examples) /\ dataset.examples # <<>>
    BY <1>2, CorrectorAssumption DEF Given
  <2>3. Len(dataset.examples) > 0 /\ Len(<<>>) = 0
    BY <2>2, ListFacts
  <2>4. Given'
    BY <1>2, <2>1, <2>3, NoElements DEF Given
  <2> QED
    BY <2>1, <2>4, Unasked DEF Ok
<1> QED
  BY <1>1, <1>3, <1>4, <1>5

LEMMA IInvStep == IInv /\ [Next]_vars => IInv'
<1>1. SUFFICES ASSUME IInv, [Next]_vars PROVE IInv'
  OBVIOUS
<1>2. CASE Enter
  BY <1>1, <1>2, EnterKeeps
<1>3. CASE BuildFails
  <2>1. Working
    BY <1>3 DEF BuildFails, Working
  <2> QED
    BY <1>1, <1>3, <2>1, AnswerKeeps DEF BuildFails
<1>4. CASE StageRaises
  <2>1. Working
    <3>1. stage \in Range(Stages)
      BY <1>4 DEF StageRaises
    <3>2. Range(Stages) \subseteq {"normalize", "protect", "generate", "phrases", "decide", "rebuild"}
      BY DEF Stages, Range
    <3> QED
      BY <3>1, <3>2 DEF Working
  <2>2. Answer("fail_closed", Example.input, <<>>) \/ Answer("error", <<>>, <<>>)
    BY <1>4 DEF StageRaises
  <2> QED
    BY <1>1, <2>1, <2>2, AnswerKeeps
<1>5. CASE Normalize
  BY <1>1, <1>5, NormalizeKeeps
<1>6. CASE Protect
  BY <1>1, <1>6, ProtectKeeps
<1>7. CASE Generate
  BY <1>1, <1>7, GenerateKeeps
<1>8. CASE Phrases
  BY <1>1, <1>8, PhrasesKeeps
<1>9. CASE Decide
  BY <1>1, <1>9, DecideKeeps
<1>10. CASE Rebuild
  BY <1>1, <1>10, RebuildKeeps
<1>11. CASE Evaluate \/ Abort \/ Again
  BY <1>1, <1>11, BetweenKeeps
<1>12. CASE UNCHANGED vars
  <2>1. UNCHANGED <<dataset, evaluations, doc, mask, working>>
        /\ UNCHANGED <<stage, spans, changes, phrases, result>>
    BY <1>12 DEF vars
  <2>2. (Ok' <=> Ok) /\ Accepted' = Accepted
    BY <2>1 DEF Ok, Accepted
  <2>3. /\ Prepared => Prepared'
        /\ SpansFit => SpansFit'
        /\ PhrasesFit => PhrasesFit'
        /\ ChangesFit => ChangesFit'
    BY <2>1, StillPrepared, StillFits
  <2>4. Handed => Handed'
    BY <2>1, <2>2 DEF Handed
  <2>5. Given'
    BY <1>1, <2>1 DEF IInv, Given, Working
  <2> QED
    BY <1>1, <2>1, <2>2, <2>3, <2>4, <2>5 DEF IInv
<1> QED
  BY <1>1, <1>2, <1>3, <1>4, <1>5, <1>6, <1>7, <1>8, <1>9, <1>10, <1>11, <1>12
  DEF Next, Pipeline

LEMMA Invariance == Spec => []IInv
BY IInvInit, IInvStep, PTL DEF Spec

\* The text that came back is the one with the changes in some case.
LEMMA CameBack ==
  ASSUME IInv, Ok
  PROVE  LET out == apply_changes(working, Accepted)
         IN  /\ Given /\ Working /\ Prepared /\ IsList(working) /\ SpansFit
             /\ InLine(Accepted, Len(working)) /\ IsList(out)
             /\ Applied(working, Accepted, out)
             /\ result.changes = Accepted
             /\ \A c \in Range(Accepted) :
                  IsChange(c) /\ (c \in Range(phrases) \/ IsWordChange(c))
             /\ SameButCase(out, result.corrected)
             /\ Lower(result.corrected) = Lower(out)
<1> DEFINE out == apply_changes(working, Accepted)
<1>1. Given /\ Prepared /\ SpansFit /\ PhrasesFit /\ ChangesFit /\ Handed /\ Working
  BY DEF IInv, Ok, Working
<1>2. IsList(working)
  BY <1>1, PreparedFacts
<1>3. /\ InLine(Accepted, Len(working))
      /\ \A c \in Range(Accepted) : IsChange(c) /\ (c \in Range(phrases) \/ IsWordChange(c))
  BY <1>1, AcceptedFacts
<1>4. Applied(working, Accepted, out)
  BY <1>2, <1>3, AppliedFacts
<1>5. IsList(out)
  BY <1>4 DEF Applied
<1> HIDE DEF out
<1>6. SameButCase(out, result.corrected)
  <2>1. CASE mask = <<>>
    <3>1. result.corrected = out
      BY <1>1, <2>1 DEF Handed, out
    <3> QED
      BY <1>5, <3>1 DEF SameButCase
  <2>2. CASE mask # <<>>
    <3>1. mask = <<create_case_mask(doc.text)>>
      BY <1>1, <2>2 DEF Prepared
    <3>2. mask[1] = create_case_mask(doc.text)
      BY <3>1
    <3>3. mask[1].pattern = detect_case_pattern(doc.text) /\ mask[1].original = doc.text
      BY <3>2 DEF create_case_mask
    <3>4. detect_case_pattern(doc.text) \in Patterns
      BY DEF detect_case_pattern, Patterns
    <3>5. result.corrected = restore_case(out, mask[1].pattern, mask[1].original)
      BY <1>1, <2>2 DEF Handed, apply_case_mask, out
    <3> QED
      BY <1>5, <3>3, <3>4, <3>5, RestoreFacts
  <2> QED
    BY <2>1, <2>2
<1>7. Lower(result.corrected) = Lower(out)
  BY <1>5, <1>6, SameLower
<1> QED
  BY <1>1, <1>2, <1>3, <1>4, <1>5, <1>6, <1>7 DEF out, Handed

\* A stretch inside a span is not touched by a change, unless by a phrase, when
\* the words it overlaps are inside the span, too.
LEMMA Untouched ==
  ASSUME NEW s \in spans, NEW q, Covers(s, q), NEW c, IsWordChange(c), Overlaps(c, q),
         \A w \in WordSpans(working) : Overlaps(w, q) => Covers(s, w)
  PROVE  FALSE
<1>1. PICK w \in WordSpans(working) : Free(w) /\ c.start = w.start /\ c.end = w.end
  BY DEF IsWordChange
<1>2. Overlaps(w, q)
  BY <1>1 DEF Overlaps
<1>3. Covers(s, w)
  BY <1>1, <1>2
<1> QED
  BY <1>1, <1>3 DEF Free

LEMMA SpanSurvives == IInv => ProtectedSurvives
<1>1. SUFFICES ASSUME IInv, Ok, NEW s \in spans, NEW q \in Span(Len(working)),
                      Covers(s, q), \A p \in Range(phrases) : ~Overlaps(p, q),
                      \A w \in WordSpans(working) : Overlaps(w, q) => Covers(s, w)
               PROVE  HasPart(Lower(result.corrected), Lower(Slice(working, q)))
  BY DEF ProtectedSurvives
<1> DEFINE out == apply_changes(working, Accepted)
           log == Accepted
           part == Slice(working, q)
<1>2. /\ IsList(working) /\ InLine(log, Len(working)) /\ IsList(out)
      /\ Applied(working, log, out)
      /\ \A c \in Range(log) : IsChange(c) /\ (c \in Range(phrases) \/ IsWordChange(c))
      /\ Lower(result.corrected) = Lower(out)
  BY <1>1, CameBack
<1> HIDE DEF log, out
<1>3. q.start \in Nat /\ q.end \in Nat /\ q.start < q.end /\ q.end <= Len(working)
  <2>1. Len(working) \in Nat
    BY <1>2, ListFacts
  <2> QED
    BY <1>1, <2>1 DEF Span
<1>4. ASSUME NEW c \in Range(log), Overlaps(c, q) PROVE FALSE
  <2>1. IsWordChange(c)
    BY <1>1, <1>2, <1>4
  <2> QED
    BY <1>1, <1>4, <2>1, Untouched
<1>5. \A k \in DOMAIN log : ~(log[k].start < q.end /\ q.start < log[k].end)
  <2>1. \A k \in DOMAIN log : log[k] \in Range(log)
    BY DEF Range
  <2> QED
    BY <1>4, <2>1 DEF Overlaps
<1> DEFINE from == q.start
           to == q.end
<1>6. PICK a \in Nat : StandsAt(out, a, SubSeq(working, from + 1, to))
  <2>1. /\ from \in Nat /\ to \in Nat /\ from < to /\ to <= Len(working)
        /\ \A k \in DOMAIN log : ~(log[k].start < to /\ from < log[k].end)
    BY <1>3, <1>5
  <2> HIDE DEF from, to
  <2> QED
    BY <1>2, <2>1, StretchStands
<1>7. StandsAt(out, a, part)
  BY <1>6 DEF Slice
<1>8. IsList(part)
  BY <1>2, <1>3, ListSlice DEF Slice
<1> HIDE DEF part
<1>9. StandsAt(Lower(out), a, Lower(part)) /\ IsList(Lower(out)) /\ IsList(Lower(part))
  BY <1>2, <1>7, <1>8, LowerStands, LowerFacts
<1>10. HasPart(Lower(out), Lower(part))
  BY <1>9, PartStands
<1> QED
  BY <1>2, <1>10 DEF part

\* Whatever the windows and the phrases change, and wherever the spans begin and
\* end, a stretch of a span whose words lie inside the span is in the text that
\* comes back, up to its case, unless a phrase was written over it
\* (corrector.py:33, 396).
THEOREM ProtectedSurvivesCorrect == Spec => []ProtectedSurvives
BY Invariance, SpanSurvives, PTL

\* A part of a lowered text.
LEMMA LowerSlice ==
  ASSUME NEW text, IsList(text), NEW a \in Nat, NEW b \in Nat, a <= b, b <= Len(text)
  PROVE  /\ Lower(SubSeq(Lower(text), a + 1, b)) = Lower(SubSeq(text, a + 1, b))
         /\ Lower(Lower(SubSeq(text, a + 1, b))) = Lower(SubSeq(text, a + 1, b))
<1> DEFINE s == SubSeq(text, a + 1, b)
           low == Lower(text)
           t == SubSeq(low, a + 1, b)
           n == b - a
<1>1. IsList(low) /\ Len(low) = Len(text) /\ \A i \in DOMAIN text : low[i] = Translate(LowerOf, text[i])
  BY LowerFacts
<1>2. Len(text) \in Nat /\ DOMAIN text = 1 .. Len(text)
  BY ListFacts
<1>3. IsList(s) /\ Len(s) = n /\ \A i \in 1 .. n : s[i] = text[a + i]
  BY ListSlice
<1> HIDE DEF low
<1>4. IsList(t) /\ Len(t) = n /\ \A i \in 1 .. n : t[i] = low[a + i]
  BY <1>1, ListSlice
<1> HIDE DEF s, t
<1>5. DOMAIN s = 1 .. n /\ DOMAIN t = 1 .. n
  BY <1>3, <1>4, ListFacts
<1>6. \A i \in 1 .. n : t[i] = Translate(LowerOf, s[i])
  <2>1. \A i \in 1 .. n : a + i \in 1 .. Len(text)
    BY <1>2
  <2> QED
    BY <1>1, <1>2, <1>3, <1>4, <2>1
<1> HIDE DEF n
<1>7. Lower(t) = [i \in 1 .. n |-> Translate(LowerOf, t[i])]
  BY <1>5 DEF Lower
<1>8. Lower(s) = [i \in 1 .. n |-> Translate(LowerOf, s[i])]
  BY <1>5 DEF Lower
<1>9. \A i \in 1 .. n : Translate(LowerOf, t[i]) = Translate(LowerOf, s[i])
  BY <1>6, TranslateFacts
<1>10. Lower(t) = Lower(s)
  BY <1>7, <1>8, <1>9
<1>11. Lower(Lower(s)) = Lower(s)
  <2>1. DOMAIN Lower(s) = 1 .. n /\ \A i \in 1 .. n : Lower(s)[i] = Translate(LowerOf, s[i])
    BY <1>8
  <2>2. Lower(Lower(s)) = [i \in 1 .. n |-> Translate(LowerOf, Lower(s)[i])]
    BY <2>1 DEF Lower
  <2>3. \A i \in 1 .. n : Translate(LowerOf, Lower(s)[i]) = Translate(LowerOf, s[i])
    BY <2>1, TranslateFacts
  <2> QED
    BY <1>8, <2>2, <2>3
<1> QED
  BY <1>10, <1>11 DEF s, t, low

\* Where nothing was counted the log speaks of the given text.
LEMMA LogOfInput ==
  ASSUME IInv, Ok, Config.normalize, \A k \in DOMAIN doc.stats : doc.stats[k] = 0,
         NEW c \in Range(result.changes)
  PROVE  /\ c.end <= Len(Example.input)
         /\ Lower(Slice(Example.input, c)) = Lower(c.original)
<1>1. Given /\ Working /\ Prepared /\ IsChange(c)
  BY CameBack
<1>2. IsList(Example.input)
  BY <1>1, InputIsList
<1>3. doc.text = Example.input
  BY <1>1, <1>2, NormalizeTells DEF Prepared, Tells
<1>4. Len(working) = Len(doc.text) /\ IsList(doc.text)
  BY <1>1, PreparedFacts
<1>5. /\ c.start \in Nat /\ c.end \in Nat /\ c.start <= c.end /\ c.end <= Len(doc.text)
      /\ c.original = SubSeq(working, c.start + 1, c.end)
  BY <1>1, <1>4 DEF IsChange, Fits, Slice
<1> DEFINE a == c.start
           b == c.end
           text == doc.text
<1>6. Lower(SubSeq(Lower(text), a + 1, b)) = Lower(SubSeq(text, a + 1, b))
  <2>1. a \in Nat /\ b \in Nat /\ a <= b /\ b <= Len(text) /\ IsList(text)
    BY <1>4, <1>5
  <2> HIDE DEF a, b, text
  <2> QED
    BY <2>1, LowerSlice
<1>7. working = Lower(text) \/ working = text
  BY <1>1 DEF Prepared
<1>8. Lower(SubSeq(working, a + 1, b)) = Lower(SubSeq(text, a + 1, b))
  BY <1>6, <1>7
<1> QED
  BY <1>3, <1>5, <1>8 DEF Slice

\* Between two changes stands what stood there before.
LEMMA GapKept ==
  ASSUME IInv, Ok, NEW k \in 0 .. Len(result.changes)
  PROVE  LET log == result.changes
             to == IF k = Len(log) THEN Len(working) ELSE log[k + 1].start
         IN  SubSeq(Lower(result.corrected), GapFrom(log, k) + ShiftOf(log)[k] + 1,
                    to + ShiftOf(log)[k]) =
             Lower(SubSeq(working, GapFrom(log, k) + 1, to))
<1> DEFINE log == result.changes
           out == apply_changes(working, log)
           from == GapFrom(log, k)
           to == GapTo(log, k, Len(working))
           gap == Gap(working, log, k)
           shift == ShiftOf(log)
           a == from + shift[k]
<1>1. /\ IsList(working) /\ InLine(log, Len(working)) /\ IsList(out)
      /\ Applied(working, log, out) /\ Lower(result.corrected) = Lower(out)
  BY CameBack
<1> HIDE DEF log
<1>2. k \in 0 .. Len(log)
  BY DEF log
<1>3. StandsAt(out, a, gap)
  BY <1>1, <1>2 DEF Applied
<1>4. /\ from \in Nat /\ to \in Nat /\ from <= to
      /\ IsList(gap) /\ Len(gap) = to - from
  BY <1>1, <1>2, GapFacts
<1>5. shift[k] \in Int
  BY <1>1, <1>2, ShiftFacts
<1> HIDE DEF out, gap
<1>6. /\ IsList(Lower(out)) /\ IsList(Lower(gap)) /\ Len(Lower(gap)) = Len(gap)
      /\ StandsAt(Lower(out), a, Lower(gap))
  BY <1>1, <1>3, <1>4, LowerFacts, LowerStands
<1>7. SubSeq(Lower(out), a + 1, a + Len(Lower(gap))) = Lower(gap)
  <2> HIDE DEF a
  <2> QED
    BY <1>6, PartStands
<1>8. a + Len(Lower(gap)) = to + shift[k]
  <2> HIDE DEF from, to, shift
  <2> QED
    BY <1>4, <1>5, <1>6
<1>9. to = IF k = Len(log) THEN Len(working) ELSE log[k + 1].start
  BY DEF GapTo
<1>10. gap = SubSeq(working, from + 1, to)
  BY DEF gap, Gap
<1> HIDE DEF to, from, shift
<1>11. SubSeq(Lower(result.corrected), from + shift[k] + 1, to + shift[k]) =
       Lower(SubSeq(working, from + 1, to))
  BY <1>1, <1>7, <1>8, <1>10
<1> QED
  BY <1>9, <1>11 DEF from, log, shift

LEMMA OffsetsFollow == IInv => OffsetsHold
<1>1. SUFFICES ASSUME IInv, Ok PROVE OffsetsHold
  BY DEF OffsetsHold
<1>2. Config.normalize /\ (\A k \in DOMAIN doc.stats : doc.stats[k] = 0) =>
        \A c \in Range(result.changes) :
          /\ c.end <= Len(Example.input)
          /\ Lower(Slice(Example.input, c)) = Lower(c.original)
  BY <1>1, LogOfInput
<1> DEFINE log == result.changes
           to(k) == IF k = Len(log) THEN Len(working) ELSE log[k + 1].start
<1>3. \A k \in 0 .. Len(log) :
        SubSeq(Lower(result.corrected), GapFrom(log, k) + ShiftOf(log)[k] + 1,
               to(k) + ShiftOf(log)[k]) =
        Lower(SubSeq(working, GapFrom(log, k) + 1, to(k)))
  BY <1>1, GapKept
<1> QED
  BY <1>2, <1>3 DEF OffsetsHold, GapFrom, ShiftOf

\* The positions of the change log hold: of the given text where Stage 1 counted
\* nothing, and, moved by what the changes before them added, of the text that
\* came back, which is the old one between two changes (corrector.py:404).
THEOREM OffsetsHoldCorrect == Spec => []OffsetsHold
BY Invariance, OffsetsFollow, PTL

-----------------------------------------------------------------------------
(***************************************************************************)
(* The case of the letters.                                                *)
(***************************************************************************)
\* What the pattern of a text says of its capitals.
LEMMA PatternFacts ==
  ASSUME NEW text, IsList(text)
  PROVE  LET pattern == detect_case_pattern(text)
         IN  /\ pattern \in Patterns
             /\ pattern = "LOWER" => \A i \in DOMAIN text : ~IsUpper(text[i])
             /\ pattern = "UPPER" => \A i \in DOMAIN text : IsAlpha(text[i]) => IsUpper(text[i])
             /\ pattern = "UNKNOWN" => \A i \in DOMAIN text : ~IsAlpha(text[i])
             /\ pattern = "TITLE" /\ IsAlpha(text[1]) =>
                  /\ 1 \in DOMAIN text /\ IsUpper(text[1])
                  /\ \A i \in DOMAIN text : i # 1 => ~IsUpper(text[i])
<1> DEFINE pattern == detect_case_pattern(text)
           I == {i \in DOMAIN text : IsAlpha(text[i])}
           alpha == Pick(text, I)
           n == Cardinality(I)
           upper == {k \in DOMAIN alpha : IsUpper(alpha[k])}
<1>1. /\ n \in Nat /\ IsList(alpha) /\ Len(alpha) = n
      /\ \E order : /\ Places(order, I)
                    /\ \A k \in 1 .. n : alpha[k] = text[order[k]]
  <2>1. I \in SUBSET (DOMAIN text)
    OBVIOUS
  <2> HIDE DEF I
  <2> QED
    BY <2>1, ListPick
<1>2. PICK order : /\ Places(order, I)
                   /\ \A k \in 1 .. n : alpha[k] = text[order[k]]
  BY <1>1
<1>3. DOMAIN alpha = 1 .. n /\ (alpha = <<>> <=> n = 0)
  BY <1>1, ListFacts
<1>4. /\ \A k \in 1 .. n : order[k] \in I
      /\ \A k, l \in 1 .. n : k < l => order[k] < order[l]
      /\ \A i \in I : \E k \in 1 .. n : order[k] = i
  BY <1>2 DEF Places
<1>5. \A i \in DOMAIN text : IsUpper(text[i]) => i \in I
  BY DEF IsAlpha
<1>6. pattern = CASE alpha = <<>> -> "UNKNOWN"
                  [] upper = DOMAIN alpha /\ alpha # <<>> -> "UPPER"
                  [] upper = {} /\ alpha # <<>> -> "LOWER"
                  [] upper = {1} /\ Len(alpha) > 1 -> "TITLE"
                  [] OTHER -> "MIXED"
  BY DEF detect_case_pattern
<1>7. I \subseteq DOMAIN text /\ \A i \in I : IsAlpha(text[i])
  OBVIOUS
<1>9. \A k \in DOMAIN alpha : k \in upper <=> IsUpper(alpha[k])
  OBVIOUS
<1>19. upper \subseteq DOMAIN alpha
  OBVIOUS
<1> HIDE DEF alpha, n, pattern, upper
<1>8. ASSUME NEW i \in I
      PROVE  \E k \in 1 .. n : order[k] = i /\ (IsUpper(text[i]) <=> k \in upper)
  <2>1. PICK k \in 1 .. n : order[k] = i
    BY <1>4
  <2>2. alpha[k] = text[i]
    BY <1>2, <2>1
  <2>3. k \in upper <=> IsUpper(alpha[k])
    BY <1>3, <1>9
  <2>4. IsUpper(text[i]) <=> k \in upper
    BY <2>2, <2>3
  <2> QED
    BY <2>1, <2>4
<1>10. pattern \in Patterns
  BY <1>6 DEF Patterns
<1>11. pattern = "UNKNOWN" => alpha = <<>>
  BY <1>6
<1>12. pattern = "UPPER" => upper = DOMAIN alpha
  BY <1>6
<1>13. pattern = "LOWER" => upper = {}
  BY <1>6
<1>14. pattern = "TITLE" => upper = {1}
  BY <1>6
<1>15. ASSUME pattern = "UNKNOWN", NEW i \in DOMAIN text PROVE ~IsAlpha(text[i])
  <2>1. n = 0
    BY <1>3, <1>11, <1>15
  <2> QED
    BY <1>4, <1>15, <2>1
<1>16. ASSUME pattern = "UPPER", NEW i \in DOMAIN text, IsAlpha(text[i]) PROVE IsUpper(text[i])
  <2>1. i \in I
    BY <1>16
  <2> HIDE DEF I
  <2> QED
    BY <1>3, <1>8, <1>12, <1>16, <2>1
<1> HIDE DEF I
<1>17. ASSUME pattern = "LOWER", NEW i \in DOMAIN text PROVE ~IsUpper(text[i])
  BY <1>5, <1>8, <1>13, <1>17
<1>18. ASSUME pattern = "TITLE", IsAlpha(text[1])
       PROVE  /\ 1 \in DOMAIN text /\ IsUpper(text[1])
              /\ \A i \in DOMAIN text : i # 1 => ~IsUpper(text[i])
  <2>1. 1 \in 1 .. n /\ 1 \in upper /\ n \in Nat
    BY <1>1, <1>3, <1>14, <1>18, <1>19
  <2>2. Len(text) \in Nat /\ DOMAIN text = 1 .. Len(text)
    BY ListFacts
  <2>3. order[1] \in I /\ order[1] \in 1 .. Len(text)
    BY <1>4, <1>7, <2>1, <2>2
  <2>4. 1 \in DOMAIN text
    BY <2>2, <2>3
  <2>5. 1 \in I
    BY <1>18, <2>4 DEF I
  <2>6. PICK k \in 1 .. n : order[k] = 1
    BY <1>4, <2>5
  <2>7. k = 1
    <3>1. SUFFICES ASSUME 1 < k PROVE FALSE
      BY <2>1
    <3>2. order[1] < order[k]
      BY <1>4, <2>1, <3>1
    <3> QED
      BY <2>2, <2>3, <2>6, <3>2
  <2>8. IsUpper(text[1])
    <3>1. IsUpper(alpha[1]) /\ alpha[1] = text[order[1]]
      BY <1>2, <1>3, <1>9, <2>1
    <3> QED
      BY <2>6, <2>7, <3>1
  <2>9. ASSUME NEW i \in DOMAIN text, i # 1, IsUpper(text[i]) PROVE FALSE
    <3>1. i \in I
      BY <1>5, <2>9
    <3>2. PICK l \in 1 .. n : order[l] = i /\ l \in upper
      BY <1>8, <2>9, <3>1
    <3>3. l = 1
      BY <1>14, <1>18, <3>2
    <3> QED
      BY <2>6, <2>7, <2>9, <3>2, <3>3
  <2> QED
    BY <2>4, <2>8, <2>9
<1> QED
  BY <1>10, <1>15, <1>16, <1>17, <1>18 DEF pattern

\* Fewer places, fewer counted.
LEMMA CountedLess ==
  ASSUME NEW s, IsList(s), NEW t, \A i \in DOMAIN t : IsUpper(t[i]) => i \in DOMAIN s /\ IsUpper(s[i])
  PROVE  Counted(t, IsUpper) <= Counted(s, IsUpper)
<1> DEFINE A == {i \in DOMAIN t : IsUpper(t[i])}
           B == {i \in DOMAIN s : IsUpper(s[i])}
<1>1. A \subseteq B
  OBVIOUS
<1>2. IsFiniteSet(B)
  <2> DEFINE n == Len(s)
             one == 1
  <2>1. n \in Int /\ one \in Int /\ DOMAIN s = one .. n
    BY ListFacts
  <2> HIDE DEF n, one
  <2>2. IsFiniteSet(DOMAIN s)
    BY <2>1, FS_Interval
  <2>3. B \subseteq DOMAIN s
    OBVIOUS
  <2> HIDE DEF B
  <2> QED
    BY <2>2, <2>3, FS_Subset
<1>3. Counted(t, IsUpper) = Cardinality(A) /\ Counted(s, IsUpper) = Cardinality(B)
  BY DEF Counted
<1> HIDE DEF A, B
<1> QED
  BY <1>1, <1>2, <1>3, FS_Subset

-----------------------------------------------------------------------------
\* Before the first change of length everything stands where it stood.
Steady(log, m) ==
  \A k \in 1 .. Len(log) : log[k].start < m => Len(log[k].replacement) = log[k].end - log[k].start

LEMMA SteadyShift ==
  ASSUME NEW n, NEW log, InLine(log, n), NEW m \in Nat, Steady(log, m)
  PROVE  \A k \in 0 .. Len(log) : k = 0 \/ log[k].start < m => ShiftOf(log)[k] = 0
<1> DEFINE shift == ShiftOf(log)
           len == Len(log)
           G == {k \in 0 .. len : k = 0 \/ log[k].start < m => shift[k] = 0}
<1>1. len \in Nat /\ DOMAIN log = 1 .. len
  BY ListFacts DEF InLine
<1>2. /\ shift[0] = 0
      /\ \A k \in 1 .. len :
           shift[k] = shift[k - 1] + Len(log[k].replacement) - (log[k].end - log[k].start)
  BY ShiftFacts
<1> HIDE DEF shift, len
<1>3. 0 \in G
  BY <1>1, <1>2
<1>4. \A k \in 1 .. len : k - 1 \in G => k \in G
  <2>6. \A k \in 1 .. len : k \in 0 .. len /\ k # 0
    BY <1>1
  <2>1. SUFFICES ASSUME NEW k \in 1 .. len, k - 1 \in G, log[k].start < m PROVE shift[k] = 0
    BY <2>6
  <2>2. log[k].start \in Nat /\ log[k].end \in Nat
    BY <1>1 DEF InLine, Fits
  <2>3. Len(log[k].replacement) = log[k].end - log[k].start
    BY <2>1 DEF Steady, len
  <2>4. shift[k - 1] = 0
    <3>1. CASE k - 1 = 0
      BY <1>2, <3>1
    <3>2. CASE k - 1 # 0
      <4>1. k - 1 \in 1 .. len /\ k - 1 < k
        BY <1>1, <3>2
      <4>2. log[k - 1].end <= log[k].start /\ log[k - 1].start < log[k - 1].end
            /\ log[k - 1].start \in Nat /\ log[k - 1].end \in Nat
        BY <1>1, <4>1 DEF InLine, Fits
      <4>3. log[k - 1].start < m
        BY <2>1, <2>2, <4>2
      <4> QED
        BY <2>1, <4>3
    <3> QED
      BY <3>1, <3>2
  <2>5. shift[k] = shift[k - 1] + Len(log[k].replacement) - (log[k].end - log[k].start)
    BY <1>2
  <2> QED
    BY <2>2, <2>3, <2>4, <2>5
<1>5. 0 .. len \subseteq G
  <2> HIDE DEF G
  <2> QED
    BY <1>1, <1>3, <1>4, UpTo
<1> QED
  BY <1>5 DEF shift, len

\* A character there is the old one, or one that a change writes.
LEMMA SteadyPlace ==
  ASSUME NEW text, IsList(text), NEW log, InLine(log, Len(text)), NEW out, Applied(text, log, out),
         NEW m \in Nat, m <= Len(text), Steady(log, m), NEW i \in 1 .. m
  PROVE  /\ i \in DOMAIN out
         /\ \/ out[i] = text[i]
            \/ \E c \in Range(log) :
                 c.start < i /\ i <= c.end /\ out[i] = c.replacement[i - c.start]
<1> DEFINE shift == ShiftOf(log)
           len == Len(log)
<1>1. /\ len \in Nat /\ DOMAIN log = 1 .. len /\ Len(text) \in Nat
      /\ Len(out) \in Nat /\ DOMAIN out = 1 .. Len(out)
  BY ListFacts DEF InLine, Applied
<1>2. \A k \in 1 .. len : /\ log[k].start \in Nat /\ log[k].end \in Nat
                          /\ log[k].start < log[k].end /\ IsList(log[k].replacement)
  BY <1>1 DEF InLine, Fits
<1>3. \A k \in 0 .. len : k = 0 \/ log[k].start < m => shift[k] = 0
  BY SteadyShift
<1>4. /\ \A j \in 0 .. len : StandsAt(out, GapFrom(log, j) + shift[j], Gap(text, log, j))
      /\ \A j \in 1 .. len : StandsAt(out, log[j].start + shift[j - 1], log[j].replacement)
  BY DEF Applied
<1> HIDE DEF shift, len
<1>5. i \in Nat /\ 1 <= i /\ i <= m
  OBVIOUS
<1>6. ASSUME NEW k \in 1 .. len, log[k].start < i, i <= log[k].end
      PROVE  i \in DOMAIN out /\ out[i] = log[k].replacement[i - log[k].start]
  <2>1. log[k].start < m
    BY <1>2, <1>5, <1>6
  <2>2. shift[k - 1] = 0
    <3>1. k - 1 \in 0 .. len /\ (k - 1 = 0 \/ k - 1 \in 1 .. len)
      BY <1>1
    <3>2. CASE k - 1 = 0
      BY <1>3, <3>1, <3>2
    <3>3. CASE k - 1 \in 1 .. len
      <4>1. k - 1 < k
        BY <1>1
      <4>2. log[k - 1].end <= log[k].start
        BY <1>1, <3>3, <4>1 DEF InLine
      <4>3. log[k - 1].start < m
        BY <1>2, <2>1, <3>3, <4>2
      <4> QED
        BY <1>3, <3>1, <4>3
    <3> QED
      BY <3>1, <3>2, <3>3
  <2> DEFINE r == log[k].replacement
             a == log[k].start
             j == i - a
  <2>3. Len(r) = log[k].end - a
    BY <2>1 DEF Steady, len
  <2>4. StandsAt(out, a, r)
    <3>1. a + shift[k - 1] = a
      BY <1>2, <2>2
    <3> QED
      BY <1>4, <3>1
  <2>5. j \in 1 .. Len(r) /\ a + j = i /\ a \in Nat /\ Len(r) \in Nat
    BY <1>2, <1>5, <1>6, <2>3
  <2> HIDE DEF r, a, j
  <2>6. out[a + j] = r[j] /\ a + Len(r) <= Len(out)
    BY <2>4, <2>5 DEF StandsAt
  <2>7. i \in 1 .. Len(out)
    BY <1>1, <1>5, <2>5, <2>6
  <2> QED
    BY <1>1, <2>5, <2>6, <2>7 DEF r, a, j
<1>7. CASE \E k \in 1 .. len : log[k].start < i /\ i <= log[k].end
  <2>1. PICK k \in 1 .. len : log[k].start < i /\ i <= log[k].end
    BY <1>7
  <2>2. log[k] \in Range(log)
    BY <1>1 DEF Range
  <2> QED
    BY <1>6, <2>1, <2>2
<1>8. CASE ~(\E k \in 1 .. len : log[k].start < i /\ i <= log[k].end)
  <2> DEFINE from == i - 1
             to == i
  <2>1. /\ from \in Nat /\ to \in Nat /\ from < to /\ to <= Len(text)
    BY <1>1, <1>5
  <2>2. \A k \in DOMAIN log : ~(log[k].start < to /\ from < log[k].end)
    <3>1. SUFFICES ASSUME NEW k \in 1 .. len, log[k].start < i, i - 1 < log[k].end PROVE FALSE
      BY <1>1
    <3>2. i <= log[k].end
      BY <1>2, <1>5, <3>1
    <3> QED
      BY <1>8, <3>1, <3>2
  <2>3. PICK k \in 0 .. len : GapFrom(log, k) <= from /\ to <= GapTo(log, k, Len(text))
    <3> HIDE DEF from, to
    <3> QED
      BY <2>1, <2>2, GapAround DEF len
  <2> DEFINE g == GapFrom(log, k)
             gap == Gap(text, log, k)
             j == i - g
  <2>4. /\ g \in Nat /\ GapTo(log, k, Len(text)) \in Nat
        /\ Len(gap) = GapTo(log, k, Len(text)) - g
        /\ \A l \in 1 .. Len(gap) : gap[l] = text[g + l]
    BY GapFacts DEF len
  <2>5. shift[k] = 0
    <3>1. CASE k = 0
      BY <1>3, <3>1
    <3>2. CASE k # 0
      <4>1. k \in 1 .. len /\ g = log[k].end
        BY <1>1, <3>2 DEF GapFrom
      <4>2. log[k].start < m
        BY <1>2, <1>5, <2>3, <4>1
      <4> QED
        BY <1>3, <4>2
    <3> QED
      BY <3>1, <3>2
  <2>6. StandsAt(out, g, gap)
    <3>1. g + shift[k] = g
      BY <2>4, <2>5
    <3> QED
      BY <1>4, <3>1
  <2>7. j \in 1 .. Len(gap) /\ g + j = i /\ Len(gap) \in Nat
    BY <1>5, <2>1, <2>3, <2>4
  <2> HIDE DEF g, gap, j
  <2>8. out[g + j] = gap[j] /\ gap[j] = text[g + j] /\ g + Len(gap) <= Len(out)
    BY <2>4, <2>6, <2>7 DEF StandsAt
  <2>9. i \in 1 .. Len(out)
    BY <1>1, <1>5, <2>4, <2>7, <2>8
  <2> QED
    BY <1>1, <2>7, <2>8, <2>9
<1> QED
  BY <1>7, <1>8

\* What comes back of the capitals of the text whose pattern is put back.
LEMMA RestoreCapitals ==
  ASSUME NEW d, IsList(d), NEW text, IsList(text),
         detect_case_pattern(d) = "TITLE" => IsAlpha(d[1])
  PROVE  LET pattern == detect_case_pattern(d)
             back == restore_case(text, pattern, d)
         IN  /\ \A i \in DOMAIN text : i \in DOMAIN d /\ IsAlpha(d[i]) /\ IsAlpha(text[i]) =>
                  (IsUpper(back[i]) <=> IsUpper(d[i]))
             /\ pattern \notin {"UPPER", "UNKNOWN"} =>
                  \A i \in DOMAIN text : IsUpper(back[i]) => i \in DOMAIN d /\ IsUpper(d[i])
             /\ pattern = "UPPER" => \A i \in DOMAIN text : ~IsLower(back[i])
<1> DEFINE pattern == detect_case_pattern(d)
           back == restore_case(text, pattern, d)
<1>1. /\ pattern \in Patterns
      /\ pattern = "LOWER" => \A i \in DOMAIN d : ~IsUpper(d[i])
      /\ pattern = "UPPER" => \A i \in DOMAIN d : IsAlpha(d[i]) => IsUpper(d[i])
      /\ pattern = "UNKNOWN" => \A i \in DOMAIN d : ~IsAlpha(d[i])
      /\ pattern = "TITLE" => /\ 1 \in DOMAIN d /\ IsUpper(d[1])
                              /\ \A i \in DOMAIN d : i # 1 => ~IsUpper(d[i])
  BY PatternFacts
<1>2. /\ Len(d) \in Nat /\ DOMAIN d = 1 .. Len(d)
      /\ Len(text) \in Nat /\ DOMAIN text = 1 .. Len(text)
  BY ListFacts
<1>3. \A ch : /\ ~IsUpper(Translate(LowerOf, ch))
              /\ IsAlpha(ch) => IsUpper(Translate(UpperOf, ch))
              /\ ~IsLower(Translate(UpperOf, ch))
  BY TranslateFacts
<1> HIDE DEF pattern
<1>4. CASE pattern = "LOWER"
  <2>1. \A i \in DOMAIN text : back[i] = Translate(LowerOf, text[i])
    BY <1>4 DEF restore_case, Lower
  <2> HIDE DEF back
  <2> QED
    BY <1>1, <1>3, <1>4, <2>1 DEF pattern, back
<1>5. CASE pattern = "UPPER"
  <2>1. \A i \in DOMAIN text : back[i] = Translate(UpperOf, text[i])
    BY <1>5 DEF restore_case, Upper
  <2> HIDE DEF back
  <2> QED
    BY <1>1, <1>3, <1>5, <2>1 DEF pattern, back
<1>6. CASE pattern = "TITLE"
  <2>1. \A i \in DOMAIN text :
          back[i] = Translate(IF i = 1 THEN UpperOf ELSE LowerOf, text[i])
    BY <1>6 DEF restore_case, _to_title_case
  <2>2. \A i \in DOMAIN text : /\ i = 1 => back[i] = Translate(UpperOf, text[i])
                               /\ i # 1 => back[i] = Translate(LowerOf, text[i])
    BY <2>1
  <2> HIDE DEF back
  <2> QED
    BY <1>1, <1>3, <1>6, <2>2 DEF pattern, back
<1>7. CASE pattern = "MIXED"
  <2>1. \A i \in DOMAIN text :
          back[i] = Translate(IF i <= Len(d) /\ IsUpper(d[i]) THEN UpperOf ELSE LowerOf, text[i])
    BY <1>7 DEF restore_case, _apply_mixed_case
  <2>2. \A i \in DOMAIN text : i <= Len(d) <=> i \in DOMAIN d
    BY <1>2
  <2>3. \A i \in DOMAIN text :
          /\ i \in DOMAIN d /\ IsUpper(d[i]) => back[i] = Translate(UpperOf, text[i])
          /\ ~(i \in DOMAIN d /\ IsUpper(d[i])) => back[i] = Translate(LowerOf, text[i])
    BY <2>1, <2>2
  <2> HIDE DEF back
  <2> QED
    BY <1>1, <1>3, <1>7, <2>3 DEF pattern, back
<1>8. CASE pattern = "UNKNOWN"
  BY <1>1, <1>8 DEF pattern
<1> QED
  BY <1>1, <1>4, <1>5, <1>6, <1>7, <1>8 DEF Patterns

\* No change before the stable part's end alters the length.
LEMMA StableFacts ==
  ASSUME IsList(working), IsList(doc.text), Len(working) = Len(doc.text),
         InLine(result.changes, Len(working))
  PROVE  /\ StablePart \in Nat /\ StablePart <= Len(working)
         /\ Steady(result.changes, StablePart)
<1> DEFINE log == result.changes
           longer == {d \in Range(log) : Len(d.replacement) # d.end - d.start}
           shifts == {c.start : c \in longer}
           m == StablePart
<1>1. /\ Len(working) \in Nat /\ DOMAIN log = 1 .. Len(log)
      /\ \A k \in DOMAIN log : /\ log[k].start \in Nat /\ log[k].end \in Nat
                               /\ log[k].start < log[k].end /\ log[k].end <= Len(working)
  BY ListFacts DEF InLine, Fits
<1>2. m = IF shifts = {} THEN Len(doc.text) ELSE Min(shifts)
  BY DEF StablePart
<1>3. \A c \in Range(log) : \E k \in DOMAIN log : c = log[k]
  BY DEF Range
<1>4. \A k \in DOMAIN log : log[k] \in Range(log)
  BY DEF Range
<1> HIDE DEF log
<1>5. shifts \subseteq Nat /\ \A x \in shifts : x <= Len(working)
  <2>1. SUFFICES ASSUME NEW c \in longer PROVE c.start \in Nat /\ c.start <= Len(working)
    OBVIOUS
  <2>2. PICK k \in DOMAIN log : c = log[k]
    BY <1>3, <2>1
  <2> QED
    BY <1>1, <2>2
<1>6. \A k \in DOMAIN log : log[k].start \notin shifts =>
        Len(log[k].replacement) = log[k].end - log[k].start
  BY <1>4
<1> HIDE DEF shifts, m
<1>7. m \in Nat /\ m <= Len(working) /\ \A x \in shifts : m <= x
  <2>1. CASE shifts = {}
    BY <1>1, <1>2, <2>1
  <2>2. CASE shifts # {}
    <3>1. \E x \in shifts : \A y \in shifts : x <= y
      BY <1>5, <2>2, LeastNumber
    <3>2. m \in shifts /\ \A y \in shifts : m <= y
      BY <1>2, <2>2, <3>1 DEF Min
    <3> QED
      BY <1>5, <3>2
  <2> QED
    BY <2>1, <2>2
<1>8. Steady(log, m)
  <2>1. SUFFICES ASSUME NEW k \in DOMAIN log, log[k].start < m
                 PROVE  Len(log[k].replacement) = log[k].end - log[k].start
    BY <1>1 DEF Steady
  <2>2. log[k].start \notin shifts
    BY <1>1, <1>7, <2>1
  <2> QED
    BY <1>6, <2>2
<1> QED
  BY <1>7, <1>8 DEF log, m

\* Where there is no letter there is nothing to change, and no capital.
LEMMA NoLetters ==
  ASSUME IsList(working), IsList(doc.text), working = Lower(doc.text),
         \A i \in DOMAIN doc.text : ~IsAlpha(doc.text[i]),
         NEW log, InLine(log, Len(working)), \A c \in Range(log) : IsChange(c),
         NEW out, Applied(working, log, out)
  PROVE  \A i \in DOMAIN out : ~IsUpper(out[i])
<1> DEFINE n == Len(working)
<1>1. DOMAIN working = DOMAIN doc.text /\ \A i \in DOMAIN working : ~IsAlpha(working[i])
  BY LowerFacts, TranslateFacts
<1>2. n \in Nat /\ DOMAIN working = 1 .. n
  BY ListFacts
<1>3. WordSpans(working) = {}
  <2>1. SUFFICES ASSUME NEW s \in WordSpans(working) PROVE FALSE
    OBVIOUS
  <2>2. s.start \in Nat /\ s.end \in Nat /\ s.start < s.end /\ s.end <= n
    BY WordSpanFacts
  <2>3. IsAlpha(working[s.end])
    <3>1. \A i \in s.start + 1 .. s.end : IsAlpha(working[i])
      BY DEF WordSpans
    <3> QED
      BY <2>2, <3>1
  <2>4. s.end \in DOMAIN working
    BY <1>2, <2>2
  <2> QED
    BY <1>1, <2>3, <2>4
<1>4. Range(log) = {}
  BY <1>3 DEF IsChange
<1>5. DOMAIN log = {} /\ DOMAIN log = 1 .. Len(log) /\ Len(log) \in Nat
  <2>1. DOMAIN log = {}
    BY <1>4 DEF Range
  <2>2. IsList(log)
    BY DEF InLine
  <2> QED
    BY <2>1, <2>2, ListFacts
<1>6. Len(log) = 0
  BY <1>5
<1>7. Steady(log, n)
  BY <1>5 DEF Steady
<1>8. Len(out) = n /\ DOMAIN out = 1 .. n
  <2>1. ShiftOf(log)[0] = 0
    BY ShiftFacts
  <2>2. IsList(out) /\ Len(out) = n + ShiftOf(log)[Len(log)]
    BY DEF Applied
  <2> QED
    BY <1>2, <1>6, <2>1, <2>2, ListFacts
<1>9. ASSUME NEW i \in 1 .. n PROVE out[i] = working[i]
  <2> HIDE DEF n
  <2>1. n <= Len(working)
    BY <1>2 DEF n
  <2> QED
    BY <1>2, <1>4, <1>7, <1>9, <2>1, SteadyPlace
<1> QED
  BY <1>1, <1>2, <1>8, <1>9 DEF IsAlpha

LEMMA CapitalsKept == IInv => CaseKept
<1>1. SUFFICES ASSUME IInv, Ok, mask # <<>>, mask[1].pattern = "TITLE" => IsAlpha(doc.text[1])
               PROVE  CaseKept
  BY DEF CaseKept
<1> DEFINE d == doc.text
           log == result.changes
           out == apply_changes(working, log)
           pattern == detect_case_pattern(d)
           m == StablePart
           back == result.corrected
<1>2. /\ Given /\ Working /\ Prepared /\ Handed
      /\ IsList(working) /\ InLine(log, Len(working)) /\ IsList(out)
      /\ Applied(working, log, out)
      /\ log = Accepted
      /\ \A c \in Range(log) : IsChange(c)
      /\ SameButCase(out, back)
  BY <1>1, CameBack DEF IInv
<1>3. IsList(d) /\ Len(working) = Len(d) /\ DOMAIN working = DOMAIN d
  BY <1>2, PreparedFacts
<1>4. mask[1] = create_case_mask(d) /\ working = Lower(d)
  <2>1. Config.mask /\ mask = <<create_case_mask(d)>>
    BY <1>1, <1>2 DEF Prepared
  <2> QED
    BY <1>2, <2>1 DEF Prepared
<1>5. mask[1].pattern = pattern /\ mask[1].original = d
  BY <1>4 DEF create_case_mask
<1>6. back = restore_case(out, pattern, d)
  BY <1>1, <1>2, <1>5 DEF Handed, apply_case_mask
<1>7. m \in Nat /\ m <= Len(working) /\ Steady(log, m)
  BY <1>2, <1>3, StableFacts
<1>8. /\ \A i \in DOMAIN out : i \in DOMAIN d /\ IsAlpha(d[i]) /\ IsAlpha(out[i]) =>
           (IsUpper(back[i]) <=> IsUpper(d[i]))
      /\ pattern \notin {"UPPER", "UNKNOWN"} =>
           \A i \in DOMAIN out : IsUpper(back[i]) => i \in DOMAIN d /\ IsUpper(d[i])
      /\ pattern = "UPPER" => \A i \in DOMAIN out : ~IsLower(back[i])
  <2> HIDE DEF d, out, back
  <2>1. pattern = "TITLE" => IsAlpha(d[1])
    BY <1>1, <1>5 DEF d
  <2> QED
    BY <1>2, <1>3, <1>6, <2>1, RestoreCapitals
<1>9. DOMAIN back = DOMAIN out
  BY <1>2 DEF SameButCase
<1> HIDE DEF out, m, d, back, log, pattern
<1>10. ASSUME NEW i \in 1 .. m, IsAlpha(d[i])
       PROVE  \/ IsUpper(back[i]) <=> IsUpper(d[i])
              \/ \E c \in Range(log) :
                   c.start < i /\ i <= c.end /\ ~IsAlpha(c.replacement[i - c.start])
  <2>1. /\ i \in DOMAIN out
        /\ \/ out[i] = working[i]
           \/ \E c \in Range(log) : c.start < i /\ i <= c.end /\ out[i] = c.replacement[i - c.start]
    BY <1>2, <1>7, SteadyPlace
  <2>2. i \in DOMAIN d
    <3>1. Len(d) \in Nat /\ DOMAIN d = 1 .. Len(d)
      BY <1>3, ListFacts
    <3> QED
      BY <1>3, <1>7, <3>1
  <2>3. IsAlpha(working[i])
    BY <1>3, <1>4, <1>10, <2>2, LowerFacts, TranslateFacts
  <2>4. CASE IsAlpha(out[i])
    BY <1>8, <1>10, <2>1, <2>2, <2>4
  <2>5. CASE ~IsAlpha(out[i])
    BY <2>1, <2>3, <2>5
  <2> QED
    BY <2>4, <2>5
<1>11. pattern # "UPPER" => Counted(back, IsUpper) <= Counted(d, IsUpper)
  <2>1. SUFFICES ASSUME pattern # "UPPER"
                 PROVE  \A i \in DOMAIN back : IsUpper(back[i]) => i \in DOMAIN d /\ IsUpper(d[i])
    BY <1>3, CountedLess
  <2>2. CASE pattern # "UNKNOWN"
    BY <1>8, <1>9, <2>1, <2>2
  <2>3. CASE pattern = "UNKNOWN"
    <3>1. \A i \in DOMAIN d : ~IsAlpha(d[i])
      BY <1>3, <2>3, PatternFacts DEF pattern
    <3>2. \A i \in DOMAIN out : ~IsUpper(out[i])
      BY <1>2, <1>3, <1>4, <3>1, NoLetters DEF d
    <3>3. back = out
      BY <1>6, <2>3 DEF restore_case
    <3> QED
      BY <3>2, <3>3
  <2> QED
    BY <2>2, <2>3
<1>12. pattern = "UPPER" => ~\E i \in DOMAIN back : IsLower(back[i])
  BY <1>8, <1>9
<1> QED
  BY <1>1, <1>5, <1>10, <1>11, <1>12 DEF CaseKept, d, back, log, m

\* The case of the letters is put back as far as positions can carry it: up to
\* the first change of length every letter has the case it had, and behind it
\* no capital is invented (case_mask.py:6).
THEOREM CaseKeptCorrect == Spec => []CaseKept
BY Invariance, CapitalsKept, PTL

-----------------------------------------------------------------------------
(***************************************************************************)
(* The edit distance.                                                      *)
(***************************************************************************)
LEMMA LeastOfThree ==
  ASSUME NEW x \in Nat, NEW y \in Nat, NEW z \in Nat
  PROVE  /\ Min({x, y, z}) \in {x, y, z}
         /\ Min({x, y, z}) <= x /\ Min({x, y, z}) <= y /\ Min({x, y, z}) <= z
<1> DEFINE S == {x, y, z}
<1>1. S \subseteq Nat /\ S # {}
  OBVIOUS
<1>2. \E u \in S : \A v \in S : u <= v
  <2> HIDE DEF S
  <2> QED
    BY <1>1, LeastNumber
<1>3. Min(S) \in S /\ \A v \in S : Min(S) <= v
  <2> HIDE DEF S
  <2> QED
    BY <1>2 DEF Min
<1> QED
  BY <1>3

\* There is a function that goes on from x, turn after turn.
Recurs(V, x, n, step) ==
  \E f \in [0 .. n -> V] : f[0] = x /\ \A j \in 1 .. n : f[j] = step[j][f[j - 1]]

LEMMA StepsRecur ==
  ASSUME NEW V, NEW x, NEW n, NEW step,
         n \in Nat, x \in V, step \in [1 .. n -> [V -> V]]
  PROVE  Recurs(V, x, n, step)
BY RecursionExists DEF Recurs

\* What it costs to write the j-th element of b for x.
Cost(x, y) == IF x = y THEN 0 ELSE 1

\* A row of the table: its first entry, and each one from the three next to it.
LEMMA NextRowFacts ==
  ASSUME NEW b, IsList(b), NEW prev \in [0 .. Len(b) -> Nat], NEW x, NEW i \in Nat
  PROVE  LET r == NextRow(prev, x, i, b)
         IN  /\ r \in [0 .. Len(b) -> Nat]
             /\ r[0] = i
             /\ \A j \in 1 .. Len(b) :
                  r[j] = Min({r[j - 1] + 1, prev[j] + 1, prev[j - 1] + Cost(x, b[j])})
<1> DEFINE m == Len(b)
           e(j, v) == Min({v + 1, prev[j] + 1, prev[j - 1] + (IF x = b[j] THEN 0 ELSE 1)})
           Row(r) == r = [j \in 0 .. m |-> IF j = 0 THEN i ELSE e(j, r[j - 1])]
           step == [j \in 1 .. m |-> [v \in Nat |-> e(j, v)]]
           chosen == CHOOSE r : Row(r)
<1>1. m \in Nat
  BY ListFacts
<1>2. NextRow(prev, x, i, b) = chosen
  BY DEF NextRow
<1>3. \A j \in 1 .. m, v \in Nat : e(j, v) \in Nat
  <2>1. SUFFICES ASSUME NEW j \in 1 .. m, NEW v \in Nat PROVE e(j, v) \in Nat
    OBVIOUS
  <2>2. prev[j] \in Nat /\ prev[j - 1] \in Nat
    BY <1>1
  <2> DEFINE c == IF x = b[j] THEN 0 ELSE 1
             p == v + 1
             q == prev[j] + 1
             s == prev[j - 1] + c
  <2>3. p \in Nat /\ q \in Nat /\ s \in Nat
    BY <2>2
  <2>4. e(j, v) = Min({p, q, s})
    OBVIOUS
  <2> HIDE DEF p, q, s, e
  <2>5. Min({p, q, s}) \in {p, q, s}
    BY <2>3, LeastOfThree
  <2> QED
    BY <2>3, <2>4, <2>5
<1>19. \A j, v : e(j, v) = Min({v + 1, prev[j] + 1, prev[j - 1] + Cost(x, b[j])})
  BY DEF Cost
<1> HIDE DEF e, chosen, m
<1>4. step \in [1 .. m -> [Nat -> Nat]]
  BY <1>3
<1>5. \A j \in 1 .. m, v \in Nat : step[j][v] = e(j, v)
  OBVIOUS
<1> HIDE DEF step
<1>6. PICK f \in [0 .. m -> Nat] : f[0] = i /\ \A j \in 1 .. m : f[j] = step[j][f[j - 1]]
  <2> DEFINE start == i
             V == Nat
  <2>1. m \in Nat /\ start \in V /\ step \in [1 .. m -> [V -> V]]
    BY <1>1, <1>4
  <2> HIDE DEF Row, start, V
  <2>2. Recurs(V, start, m, step)
    BY <2>1, StepsRecur
  <2> QED
    BY <2>2 DEF start, V, Recurs
<1>7. \A j \in 1 .. m : f[j] = e(j, f[j - 1])
  <2>1. SUFFICES ASSUME NEW j \in 1 .. m PROVE f[j] = e(j, f[j - 1])
    OBVIOUS
  <2>2. j - 1 \in 0 .. m
    BY <1>1
  <2> QED
    BY <1>5, <1>6, <2>2
<1>8. Row(f)
  <2>1. \A j \in 0 .. m : f[j] = IF j = 0 THEN i ELSE e(j, f[j - 1])
    <3>1. \A j \in 0 .. m : j = 0 \/ j \in 1 .. m
      BY <1>1
    <3> QED
      BY <1>6, <1>7, <3>1
  <2> QED
    BY <2>1
<1>9. Row(chosen)
  BY <1>8 DEF chosen
<1>10. \A j \in 0 .. m : chosen[j] = IF j = 0 THEN i ELSE e(j, chosen[j - 1])
  BY <1>9
<1> DEFINE G == {j \in 0 .. m : chosen[j] \in Nat}
<1>11. 0 \in G
  BY <1>1, <1>10
<1>12. \A j \in 1 .. m : j - 1 \in G => j \in G
  <2>1. SUFFICES ASSUME NEW j \in 1 .. m, chosen[j - 1] \in Nat
                 PROVE  chosen[j] \in Nat /\ j \in 0 .. m
    OBVIOUS
  <2>2. j \in 0 .. m /\ j # 0
    BY <1>1
  <2> QED
    BY <1>3, <1>10, <2>1, <2>2
<1>13. 0 .. m \subseteq G
  <2> HIDE DEF G
  <2> QED
    BY <1>1, <1>11, <1>12, UpTo
<1>14. chosen = [j \in 0 .. m |-> chosen[j]]
  <2> DEFINE h(j) == IF j = 0 THEN i ELSE e(j, chosen[j - 1])
  <2>1. chosen = [j \in 0 .. m |-> h(j)]
    BY <1>9
  <2> HIDE DEF h
  <2> QED
    BY <2>1
<1>15. chosen \in [0 .. m -> Nat]
  BY <1>13, <1>14
<1>16. \A j \in 1 .. m : j \in 0 .. m /\ j # 0
  BY <1>1
<1>17. \A j \in 1 .. m : chosen[j] = e(j, chosen[j - 1])
  BY <1>10, <1>16
<1>18. chosen[0] = i
  BY <1>1, <1>10
<1> QED
  BY <1>2, <1>15, <1>17, <1>18, <1>19 DEF m

\* The rows of the table.
Rows(a, b) ==
  CHOOSE row : row =
    [i \in 0 .. Len(a) |->
       IF i = 0 THEN [j \in 0 .. Len(b) |-> j] ELSE NextRow(row[i - 1], a[i], i, b)]

LEMMA RowsFacts ==
  ASSUME NEW a, IsList(a), NEW b, IsList(b)
  PROVE  /\ Levenshtein(a, b) = Rows(a, b)[Len(a)][Len(b)]
         /\ Rows(a, b)[0] = [j \in 0 .. Len(b) |-> j]
         /\ \A i \in 1 .. Len(a) : Rows(a, b)[i] = NextRow(Rows(a, b)[i - 1], a[i], i, b)
         /\ \A i \in 0 .. Len(a) : Rows(a, b)[i] \in [0 .. Len(b) -> Nat]
<1> DEFINE m == Len(a)
           V == [0 .. Len(b) -> Nat]
           first == [j \in 0 .. Len(b) |-> j]
           e(i, v) == NextRow(v, a[i], i, b)
           Row(r) == r = [i \in 0 .. m |-> IF i = 0 THEN first ELSE e(i, r[i - 1])]
           step == [i \in 1 .. m |-> [v \in V |-> e(i, v)]]
           chosen == CHOOSE r : Row(r)
<1>1. m \in Nat /\ Len(b) \in Nat
  BY ListFacts
<1>2. Rows(a, b) = chosen
  BY DEF Rows
<1>3. \A i \in 1 .. m, v \in V : e(i, v) \in V
  <2>1. SUFFICES ASSUME NEW i \in 1 .. m, NEW v \in V PROVE e(i, v) \in V
    OBVIOUS
  <2>2. i \in Nat
    BY <1>1
  <2> QED
    BY <2>2, NextRowFacts
<1>4. first \in V
  BY <1>1
<1>20. Levenshtein(a, b) = Rows(a, b)[m][Len(b)]
  BY DEF Levenshtein, Rows
<1> HIDE DEF e, chosen, m, V, first
<1>5. step \in [1 .. m -> [V -> V]]
  BY <1>3
<1>6. \A i \in 1 .. m, v \in V : step[i][v] = e(i, v)
  OBVIOUS
<1> HIDE DEF step
<1>7. PICK f \in [0 .. m -> V] : f[0] = first /\ \A i \in 1 .. m : f[i] = step[i][f[i - 1]]
  <2>1. m \in Nat
    BY <1>1
  <2> HIDE DEF Row
  <2> QED
    BY <2>1, <1>4, <1>5, RecursionExists
<1>8. \A i \in 1 .. m : f[i] = e(i, f[i - 1])
  <2>1. SUFFICES ASSUME NEW i \in 1 .. m PROVE f[i] = e(i, f[i - 1])
    OBVIOUS
  <2>2. i - 1 \in 0 .. m
    BY <1>1
  <2> QED
    BY <1>6, <1>7, <2>2
<1>9. Row(f)
  <2>1. \A i \in 0 .. m : f[i] = IF i = 0 THEN first ELSE e(i, f[i - 1])
    <3>1. \A i \in 0 .. m : i = 0 \/ i \in 1 .. m
      BY <1>1
    <3> QED
      BY <1>7, <1>8, <3>1
  <2> QED
    BY <2>1
<1>10. Row(chosen)
  BY <1>9 DEF chosen
<1>11. \A i \in 0 .. m : chosen[i] = IF i = 0 THEN first ELSE e(i, chosen[i - 1])
  BY <1>10
<1> DEFINE G == {i \in 0 .. m : chosen[i] \in V}
<1>12. 0 \in G
  BY <1>1, <1>4, <1>11
<1>13. \A i \in 1 .. m : i - 1 \in G => i \in G
  <2>1. SUFFICES ASSUME NEW i \in 1 .. m, chosen[i - 1] \in V
                 PROVE  chosen[i] \in V /\ i \in 0 .. m
    OBVIOUS
  <2>2. i \in 0 .. m /\ i # 0
    BY <1>1
  <2> QED
    BY <1>3, <1>11, <2>1, <2>2
<1>14. 0 .. m \subseteq G
  <2> HIDE DEF G
  <2> QED
    BY <1>1, <1>12, <1>13, UpTo
<1>15. \A i \in 1 .. m : i \in 0 .. m /\ i # 0
  BY <1>1
<1>16. \A i \in 1 .. m : chosen[i] = e(i, chosen[i - 1])
  BY <1>11, <1>15
<1>17. chosen[0] = first
  BY <1>1, <1>11
<1> QED
  BY <1>2, <1>14, <1>16, <1>17, <1>20 DEF m, e, first, V

\* Nothing is to be changed exactly where the texts are the same.
LEMMA LevenshteinFacts ==
  ASSUME NEW a, IsList(a), NEW b, IsList(b)
  PROVE  Levenshtein(a, b) \in Nat /\ (Levenshtein(a, b) = 0 <=> a = b)
<1> DEFINE row == Rows(a, b)
           m == Len(a)
           n == Len(b)
           Same(i, j) == i = j /\ \A k \in 1 .. i : a[k] = b[k]
           G == {i \in 0 .. m : \A j \in 0 .. n : row[i][j] = 0 <=> Same(i, j)}
<1>1. /\ m \in Nat /\ DOMAIN a = 1 .. m /\ a = [k \in 1 .. m |-> a[k]]
      /\ n \in Nat /\ DOMAIN b = 1 .. n /\ b = [k \in 1 .. n |-> b[k]]
  BY ListFacts
<1>2. /\ row[0] = [j \in 0 .. n |-> j]
      /\ \A i \in 1 .. m : row[i] = NextRow(row[i - 1], a[i], i, b)
      /\ \A i \in 0 .. m : row[i] \in [0 .. n -> Nat]
      /\ Levenshtein(a, b) = row[m][n]
  BY RowsFacts
<1>3. \A i \in 1 .. m :
        /\ row[i][0] = i
        /\ \A j \in 1 .. n : row[i][j] = Min({row[i][j - 1] + 1, row[i - 1][j] + 1,
                                              row[i - 1][j - 1] + Cost(a[i], b[j])})
  <2>1. SUFFICES ASSUME NEW i \in 1 .. m
                 PROVE  /\ row[i][0] = i
                        /\ \A j \in 1 .. n : row[i][j] = Min({row[i][j - 1] + 1, row[i - 1][j] + 1,
                                                      row[i - 1][j - 1] + Cost(a[i], b[j])})
    OBVIOUS
  <2>2. i \in Nat /\ i - 1 \in 0 .. m
    BY <1>1
  <2> DEFINE prev == row[i - 1]
  <2>3. prev \in [0 .. n -> Nat] /\ row[i] = NextRow(prev, a[i], i, b)
    BY <1>2, <2>2
  <2> HIDE DEF row, prev
  <2>4. /\ row[i][0] = i
        /\ \A j \in 1 .. n : row[i][j] = Min({row[i][j - 1] + 1, prev[j] + 1,
                                              prev[j - 1] + Cost(a[i], b[j])})
    BY <2>2, <2>3, NextRowFacts
  <2> QED
    BY <2>4 DEF prev
<1> HIDE DEF row, m, n
<1>4. 0 \in G
  <2>1. \A j \in 0 .. n : row[0][j] = j
    BY <1>2
  <2> QED
    BY <1>1, <2>1
<1>5. \A i \in 1 .. m : i - 1 \in G => i \in G
  <2>1. SUFFICES ASSUME NEW i \in 1 .. m, \A j \in 0 .. n : row[i - 1][j] = 0 <=> Same(i - 1, j),
                        NEW j \in 0 .. n
                 PROVE  i \in 0 .. m /\ (row[i][j] = 0 <=> Same(i, j))
    BY DEF G
  <2>2. i \in 0 .. m /\ i - 1 \in 0 .. m /\ i \in Nat /\ i # 0
    BY <1>1
  <2>3. CASE j = 0
    BY <1>3, <2>2, <2>3
  <2>4. CASE j # 0
    <3>1. j \in 1 .. n /\ j - 1 \in 0 .. n
      BY <1>1, <2>4
    <3> DEFINE x == row[i][j - 1] + 1
               y == row[i - 1][j] + 1
               d == row[i - 1][j - 1]
               c == Cost(a[i], b[j])
               z == d + c
    <3>2. row[i] \in [0 .. n -> Nat] /\ row[i - 1] \in [0 .. n -> Nat]
      BY <1>2, <2>2
    <3>3. x \in Nat /\ x # 0 /\ y \in Nat /\ y # 0 /\ d \in Nat
      <4> DEFINE cur == row[i]
                 prev == row[i - 1]
      <4>1. cur[j - 1] \in Nat /\ prev[j] \in Nat /\ prev[j - 1] \in Nat
        <5>1. cur \in [0 .. n -> Nat] /\ prev \in [0 .. n -> Nat]
          BY <3>2
        <5> HIDE DEF cur, prev
        <5> QED
          BY <3>1, <5>1
      <4> QED
        BY <4>1
    <3>4. c \in Nat /\ (c = 0 <=> a[i] = b[j])
      BY DEF Cost
    <3>5. row[i][j] = Min({x, y, z})
      BY <1>3, <3>1
    <3>6. d = 0 <=> Same(i - 1, j - 1)
      BY <2>1, <3>1
    <3> HIDE DEF x, y, d, c
    <3>7. z \in Nat /\ (z = 0 <=> d = 0 /\ c = 0)
      BY <3>3, <3>4
    <3> HIDE DEF z
    <3>8. Min({x, y, z}) \in {x, y, z} /\ Min({x, y, z}) <= z
      BY <3>3, <3>7, LeastOfThree
    <3>9. row[i][j] = 0 <=> z = 0
      BY <3>3, <3>5, <3>7, <3>8
    <3>10. Same(i, j) <=> Same(i - 1, j - 1) /\ a[i] = b[j]
      <4>1. i = j <=> i - 1 = j - 1
        BY <1>1, <2>2, <3>1
      <4>2. \A k \in 1 .. i : k = i \/ k \in 1 .. i - 1
        BY <2>2
      <4>3. \A k \in 1 .. i - 1 : k \in 1 .. i
        BY <2>2
      <4>4. i \in 1 .. i
        BY <2>2
      <4> QED
        BY <4>1, <4>2, <4>3, <4>4
    <3> HIDE DEF Same
    <3> QED
      BY <2>2, <3>4, <3>6, <3>7, <3>9, <3>10
  <2> QED
    BY <2>3, <2>4
<1>6. 0 .. m \subseteq G
  <2> HIDE DEF G
  <2> QED
    BY <1>1, <1>4, <1>5, UpTo
<1>7. m \in 0 .. m /\ n \in 0 .. n
  BY <1>1
<1>8. row[m][n] = 0 <=> Same(m, n)
  BY <1>6, <1>7
<1>9. Same(m, n) <=> a = b
  <2>1. ASSUME Same(m, n) PROVE a = b
    BY <1>1, <2>1
  <2>2. ASSUME a = b PROVE Same(m, n)
    BY <2>2 DEF m, n
  <2> QED
    BY <2>1, <2>2
<1>10. row[m][n] \in Nat
  BY <1>2, <1>7
<1> QED
  BY <1>2, <1>8, <1>9, <1>10

-----------------------------------------------------------------------------
(***************************************************************************)
(* What is measured of an example, and the report.                         *)
(***************************************************************************)
LEMMA ErrorRateFacts ==
  ASSUME NEW p, IsList(p), NEW x, IsList(x)
  PROVE  LET rate == ErrorRate(p, x)
         IN  /\ rate = <<rate[1], rate[2]>>
             /\ rate[1] \in Nat /\ rate[2] \in Nat /\ rate[2] # 0
             /\ rate[1] = 0 <=> p = x
             /\ rate[2] = IF x = <<>> THEN 1 ELSE Len(x)
<1>1. /\ Levenshtein(p, x) \in Nat /\ (Levenshtein(p, x) = 0 <=> p = x)
      /\ Len(x) \in Nat /\ (Len(x) = 0 <=> x = <<>>)
  BY LevenshteinFacts, ListFacts
<1>2. CASE x = <<>>
  <2>1. ErrorRate(p, x) = <<IF p = <<>> THEN 0 ELSE 1, 1>>
    BY <1>2 DEF ErrorRate
  <2> QED
    BY <1>2, <2>1
<1>3. CASE x # <<>>
  <2>1. ErrorRate(p, x) = <<Levenshtein(p, x), Len(x)>>
    BY <1>3 DEF ErrorRate
  <2> QED
    BY <1>1, <1>3, <2>1
<1> QED
  BY <1>2, <1>3

\* A text that is nearer to what is expected has no higher rate.
LEMMA NearerRate ==
  ASSUME NEW p, IsList(p), NEW q, IsList(q), NEW x, IsList(x),
         Levenshtein(p, x) <= Levenshtein(q, x)
  PROVE  ErrorRate(p, x)[1] <= ErrorRate(q, x)[1]
<1>1. CASE x = <<>>
  <2>1. /\ ErrorRate(p, x) = <<IF p = <<>> THEN 0 ELSE 1, 1>>
        /\ ErrorRate(q, x) = <<IF q = <<>> THEN 0 ELSE 1, 1>>
    BY <1>1 DEF ErrorRate
  <2>2. CASE q = <<>>
    <3>1. Levenshtein(q, x) = 0
      BY <1>1, <2>2, LevenshteinFacts
    <3>2. Levenshtein(p, x) \in Nat /\ (Levenshtein(p, x) = 0 <=> p = x)
      BY LevenshteinFacts
    <3>3. p = <<>>
      BY <1>1, <3>1, <3>2
    <3> QED
      BY <2>1, <2>2, <3>3
  <2>3. CASE q # <<>>
    BY <2>1, <2>3
  <2> QED
    BY <2>2, <2>3
<1>2. CASE x # <<>>
  <2>1. /\ ErrorRate(p, x) = <<Levenshtein(p, x), Len(x)>>
        /\ ErrorRate(q, x) = <<Levenshtein(q, x), Len(x)>>
    BY <1>2 DEF ErrorRate
  <2> QED
    BY <2>1
<1> QED
  BY <1>1, <1>2

Rates == Nat \X Nat

\* The rates added up so far.
SumOf(rates) ==
  CHOOSE sum : sum =
    [k \in 0 .. Len(rates) |-> IF k = 0 THEN <<0, 1>> ELSE Plus(sum[k - 1], rates[k])]

LEMMA TotalFacts ==
  ASSUME NEW rates, IsList(rates), \A k \in DOMAIN rates : rates[k] \in Rates
  PROVE  /\ Total(rates) = SumOf(rates)[Len(rates)]
         /\ SumOf(rates)[0] = <<0, 1>>
         /\ \A k \in 1 .. Len(rates) : SumOf(rates)[k] = Plus(SumOf(rates)[k - 1], rates[k])
         /\ \A k \in 0 .. Len(rates) : SumOf(rates)[k] \in Rates
<1> DEFINE m == Len(rates)
           V == Rates
           first == <<0, 1>>
           e(k, v) == Plus(v, rates[k])
           Row(d) == d = [k \in 0 .. m |-> IF k = 0 THEN first ELSE e(k, d[k - 1])]
           step == [k \in 1 .. m |-> [v \in V |-> e(k, v)]]
           chosen == CHOOSE d : Row(d)
<1>1. m \in Nat /\ DOMAIN rates = 1 .. m
  BY ListFacts
<1>2. SumOf(rates) = chosen /\ Total(rates) = chosen[m]
  BY DEF SumOf, Total
<1>3. \A k \in 1 .. m, v \in V : e(k, v) \in V
  <2>1. SUFFICES ASSUME NEW k \in 1 .. m, NEW v \in V PROVE e(k, v) \in V
    OBVIOUS
  <2>2. v[1] \in Nat /\ v[2] \in Nat /\ rates[k][1] \in Nat /\ rates[k][2] \in Nat
    BY <1>1, <2>1 DEF Rates
  <2> DEFINE x == v[1] * rates[k][2] + rates[k][1] * v[2]
             y == v[2] * rates[k][2]
  <2>3. x \in Nat /\ y \in Nat
    <3>1. \A a, b, c, d \in Nat : a * b + c * d \in Nat /\ a * b \in Nat
      OBVIOUS
    <3> QED
      BY <2>2, <3>1
  <2>4. e(k, v) = <<x, y>>
    BY DEF Plus
  <2> HIDE DEF x, y, e
  <2> QED
    BY <2>3, <2>4 DEF Rates
<1>4. first \in V
  BY DEF Rates
<1> HIDE DEF e, chosen, m, V, first
<1>5. step \in [1 .. m -> [V -> V]]
  BY <1>3
<1>6. \A k \in 1 .. m, v \in V : step[k][v] = e(k, v)
  OBVIOUS
<1> HIDE DEF step
<1>7. PICK f \in [0 .. m -> V] : f[0] = first /\ \A k \in 1 .. m : f[k] = step[k][f[k - 1]]
  <2>1. m \in Nat
    BY <1>1
  <2> HIDE DEF Row
  <2>2. Recurs(V, first, m, step)
    BY <2>1, <1>4, <1>5, StepsRecur
  <2> QED
    BY <2>2 DEF Recurs
<1>8. \A k \in 1 .. m : f[k] = e(k, f[k - 1])
  <2>1. SUFFICES ASSUME NEW k \in 1 .. m PROVE f[k] = e(k, f[k - 1])
    OBVIOUS
  <2>2. k - 1 \in 0 .. m
    BY <1>1
  <2> QED
    BY <1>6, <1>7, <2>2
<1>9. Row(f)
  <2>1. \A k \in 0 .. m : f[k] = IF k = 0 THEN first ELSE e(k, f[k - 1])
    <3>1. \A k \in 0 .. m : k = 0 \/ k \in 1 .. m
      BY <1>1
    <3> QED
      BY <1>7, <1>8, <3>1
  <2> QED
    BY <2>1
<1>10. Row(chosen)
  BY <1>9 DEF chosen
<1>11. \A k \in 0 .. m : chosen[k] = IF k = 0 THEN first ELSE e(k, chosen[k - 1])
  BY <1>10
<1> DEFINE G == {k \in 0 .. m : chosen[k] \in V}
<1>12. 0 \in G
  BY <1>1, <1>4, <1>11
<1>13. \A k \in 1 .. m : k - 1 \in G => k \in G
  <2>1. SUFFICES ASSUME NEW k \in 1 .. m, chosen[k - 1] \in V
                 PROVE  chosen[k] \in V /\ k \in 0 .. m
    OBVIOUS
  <2>2. k \in 0 .. m /\ k # 0
    BY <1>1
  <2> QED
    BY <1>3, <1>11, <2>1, <2>2
<1>14. 0 .. m \subseteq G
  <2> HIDE DEF G
  <2> QED
    BY <1>1, <1>12, <1>13, UpTo
<1>15. \A k \in 1 .. m : k \in 0 .. m /\ k # 0
  BY <1>1
<1>16. \A k \in 1 .. m : chosen[k] = e(k, chosen[k - 1])
  BY <1>11, <1>15
<1>17. chosen[0] = first
  BY <1>1, <1>11
<1> QED
  BY <1>2, <1>14, <1>16, <1>17 DEF m, e, first, V

LEMMA Stretched ==
  ASSUME NEW a \in Nat, NEW b \in Nat, NEW c \in Nat, NEW d \in Nat, NEW u \in Nat, NEW w \in Nat,
         a <= b, c <= d
  PROVE  a * u + c * w <= b * u + d * w
<1>1. \A x, y, z \in Nat : x <= y => x * z <= y * z
  OBVIOUS
<1>2. a * u <= b * u /\ c * w <= d * w
  BY <1>1
<1>3. a * u \in Nat /\ b * u \in Nat /\ c * w \in Nat /\ d * w \in Nat
  OBVIOUS
<1> QED
  BY <1>2, <1>3

\* Of two lists of rates over the same numbers.
LEMMA TotalsCompare ==
  ASSUME NEW r, IsList(r), NEW s, IsList(s), Len(r) = Len(s),
         \A k \in DOMAIN r : /\ r[k] \in Rates /\ s[k] \in Rates
                             /\ r[k][2] = s[k][2] /\ r[k][1] <= s[k][1]
  PROVE  /\ Total(r) \in Rates /\ Total(s) \in Rates
         /\ Total(r)[2] = Total(s)[2] /\ Total(r)[1] <= Total(s)[1]
<1> DEFINE x == SumOf(r)
           y == SumOf(s)
           m == Len(r)
           G == {k \in 0 .. m : x[k][2] = y[k][2] /\ x[k][1] <= y[k][1]}
<1>1. m \in Nat /\ DOMAIN r = 1 .. m /\ DOMAIN s = 1 .. m
  BY ListFacts
<1>2. /\ Total(r) = x[m] /\ x[0] = <<0, 1>>
      /\ \A k \in 1 .. m : x[k] = Plus(x[k - 1], r[k])
      /\ \A k \in 0 .. m : x[k] \in Rates
  BY TotalFacts
<1>3. /\ Total(s) = y[m] /\ y[0] = <<0, 1>>
      /\ \A k \in 1 .. m : y[k] = Plus(y[k - 1], s[k])
      /\ \A k \in 0 .. m : y[k] \in Rates
  <2>1. \A k \in DOMAIN s : s[k] \in Rates
    BY <1>1
  <2> QED
    BY <2>1, TotalFacts
<1> HIDE DEF x, y, m
<1>4. 0 \in G
  BY <1>1, <1>2, <1>3
<1>5. \A k \in 1 .. m : k - 1 \in G => k \in G
  <2>1. SUFFICES ASSUME NEW k \in 1 .. m,
                        x[k - 1][2] = y[k - 1][2], x[k - 1][1] <= y[k - 1][1]
                 PROVE  k \in 0 .. m /\ x[k][2] = y[k][2] /\ x[k][1] <= y[k][1]
    BY DEF G
  <2>2. k \in 0 .. m /\ k - 1 \in 0 .. m
    BY <1>1
  <2> DEFINE a == x[k - 1][1]
             b == y[k - 1][1]
             c == r[k][1]
             d == s[k][1]
             u == r[k][2]
             w == x[k - 1][2]
  <2>3. /\ a \in Nat /\ b \in Nat /\ c \in Nat /\ d \in Nat /\ u \in Nat /\ w \in Nat
        /\ u = s[k][2] /\ w = y[k - 1][2] /\ a <= b /\ c <= d
    BY <1>1, <1>2, <1>3, <2>1, <2>2 DEF Rates
  <2>4. x[k] = <<a * u + c * w, w * u>> /\ y[k] = <<b * u + d * w, w * u>>
    BY <1>2, <1>3, <2>3 DEF Plus
  <2> HIDE DEF a, b, c, d, u, w
  <2>5. a * u + c * w <= b * u + d * w
    BY <2>3, Stretched
  <2> QED
    BY <2>2, <2>4, <2>5
<1>6. 0 .. m \subseteq G
  <2> HIDE DEF G
  <2> QED
    BY <1>1, <1>4, <1>5, UpTo
<1>7. m \in 0 .. m
  BY <1>1
<1> QED
  BY <1>2, <1>3, <1>6, <1>7

\* No loss where the rates fall, no gain where they rise.
LEMMA ImprovementSign ==
  ASSUME NEW x \in Rates, NEW y \in Rates, x[2] = y[2]
  PROVE  /\ y[1] <= x[1] => _safe_improvement(x, y) >= 0
         /\ x[1] <= y[1] => _safe_improvement(x, y) <= 0
<1> DEFINE a == x[1]
           b == y[1]
           d == x[2]
<1>1. a \in Nat /\ b \in Nat /\ d \in Nat
  BY DEF Rates
<1>2. _safe_improvement(x, y) = IF a = 0 THEN 0 ELSE a * d - b * d
  BY DEF _safe_improvement
<1> HIDE DEF a, b, d
<1>3. \A p, q, z \in Nat : p <= q => p * z <= q * z
  OBVIOUS
<1>4. a * d \in Nat /\ b * d \in Nat
  BY <1>1
<1>5. (b <= a => b * d <= a * d) /\ (a <= b => a * d <= b * d)
  BY <1>1, <1>3
<1> DEFINE ad == a * d
           bd == b * d
<1> HIDE DEF ad, bd
<1>6. /\ _safe_improvement(x, y) = IF a = 0 THEN 0 ELSE ad - bd
      /\ ad \in Nat /\ bd \in Nat
      /\ (b <= a => bd <= ad) /\ (a <= b => ad <= bd)
  BY <1>2, <1>4, <1>5 DEF ad, bd
<1>7. /\ b <= a => _safe_improvement(x, y) >= 0
      /\ a <= b => _safe_improvement(x, y) <= 0
  BY <1>6
<1> QED
  BY <1>7 DEF a, b

-----------------------------------------------------------------------------
(***************************************************************************)
(* The evaluations of a run.                                               *)
(***************************************************************************)
\* What an answer hands to the evaluation is a text.
Answered == stage = "answered" /\ result.status \notin Raised => IsList(result.corrected)

\* Each evaluation is that of its example, of some text that came back.
Evaluated ==
  /\ Len(evaluations) <= Len(dataset.examples)
  /\ \A k \in DOMAIN evaluations :
       \E r : IsList(r.corrected) /\ evaluations[k] = evaluate_one(dataset.examples[k], r)

LEMMA RebuiltIsText ==
  ASSUME IInv, stage = "rebuild"
  PROVE  /\ IsList(apply_changes(working, Accepted))
         /\ mask # <<>> => IsList(apply_case_mask(apply_changes(working, Accepted), mask[1]))
<1> DEFINE out == apply_changes(working, Accepted)
<1>1. Given /\ Working /\ Prepared /\ ChangesFit /\ PhrasesFit
  BY DEF IInv, Working
<1>2. IsList(working) /\ InLine(Accepted, Len(working))
  BY <1>1, PreparedFacts, AcceptedFacts
<1>3. IsList(out)
  BY <1>2, AppliedFacts DEF Applied
<1> HIDE DEF out
<1>4. ASSUME mask # <<>> PROVE IsList(apply_case_mask(out, mask[1]))
  <2>1. mask = <<create_case_mask(doc.text)>>
    BY <1>1, <1>4 DEF Prepared
  <2>2. mask[1] = create_case_mask(doc.text)
    BY <2>1
  <2>3. mask[1].pattern = detect_case_pattern(doc.text)
    BY <2>2 DEF create_case_mask
  <2>4. detect_case_pattern(doc.text) \in Patterns
    BY DEF detect_case_pattern, Patterns
  <2>5. SameButCase(out, restore_case(out, mask[1].pattern, mask[1].original))
    BY <1>3, <2>3, <2>4, RestoreFacts
  <2> QED
    BY <2>5 DEF SameButCase, apply_case_mask
<1> QED
  BY <1>3, <1>4 DEF out

LEMMA AnsweredStep == IInv /\ Answered /\ [Next]_vars => Answered'
<1>1. SUFFICES ASSUME IInv, Answered, [Next]_vars, stage' = "answered", result'.status \notin Raised
               PROVE  IsList(result'.corrected)
  BY DEF Answered
<1>2. CASE Enter
  <2>1. \/ result' = [Idle EXCEPT !.status = "too_large"]
        \/ result' = [Idle EXCEPT !.status = "ok"]
    BY <1>1, <1>2 DEF Enter
  <2>2. result'.corrected = <<>>
    BY <2>1 DEF Idle
  <2> QED
    BY <2>2, NoElements
<1>3. CASE BuildFails
  <2>1. result'.status = "dependency"
    BY <1>3 DEF BuildFails, Answer
  <2> QED
    BY <1>1, <2>1 DEF Raised
<1>4. CASE StageRaises
  <2>1. stage \in Range(Stages)
    BY <1>4 DEF StageRaises
  <2>2. Range(Stages) \subseteq {"normalize", "protect", "generate", "phrases", "decide", "rebuild"}
    BY DEF Stages, Range
  <2>3. Working /\ Given
    BY <1>1, <2>1, <2>2 DEF Working, IInv
  <2>4. \/ result'.corrected = Example.input
        \/ result'.status = "error"
    BY <1>4 DEF StageRaises, Answer
  <2> QED
    BY <1>1, <2>3, <2>4, InputIsList DEF Raised
<1>5. CASE Rebuild
  <2> DEFINE applied == apply_changes(working, Accepted)
  <2>1. /\ stage = "rebuild"
        /\ result'.corrected = IF mask = <<>> THEN applied ELSE apply_case_mask(applied, mask[1])
    BY <1>5 DEF Rebuild, Answer
  <2> QED
    BY <1>1, <2>1, RebuiltIsText
<1>6. CASE Normalize \/ Protect \/ Generate \/ Phrases \/ Decide
  <2>1. /\ stage' = After(stage)
        /\ stage \in {"normalize", "protect", "generate", "phrases", "decide"}
    BY <1>6 DEF Normalize, Protect, Generate, Phrases, Decide, Go
  <2> QED
    BY <1>1, <2>1, AfterFacts
<1>7. CASE Evaluate \/ Abort \/ Again
  BY <1>1, <1>7 DEF Evaluate, Abort, Again
<1>8. CASE UNCHANGED vars
  BY <1>1, <1>8 DEF vars, Answered
<1> QED
  BY <1>1, <1>2, <1>3, <1>4, <1>5, <1>6, <1>7, <1>8 DEF Next, Pipeline

LEMMA EvaluatedStep == IInv /\ Answered /\ Evaluated /\ [Next]_vars => Evaluated'
<1>1. SUFFICES ASSUME IInv, Answered, Evaluated, [Next]_vars PROVE Evaluated'
  OBVIOUS
<1>2. CASE UNCHANGED <<dataset, evaluations>>
  BY <1>1, <1>2 DEF Evaluated
<1>3. CASE Evaluate
  <2> DEFINE e == evaluate_one(Example, result)
  <2>1. /\ stage = "answered" /\ result.status \notin Raised
        /\ evaluations' = Append(evaluations, e) /\ dataset' = dataset
    BY <1>3 DEF Evaluate
  <2>2. /\ IsList(evaluations) /\ Len(evaluations) < Len(dataset.examples)
        /\ IsList(result.corrected)
    BY <1>1, <2>1 DEF IInv, Given, Working, Answered
  <2>3. dataset \in Datasets
    BY <1>1 DEF IInv, Given
  <2>4. IsList(dataset.examples)
    BY <2>3, CorrectorAssumption
  <2>5. e = evaluate_one(dataset.examples[Len(evaluations) + 1], result)
    BY DEF Example
  <2> HIDE DEF e
  <2>6. /\ IsList(evaluations') /\ Len(evaluations') = Len(evaluations) + 1
        /\ \A k \in 1 .. Len(evaluations) : evaluations'[k] = evaluations[k]
        /\ evaluations'[Len(evaluations) + 1] = e
    BY <2>1, <2>2, ListAppend
  <2>7. /\ Len(evaluations) \in Nat /\ DOMAIN evaluations = 1 .. Len(evaluations)
        /\ Len(dataset.examples) \in Nat
        /\ DOMAIN evaluations' = 1 .. Len(evaluations')
    BY <2>2, <2>4, <2>6, ListFacts
  <2>8. \A k \in DOMAIN evaluations' : k \in DOMAIN evaluations \/ k = Len(evaluations) + 1
    BY <2>6, <2>7
  <2>9. ASSUME NEW k \in DOMAIN evaluations'
        PROVE  \E r : /\ IsList(r.corrected)
                      /\ evaluations'[k] = evaluate_one(dataset.examples[k], r)
    <3>1. CASE k = Len(evaluations) + 1
      BY <2>2, <2>5, <2>6, <3>1
    <3>2. CASE k \in DOMAIN evaluations
      BY <1>1, <2>6, <2>7, <3>2 DEF Evaluated
    <3> QED
      BY <2>8, <2>9, <3>1, <3>2
  <2>10. Len(evaluations') <= Len(dataset.examples)
    BY <2>2, <2>6, <2>7
  <2> QED
    BY <2>1, <2>9, <2>10 DEF Evaluated
<1>4. CASE Again
  <2>1. evaluations' = <<>> /\ dataset' = dataset /\ dataset \in Datasets
    BY <1>1, <1>4 DEF Again, IInv, Given
  <2>2. IsList(dataset.examples)
    BY <2>1, CorrectorAssumption
  <2>3. Len(dataset.examples) >= 0 /\ Len(<<>>) = 0
    BY <2>2, ListFacts
  <2> QED
    BY <2>1, <2>3, NoElements DEF Evaluated
<1>5. CASE Enter \/ Normalize \/ Protect \/ Generate \/ Phrases \/ Decide
  BY <1>2, <1>5 DEF Enter, Normalize, Protect, Generate, Phrases, Decide, Go
<1>6. CASE BuildFails \/ StageRaises \/ Rebuild \/ Abort
  BY <1>2, <1>6 DEF BuildFails, StageRaises, Rebuild, Abort, Answer
<1>7. CASE UNCHANGED vars
  BY <1>2, <1>7 DEF vars
<1> QED
  BY <1>1, <1>3, <1>4, <1>5, <1>6, <1>7 DEF Next, Pipeline

LEMMA EvaluatedInit == Init => Answered /\ Evaluated
<1>1. SUFFICES ASSUME Init PROVE Answered /\ Evaluated
  OBVIOUS
<1>2. stage = "call" /\ evaluations = <<>> /\ dataset \in Datasets
  BY <1>1 DEF Init
<1>3. IsList(dataset.examples)
  BY <1>2, CorrectorAssumption
<1>4. Len(dataset.examples) >= 0 /\ Len(<<>>) = 0
  BY <1>3, ListFacts
<1> QED
  BY <1>2, <1>4, NoElements DEF Answered, Evaluated

LEMMA EvaluatedAlways == Spec => []Evaluated
<1>1. Init => IInv /\ Answered /\ Evaluated
  BY IInvInit, EvaluatedInit
<1>2. (IInv /\ Answered /\ Evaluated) /\ [Next]_vars => (IInv /\ Answered /\ Evaluated)'
  BY IInvStep, AnsweredStep, EvaluatedStep
<1> QED
  BY <1>1, <1>2, PTL DEF Spec

-----------------------------------------------------------------------------
LEMMA SplitIsList ==
  ASSUME NEW text, IsList(text)
  PROVE  IsList(Split(text))
<1> DEFINE S == {i \in DOMAIN text :
                   text[i] \notin Whitespace /\ (i = 1 \/ text[i - 1] \in Whitespace)}
           n == Cardinality(S)
           words == Split(text)
<1>1. n \in Nat
  BY CountFacts
<1>2. DOMAIN InOrder(S, Ascending(S)) = 1 .. n
  BY DEF InOrder
<1>3. words = [k \in 1 .. n |-> words[k]]
  BY <1>2 DEF Split
<1> HIDE DEF n, words
<1> QED
  BY <1>1, <1>3, ListMade DEF words

\* The example and the text that an evaluation is about.
LEMMA EvaluationFacts ==
  ASSUME Given, Evaluated, NEW k \in DOMAIN evaluations
  PROVE  LET e == evaluations[k]
             x == dataset.examples[k]
         IN  /\ IsList(x.input) /\ IsList(x.expected) /\ IsList(e.output)
             /\ e.exact <=> e.output = x.expected
             /\ e.exact => e.accepted
             /\ e.changed <=> e.output # x.input
             /\ e.cer_before = ErrorRate(x.input, x.expected)
             /\ e.cer_after = ErrorRate(e.output, x.expected)
             /\ e.wer_before = ErrorRate(Split(x.input), Split(x.expected))
             /\ e.wer_after = ErrorRate(Split(e.output), Split(x.expected))
<1> DEFINE e == evaluations[k]
           all == dataset.examples
           x == all[k]
<1>1. PICK r : IsList(r.corrected) /\ e = evaluate_one(x, r)
  BY DEF Evaluated
<1>2. IsList(all) /\ \A i \in DOMAIN all : IsList(all[i].input) /\ IsList(all[i].expected)
  BY CorrectorAssumption DEF Given
<1>3. k \in DOMAIN all
  <2> HIDE DEF all
  <2>1. /\ Len(evaluations) \in Nat /\ DOMAIN evaluations = 1 .. Len(evaluations)
        /\ Len(all) \in Nat /\ DOMAIN all = 1 .. Len(all)
    BY <1>2, ListFacts DEF Given
  <2>2. Len(evaluations) <= Len(all)
    BY DEF Evaluated, all
  <2> QED
    BY <2>1, <2>2
<1>4. IsList(x.input) /\ IsList(x.expected)
  BY <1>2, <1>3
<1> HIDE DEF x, e
<1>5. /\ e.output = r.corrected
      /\ e.exact = (r.corrected = x.expected)
      /\ e.accepted = (r.corrected \in x.allowed \cup {x.expected})
      /\ e.changed = (r.corrected # x.input)
      /\ e.cer_before = cer(x.input, x.expected)
      /\ e.cer_after = cer(r.corrected, x.expected)
      /\ e.wer_before = wer(x.input, x.expected)
      /\ e.wer_after = wer(r.corrected, x.expected)
  BY <1>1 DEF evaluate_one
<1>6. IsList(e.output)
  BY <1>1, <1>5
<1>7. /\ e.exact <=> e.output = x.expected
      /\ e.exact => e.accepted
      /\ e.changed <=> e.output # x.input
  BY <1>5
<1>8. /\ e.cer_before = ErrorRate(x.input, x.expected)
      /\ e.cer_after = ErrorRate(e.output, x.expected)
      /\ e.wer_before = ErrorRate(Split(x.input), Split(x.expected))
      /\ e.wer_after = ErrorRate(Split(e.output), Split(x.expected))
  BY <1>5 DEF cer, wer
<1> QED
  BY <1>4, <1>6, <1>7, <1>8 DEF x, e, all

LEMMA ReportSign ==
  ASSUME Given, Evaluated
  PROVE  LET Before(i) == Levenshtein(dataset.examples[i].input, dataset.examples[i].expected)
             Behind(i) == Levenshtein(evaluations[i].output, dataset.examples[i].expected)
             gain == build_report(evaluations).cer_improvement
         IN  /\ (\A i \in DOMAIN evaluations : Behind(i) <= Before(i)) => gain >= 0
             /\ (\A i \in DOMAIN evaluations : Behind(i) >= Before(i)) => gain <= 0
<1> DEFINE Before(i) == Levenshtein(dataset.examples[i].input, dataset.examples[i].expected)
           Behind(i) == Levenshtein(evaluations[i].output, dataset.examples[i].expected)
           gain == build_report(evaluations).cer_improvement
           n == Len(evaluations)
           before == [i \in DOMAIN evaluations |-> evaluations[i].cer_before]
           after == [i \in DOMAIN evaluations |-> evaluations[i].cer_after]
<1>1. n \in Nat /\ DOMAIN evaluations = 1 .. n
  BY ListFacts DEF Given
<1>2. gain = _safe_improvement(Total(before), Total(after))
  BY DEF build_report
<1>3. /\ before = [i \in 1 .. n |-> before[i]] /\ after = [i \in 1 .. n |-> after[i]]
      /\ \A i \in DOMAIN evaluations : /\ before[i] = evaluations[i].cer_before
                                       /\ after[i] = evaluations[i].cer_after
  BY <1>1
<1> HIDE DEF before, after, n
<1>4. /\ IsList(before) /\ Len(before) = n /\ DOMAIN before = DOMAIN evaluations
      /\ IsList(after) /\ Len(after) = n /\ DOMAIN after = DOMAIN evaluations
  BY <1>1, <1>3, ListMade
<1>5. ASSUME NEW i \in DOMAIN evaluations
      PROVE  /\ before[i] \in Rates /\ after[i] \in Rates /\ before[i][2] = after[i][2]
             /\ Behind(i) <= Before(i) => after[i][1] <= before[i][1]
             /\ Behind(i) >= Before(i) => before[i][1] <= after[i][1]
  <2> DEFINE p == dataset.examples[i].input
             q == evaluations[i].output
             x == dataset.examples[i].expected
  <2>1. /\ IsList(p) /\ IsList(x) /\ IsList(q)
        /\ before[i] = ErrorRate(p, x) /\ after[i] = ErrorRate(q, x)
    BY <1>3, EvaluationFacts
  <2>2. Before(i) = Levenshtein(p, x) /\ Behind(i) = Levenshtein(q, x)
    OBVIOUS
  <2> HIDE DEF p, q, x, Before, Behind
  <2>3. before[i] \in Rates /\ after[i] \in Rates /\ before[i][2] = after[i][2]
    BY <2>1, ErrorRateFacts DEF Rates
  <2>4. Levenshtein(p, x) \in Nat /\ Levenshtein(q, x) \in Nat
    BY <2>1, LevenshteinFacts
  <2>5. Levenshtein(q, x) <= Levenshtein(p, x) => after[i][1] <= before[i][1]
    BY <2>1, NearerRate
  <2>6. Levenshtein(p, x) <= Levenshtein(q, x) => before[i][1] <= after[i][1]
    BY <2>1, NearerRate
  <2> QED
    BY <2>2, <2>3, <2>4, <2>5, <2>6
<1> HIDE DEF Before, Behind, gain
<1>6. ASSUME \A i \in DOMAIN evaluations : Behind(i) <= Before(i) PROVE gain >= 0
  <2>1. /\ Total(after) \in Rates /\ Total(before) \in Rates
        /\ Total(after)[2] = Total(before)[2] /\ Total(after)[1] <= Total(before)[1]
    BY <1>4, <1>5, <1>6, TotalsCompare
  <2> QED
    BY <1>2, <2>1, ImprovementSign
<1>7. ASSUME \A i \in DOMAIN evaluations : Behind(i) >= Before(i) PROVE gain <= 0
  <2>1. /\ Total(after) \in Rates /\ Total(before) \in Rates
        /\ Total(before)[2] = Total(after)[2] /\ Total(before)[1] <= Total(after)[1]
    BY <1>4, <1>5, <1>7, TotalsCompare
  <2> QED
    BY <1>2, <2>1, ImprovementSign
<1> QED
  BY <1>6, <1>7 DEF Before, Behind, gain

LEMMA MeasuresFollow == Given /\ Evaluated => MeasuresAgree
<1>1. SUFFICES ASSUME Given, Evaluated PROVE MeasuresAgree
  OBVIOUS
<1>2. ASSUME NEW k \in DOMAIN evaluations
      PROVE  LET e == evaluations[k]
             IN  /\ e.exact <=> e.cer_after[1] = 0
                 /\ e.exact => e.accepted /\ e.wer_after[1] = 0
                 /\ ~e.changed => e.cer_before = e.cer_after /\ e.wer_before = e.wer_after
  <2> DEFINE e == evaluations[k]
             x == dataset.examples[k].expected
             p == dataset.examples[k].input
             q == e.output
  <2>1. /\ IsList(p) /\ IsList(x) /\ IsList(q)
        /\ e.exact <=> q = x
        /\ e.exact => e.accepted
        /\ e.changed <=> q # p
        /\ e.cer_before = ErrorRate(p, x) /\ e.cer_after = ErrorRate(q, x)
        /\ e.wer_before = ErrorRate(Split(p), Split(x))
        /\ e.wer_after = ErrorRate(Split(q), Split(x))
    BY <1>1, EvaluationFacts
  <2> HIDE DEF e, x, p, q
  <2>2. e.cer_after[1] = 0 <=> q = x
    BY <2>1, ErrorRateFacts
  <2>3. ErrorRate(Split(x), Split(x))[1] = 0
    <3>1. IsList(Split(x))
      BY <2>1, SplitIsList
    <3> QED
      BY <3>1, ErrorRateFacts
  <2>4. e.exact => e.wer_after[1] = 0
    BY <2>1, <2>3
  <2>5. ~e.changed => e.cer_before = e.cer_after /\ e.wer_before = e.wer_after
    BY <2>1
  <2> QED
    BY <2>1, <2>2, <2>4, <2>5 DEF e
<1>3. \A e \in Range(evaluations) : \E k \in DOMAIN evaluations : e = evaluations[k]
  BY DEF Range
<1>4. \A e \in Range(evaluations) :
        /\ e.exact <=> e.cer_after[1] = 0
        /\ e.exact => e.accepted /\ e.wer_after[1] = 0
        /\ ~e.changed => e.cer_before = e.cer_after /\ e.wer_before = e.wer_after
  BY <1>2, <1>3
<1> QED
  BY <1>1, <1>4, ReportSign DEF MeasuresAgree

\* The measures of every evaluation agree with one another and with the report:
\* an example is exact just when nothing is left to edit, and the report shows
\* no loss when every text came nearer to what was expected, no gain when every
\* text went further away (stage7_evaluation/runner.py).
THEOREM MeasuresAgreeCorrect == Spec => []MeasuresAgree
<1>1. IInv /\ Evaluated => MeasuresAgree
  BY MeasuresFollow DEF IInv
<1> QED
  BY <1>1, Invariance, EvaluatedAlways, PTL
=============================================================================
