---------------------------- MODULE LexiconProofs ---------------------------
(***************************************************************************)
(* The lexicon keeps its promises for any raw files, any resources and any *)
(* order of builds, deaths and loads.                                      *)
(*                                                                         *)
(* The builds rest on one invariant, Building: the transaction of a        *)
(* running build starts from the database it opened and only adds to it,   *)
(* first all that some resources hold, then the trusted words it read,     *)
(* then their syllables.  What a list of trusted words is made of          *)
(* (EntriesFacts) comes from merge_words, a fold over the words.           *)
(*                                                                         *)
(* The loads rest on another one, Reading: after every SELECT, whatever    *)
(* was committed before it, the parts of the store agree (Agrees), and     *)
(* what the resources gave it is in it still (BuiltIn).                    *)
(***************************************************************************)
EXTENDS Lexicon, TLAPS, FiniteSetTheorems, FunctionTheorems, WellFoundedInduction

-----------------------------------------------------------------------------
(***************************************************************************)
(* Lists: sorted and filtered ones, their parts, and recursion over the    *)
(* numbers up to a bound.                                                  *)
(***************************************************************************)
\* R orders the elements of S one after the other.
Orders(R, S) ==
  /\ \A i \in S : <<i, i>> \notin R
  /\ \A i, j \in S : i # j => <<i, j>> \in R \/ <<j, i>> \in R
  /\ \A i, j, k \in S : <<i, j>> \in R /\ <<j, k>> \in R => <<i, k>> \in R

\* How many elements come before i.
Rank(S, R, i) == Cardinality({j \in S : <<j, i>> \in R})

LEMMA RankFacts ==
  ASSUME NEW S, IsFiniteSet(S), NEW R, Orders(R, S)
  PROVE  /\ Cardinality(S) \in Nat
         /\ \A i \in S : Rank(S, R, i) \in 0 .. Cardinality(S) - 1
         /\ \A i, j \in S : <<i, j>> \in R => Rank(S, R, i) < Rank(S, R, j)
         /\ \A i, j \in S : Rank(S, R, i) = Rank(S, R, j) => i = j
<1> DEFINE Below(i) == {j \in S : <<j, i>> \in R}
<1>1. Cardinality(S) \in Nat
  BY FS_CardinalityType
<1>2. \A i \in S : Below(i) \in SUBSET S /\ i \notin Below(i)
  BY DEF Orders
<1>3. \A i \in S : IsFiniteSet(Below(i)) /\ Cardinality(Below(i)) \in Nat
  <2>1. SUFFICES ASSUME NEW i \in S
                 PROVE  IsFiniteSet(Below(i)) /\ Cardinality(Below(i)) \in Nat
    OBVIOUS
  <2>2. Below(i) \in SUBSET S
    BY <1>2
  <2> HIDE DEF Below
  <2> QED
    BY <2>2, FS_Subset, FS_CardinalityType
<1>4. ASSUME NEW i \in S PROVE Cardinality(Below(i)) < Cardinality(S)
  <2>1. Below(i) \in SUBSET S /\ Below(i) # S
    BY <1>2, <1>4
  <2>2. Cardinality(Below(i)) \in Nat
    BY <1>3, <1>4
  <2> HIDE DEF Below
  <2>3. Cardinality(Below(i)) <= Cardinality(S) /\ Cardinality(Below(i)) # Cardinality(S)
    BY <2>1, FS_Subset
  <2> QED
    BY <1>1, <2>2, <2>3
<1>5. ASSUME NEW i \in S, NEW j \in S, <<i, j>> \in R
      PROVE  Cardinality(Below(i)) < Cardinality(Below(j))
  <2>1. Below(i) \in SUBSET Below(j)
    BY <1>5 DEF Orders
  <2>2. i \in Below(j) /\ i \notin Below(i)
    BY <1>2, <1>5
  <2>3. IsFiniteSet(Below(j)) /\ Cardinality(Below(i)) \in Nat /\ Cardinality(Below(j)) \in Nat
    BY <1>3, <1>5
  <2> HIDE DEF Below
  <2>4. /\ Cardinality(Below(i)) <= Cardinality(Below(j))
        /\ Cardinality(Below(i)) # Cardinality(Below(j))
    BY <2>1, <2>2, <2>3, FS_Subset
  <2> QED
    BY <2>3, <2>4
<1>6. \A i \in S : Rank(S, R, i) = Cardinality(Below(i))
  BY DEF Rank
<1> HIDE DEF Below
<1>7. \A i \in S : Rank(S, R, i) \in Nat /\ Rank(S, R, i) < Cardinality(S)
  BY <1>3, <1>4, <1>6
<1>8. \A i, j \in S : <<i, j>> \in R => Rank(S, R, i) < Rank(S, R, j)
  BY <1>5, <1>6
<1>9. \A i, j \in S : Rank(S, R, i) = Rank(S, R, j) => i = j
  <2>1. SUFFICES ASSUME NEW i \in S, NEW j \in S, Rank(S, R, i) = Rank(S, R, j), i # j
                 PROVE  FALSE
    OBVIOUS
  <2>2. <<i, j>> \in R \/ <<j, i>> \in R
    BY <2>1 DEF Orders
  <2>3. Rank(S, R, i) < Rank(S, R, j) \/ Rank(S, R, j) < Rank(S, R, i)
    BY <1>8, <2>2
  <2> QED
    BY <1>7, <2>1, <2>3
<1> QED
  BY <1>1, <1>7, <1>8, <1>9

\* A sorted list has every element of S once, each before those it precedes.
LEMMA InOrderFacts ==
  ASSUME NEW S, IsFiniteSet(S), NEW R, Orders(R, S)
  PROVE  /\ Cardinality(S) \in Nat
         /\ InOrder(S, R) \in [1 .. Cardinality(S) -> S]
         /\ \A k, l \in 1 .. Cardinality(S) :
              k < l => <<InOrder(S, R)[k], InOrder(S, R)[l]>> \in R
         /\ \A k, l \in 1 .. Cardinality(S) :
              InOrder(S, R)[k] = InOrder(S, R)[l] => k = l
         /\ \A i \in S : \E k \in 1 .. Cardinality(S) : InOrder(S, R)[k] = i
<1> DEFINE n == Cardinality(S)
           r(i) == Rank(S, R, i)
           f == [i \in S |-> r(i) + 1]
           order == InOrder(S, R)
<1>1. /\ n \in Nat
      /\ \A i \in S : r(i) \in 0 .. n - 1
      /\ \A i, j \in S : <<i, j>> \in R => r(i) < r(j)
      /\ \A i, j \in S : r(i) = r(j) => i = j
  BY RankFacts
<1>2. order = [k \in 1 .. n |-> CHOOSE i \in S : r(i) = k - 1]
  BY DEF InOrder, Rank
<1> HIDE DEF n, r, order
<1>3. f \in [S -> 1 .. n]
  BY <1>1
<1>4. \A i, j \in S : f[i] = f[j] => i = j
  BY <1>1
<1>5. \A t \in 1 .. n : \E i \in S : f[i] = t
  <2>1. IsFiniteSet(1 .. n) /\ Cardinality(1 .. n) = n
    BY <1>1, FS_Interval
  <2> HIDE DEF f
  <2>2. f \in Injection(S, 1 .. n)
    BY <1>3, <1>4, Fun_IsInj
  <2>3. f \in Surjection(S, 1 .. n)
    BY <2>1, <2>2, FS_Injection DEF n
  <2> QED
    BY <2>3, Fun_SurjectionProperties
<1>6. \A k \in 1 .. n : order[k] \in S /\ r(order[k]) = k - 1
  <2>1. SUFFICES ASSUME NEW k \in 1 .. n PROVE order[k] \in S /\ r(order[k]) = k - 1
    OBVIOUS
  <2>2. PICK i \in S : r(i) + 1 = k
    BY <1>5
  <2>3. r(i) = k - 1
    BY <1>1, <2>2
  <2>4. order[k] = CHOOSE j \in S : r(j) = k - 1
    BY <1>2
  <2> QED
    BY <2>3, <2>4
<1>7. order \in [1 .. n -> S]
  BY <1>2, <1>6
<1>8. \A k, l \in 1 .. n : order[k] = order[l] => k = l
  <2>1. SUFFICES ASSUME NEW k \in 1 .. n, NEW l \in 1 .. n, order[k] = order[l] PROVE k = l
    OBVIOUS
  <2>2. k - 1 = l - 1
    BY <1>6, <2>1
  <2> QED
    BY <1>1, <2>2
<1>9. \A k, l \in 1 .. n : k < l => <<order[k], order[l]>> \in R
  <2>1. SUFFICES ASSUME NEW k \in 1 .. n, NEW l \in 1 .. n, k < l
                 PROVE  <<order[k], order[l]>> \in R
    OBVIOUS
  <2>2. order[k] # order[l]
    BY <1>1, <1>8, <2>1
  <2>3. ~(<<order[l], order[k]>> \in R)
    BY <1>1, <1>6, <2>1
  <2> QED
    BY <1>6, <2>2, <2>3 DEF Orders
<1>10. \A i \in S : \E k \in 1 .. n : order[k] = i
  <2>1. SUFFICES ASSUME NEW i \in S PROVE \E k \in 1 .. n : order[k] = i
    OBVIOUS
  <2>2. r(i) + 1 \in 1 .. n /\ (r(i) + 1) - 1 = r(i)
    BY <1>1
  <2>3. r(order[r(i) + 1]) = r(i) /\ order[r(i) + 1] \in S
    BY <1>6, <2>2
  <2> QED
    BY <1>1, <2>2, <2>3
<1> QED
  BY <1>1, <1>7, <1>8, <1>9, <1>10 DEF n, order

\* The places a filter keeps: each once, from left to right.
Places(order, I) ==
  /\ order \in [1 .. Cardinality(I) -> I]
  /\ \A k, l \in 1 .. Cardinality(I) : k < l => order[k] < order[l]
  /\ \A k, l \in 1 .. Cardinality(I) : order[k] = order[l] => k = l
  /\ \A i \in I : \E k \in 1 .. Cardinality(I) : order[k] = i

LEMMA PickFacts ==
  ASSUME NEW list, NEW n \in Nat, NEW I \in SUBSET (1 .. n)
  PROVE  /\ IsFiniteSet(I) /\ Cardinality(I) \in Nat /\ Cardinality(I) <= n
         /\ \E order : /\ Places(order, I)
                       /\ Pick(list, I) = [k \in 1 .. Cardinality(I) |-> list[order[k]]]
<1> DEFINE R == Ascending(I)
           order == InOrder(I, R)
<1>1. IsFiniteSet(1 .. n) /\ Cardinality(1 .. n) = n
  BY FS_Interval
<1>2. IsFiniteSet(I) /\ Cardinality(I) \in Nat /\ Cardinality(I) <= n
  BY <1>1, FS_Subset, FS_CardinalityType
<1>3. \A i, j \in I : <<i, j>> \in R <=> i < j
  BY DEF Ascending
<1>4. \A i \in I : i \in Int
  OBVIOUS
<1> HIDE DEF R
<1>5. Orders(R, I)
  BY <1>3, <1>4 DEF Orders
<1>6. /\ order \in [1 .. Cardinality(I) -> I]
      /\ \A k, l \in 1 .. Cardinality(I) : k < l => <<order[k], order[l]>> \in R
      /\ \A k, l \in 1 .. Cardinality(I) : order[k] = order[l] => k = l
      /\ \A i \in I : \E k \in 1 .. Cardinality(I) : order[k] = i
  BY <1>2, <1>5, InOrderFacts
<1>7. Pick(list, I) = [k \in 1 .. Cardinality(I) |-> list[order[k]]]
  BY DEF Pick, R
<1> HIDE DEF order
<1>8. Places(order, I)
  BY <1>3, <1>6 DEF Places
<1> QED
  BY <1>2, <1>7, <1>8

\* Of the sets of a family over a finite set one is minimal.
LEMMA LeastSet ==
  ASSUME NEW S, IsFiniteSet(S), NEW T, T \subseteq SUBSET S, T # {}
  PROVE  \E x \in T : \A y \in T : ~(y \subseteq x /\ y # x)
<1>1. T \subseteq FiniteSubsetsOf(S)
  BY FS_Subset DEF FiniteSubsetsOf
<1>2. PICK x \in T : \A y \in T : ~(<<y, x>> \in StrictSubsetOrdering(S))
  BY <1>1, FS_StrictSubsetOrderingWellFounded, WFMin
<1> QED
  BY <1>2 DEF StrictSubsetOrdering

\* Of some numbers one is the least.
LEMMA LeastNumber ==
  ASSUME NEW T, T \subseteq Nat, T # {}
  PROVE  \E x \in T : \A y \in T : x <= y
<1>1. PICK t \in T : TRUE
  OBVIOUS
<1>2. IsFiniteSet(0 .. t)
  BY <1>1, FS_Interval
<1> DEFINE R == 0 .. t
           Below == {x \in SUBSET R : \E y \in T : y <= t /\ x = 0 .. y}
<1>3. R \in Below
  BY <1>1
<1>4. PICK x \in Below : \A y \in Below : ~(y \subseteq x /\ y # x)
  <2> HIDE DEF Below, R
  <2>1. IsFiniteSet(R) /\ Below \subseteq SUBSET R /\ Below # {}
    BY <1>2, <1>3 DEF Below, R
  <2> QED
    BY <2>1, LeastSet
<1>5. PICK m \in T : m <= t /\ x = 0 .. m
  BY <1>4
<1>6. ASSUME NEW y \in T, ~(m <= y) PROVE FALSE
  <2>1. y \in Nat /\ m \in Nat /\ t \in Nat
    BY <1>1
  <2>2. y < m /\ y <= t
    BY <1>5, <1>6, <2>1
  <2>3. 0 .. y \in Below
    BY <2>1, <2>2
  <2>4. 0 .. y \subseteq x /\ 0 .. y # x
    <3>1. m \in x /\ m \notin 0 .. y
      BY <1>5, <2>1, <2>2
    <3> QED
      BY <1>5, <2>1, <2>2, <3>1
  <2> QED
    BY <1>4, <2>3, <2>4
<1> QED
  BY <1>6

LEMMA RecursionExists ==
  ASSUME NEW V, NEW x \in V, NEW n \in Nat, NEW step \in [1 .. n -> [V -> V]]
  PROVE  \E f \in [0 .. n -> V] : f[0] = x /\ \A i \in 1 .. n : f[i] = step[i][f[i - 1]]
<1> DEFINE Good(m, f) == /\ f \in [0 .. m -> V] /\ f[0] = x
                         /\ \A i \in 1 .. m : f[i] = step[i][f[i - 1]]
           Bad == {m \in Nat : m <= n /\ ~(\E f : Good(m, f))}
<1>1. SUFFICES ASSUME Bad # {} PROVE FALSE
  <2>1. \E f : Good(n, f)
    BY <1>1
  <2> QED
    BY <2>1
<1>2. PICK m \in Bad : \A k \in Bad : m <= k
  <2>1. Bad \subseteq Nat
    OBVIOUS
  <2> HIDE DEF Bad
  <2> QED
    BY <1>1, <2>1, LeastNumber
<1>3. m \in Nat /\ m <= n /\ ~(\E f : Good(m, f))
  OBVIOUS
<1>4. m # 0
  <2>1. Good(0, [i \in 0 .. 0 |-> x])
    OBVIOUS
  <2> QED
    BY <1>3, <2>1
<1>5. PICK f : Good(m - 1, f)
  <2>1. m - 1 \in Nat /\ ~(m <= m - 1) /\ m - 1 <= n
    BY <1>3, <1>4
  <2>2. m - 1 \notin Bad
    BY <1>2, <2>1
  <2> QED
    BY <2>1, <2>2
<1> DEFINE g == [i \in 0 .. m |-> IF i = m THEN step[m][f[m - 1]] ELSE f[i]]
<1>6. \A i \in 0 .. m - 1 : f[i] \in V
  BY <1>5
<1>7. m - 1 \in 0 .. m - 1 /\ m \in 1 .. n /\ m \in 0 .. m
  BY <1>3, <1>4
<1>8. step[m][f[m - 1]] \in V
  BY <1>6, <1>7
<1>9. g \in [0 .. m -> V]
  <2>1. \A i \in 0 .. m : i # m => i \in 0 .. m - 1
    BY <1>3
  <2> QED
    BY <1>6, <1>8, <2>1
<1>10. g[0] = x
  BY <1>3, <1>4, <1>5
<1>11. \A i \in 1 .. m : g[i] = step[i][g[i - 1]]
  <2>1. SUFFICES ASSUME NEW i \in 1 .. m PROVE g[i] = step[i][g[i - 1]]
    OBVIOUS
  <2>2. i \in 0 .. m /\ i - 1 \in 0 .. m /\ i - 1 # m
    BY <1>3
  <2>3. g[i - 1] = f[i - 1]
    BY <2>2
  <2>4. CASE i = m
    BY <2>2, <2>3, <2>4
  <2>5. CASE i # m
    <3>1. i \in 1 .. m - 1
      BY <1>3, <2>5
    <3>2. f[i] = step[i][f[i - 1]]
      BY <1>5, <3>1
    <3> QED
      BY <2>2, <2>3, <2>5, <3>2
  <2> QED
    BY <2>4, <2>5
<1>12. Good(m, g)
  BY <1>9, <1>10, <1>11
<1> QED
  BY <1>3, <1>12

\* What holds at 0 and passes from one number to the next holds up to n.
LEMMA UpTo ==
  ASSUME NEW n \in Nat, NEW G, 0 \in G, \A i \in 1 .. n : i - 1 \in G => i \in G
  PROVE  0 .. n \subseteq G
<1> DEFINE Bad == {i \in 0 .. n : i \notin G}
<1>1. SUFFICES ASSUME Bad # {} PROVE FALSE
  OBVIOUS
<1>2. PICK m \in Bad : \A k \in Bad : m <= k
  <2>1. Bad \subseteq Nat
    OBVIOUS
  <2> HIDE DEF Bad
  <2> QED
    BY <1>1, <2>1, LeastNumber
<1>3. m \in 0 .. n /\ m \notin G /\ m # 0
  OBVIOUS
<1>4. m \in 1 .. n /\ m - 1 \in 0 .. n /\ ~(m <= m - 1)
  BY <1>3
<1>5. m - 1 \in G
  BY <1>2, <1>4
<1> QED
  BY <1>3, <1>4, <1>5

LEMMA ListFacts ==
  ASSUME NEW s, IsList(s)
  PROVE  /\ Len(s) \in Nat /\ DOMAIN s = 1 .. Len(s)
         /\ s = [i \in 1 .. Len(s) |-> s[i]]
         /\ Len(s) = 0 <=> s = <<>>
BY DEF IsList

LEMMA ListMade ==
  ASSUME NEW n \in Nat, NEW f, f = [i \in 1 .. n |-> f[i]]
  PROVE  IsList(f) /\ Len(f) = n /\ DOMAIN f = 1 .. n
<1>1. DOMAIN f = 1 .. n
  OBVIOUS
<1>2. \A i \in 1 .. n : f[i] \in Range(f)
  BY <1>1 DEF Range
<1>3. f \in [1 .. n -> Range(f)]
  BY <1>2
<1> DEFINE T == Range(f)
<1>4. f \in [1 .. n -> T]
  BY <1>3
<1> HIDE DEF T
<1>5. f \in Seq(T) /\ Len(f) = n
  BY <1>4
<1> QED
  BY <1>1, <1>5 DEF IsList, T

\* Any list of elements is one.
LEMMA ListOf ==
  ASSUME NEW T, NEW s \in Seq(T)
  PROVE  IsList(s)
<1>1. Len(s) \in Nat /\ s = [i \in 1 .. Len(s) |-> s[i]]
  OBVIOUS
<1> QED
  BY <1>1, ListMade

LEMMA NoElements == IsList(<<>>) /\ DOMAIN <<>> = {} /\ Range(<<>>) = {}
BY DEF IsList, Range

LEMMA ListConcat ==
  ASSUME NEW s, NEW t, IsList(s), IsList(t)
  PROVE  /\ IsList(s \o t)
         /\ Len(s \o t) = Len(s) + Len(t)
         /\ \A i \in 1 .. Len(s) : (s \o t)[i] = s[i]
         /\ \A i \in 1 .. Len(t) : (s \o t)[Len(s) + i] = t[i]
<1> DEFINE T == Range(s) \cup Range(t)
<1>1. \A i \in DOMAIN s : s[i] \in T
  BY DEF Range
<1>2. \A i \in DOMAIN t : t[i] \in T
  BY DEF Range
<1>3. /\ Len(s) \in Nat /\ DOMAIN s = 1 .. Len(s) /\ s = [i \in 1 .. Len(s) |-> s[i]]
      /\ Len(t) \in Nat /\ DOMAIN t = 1 .. Len(t) /\ t = [i \in 1 .. Len(t) |-> t[i]]
  BY ListFacts
<1> HIDE DEF T
<1>4. s \in Seq(T) /\ t \in Seq(T)
  <2>1. s \in [1 .. Len(s) -> T] /\ t \in [1 .. Len(t) -> T]
    BY <1>1, <1>2, <1>3
  <2> QED
    BY <1>3, <2>1
<1>5. s \o t \in Seq(T)
  BY <1>4
<1>6. IsList(s \o t)
  BY <1>5, ListOf
<1>7. /\ Len(s \o t) = Len(s) + Len(t)
      /\ \A i \in 1 .. Len(s) + Len(t) :
           (s \o t)[i] = IF i <= Len(s) THEN s[i] ELSE t[i - Len(s)]
  BY <1>4
<1>8. \A i \in 1 .. Len(s) : (s \o t)[i] = s[i]
  <2>1. \A i \in 1 .. Len(s) : i \in 1 .. Len(s) + Len(t) /\ i <= Len(s)
    BY <1>3
  <2> QED
    BY <1>7, <2>1
<1>9. \A i \in 1 .. Len(t) : (s \o t)[Len(s) + i] = t[i]
  <2>1. \A i \in 1 .. Len(t) : /\ Len(s) + i \in 1 .. Len(s) + Len(t)
                               /\ ~(Len(s) + i <= Len(s))
                               /\ (Len(s) + i) - Len(s) = i
    BY <1>3
  <2> QED
    BY <1>7, <2>1
<1> QED
  BY <1>6, <1>7, <1>8, <1>9

LEMMA ListSub ==
  ASSUME NEW s, IsList(s), NEW m, m \in 0 .. Len(s)
  PROVE  /\ IsList(SubSeq(s, 1, m)) /\ Len(SubSeq(s, 1, m)) = m
         /\ \A i \in 1 .. m : SubSeq(s, 1, m)[i] = s[i]
<1> DEFINE T == Range(s)
<1>1. s \in Seq(T) /\ Len(s) \in Nat
  BY ListFacts DEF IsList
<1> HIDE DEF T
<1>2. m \in Nat /\ m <= Len(s)
  BY <1>1
<1>3. SubSeq(s, 1, m) \in Seq(T) /\ Len(SubSeq(s, 1, m)) = m
  BY <1>1, <1>2
<1>4. \A i \in 1 .. m : SubSeq(s, 1, m)[i] = s[i]
  BY <1>1, <1>2
<1> QED
  BY <1>3, <1>4, ListOf

\* What a filter keeps.
LEMMA ListPick ==
  ASSUME NEW s, IsList(s), NEW I \in SUBSET (DOMAIN s)
  PROVE  /\ IsFiniteSet(I) /\ Cardinality(I) \in Nat /\ Cardinality(I) <= Len(s)
         /\ IsList(Pick(s, I)) /\ Len(Pick(s, I)) = Cardinality(I)
         /\ \E order : /\ Places(order, I)
                       /\ \A k \in 1 .. Cardinality(I) : Pick(s, I)[k] = s[order[k]]
<1>1. Len(s) \in Nat /\ DOMAIN s = 1 .. Len(s)
  BY ListFacts
<1> DEFINE n == Len(s)
<1> HIDE DEF n
<1>2. n \in Nat /\ I \in SUBSET (1 .. n)
  BY <1>1 DEF n
<1>3. /\ IsFiniteSet(I) /\ Cardinality(I) \in Nat /\ Cardinality(I) <= n
      /\ \E order : /\ Places(order, I)
                    /\ Pick(s, I) = [k \in 1 .. Cardinality(I) |-> s[order[k]]]
  BY <1>2, PickFacts
<1>4. PICK order : /\ Places(order, I)
                   /\ Pick(s, I) = [k \in 1 .. Cardinality(I) |-> s[order[k]]]
  BY <1>3
<1>5. \A k \in 1 .. Cardinality(I) : Pick(s, I)[k] = s[order[k]]
  BY <1>4
<1>6. Pick(s, I) = [k \in 1 .. Cardinality(I) |-> Pick(s, I)[k]]
  BY <1>4, <1>5
<1>7. IsList(Pick(s, I)) /\ Len(Pick(s, I)) = Cardinality(I)
  BY <1>3, <1>6, ListMade
<1> QED
  BY <1>3, <1>4, <1>5, <1>7 DEF n

LEMMA RangeConcat ==
  ASSUME NEW s, NEW t, IsList(s), IsList(t)
  PROVE  IsList(s \o t) /\ Range(s \o t) = Range(s) \cup Range(t)
<1>1. /\ Len(s) \in Nat /\ DOMAIN s = 1 .. Len(s) /\ Len(t) \in Nat /\ DOMAIN t = 1 .. Len(t)
  BY ListFacts
<1>2. /\ IsList(s \o t)
      /\ Len(s \o t) = Len(s) + Len(t)
      /\ \A i \in 1 .. Len(s) : (s \o t)[i] = s[i]
      /\ \A i \in 1 .. Len(t) : (s \o t)[Len(s) + i] = t[i]
  BY ListConcat
<1>3. DOMAIN (s \o t) = 1 .. Len(s) + Len(t)
  BY <1>2, ListFacts
<1> DEFINE r == s \o t
<1> HIDE DEF r
<1>4. ASSUME NEW p \in Range(r) PROVE p \in Range(s) \cup Range(t)
  <2>1. PICK i \in 1 .. Len(s) + Len(t) : p = r[i]
    BY <1>3 DEF Range, r
  <2>2. CASE i \in 1 .. Len(s)
    BY <1>1, <1>2, <2>1, <2>2 DEF Range, r
  <2>3. CASE i \notin 1 .. Len(s)
    <3>1. i - Len(s) \in 1 .. Len(t) /\ Len(s) + (i - Len(s)) = i
      BY <1>1, <2>3
    <3>2. p = t[i - Len(s)]
      BY <1>2, <2>1, <3>1 DEF r
    <3> QED
      BY <1>1, <3>1, <3>2 DEF Range
  <2> QED
    BY <2>2, <2>3
<1>5. ASSUME NEW i \in 1 .. Len(s) PROVE s[i] \in Range(r)
  <2>1. i \in DOMAIN r /\ r[i] = s[i]
    BY <1>1, <1>2, <1>3 DEF r
  <2> QED
    BY <2>1 DEF Range
<1>6. ASSUME NEW i \in 1 .. Len(t) PROVE t[i] \in Range(r)
  <2>1. Len(s) + i \in DOMAIN r /\ r[Len(s) + i] = t[i]
    BY <1>1, <1>2, <1>3 DEF r
  <2> QED
    BY <2>1 DEF Range
<1>7. Range(s) \subseteq Range(r) /\ Range(t) \subseteq Range(r)
  BY <1>1, <1>5, <1>6 DEF Range
<1> QED
  BY <1>2, <1>4, <1>7 DEF r

\* What FlattenSeq builds up from the left: the first m pieces joined.
Joins(pieces, G, m) ==
  G = [i \in 1 .. m |-> IF i = 1 THEN pieces[i] ELSE G[i - 1] \o pieces[i]]

LEMMA JoinsExists ==
  ASSUME NEW pieces, NEW n \in Nat
  PROVE  \E G : Joins(pieces, G, n)
<1> DEFINE Bad == {m \in Nat : ~(\E G : Joins(pieces, G, m))}
<1>1. SUFFICES ASSUME Bad # {} PROVE FALSE
  OBVIOUS
<1>2. PICK m \in Bad : \A k \in Bad : m <= k
  <2> HIDE DEF Bad
  <2>1. Bad \subseteq Nat
    BY DEF Bad
  <2> QED
    BY <1>1, <2>1, LeastNumber
<1>3. m \in Nat /\ ~(\E G : Joins(pieces, G, m))
  OBVIOUS
<1>4. m # 0
  <2>1. Joins(pieces, <<>>, 0)
    BY DEF Joins
  <2> QED
    BY <1>3, <2>1
<1>5. m - 1 \in Nat /\ m - 1 \notin Bad
  BY <1>2, <1>3, <1>4
<1>6. PICK G : Joins(pieces, G, m - 1)
  BY <1>5
<1> DEFINE h(i) == IF i = m THEN (IF m = 1 THEN pieces[m] ELSE G[m - 1] \o pieces[m])
                   ELSE G[i]
           H == [i \in 1 .. m |-> h(i)]
<1>7. \A i \in 1 .. m : H[i] = h(i)
  OBVIOUS
<1>8. \A i \in 1 .. m : h(i) = IF i = 1 THEN pieces[i] ELSE H[i - 1] \o pieces[i]
  <2>1. SUFFICES ASSUME NEW i \in 1 .. m
                 PROVE  h(i) = IF i = 1 THEN pieces[i] ELSE H[i - 1] \o pieces[i]
    OBVIOUS
  <2>2. i = 1 \/ (i - 1 \in 1 .. m /\ i - 1 # m /\ i # 1)
    BY <1>3, <1>4
  <2>3. i # 1 => H[i - 1] = G[i - 1]
    BY <1>7, <2>2
  <2> HIDE DEF H
  <2>4. CASE i = m
    BY <2>2, <2>3, <2>4
  <2>5. CASE i # m
    <3>1. i \in 1 .. m - 1
      BY <1>3, <2>5
    <3>2. G[i] = IF i = 1 THEN pieces[i] ELSE G[i - 1] \o pieces[i]
      BY <1>6, <3>1 DEF Joins
    <3> QED
      BY <2>2, <2>3, <2>5, <3>2
  <2> QED
    BY <2>4, <2>5
<1>9. Joins(pieces, H, m)
  <2> DEFINE r(i) == IF i = 1 THEN pieces[i] ELSE H[i - 1] \o pieces[i]
  <2>1. \A i \in 1 .. m : h(i) = r(i)
    BY <1>8
  <2>2. H = [i \in 1 .. m |-> h(i)]
    OBVIOUS
  <2> HIDE DEF H, h
  <2>3. H = [i \in 1 .. m |-> r(i)]
    BY <2>1, <2>2
  <2> QED
    BY <2>3 DEF Joins
<1> QED
  BY <1>3, <1>9

LEMMA FlattenFacts ==
  ASSUME NEW pieces, NEW n \in Nat \ {0}, n = Len(pieces)
  PROVE  \E G : /\ G[1] = pieces[1]
                /\ \A i \in 2 .. n : G[i] = G[i - 1] \o pieces[i]
                /\ FlattenSeq(pieces) = G[n]
<1> DEFINE G == CHOOSE G : Joins(pieces, G, n)
<1>1. Joins(pieces, G, n)
  BY JoinsExists
<1>2. FlattenSeq(pieces) = G[n]
  BY DEF FlattenSeq, Joins
<1> HIDE DEF G
<1>3. \A i \in 1 .. n : G[i] = IF i = 1 THEN pieces[i] ELSE G[i - 1] \o pieces[i]
  BY <1>1 DEF Joins
<1>4. G[1] = pieces[1]
  <2>1. 1 \in 1 .. n
    OBVIOUS
  <2> QED
    BY <1>3, <2>1
<1>5. \A i \in 2 .. n : G[i] = G[i - 1] \o pieces[i]
  <2>1. SUFFICES ASSUME NEW i \in 2 .. n PROVE G[i] = G[i - 1] \o pieces[i]
    OBVIOUS
  <2>2. i \in 1 .. n /\ i # 1
    OBVIOUS
  <2> QED
    BY <1>3, <2>2
<1> QED
  BY <1>2, <1>4, <1>5

-----------------------------------------------------------------------------
(***************************************************************************)
(* What is in a list, and the first and the last of its kind.              *)
(***************************************************************************)
LEMMA InRange ==
  ASSUME NEW s, NEW i \in DOMAIN s
  PROVE  s[i] \in Range(s)
BY DEF Range

LEMMA OfRange ==
  ASSUME NEW s, NEW e \in Range(s)
  PROVE  \E i \in DOMAIN s : s[i] = e
BY DEF Range

LEMMA PickRange ==
  ASSUME NEW s, IsList(s), NEW I \in SUBSET (DOMAIN s)
  PROVE  IsList(Pick(s, I)) /\ Range(Pick(s, I)) = {s[i] : i \in I}
<1> DEFINE p == Pick(s, I)
           n == Cardinality(I)
<1>1. /\ n \in Nat /\ IsList(p) /\ Len(p) = n
      /\ \E order : Places(order, I) /\ \A k \in 1 .. n : p[k] = s[order[k]]
  BY ListPick
<1>2. PICK order : Places(order, I) /\ \A k \in 1 .. n : p[k] = s[order[k]]
  BY <1>1
<1>3. DOMAIN p = 1 .. n
  BY <1>1, ListFacts
<1>4. order \in [1 .. n -> I] /\ \A i \in I : \E k \in 1 .. n : order[k] = i
  BY <1>2 DEF Places
<1> HIDE DEF p, n
<1>5. Range(p) \subseteq {s[i] : i \in I}
  BY <1>2, <1>3, <1>4 DEF Range
<1>6. {s[i] : i \in I} \subseteq Range(p)
  BY <1>2, <1>3, <1>4 DEF Range
<1> QED
  BY <1>1, <1>5, <1>6 DEF p

\* What a filter keeps comes from different places.
LEMMA PickPlaces ==
  ASSUME NEW s, IsList(s), NEW I \in SUBSET (DOMAIN s)
  PROVE  \E from : \A k \in DOMAIN Pick(s, I) :
                      /\ from[k] \in I /\ Pick(s, I)[k] = s[from[k]]
                      /\ \A l \in DOMAIN Pick(s, I) : from[k] = from[l] => k = l
<1> DEFINE p == Pick(s, I)
           n == Cardinality(I)
<1>1. /\ n \in Nat /\ IsList(p) /\ Len(p) = n
      /\ \E order : Places(order, I) /\ \A k \in 1 .. n : p[k] = s[order[k]]
  BY ListPick
<1>2. PICK order : Places(order, I) /\ \A k \in 1 .. n : p[k] = s[order[k]]
  BY <1>1
<1>3. DOMAIN p = 1 .. n
  BY <1>1, ListFacts
<1>4. /\ order \in [1 .. n -> I]
      /\ \A k, l \in 1 .. n : order[k] = order[l] => k = l
  BY <1>2 DEF Places
<1> HIDE DEF p, n
<1>5. \A k \in DOMAIN p : /\ order[k] \in I /\ p[k] = s[order[k]]
                          /\ \A l \in DOMAIN p : order[k] = order[l] => k = l
  BY <1>2, <1>3, <1>4
<1> QED
  BY <1>5 DEF p

LEMMA SameLength ==
  ASSUME NEW s, IsList(s), NEW f, f = [i \in DOMAIN s |-> f[i]]
  PROVE  IsList(f) /\ DOMAIN f = DOMAIN s
<1>1. Len(s) \in Nat /\ DOMAIN s = 1 .. Len(s)
  BY ListFacts
<1> QED
  BY <1>1, ListMade

LEMMA GreatestNumber ==
  ASSUME NEW n \in Nat, NEW T, T \subseteq 0 .. n, T # {}
  PROVE  \E x \in T : \A y \in T : y <= x
<1> DEFINE U == {n - t : t \in T}
<1>1. U \subseteq Nat /\ U # {}
  <2>1. \A t \in T : n - t \in Nat
    OBVIOUS
  <2> QED
    BY <2>1
<1> HIDE DEF U
<1>2. PICK u \in U : \A v \in U : u <= v
  BY <1>1, LeastNumber
<1>3. PICK x \in T : u = n - x
  BY DEF U
<1>4. ASSUME NEW y \in T PROVE y <= x
  <2>1. n - y \in U
    BY DEF U
  <2>2. n - x <= n - y /\ x \in 0 .. n /\ y \in 0 .. n
    BY <1>2, <1>3, <2>1
  <2> QED
    BY <2>2
<1> QED
  BY <1>4

LEMMA FirstOne ==
  ASSUME NEW keys, IsList(keys), NEW i \in DOMAIN keys
  PROVE  \E j \in Firsts(keys) : keys[j] = keys[i]
<1> DEFINE T == {j \in DOMAIN keys : keys[j] = keys[i]}
<1>1. DOMAIN keys \subseteq Nat
  BY ListFacts
<1>2. T \subseteq Nat /\ T # {}
  BY <1>1
<1> HIDE DEF T
<1>3. PICK j \in T : \A k \in T : j <= k
  BY <1>2, LeastNumber
<1>4. j \in DOMAIN keys /\ keys[j] = keys[i]
  BY DEF T
<1>5. \A k \in DOMAIN keys : k < j => keys[k] # keys[j]
  <2>1. SUFFICES ASSUME NEW k \in DOMAIN keys, k < j, keys[k] = keys[j] PROVE FALSE
    OBVIOUS
  <2>2. k \in T
    BY <1>4, <2>1 DEF T
  <2>3. j <= k /\ j \in Nat /\ k \in Nat
    BY <1>1, <1>3, <1>4, <2>2
  <2> QED
    BY <2>1, <2>3
<1> QED
  BY <1>4, <1>5 DEF Firsts

LEMMA LastOne ==
  ASSUME NEW keys, IsList(keys), NEW i \in DOMAIN keys
  PROVE  \E j \in Lasts(keys) : keys[j] = keys[i]
<1> DEFINE T == {j \in DOMAIN keys : keys[j] = keys[i]}
           n == Len(keys)
<1>1. n \in Nat /\ DOMAIN keys = 1 .. n
  BY ListFacts
<1>2. T \subseteq 0 .. n /\ T # {}
  BY <1>1
<1> HIDE DEF T, n
<1>3. PICK j \in T : \A k \in T : k <= j
  BY <1>1, <1>2, GreatestNumber
<1>4. j \in DOMAIN keys /\ keys[j] = keys[i]
  BY DEF T
<1>5. \A k \in DOMAIN keys : k > j => keys[k] # keys[j]
  <2>1. SUFFICES ASSUME NEW k \in DOMAIN keys, k > j, keys[k] = keys[j] PROVE FALSE
    OBVIOUS
  <2>2. k \in T
    BY <1>4, <2>1 DEF T
  <2>3. k <= j /\ j \in Nat /\ k \in Nat
    BY <1>1, <1>3, <1>4, <2>2
  <2> QED
    BY <2>1, <2>3
<1> QED
  BY <1>4, <1>5 DEF Lasts

\* The keys in the order of their first places: each once.
LEMMA FirstOfEachFacts ==
  ASSUME NEW keys, IsList(keys)
  PROVE  /\ IsList(FirstOfEach(keys))
         /\ Range(FirstOfEach(keys)) = Range(keys)
         /\ \A k, l \in DOMAIN FirstOfEach(keys) :
              FirstOfEach(keys)[k] = FirstOfEach(keys)[l] => k = l
<1> DEFINE I == Firsts(keys)
           p == FirstOfEach(keys)
<1>1. I \in SUBSET (DOMAIN keys) /\ p = Pick(keys, I)
  BY DEF Firsts, FirstOfEach
<1>2. \A i, j \in I : keys[i] = keys[j] => i = j
  <2>1. SUFFICES ASSUME NEW i \in I, NEW j \in I, keys[i] = keys[j], i # j PROVE FALSE
    OBVIOUS
  <2>2. i \in Nat /\ j \in Nat /\ i \in DOMAIN keys /\ j \in DOMAIN keys
    BY <1>1, ListFacts
  <2>3. i < j \/ j < i
    BY <2>1, <2>2
  <2> QED
    BY <2>1, <2>2, <2>3 DEF Firsts
<1>3. \A i \in DOMAIN keys : \E j \in I : keys[j] = keys[i]
  BY FirstOne
<1> HIDE DEF I, p
<1>4. IsList(p) /\ Range(p) = {keys[i] : i \in I}
  BY <1>1, PickRange
<1>5. PICK from : \A k \in DOMAIN p : /\ from[k] \in I /\ p[k] = keys[from[k]]
                                      /\ \A l \in DOMAIN p : from[k] = from[l] => k = l
  BY <1>1, PickPlaces
<1>6. Range(p) = Range(keys)
  BY <1>1, <1>3, <1>4 DEF Range
<1>7. \A k, l \in DOMAIN p : p[k] = p[l] => k = l
  BY <1>2, <1>5
<1> QED
  BY <1>4, <1>6, <1>7 DEF p

-----------------------------------------------------------------------------
(***************************************************************************)
(* Inserting into a table.                                                 *)
(***************************************************************************)
LEMMA KeysOfRange ==
  ASSUME NEW table
  PROVE  Keys(table) = {row.key : row \in Range(table)}
BY DEF Keys, Range

LEMMA KeysConcat ==
  ASSUME NEW s, NEW t, IsList(s), IsList(t)
  PROVE  Keys(s \o t) = Keys(s) \cup Keys(t)
BY RangeConcat, KeysOfRange

LEMMA KeyListFacts ==
  ASSUME NEW rows, IsList(rows)
  PROVE  /\ IsList(KeyList(rows)) /\ DOMAIN KeyList(rows) = DOMAIN rows
         /\ \A i \in DOMAIN rows : KeyList(rows)[i] = rows[i].key
<1>1. KeyList(rows) = [i \in DOMAIN rows |-> KeyList(rows)[i]]
  BY DEF KeyList
<1>2. IsList(KeyList(rows)) /\ DOMAIN KeyList(rows) = DOMAIN rows
  BY <1>1, SameLength
<1> QED
  BY <1>2 DEF KeyList

\* Every key is in the table then, and every row that was there.
LEMMA IgnoreFacts ==
  ASSUME NEW table, IsList(table), NEW rows, IsList(rows)
  PROVE  /\ IsList(InsertOrIgnore(table, rows))
         /\ Keys(InsertOrIgnore(table, rows)) = Keys(table) \cup Keys(rows)
<1> DEFINE keys == KeyList(rows)
           I == {i \in Firsts(keys) : rows[i].key \notin Keys(table)}
           p == Pick(rows, I)
<1>1. IsList(keys) /\ DOMAIN keys = DOMAIN rows /\ \A i \in DOMAIN rows : keys[i] = rows[i].key
  BY KeyListFacts
<1> HIDE DEF keys
<1>2. I \in SUBSET (DOMAIN rows)
  BY <1>1 DEF Firsts
<1>3. InsertOrIgnore(table, rows) = table \o p
  BY DEF InsertOrIgnore, keys
<1>4. \A k \in Keys(rows) : k \in Keys(table) \/ \E i \in I : rows[i].key = k
  <2>1. SUFFICES ASSUME NEW k \in Keys(rows), k \notin Keys(table)
                 PROVE  \E i \in I : rows[i].key = k
    OBVIOUS
  <2>2. PICK j \in DOMAIN rows : rows[j].key = k
    BY DEF Keys
  <2>3. PICK i \in Firsts(keys) : keys[i] = keys[j]
    BY <1>1, FirstOne
  <2>4. i \in DOMAIN rows /\ rows[i].key = k
    BY <1>1, <2>2, <2>3 DEF Firsts
  <2> QED
    BY <2>1, <2>3, <2>4
<1> HIDE DEF I
<1>5. IsList(p) /\ Range(p) = {rows[i] : i \in I}
  BY <1>2, PickRange
<1> HIDE DEF p
<1>6. IsList(table \o p) /\ Keys(table \o p) = Keys(table) \cup Keys(p)
  BY <1>5, KeysConcat, RangeConcat
<1>7. Keys(p) = {rows[i].key : i \in I}
  BY <1>5, KeysOfRange
<1>8. {rows[i].key : i \in I} \subseteq Keys(rows)
  BY <1>2 DEF Keys
<1> QED
  BY <1>3, <1>4, <1>6, <1>7, <1>8

\* Every key is in the table then, and of the rows with one key the last;
\* hence a row that stands alone for its key.
LEMMA ReplaceFacts ==
  ASSUME NEW table, IsList(table), NEW rows, IsList(rows)
  PROVE  /\ IsList(InsertOrReplace(table, rows))
         /\ Keys(InsertOrReplace(table, rows)) = Keys(table) \cup Keys(rows)
         /\ \A i \in DOMAIN rows :
              (\A j \in DOMAIN rows : rows[j].key = rows[i].key => rows[j] = rows[i])
                => rows[i] \in Range(InsertOrReplace(table, rows))
<1> DEFINE keys == KeyList(rows)
           I == {i \in DOMAIN table : table[i].key \notin Keys(rows)}
           J == Lasts(keys)
           p == Pick(table, I)
           q == Pick(rows, J)
<1>1. IsList(keys) /\ DOMAIN keys = DOMAIN rows /\ \A i \in DOMAIN rows : keys[i] = rows[i].key
  BY KeyListFacts
<1> HIDE DEF keys
<1>2. I \in SUBSET (DOMAIN table) /\ J \in SUBSET (DOMAIN rows)
  BY <1>1 DEF Lasts
<1>3. InsertOrReplace(table, rows) = p \o q
  BY DEF InsertOrReplace, keys
<1>4. \A j \in DOMAIN rows : \E i \in J : rows[i].key = rows[j].key
  <2>1. SUFFICES ASSUME NEW j \in DOMAIN rows PROVE \E i \in J : rows[i].key = rows[j].key
    OBVIOUS
  <2>2. PICK i \in J : keys[i] = keys[j]
    BY <1>1, LastOne
  <2> QED
    BY <1>1, <1>2, <2>2
<1>5. \A k \in Keys(table) : k \in Keys(rows) \/ \E i \in I : table[i].key = k
  BY DEF Keys
<1> HIDE DEF I, J
<1>6. /\ IsList(p) /\ Range(p) = {table[i] : i \in I}
      /\ IsList(q) /\ Range(q) = {rows[i] : i \in J}
  BY <1>2, PickRange
<1> HIDE DEF p, q
<1>7. IsList(p \o q) /\ Range(p \o q) = Range(p) \cup Range(q)
  BY <1>6, RangeConcat
<1>8. Keys(p \o q) = Keys(p) \cup Keys(q)
  BY <1>6, KeysConcat
<1>9. Keys(p) = {table[i].key : i \in I} /\ Keys(q) = {rows[i].key : i \in J}
  BY <1>6, KeysOfRange
<1>10. Keys(q) = Keys(rows)
  BY <1>2, <1>4, <1>9 DEF Keys
<1>11. Keys(p) \subseteq Keys(table) /\ Keys(table) \subseteq Keys(rows) \cup Keys(p)
  BY <1>2, <1>5, <1>9 DEF Keys
<1>12. ASSUME NEW i \in DOMAIN rows,
              \A j \in DOMAIN rows : rows[j].key = rows[i].key => rows[j] = rows[i]
       PROVE  rows[i] \in Range(p \o q)
  <2>1. PICK j \in J : rows[j].key = rows[i].key
    BY <1>4
  <2>2. rows[j] = rows[i]
    BY <1>2, <1>12, <2>1
  <2> QED
    BY <1>6, <1>7, <2>2
<1> QED
  BY <1>3, <1>7, <1>8, <1>10, <1>11, <1>12

-----------------------------------------------------------------------------
(***************************************************************************)
(* The steps of a build.                                                   *)
(***************************************************************************)
\* The tables of a database.
AreTables(tables) ==
  /\ DOMAIN tables = TableNames
  /\ \A t \in TableNames : IsList(tables[t])

\* No row is lost from one to the other.
KeysKept(tables, later) == \A t \in TableNames : Keys(tables[t]) \subseteq Keys(later[t])

\* All that the resources hold is there.
Complete(tables, r) ==
  \A t \in JsonTables : {r[t][i].surface : i \in DOMAIN r[t]} \subseteq Keys(tables[t])

LEMMA TableNamesAre ==
  TableNames = {"syllables", "words", "units", "abbreviations", "foreign", "phrases", "ocr"}
BY DEF TableNames

LEMMA RowsMade ==
  ASSUME NEW entries, IsList(entries), NEW rows,
         rows = [i \in DOMAIN entries |-> rows[i]],
         \A i \in DOMAIN entries : rows[i].key = entries[i].surface
  PROVE  IsList(rows) /\ Keys(rows) = {entries[i].surface : i \in DOMAIN entries}
<1>1. IsList(rows) /\ DOMAIN rows = DOMAIN entries
  BY SameLength
<1> QED
  BY <1>1 DEF Keys

LEMMA WordRows ==
  ASSUME NEW entries, IsList(entries)
  PROVE  /\ IsList(Rows(WordRow, entries))
         /\ Keys(Rows(WordRow, entries)) = {entries[i].surface : i \in DOMAIN entries}
<1> DEFINE rows == Rows(WordRow, entries)
<1>1. rows = [i \in DOMAIN entries |-> WordRow(entries[i])]
  BY DEF Rows
<1>2. \A i \in DOMAIN entries : WordRow(entries[i]).key = entries[i].surface
  BY DEF WordRow, Row
<1> HIDE DEF rows
<1>3. /\ rows = [i \in DOMAIN entries |-> rows[i]]
      /\ \A i \in DOMAIN entries : rows[i].key = entries[i].surface
  BY <1>1, <1>2
<1> QED
  BY <1>3, RowsMade DEF rows

LEMMA UnitRows ==
  ASSUME NEW entries, IsList(entries)
  PROVE  /\ IsList(Rows(UnitRow, entries))
         /\ Keys(Rows(UnitRow, entries)) = {entries[i].surface : i \in DOMAIN entries}
<1> DEFINE rows == Rows(UnitRow, entries)
<1>1. rows = [i \in DOMAIN entries |-> UnitRow(entries[i])]
  BY DEF Rows
<1>2. \A i \in DOMAIN entries : UnitRow(entries[i]).key = entries[i].surface
  BY DEF UnitRow, Row
<1> HIDE DEF rows
<1>3. /\ rows = [i \in DOMAIN entries |-> rows[i]]
      /\ \A i \in DOMAIN entries : rows[i].key = entries[i].surface
  BY <1>1, <1>2
<1> QED
  BY <1>3, RowsMade DEF rows

LEMMA PhraseRows ==
  ASSUME NEW entries, IsList(entries)
  PROVE  /\ IsList(Rows(PhraseRow, entries))
         /\ Keys(Rows(PhraseRow, entries)) = {entries[i].surface : i \in DOMAIN entries}
<1> DEFINE rows == Rows(PhraseRow, entries)
<1>1. rows = [i \in DOMAIN entries |-> PhraseRow(entries[i])]
  BY DEF Rows
<1>2. \A i \in DOMAIN entries : PhraseRow(entries[i]).key = entries[i].surface
  BY DEF PhraseRow, Row
<1> HIDE DEF rows
<1>3. /\ rows = [i \in DOMAIN entries |-> rows[i]]
      /\ \A i \in DOMAIN entries : rows[i].key = entries[i].surface
  BY <1>1, <1>2
<1> QED
  BY <1>3, RowsMade DEF rows

LEMMA ListRows ==
  ASSUME NEW entries, IsList(entries)
  PROVE  /\ IsList(Rows(ListRow, entries))
         /\ Keys(Rows(ListRow, entries)) = {entries[i].surface : i \in DOMAIN entries}
<1> DEFINE rows == Rows(ListRow, entries)
<1>1. rows = [i \in DOMAIN entries |-> ListRow(entries[i])]
  BY DEF Rows
<1>2. \A i \in DOMAIN entries : ListRow(entries[i]).key = entries[i].surface
  BY DEF ListRow
<1> HIDE DEF rows
<1>3. /\ rows = [i \in DOMAIN entries |-> rows[i]]
      /\ \A i \in DOMAIN entries : rows[i].key = entries[i].surface
  BY <1>1, <1>2
<1> QED
  BY <1>3, RowsMade DEF rows

LEMMA JsonPopulates ==
  ASSUME NEW tables, AreTables(tables), NEW r \in ResourceVersions
  PROVE  /\ AreTables(_populate_from_json(tables, r))
         /\ KeysKept(tables, _populate_from_json(tables, r))
         /\ Complete(_populate_from_json(tables, r), r)
<1> DEFINE W == Rows(WordRow, r.words)
           U == Rows(UnitRow, r.units)
           A == Rows(ListRow, r.abbreviations)
           F == Rows(LAMBDA word : [key |-> word], r.foreign)
           P == Rows(PhraseRow, r.phrases)
           O == Rows(ListRow, r.ocr)
           later == _populate_from_json(tables, r)
           S(list) == {list[i].surface : i \in DOMAIN list}
<1>1. /\ IsList(r.words) /\ IsList(r.units) /\ IsList(r.abbreviations)
      /\ IsList(r.phrases) /\ IsList(r.ocr) /\ IsList(r.foreign)
  BY ResourcesAssumption DEF JsonTables
<1>2. F = [i \in DOMAIN r.foreign |-> [key |-> r.foreign[i]]]
  BY DEF Rows
<1> HIDE DEF F
<1>3. IsList(F)
  <2>1. F = [i \in DOMAIN r.foreign |-> F[i]]
    BY <1>2
  <2> QED
    BY <1>1, <2>1, SameLength
<1>4. later = [tables EXCEPT
                 !.words = InsertOrIgnore(@, W), !.units = InsertOrIgnore(@, U),
                 !.abbreviations = InsertOrIgnore(@, A), !.foreign = InsertOrIgnore(@, F),
                 !.phrases = InsertOrIgnore(@, P), !.ocr = InsertOrIgnore(@, O)]
  BY DEF _populate_from_json, F
<1> HIDE DEF W, U, A, P, O, later
<1>5. /\ IsList(W) /\ Keys(W) = S(r.words) /\ IsList(U) /\ Keys(U) = S(r.units)
      /\ IsList(A) /\ Keys(A) = S(r.abbreviations) /\ IsList(P) /\ Keys(P) = S(r.phrases)
      /\ IsList(O) /\ Keys(O) = S(r.ocr)
  BY <1>1, WordRows, UnitRows, ListRows, PhraseRows DEF W, U, A, P, O
<1>6. /\ DOMAIN later = TableNames
      /\ later.words = InsertOrIgnore(tables.words, W)
      /\ later.units = InsertOrIgnore(tables.units, U)
      /\ later.abbreviations = InsertOrIgnore(tables.abbreviations, A)
      /\ later.foreign = InsertOrIgnore(tables.foreign, F)
      /\ later.phrases = InsertOrIgnore(tables.phrases, P)
      /\ later.ocr = InsertOrIgnore(tables.ocr, O)
      /\ later.syllables = tables.syllables
  BY <1>4, TableNamesAre DEF AreTables
<1>7. /\ IsList(tables.words) /\ IsList(tables.units) /\ IsList(tables.abbreviations)
      /\ IsList(tables.foreign) /\ IsList(tables.phrases) /\ IsList(tables.ocr)
      /\ IsList(tables.syllables)
  BY TableNamesAre DEF AreTables
<1>8. /\ IsList(later.words) /\ Keys(later.words) = Keys(tables.words) \cup S(r.words)
      /\ IsList(later.units) /\ Keys(later.units) = Keys(tables.units) \cup S(r.units)
      /\ IsList(later.abbreviations)
      /\ Keys(later.abbreviations) = Keys(tables.abbreviations) \cup S(r.abbreviations)
      /\ IsList(later.foreign) /\ Keys(later.foreign) = Keys(tables.foreign) \cup Keys(F)
      /\ IsList(later.phrases) /\ Keys(later.phrases) = Keys(tables.phrases) \cup S(r.phrases)
      /\ IsList(later.ocr) /\ Keys(later.ocr) = Keys(tables.ocr) \cup S(r.ocr)
  BY <1>3, <1>5, <1>6, <1>7, IgnoreFacts
<1>9. AreTables(later)
  BY <1>6, <1>7, <1>8, TableNamesAre DEF AreTables
<1>10. KeysKept(tables, later)
  BY <1>6, <1>8, TableNamesAre DEF KeysKept
<1>11. Complete(later, r)
  <2>1. SUFFICES ASSUME NEW t \in JsonTables PROVE S(r[t]) \subseteq Keys(later[t])
    BY DEF Complete
  <2> QED
    BY <1>8 DEF JsonTables
<1> QED
  BY <1>9, <1>10, <1>11 DEF later

\* The lines of a list of trusted words: usable ones, each with a surface of
\* its own.
AreLines(lines) ==
  /\ IsList(lines)
  /\ \A i \in DOMAIN lines :
       /\ IsList(lines[i].surface) /\ lines[i].surface # <<>> /\ lines[i].noTone # <<>>
       /\ \A j \in DOMAIN lines : lines[j].surface = lines[i].surface => j = i

HasTrusted(tables, lines) ==
  \A e \in Range(lines) :
    /\ e.kind = "phrase" => e.surface \in Keys(tables.phrases)
    /\ e.kind # "phrase" => TrustedRow(e) \in Range(tables.words)

LEMMA TrustedPopulates ==
  ASSUME NEW tables, AreTables(tables), NEW lines, AreLines(lines)
  PROVE  /\ AreTables(_populate_trusted_jsonl(tables, lines))
         /\ KeysKept(tables, _populate_trusted_jsonl(tables, lines))
         /\ HasTrusted(_populate_trusted_jsonl(tables, lines), lines)
<1> DEFINE usable == {i \in DOMAIN lines : lines[i].surface # <<>> /\ lines[i].noTone # <<>>}
           phrases == {i \in usable : lines[i].kind = "phrase"}
           words == usable \ phrases
           p == Pick(lines, words)
           q == Pick(lines, phrases)
           W == Rows(TrustedRow, p)
           P == Rows(TrustedPhraseRow, q)
           later == _populate_trusted_jsonl(tables, lines)
<1>1. /\ words \in SUBSET (DOMAIN lines) /\ phrases \in SUBSET (DOMAIN lines)
      /\ \A i \in DOMAIN lines : IF lines[i].kind = "phrase" THEN i \in phrases ELSE i \in words
  BY DEF AreLines
<1>2. later = [tables EXCEPT !.words = InsertOrReplace(@, W), !.phrases = InsertOrIgnore(@, P)]
  BY DEF _populate_trusted_jsonl
<1>3. W = [k \in DOMAIN p |-> TrustedRow(p[k])] /\ P = [k \in DOMAIN q |-> TrustedPhraseRow(q[k])]
  BY DEF Rows
<1> HIDE DEF words, phrases, W, P, later
<1>4. /\ IsList(p) /\ Range(p) = {lines[i] : i \in words}
      /\ IsList(q) /\ Range(q) = {lines[i] : i \in phrases}
  BY <1>1, PickRange DEF AreLines
<1> HIDE DEF p, q
<1>5. /\ IsList(W) /\ DOMAIN W = DOMAIN p /\ IsList(P) /\ DOMAIN P = DOMAIN q
      /\ \A k \in DOMAIN p : W[k] = TrustedRow(p[k])
      /\ \A k \in DOMAIN q : P[k] = TrustedPhraseRow(q[k])
  <2>1. W = [k \in DOMAIN p |-> W[k]] /\ P = [k \in DOMAIN q |-> P[k]]
    BY <1>3
  <2>2. IsList(W) /\ DOMAIN W = DOMAIN p /\ IsList(P) /\ DOMAIN P = DOMAIN q
    BY <1>4, <2>1, SameLength
  <2> QED
    BY <1>3, <2>2
<1>6. /\ \A e : TrustedRow(e).key = e.surface
      /\ \A e : TrustedPhraseRow(e).key = e.surface
  BY DEF TrustedRow, TrustedPhraseRow
<1>7. /\ DOMAIN later = TableNames
      /\ later.words = InsertOrReplace(tables.words, W)
      /\ later.phrases = InsertOrIgnore(tables.phrases, P)
      /\ \A t \in TableNames : t # "words" /\ t # "phrases" => later[t] = tables[t]
  BY <1>2, TableNamesAre DEF AreTables
<1>8. IsList(tables.words) /\ IsList(tables.phrases)
  BY TableNamesAre DEF AreTables
<1>9. /\ IsList(later.words) /\ Keys(later.words) = Keys(tables.words) \cup Keys(W)
      /\ \A i \in DOMAIN W : (\A j \in DOMAIN W : W[j].key = W[i].key => W[j] = W[i])
                                => W[i] \in Range(later.words)
  BY <1>5, <1>7, <1>8, ReplaceFacts
<1>10. IsList(later.phrases) /\ Keys(later.phrases) = Keys(tables.phrases) \cup Keys(P)
  BY <1>5, <1>7, <1>8, IgnoreFacts
<1>11. AreTables(later)
  BY <1>7, <1>9, <1>10 DEF AreTables
<1>12. KeysKept(tables, later)
  BY <1>7, <1>9, <1>10 DEF KeysKept
<1>13. \A i \in DOMAIN W, j \in DOMAIN W : W[j].key = W[i].key => W[j] = W[i]
  <2>1. SUFFICES ASSUME NEW i \in DOMAIN W, NEW j \in DOMAIN W, W[j].key = W[i].key
                 PROVE  W[j] = W[i]
    OBVIOUS
  <2>2. p[i] \in Range(p) /\ p[j] \in Range(p) /\ p[i].surface = p[j].surface
    BY <1>5, <1>6, <2>1 DEF Range
  <2>3. PICK m \in words, n \in words : p[i] = lines[m] /\ p[j] = lines[n]
    BY <1>4, <2>2
  <2>4. m = n
    BY <1>1, <2>2, <2>3 DEF AreLines
  <2> QED
    BY <1>5, <2>1, <2>3, <2>4
<1>14. HasTrusted(later, lines)
  <2>1. SUFFICES ASSUME NEW e \in Range(lines)
                 PROVE  /\ e.kind = "phrase" => e.surface \in Keys(later.phrases)
                        /\ e.kind # "phrase" => TrustedRow(e) \in Range(later.words)
    BY DEF HasTrusted
  <2>2. PICK i \in DOMAIN lines : lines[i] = e
    BY DEF Range
  <2>3. CASE e.kind = "phrase"
    <3>1. e \in Range(q)
      BY <1>1, <1>4, <2>2, <2>3
    <3>2. PICK k \in DOMAIN q : q[k] = e
      BY <3>1 DEF Range
    <3>3. e.surface \in Keys(P)
      BY <1>5, <1>6, <3>2 DEF Keys
    <3> QED
      BY <1>10, <2>3, <3>3
  <2>4. CASE e.kind # "phrase"
    <3>1. e \in Range(p)
      BY <1>1, <1>4, <2>2, <2>4
    <3>2. PICK k \in DOMAIN p : p[k] = e
      BY <3>1 DEF Range
    <3>3. W[k] = TrustedRow(e) /\ k \in DOMAIN W
      BY <1>5, <3>2
    <3> QED
      BY <1>9, <1>13, <2>4, <3>3
  <2> QED
    BY <2>3, <2>4
<1> QED
  BY <1>11, <1>12, <1>14 DEF later

LEMMA FlattenRange ==
  ASSUME NEW pieces, IsList(pieces), \A i \in DOMAIN pieces : IsList(pieces[i])
  PROVE  /\ IsList(FlattenSeq(pieces))
         /\ Range(FlattenSeq(pieces)) = UNION {Range(pieces[i]) : i \in DOMAIN pieces}
<1> DEFINE n == Len(pieces)
<1>1. n \in Nat /\ DOMAIN pieces = 1 .. n /\ (n = 0 => pieces = <<>>)
  BY ListFacts
<1>2. CASE n = 0
  <2>1. FlattenSeq(pieces) = <<>> /\ DOMAIN pieces = {}
    BY <1>1, <1>2 DEF FlattenSeq
  <2> QED
    BY <2>1, NoElements
<1>3. CASE n # 0
  <2>1. PICK G : /\ G[1] = pieces[1]
                 /\ \A i \in 2 .. n : G[i] = G[i - 1] \o pieces[i]
                 /\ FlattenSeq(pieces) = G[n]
    BY <1>1, <1>3, FlattenFacts
  <2> HIDE DEF n
  <2> DEFINE Upto(m) == UNION {Range(pieces[i]) : i \in 1 .. m}
             Good == {m \in 0 .. n : m = 0 \/ (IsList(G[m]) /\ Range(G[m]) = Upto(m))}
  <2>2. 0 \in Good
    BY <1>1
  <2>3. \A m \in 1 .. n : m - 1 \in Good => m \in Good
    <3> SUFFICES ASSUME NEW m \in 1 .. n, m - 1 \in Good PROVE m \in Good
      OBVIOUS
    <3> HIDE DEF Upto
    <3>0. m \in 0 .. n
      BY <1>1
    <3>1. m - 1 = 0 \/ (IsList(G[m - 1]) /\ Range(G[m - 1]) = Upto(m - 1))
      OBVIOUS
    <3> USE DEF Upto
    <3> HIDE DEF Good
    <3>2. IsList(pieces[m])
      BY <1>1
    <3>3. CASE m = 1
      <4>1. 1 .. m = {1}
        BY <3>3
      <4>2. Upto(m) = Range(pieces[1])
        BY <4>1
      <4> HIDE DEF Upto
      <4> QED
        BY <2>1, <3>0, <3>2, <3>3, <4>2 DEF Good
    <3>4. CASE m # 1
      <4>1. m \in 2 .. n /\ m - 1 # 0
        BY <1>1, <3>4
      <4>2. G[m] = G[m - 1] \o pieces[m]
        BY <2>1, <4>1
      <4>3. 1 .. m = 1 .. (m - 1) \cup {m}
        BY <1>1
      <4>4. Upto(m) = Upto(m - 1) \cup Range(pieces[m])
        BY <4>3
      <4> HIDE DEF Upto
      <4>5. IsList(G[m - 1]) /\ Range(G[m - 1]) = Upto(m - 1)
        BY <3>1, <4>1
      <4> QED
        BY <3>0, <3>2, <4>2, <4>4, <4>5, RangeConcat DEF Good
    <3> QED
      BY <3>3, <3>4
  <2>4. n \in Good
    <3> HIDE DEF Good
    <3>1. 0 .. n \subseteq Good
      BY <1>1, <2>2, <2>3, UpTo
    <3> QED
      BY <1>1, <3>1
  <2> QED
    BY <1>1, <1>3, <2>1, <2>4
<1> QED
  BY <1>2, <1>3

LEMMA StripIsList ==
  ASSUME NEW text, IsList(text)
  PROVE  IsList(Strip(text))
<1> DEFINE solid == {i \in DOMAIN text : text[i] \notin Whitespace}
           a == CHOOSE i \in solid : \A j \in solid : i <= j
           b == CHOOSE i \in solid : \A j \in solid : j <= i
           n == Len(text)
<1>1. n \in Nat /\ DOMAIN text = 1 .. n
  BY ListFacts
<1>2. Strip(text) = IF solid = {} THEN <<>> ELSE SubSeq(text, a, b)
  BY DEF Strip
<1>3. CASE solid = {}
  BY <1>2, <1>3, NoElements
<1>4. CASE solid # {}
  <2>1. solid \subseteq 0 .. n /\ solid \subseteq Nat /\ solid \subseteq 1 .. n
    BY <1>1
  <2> HIDE DEF solid
  <2>2. (\E i \in solid : \A j \in solid : i <= j) /\ (\E i \in solid : \A j \in solid : j <= i)
    BY <1>1, <1>4, <2>1, LeastNumber, GreatestNumber
  <2>3. a \in solid /\ b \in solid
    BY <2>2
  <2> HIDE DEF a, b
  <2>4. a \in 1 .. n /\ b \in 1 .. n
    BY <2>1, <2>3
  <2> DEFINE T == Range(text)
  <2>5. text \in Seq(T)
    BY DEF IsList
  <2> HIDE DEF T
  <2>6. SubSeq(text, a, b) \in Seq(T)
    BY <2>4, <2>5
  <2> QED
    BY <1>2, <1>4, <2>6, ListOf
<1> QED
  BY <1>3, <1>4

LEMMA TokensIsList ==
  ASSUME NEW surface, IsList(surface)
  PROVE  IsList(Tokens(surface))
<1> DEFINE text == Strip(surface)
           gaps == {i \in DOMAIN text : text[i] \in Whitespace}
           Begins == {i \in DOMAIN text \ gaps : i = 1 \/ i - 1 \in gaps}
           Word(i) == LET after == {j \in gaps : j > i} IN
                      SubSeq(text, i, IF after = {} THEN Len(text) ELSE Min(after) - 1)
           order == InOrder(Begins, Ascending(Begins))
           f == [k \in DOMAIN order |-> Word(order[k])]
<1>1. Tokens(surface) = f
  BY DEF Tokens
<1>2. IsList(text)
  BY StripIsList
<1> HIDE DEF text
<1>3. Len(text) \in Nat /\ DOMAIN text = 1 .. Len(text)
  BY <1>2, ListFacts
<1>4. Begins \subseteq 1 .. Len(text)
  BY <1>3
<1> HIDE DEF Begins, Word
<1>5. IsFiniteSet(1 .. Len(text))
  BY <1>3, FS_Interval
<1>6. Cardinality(Begins) \in Nat
  BY <1>4, <1>5, FS_Subset, FS_CardinalityType
<1>7. DOMAIN order = 1 .. Cardinality(Begins)
  BY DEF InOrder
<1> HIDE DEF order
<1>8. f = [k \in 1 .. Cardinality(Begins) |-> f[k]]
  BY <1>7
<1> HIDE DEF f
<1>9. IsList(f)
  BY <1>6, <1>8, ListMade
<1> QED
  BY <1>1, <1>9

\* The syllables of a word, without the tokens that are none.
Syllables(surface) ==
  {Lower(t) : t \in {t \in Range(Tokens(surface)) : Range(t) \subseteq SyllableLetters}}

LEMMA SyllableTokensFacts ==
  ASSUME NEW lines, IsList(lines), \A i \in DOMAIN lines : IsList(lines[i].surface)
  PROVE  /\ IsList(SyllableTokens(lines))
         /\ Range(SyllableTokens(lines)) = UNION {Syllables(lines[i].surface) : i \in DOMAIN lines}
<1> DEFINE pieces == [i \in DOMAIN lines |-> Tokens(lines[i].surface)]
           all == FlattenSeq(pieces)
           I == {i \in DOMAIN all : Range(all[i]) \subseteq SyllableLetters}
           plain == Pick(all, I)
           f == [i \in DOMAIN plain |-> Lower(plain[i])]
<1>1. SyllableTokens(lines) = f
  BY DEF SyllableTokens
<1>2. /\ IsList(pieces) /\ DOMAIN pieces = DOMAIN lines
      /\ \A i \in DOMAIN lines : pieces[i] = Tokens(lines[i].surface) /\ IsList(pieces[i])
  <2>1. \A i \in DOMAIN lines : pieces[i] = Tokens(lines[i].surface) /\ IsList(pieces[i])
    BY TokensIsList
  <2>2. pieces = [i \in DOMAIN lines |-> pieces[i]]
    OBVIOUS
  <2> HIDE DEF pieces
  <2>3. IsList(pieces) /\ DOMAIN pieces = DOMAIN lines
    BY <2>2, SameLength
  <2> QED
    BY <2>1, <2>3
<1> HIDE DEF pieces
<1>3. IsList(all) /\ Range(all) = UNION {Range(pieces[i]) : i \in DOMAIN pieces}
  BY <1>2, FlattenRange
<1> HIDE DEF all
<1>4. I \in SUBSET (DOMAIN all)
  OBVIOUS
<1>5. {all[i] : i \in I} = {t \in Range(all) : Range(t) \subseteq SyllableLetters}
  BY DEF Range
<1> HIDE DEF I
<1>6. IsList(plain) /\ Range(plain) = {t \in Range(all) : Range(t) \subseteq SyllableLetters}
  BY <1>3, <1>4, <1>5, PickRange
<1> HIDE DEF plain
<1>7. IsList(f)
  <2>1. f = [i \in DOMAIN plain |-> f[i]]
    OBVIOUS
  <2> HIDE DEF f
  <2> QED
    BY <1>6, <2>1, SameLength
<1>8. Range(f) = {Lower(t) : t \in Range(plain)}
  BY DEF Range
<1> HIDE DEF f
<1>9. Range(all) = UNION {Range(Tokens(lines[i].surface)) : i \in DOMAIN lines}
  BY <1>2, <1>3
<1>10. Range(f) = UNION {Syllables(lines[i].surface) : i \in DOMAIN lines}
  BY <1>6, <1>8, <1>9 DEF Syllables
<1> QED
  BY <1>1, <1>7, <1>10

HasSyllables(tables, lines) ==
  \A e \in Range(lines) : \A t \in Range(SyllableTokens(<<e>>)) :
    <<strip_accents(t), t>> \in Keys(tables.syllables)

LEMMA SyllablesPopulate ==
  ASSUME NEW tables, AreTables(tables), NEW lines, AreLines(lines)
  PROVE  /\ AreTables(_populate_syllables(tables, lines))
         /\ KeysKept(tables, _populate_syllables(tables, lines))
         /\ _populate_syllables(tables, lines).words = tables.words
         /\ _populate_syllables(tables, lines).phrases = tables.phrases
         /\ HasSyllables(_populate_syllables(tables, lines), lines)
<1> DEFINE tokens == SyllableTokens(lines)
           firsts == FirstOfEach(tokens)
           S == Rows(LAMBDA s : SyllableRow(tokens, s), firsts)
           later == _populate_syllables(tables, lines)
<1>1. later = [tables EXCEPT !.syllables = InsertOrIgnore(@, S)]
  BY DEF _populate_syllables
<1>2. S = [k \in DOMAIN firsts |-> SyllableRow(tokens, firsts[k])]
  BY DEF Rows
<1>3. IsList(tokens) /\ Range(tokens) = UNION {Syllables(lines[i].surface) : i \in DOMAIN lines}
  BY SyllableTokensFacts DEF AreLines
<1> HIDE DEF tokens, S, later
<1>4. IsList(firsts) /\ Range(firsts) = Range(tokens)
  BY <1>3, FirstOfEachFacts
<1> HIDE DEF firsts
<1>5. \A s : SyllableRow(tokens, s).key = <<strip_accents(s), s>>
  BY DEF SyllableRow
<1>6. IsList(S) /\ DOMAIN S = DOMAIN firsts
  <2>1. S = [k \in DOMAIN firsts |-> S[k]]
    BY <1>2
  <2> QED
    BY <1>4, <2>1, SameLength
<1>7. \A t \in Range(tokens) : <<strip_accents(t), t>> \in Keys(S)
  <2>1. SUFFICES ASSUME NEW t \in Range(tokens) PROVE <<strip_accents(t), t>> \in Keys(S)
    OBVIOUS
  <2>2. PICK k \in DOMAIN firsts : firsts[k] = t
    BY <1>4 DEF Range
  <2>3. k \in DOMAIN S /\ S[k].key = <<strip_accents(t), t>>
    BY <1>2, <1>5, <1>6, <2>2
  <2> QED
    BY <2>3 DEF Keys
<1>8. /\ DOMAIN later = TableNames /\ later.syllables = InsertOrIgnore(tables.syllables, S)
      /\ \A t \in TableNames : t # "syllables" => later[t] = tables[t]
  BY <1>1, TableNamesAre DEF AreTables
<1>9. IsList(tables.syllables)
  BY TableNamesAre DEF AreTables
<1>10. /\ IsList(later.syllables)
       /\ Keys(later.syllables) = Keys(tables.syllables) \cup Keys(S)
  BY <1>6, <1>8, <1>9, IgnoreFacts
<1>11. AreTables(later)
  BY <1>8, <1>10 DEF AreTables
<1>12. KeysKept(tables, later)
  BY <1>8, <1>10 DEF KeysKept
<1>13. later.words = tables.words /\ later.phrases = tables.phrases
  BY <1>8, TableNamesAre
<1>14. HasSyllables(later, lines)
  <2>1. SUFFICES ASSUME NEW e \in Range(lines), NEW t \in Range(SyllableTokens(<<e>>))
                 PROVE  <<strip_accents(t), t>> \in Keys(later.syllables)
    BY DEF HasSyllables
  <2>2. PICK i \in DOMAIN lines : lines[i] = e
    BY DEF Range
  <2>3. Range(SyllableTokens(<<e>>)) = Syllables(e.surface)
    <3> DEFINE one == <<e>>
    <3>1. one = [k \in 1 .. 1 |-> one[k]] /\ one[1] = e /\ DOMAIN one = {1}
      OBVIOUS
    <3> HIDE DEF one
    <3>2. IsList(one)
      BY <3>1, ListMade
    <3>3. \A k \in DOMAIN one : IsList(one[k].surface)
      BY <2>2, <3>1 DEF AreLines
    <3>4. Range(SyllableTokens(one)) = UNION {Syllables(one[k].surface) : k \in DOMAIN one}
      BY <3>2, <3>3, SyllableTokensFacts
    <3>5. Range(SyllableTokens(one)) = Syllables(e.surface)
      BY <3>1, <3>4
    <3> QED
      BY <3>5 DEF one
  <2>4. t \in Range(tokens)
    BY <1>3, <2>1, <2>2, <2>3
  <2> QED
    BY <1>7, <1>10, <2>4
<1> QED
  BY <1>11, <1>12, <1>13, <1>14 DEF later

-----------------------------------------------------------------------------
(***************************************************************************)
(* The words of the raw files.                                             *)
(***************************************************************************)
AreTexts(texts) == IsList(texts) /\ \A text \in Range(texts) : IsList(text)

Origins == {"uvd_1", "underthesea_merged", "aspell_vi", "vietnamese_names"}

FileNames == {"uvd1", "underthesea_merged", "aspell_vi", "boy", "girl"}

\* Usable words, each under the keys its surface gives.
AreRaw(words) ==
  /\ IsList(words)
  /\ \A rw \in Range(words) :
       /\ IsList(rw.surface) /\ rw.source \in Origins
       /\ rw.normalized = normalize_text(rw.surface)
       /\ rw.noTone = strip_accents(rw.normalized)
       /\ ~check_garbage(rw.normalized)

LEMMA PickTexts ==
  ASSUME NEW texts, AreTexts(texts), NEW I \in SUBSET (DOMAIN texts)
  PROVE  AreTexts(Pick(texts, I))
<1>1. IsList(Pick(texts, I)) /\ Range(Pick(texts, I)) = {texts[i] : i \in I}
  BY PickRange DEF AreTexts
<1>2. {texts[i] : i \in I} \subseteq Range(texts)
  BY DEF Range
<1> QED
  BY <1>1, <1>2 DEF AreTexts

LEMMA PickRaw ==
  ASSUME NEW words, AreRaw(words), NEW I \in SUBSET (DOMAIN words)
  PROVE  AreRaw(Pick(words, I))
<1>1. IsList(Pick(words, I)) /\ Range(Pick(words, I)) = {words[i] : i \in I}
  BY PickRange DEF AreRaw
<1>2. {words[i] : i \in I} \subseteq Range(words)
  BY DEF Range
<1> QED
  BY <1>1, <1>2 DEF AreRaw

LEMMA NonEmptyTexts ==
  ASSUME NEW texts, AreTexts(texts)
  PROVE  AreTexts(NonEmpty(texts))
<1> DEFINE I == {i \in DOMAIN texts : texts[i] # <<>>}
<1>1. I \in SUBSET (DOMAIN texts) /\ NonEmpty(texts) = Pick(texts, I)
  BY DEF NonEmpty
<1> HIDE DEF I
<1> QED
  BY <1>1, PickTexts

LEMMA TextsMade ==
  ASSUME NEW n \in Nat, NEW f, f = [i \in 1 .. n |-> f[i]], \A i \in 1 .. n : IsList(f[i])
  PROVE  AreTexts(f)
<1>1. IsList(f) /\ DOMAIN f = 1 .. n
  BY ListMade
<1> QED
  BY <1>1 DEF AreTexts, Range

LEMMA ReadLinesFacts ==
  ASSUME NEW lines, AreTexts(lines)
  PROVE  AreTexts(_read_lines(lines))
<1> DEFINE f == [i \in DOMAIN lines |-> Strip(lines[i])]
<1>1. Len(lines) \in Nat /\ DOMAIN lines = 1 .. Len(lines)
  BY ListFacts DEF AreTexts
<1>2. \A i \in DOMAIN lines : IsList(f[i])
  BY StripIsList DEF AreTexts, Range
<1>3. f = [i \in 1 .. Len(lines) |-> f[i]]
  BY <1>1
<1>4. _read_lines(lines) = NonEmpty(f)
  BY DEF _read_lines
<1> HIDE DEF f
<1>5. AreTexts(f)
  BY <1>1, <1>2, <1>3, TextsMade
<1> QED
  BY <1>4, <1>5, NonEmptyTexts

LEMMA RawWordsFacts ==
  ASSUME NEW source \in Origins, NEW surfaces, AreTexts(surfaces)
  PROVE  AreRaw(RawWords(source, surfaces))
<1> DEFINE words == [i \in DOMAIN surfaces |-> RawWord(source, surfaces[i])]
           I == {i \in DOMAIN words : ~check_garbage(words[i].normalized)}
<1>1. RawWords(source, surfaces) = Pick(words, I)
  BY DEF RawWords
<1>2. \A i \in DOMAIN surfaces :
        /\ words[i].surface = surfaces[i] /\ words[i].source = source
        /\ words[i].normalized = normalize_text(surfaces[i])
        /\ words[i].noTone = strip_accents(normalize_text(surfaces[i]))
  BY DEF RawWord
<1>3. words = [i \in DOMAIN surfaces |-> words[i]]
  OBVIOUS
<1> HIDE DEF words
<1>4. IsList(words) /\ DOMAIN words = DOMAIN surfaces
  BY <1>3, SameLength DEF AreTexts
<1>5. I \in SUBSET (DOMAIN words) /\ \A i \in I : ~check_garbage(words[i].normalized)
  OBVIOUS
<1> HIDE DEF I
<1>6. IsList(Pick(words, I)) /\ Range(Pick(words, I)) = {words[i] : i \in I}
  BY <1>4, <1>5, PickRange
<1>7. \A i \in I : IsList(words[i].surface)
  BY <1>2, <1>4, <1>5 DEF AreTexts, Range
<1>8. \A i \in I : /\ words[i].normalized = normalize_text(words[i].surface)
                   /\ words[i].noTone = strip_accents(words[i].normalized)
                   /\ words[i].source \in Origins
  BY <1>2, <1>4, <1>5
<1> QED
  BY <1>1, <1>5, <1>6, <1>7, <1>8 DEF AreRaw

LEMMA BeforeSlashIsList ==
  ASSUME NEW line, IsList(line)
  PROVE  IsList(BeforeSlash(line))
<1> DEFINE slashes == {i \in DOMAIN line : line[i] = "/"}
           m == Min(slashes)
<1>1. BeforeSlash(line) = IF slashes = {} THEN line ELSE SubSeq(line, 1, m - 1)
  BY DEF BeforeSlash
<1>2. Len(line) \in Nat /\ DOMAIN line = 1 .. Len(line)
  BY ListFacts
<1>3. CASE slashes # {}
  <2>1. slashes \subseteq Nat /\ slashes \subseteq 1 .. Len(line)
    BY <1>2
  <2> HIDE DEF slashes
  <2>2. \E i \in slashes : \A j \in slashes : i <= j
    BY <1>3, <2>1, LeastNumber
  <2>3. m \in slashes
    BY <2>2 DEF Min
  <2> HIDE DEF m
  <2>4. m - 1 \in 0 .. Len(line)
    BY <1>2, <2>1, <2>3
  <2>5. IsList(SubSeq(line, 1, m - 1))
    BY <2>4, ListSub
  <2> QED
    BY <1>1, <1>3, <2>5
<1> QED
  BY <1>1, <1>3

LEMMA UnderTheSeaFacts ==
  ASSUME NEW lines, AreTexts(lines)
  PROVE  AreRaw(load_underthesea_merged(lines))
<1> DEFINE read == _read_lines(lines)
           I == {i \in DOMAIN read : read[i] # Broken}
<1>1. load_underthesea_merged(lines) = RawWords("underthesea_merged", Pick(read, I))
  BY DEF load_underthesea_merged
<1>2. AreTexts(read) /\ I \in SUBSET (DOMAIN read)
  BY ReadLinesFacts
<1> HIDE DEF read, I
<1>3. AreTexts(Pick(read, I))
  BY <1>2, PickTexts
<1> QED
  BY <1>1, <1>3, RawWordsFacts DEF Origins

LEMMA AspellFacts ==
  ASSUME NEW lines, AreTexts(lines)
  PROVE  AreRaw(load_aspell(lines))
<1> DEFINE read == _read_lines(lines)
           start == IF read # <<>> /\ Range(read[1]) \subseteq Digits THEN 1 ELSE 0
           n == Len(read) - start
           words == [i \in 1 .. n |-> Strip(BeforeSlash(read[i + start]))]
<1>1. load_aspell(lines) = RawWords("aspell_vi", NonEmpty(words))
  BY DEF load_aspell
<1>2. AreTexts(read) /\ IsList(read)
  BY ReadLinesFacts DEF AreTexts
<1> HIDE DEF read
<1>3. Len(read) \in Nat /\ DOMAIN read = 1 .. Len(read) /\ (Len(read) = 0 <=> read = <<>>)
  BY <1>2, ListFacts
<1>4. n \in Nat /\ start \in {0, 1} /\ n + start = Len(read)
  BY <1>3
<1> HIDE DEF start, n
<1>5. \A i \in 1 .. n : IsList(words[i])
  <2>1. SUFFICES ASSUME NEW i \in 1 .. n PROVE IsList(Strip(BeforeSlash(read[i + start])))
    OBVIOUS
  <2>2. i + start \in DOMAIN read
    BY <1>3, <1>4
  <2>3. IsList(read[i + start])
    BY <1>2, <2>2 DEF AreTexts, Range
  <2> QED
    BY <2>3, BeforeSlashIsList, StripIsList
<1>6. words = [i \in 1 .. n |-> words[i]]
  OBVIOUS
<1> HIDE DEF words
<1>7. AreTexts(words)
  BY <1>4, <1>5, <1>6, TextsMade
<1>8. AreTexts(NonEmpty(words))
  BY <1>7, NonEmptyTexts
<1> QED
  BY <1>1, <1>8, RawWordsFacts DEF Origins

LEMMA NamesFacts ==
  ASSUME NEW lines, AreTexts(lines)
  PROVE  AreRaw(load_names(lines))
<1> DEFINE read == _read_lines(lines)
           I == {i \in DOMAIN read : Accented(read[i])}
           words == RawWords("vietnamese_names", Pick(read, I))
           J == {i \in DOMAIN words : Accented(words[i].normalized)}
<1>1. load_names(lines) = Pick(words, J)
  BY DEF load_names
<1>2. AreTexts(read) /\ I \in SUBSET (DOMAIN read)
  BY ReadLinesFacts
<1> HIDE DEF read, I
<1>3. AreTexts(Pick(read, I))
  BY <1>2, PickTexts
<1>4. AreRaw(words)
  BY <1>3, RawWordsFacts DEF Origins
<1>5. J \in SUBSET (DOMAIN words)
  OBVIOUS
<1> HIDE DEF words, J
<1> QED
  BY <1>1, <1>4, <1>5, PickRaw

LEMMA LoadFileFacts ==
  ASSUME NEW file \in FileNames, NEW lines, AreTexts(lines)
  PROVE  AreRaw(LoadFile(file, lines))
<1>1. CASE file = "uvd1"
  <2>1. LoadFile(file, lines) = RawWords("uvd_1", _read_lines(lines))
    BY <1>1 DEF LoadFile, load_uvd1
  <2> QED
    BY <2>1, ReadLinesFacts, RawWordsFacts DEF Origins
<1>2. CASE file = "underthesea_merged"
  BY <1>2, UnderTheSeaFacts DEF LoadFile
<1>3. CASE file = "aspell_vi"
  BY <1>3, AspellFacts DEF LoadFile
<1>4. CASE file \in {"boy", "girl"}
  <2>1. LoadFile(file, lines) = load_names(lines)
    BY <1>4 DEF LoadFile
  <2> QED
    BY <2>1, NamesFacts
<1> QED
  BY <1>1, <1>2, <1>3, <1>4 DEF FileNames

AreFiles(f) == \A name \in DOMAIN f : AreTexts(f[name])

\* The words of the files that are there.
WordsOf(f) == UNION {Range(LoadFile(name, f[name])) : name \in FileNames \cap DOMAIN f}

LEMMA AllRawFacts ==
  ASSUME NEW f, AreFiles(f)
  PROVE  AreRaw(AllRaw(f)) /\ Range(AllRaw(f)) = WordsOf(f)
<1> DEFINE piece(k) == IF FileOrder[k] \in DOMAIN f
                       THEN LoadFile(FileOrder[k], f[FileOrder[k]]) ELSE <<>>
           pieces == [k \in DOMAIN FileOrder |-> piece(k)]
<1>1. AllRaw(f) = FlattenSeq(pieces)
  BY DEF AllRaw
<1>2. /\ DOMAIN FileOrder = 1 .. 5 /\ \A k \in 1 .. 5 : FileOrder[k] \in FileNames
      /\ \A name \in FileNames : \E k \in 1 .. 5 : FileOrder[k] = name
  <2>1. DOMAIN FileOrder = 1 .. 5
    BY DEF FileOrder
  <2>2. \A k \in 1 .. 5 : FileOrder[k] \in FileNames
    BY DEF FileOrder, FileNames
  <2>3. /\ FileOrder[1] = "uvd1" /\ FileOrder[2] = "underthesea_merged"
        /\ FileOrder[3] = "aspell_vi" /\ FileOrder[4] = "boy" /\ FileOrder[5] = "girl"
    BY DEF FileOrder
  <2>4. \A name \in FileNames : \E k \in 1 .. 5 : FileOrder[k] = name
    BY <2>3 DEF FileNames
  <2> QED
    BY <2>1, <2>2, <2>4
<1>3. \A k \in 1 .. 5 : IF FileOrder[k] \in DOMAIN f THEN AreRaw(piece(k)) ELSE piece(k) = <<>>
  BY <1>2, LoadFileFacts DEF AreFiles
<1> HIDE DEF piece
<1>4. \A k \in 1 .. 5 : IsList(piece(k)) /\ \A rw \in Range(piece(k)) : AreRaw(piece(k))
  BY <1>3, NoElements DEF AreRaw
<1>5. IsList(pieces) /\ DOMAIN pieces = 1 .. 5 /\ \A k \in 1 .. 5 : pieces[k] = piece(k)
  <2> DEFINE five == 5
  <2>1. pieces = [k \in 1 .. five |-> pieces[k]] /\ \A k \in 1 .. 5 : pieces[k] = piece(k)
    BY <1>2
  <2>2. five \in Nat
    OBVIOUS
  <2> HIDE DEF pieces, five
  <2>3. IsList(pieces) /\ DOMAIN pieces = 1 .. five
    BY <2>1, <2>2, ListMade
  <2> QED
    BY <2>1, <2>3 DEF five
<1> HIDE DEF pieces
<1>6. IsList(AllRaw(f)) /\ Range(AllRaw(f)) = UNION {Range(pieces[k]) : k \in 1 .. 5}
  BY <1>1, <1>4, <1>5, FlattenRange
<1>7. \A rw \in Range(AllRaw(f)) : \E k \in 1 .. 5 : rw \in Range(piece(k))
  BY <1>5, <1>6
<1>8. AreRaw(AllRaw(f))
  BY <1>4, <1>6, <1>7 DEF AreRaw
<1>9. \A rw \in Range(AllRaw(f)) : rw \in WordsOf(f)
  <2>1. SUFFICES ASSUME NEW k \in 1 .. 5, NEW rw \in Range(piece(k)) PROVE rw \in WordsOf(f)
    BY <1>7
  <2>2. FileOrder[k] \in DOMAIN f
    BY <1>3, <2>1, NoElements
  <2>3. piece(k) = LoadFile(FileOrder[k], f[FileOrder[k]])
    BY <2>2 DEF piece
  <2> QED
    BY <1>2, <2>1, <2>2, <2>3 DEF WordsOf
<1>10. \A rw \in WordsOf(f) : rw \in Range(AllRaw(f))
  <2>1. SUFFICES ASSUME NEW name \in FileNames \cap DOMAIN f,
                        NEW rw \in Range(LoadFile(name, f[name]))
                 PROVE  rw \in Range(AllRaw(f))
    BY DEF WordsOf
  <2>2. PICK k \in 1 .. 5 : FileOrder[k] = name
    BY <1>2
  <2>3. piece(k) = LoadFile(name, f[name])
    BY <2>1, <2>2 DEF piece
  <2> QED
    BY <1>5, <1>6, <2>1, <2>3
<1> QED
  BY <1>8, <1>9, <1>10

-----------------------------------------------------------------------------
(***************************************************************************)
(* merge_words: one entry for each normalized text.                        *)
(***************************************************************************)
\* What the first k words make up.
Groups(words, G, m) ==
  G = [k \in 0 .. m |-> IF k = 0 THEN <<>> ELSE MergeWord(G[k - 1], words[k])]

LEMMA GroupsExist ==
  ASSUME NEW words, NEW n \in Nat
  PROVE  \E G : Groups(words, G, n)
<1> DEFINE Bad == {m \in Nat : ~(\E G : Groups(words, G, m))}
<1>1. SUFFICES ASSUME Bad # {} PROVE FALSE
  OBVIOUS
<1>2. PICK m \in Bad : \A k \in Bad : m <= k
  <2> HIDE DEF Bad
  <2>1. Bad \subseteq Nat
    BY DEF Bad
  <2> QED
    BY <1>1, <2>1, LeastNumber
<1>3. m \in Nat /\ ~(\E G : Groups(words, G, m))
  OBVIOUS
<1>4. m # 0
  <2>1. Groups(words, [k \in 0 .. 0 |-> <<>>], 0)
    BY DEF Groups
  <2> QED
    BY <1>3, <2>1
<1>5. m - 1 \in Nat /\ m - 1 \notin Bad
  BY <1>2, <1>3, <1>4
<1>6. PICK G : Groups(words, G, m - 1)
  BY <1>5
<1> DEFINE h(k) == IF k = m THEN MergeWord(G[m - 1], words[m]) ELSE G[k]
           H == [k \in 0 .. m |-> h(k)]
           r(k) == IF k = 0 THEN <<>> ELSE MergeWord(H[k - 1], words[k])
<1>7. \A k \in 0 .. m : H[k] = h(k)
  OBVIOUS
<1>8. \A k \in 0 .. m : h(k) = r(k)
  <2>1. SUFFICES ASSUME NEW k \in 0 .. m PROVE h(k) = r(k)
    OBVIOUS
  <2>2. k = 0 \/ (k - 1 \in 0 .. m /\ k - 1 # m /\ k # 0)
    BY <1>3, <1>4
  <2>3. k # 0 => H[k - 1] = G[k - 1]
    BY <1>7, <2>2
  <2> HIDE DEF H
  <2>4. CASE k = m
    BY <1>4, <2>2, <2>3, <2>4
  <2>5. CASE k # m
    <3>1. k \in 0 .. m - 1
      BY <1>3, <2>5
    <3>2. G[k] = IF k = 0 THEN <<>> ELSE MergeWord(G[k - 1], words[k])
      BY <1>6, <3>1 DEF Groups
    <3> QED
      BY <2>2, <2>3, <2>5, <3>2
  <2> QED
    BY <2>4, <2>5
<1>9. Groups(words, H, m)
  <2>1. H = [k \in 0 .. m |-> h(k)]
    OBVIOUS
  <2> HIDE DEF H, h
  <2>2. H = [k \in 0 .. m |-> r(k)]
    BY <1>8, <2>1
  <2> QED
    BY <2>2 DEF Groups
<1> QED
  BY <1>3, <1>9

\* The words of one normalized text among the first k.
WordsAt(words, k, t) == {i \in 1 .. k : words[i].normalized = t}

\* The texts of the first k words, each with the keys, one of the surfaces and
\* all the sources of its words.
IsMerged(grouped, words, k) ==
  /\ DOMAIN grouped = {words[i].normalized : i \in 1 .. k}
  /\ \A t \in DOMAIN grouped :
       /\ DOMAIN grouped[t] = {"normalized", "surface", "noTone", "sources"}
       /\ grouped[t].normalized = t /\ grouped[t].noTone = strip_accents(t)
       /\ grouped[t].sources = {words[i].source : i \in WordsAt(words, k, t)}
       /\ \E i \in WordsAt(words, k, t) : grouped[t].surface = words[i].surface

LEMMA GroupUpdated ==
  ASSUME NEW e, NEW f, NEW group,
         DOMAIN group = {"normalized", "surface", "noTone", "sources"}
  PROVE  LET later == [group EXCEPT !.sources = e, !.surface = f] IN
         /\ DOMAIN later = {"normalized", "surface", "noTone", "sources"}
         /\ later.normalized = group.normalized /\ later.noTone = group.noTone
         /\ later.sources = e /\ later.surface = f
OBVIOUS

LEMMA MergeStep ==
  ASSUME NEW words, AreRaw(words), NEW k \in 1 .. Len(words), NEW grouped,
         IsMerged(grouped, words, k - 1)
  PROVE  IsMerged(MergeWord(grouped, words[k]), words, k)
<1> DEFINE rw == words[k]
           n == rw.normalized
           known == IF n \in DOMAIN grouped THEN grouped[n]
                    ELSE [normalized |-> n, surface |-> rw.surface,
                          noTone |-> rw.noTone, sources |-> {}]
           sources == known.sources \cup {rw.source}
           current == Max({SOURCE_CONFIDENCE[s] : s \in sources})
           surface == IF SOURCE_CONFIDENCE[rw.source] > current THEN rw.surface
                      ELSE known.surface
           merged == [known EXCEPT !.sources = sources, !.surface = surface]
           later == MergeWord(grouped, rw)
<1>1. Len(words) \in Nat /\ DOMAIN words = 1 .. Len(words)
  BY ListFacts DEF AreRaw
<1>2. 1 .. k = 1 .. (k - 1) \cup {k} /\ k \notin 1 .. (k - 1)
  BY <1>1
<1>3. rw.noTone = strip_accents(n)
  BY <1>1 DEF AreRaw, Range
<1>4. later = [t \in DOMAIN grouped \cup {n} |-> IF t = n THEN merged ELSE grouped[t]]
  BY DEF MergeWord
<1>5. /\ DOMAIN known = {"normalized", "surface", "noTone", "sources"}
      /\ known.normalized = n /\ known.noTone = strip_accents(n)
  BY <1>3 DEF IsMerged
<1>6. known.sources = {words[i].source : i \in WordsAt(words, k - 1, n)}
  <2>1. CASE n \in DOMAIN grouped
    BY <2>1 DEF IsMerged
  <2>2. CASE n \notin DOMAIN grouped
    <3>1. WordsAt(words, k - 1, n) = {}
      BY <2>2 DEF IsMerged, WordsAt
    <3> QED
      BY <2>2, <3>1
  <2> QED
    BY <2>1, <2>2
<1>7. \/ known.surface = rw.surface
      \/ \E i \in WordsAt(words, k - 1, n) : known.surface = words[i].surface
  BY DEF IsMerged
<1> HIDE DEF known, current
<1>8. WordsAt(words, k, n) = WordsAt(words, k - 1, n) \cup {k}
  BY <1>2 DEF WordsAt
<1>9. \A t : t # n => WordsAt(words, k, t) = WordsAt(words, k - 1, t)
  BY <1>2 DEF WordsAt
<1>11. sources = {words[i].source : i \in WordsAt(words, k, n)}
  BY <1>6, <1>8
<1>12. \E i \in WordsAt(words, k, n) : surface = words[i].surface
  BY <1>7, <1>8
<1> HIDE DEF surface, sources, later
<1>10. /\ DOMAIN merged = {"normalized", "surface", "noTone", "sources"}
       /\ merged.normalized = n /\ merged.noTone = strip_accents(n)
       /\ merged.sources = sources /\ merged.surface = surface
  BY <1>5, GroupUpdated
<1> HIDE DEF merged
<1>13. DOMAIN later = {words[i].normalized : i \in 1 .. k}
  BY <1>2, <1>4 DEF IsMerged
<1>14. ASSUME NEW t \in DOMAIN later
       PROVE  /\ DOMAIN later[t] = {"normalized", "surface", "noTone", "sources"}
              /\ later[t].normalized = t /\ later[t].noTone = strip_accents(t)
              /\ later[t].sources = {words[i].source : i \in WordsAt(words, k, t)}
              /\ \E i \in WordsAt(words, k, t) : later[t].surface = words[i].surface
  <2>1. CASE t = n
    <3>1. later[t] = merged
      BY <1>4, <2>1
    <3> QED
      BY <1>10, <1>11, <1>12, <2>1, <3>1
  <2>2. CASE t # n
    <3>1. t \in DOMAIN grouped /\ later[t] = grouped[t]
      BY <1>4, <2>2
    <3>2. WordsAt(words, k, t) = WordsAt(words, k - 1, t)
      BY <1>9, <2>2
    <3> QED
      BY <3>1, <3>2 DEF IsMerged
  <2> QED
    BY <2>1, <2>2
<1>15. IsMerged(later, words, k)
  BY <1>13, <1>14 DEF IsMerged
<1> QED
  BY <1>15 DEF later

LEMMA MergedFacts ==
  ASSUME NEW words, AreRaw(words)
  PROVE  IsMerged(merge_words(words), words, Len(words))
<1> DEFINE n == Len(words)
           G == CHOOSE G : Groups(words, G, n)
<1>1. n \in Nat
  BY ListFacts DEF AreRaw
<1>2. Groups(words, G, n)
  BY <1>1, GroupsExist
<1>3. merge_words(words) = G[n]
  BY DEF merge_words, Groups
<1> HIDE DEF G
<1>4. G[0] = <<>> /\ \A k \in 1 .. n : G[k] = MergeWord(G[k - 1], words[k])
  <2>1. \A k \in 0 .. n : G[k] = IF k = 0 THEN <<>> ELSE MergeWord(G[k - 1], words[k])
    BY <1>2 DEF Groups
  <2>2. 0 \in 0 .. n /\ \A k \in 1 .. n : k \in 0 .. n /\ k # 0
    BY <1>1
  <2> QED
    BY <2>1, <2>2
<1> DEFINE Good == {k \in 0 .. n : IsMerged(G[k], words, k)}
<1>5. 0 \in Good
  <2>1. IsMerged(<<>>, words, 0)
    BY NoElements DEF IsMerged
  <2> QED
    BY <1>1, <1>4, <2>1
<1>6. \A k \in 1 .. n : k - 1 \in Good => k \in Good
  <2>1. SUFFICES ASSUME NEW k \in 1 .. n, IsMerged(G[k - 1], words, k - 1)
                 PROVE  IsMerged(G[k], words, k) /\ k \in 0 .. n
    OBVIOUS
  <2>2. IsMerged(MergeWord(G[k - 1], words[k]), words, k)
    BY <2>1, MergeStep
  <2> QED
    BY <1>1, <1>4, <2>2
<1> HIDE DEF Good, n
<1>7. 0 .. n \subseteq Good
  BY <1>1, <1>5, <1>6, UpTo
<1>8. n \in Good
  BY <1>1, <1>7
<1> QED
  BY <1>3, <1>8 DEF Good, n

-----------------------------------------------------------------------------
(***************************************************************************)
(* How much a word is trusted.                                             *)
(***************************************************************************)
\* All sources of the words of a text.
SourcesOf(words, t) == {rw.source : rw \in {rw \in words : rw.normalized = t}}

LEMMA Singles ==
  /\ SOURCE_CONFIDENCE["uvd_1"] = 90 /\ SOURCE_CONFIDENCE["underthesea_merged"] = 95
  /\ SOURCE_CONFIDENCE["aspell_vi"] = 92 /\ SOURCE_CONFIDENCE["vietnamese_names"] = 80
BY DEF SOURCE_CONFIDENCE

LEMMA OfOne ==
  ASSUME NEW s \in Origins
  PROVE  Confidence({s}) = SOURCE_CONFIDENCE[s] /\ Confidence({s}) \in 80 .. 95
<1>1. Cardinality({s}) = 1
  BY FS_Singleton
<1>2. SOURCE_CONFIDENCE[s] \in 80 .. 95
  BY Singles DEF Origins
<1>3. {SOURCE_CONFIDENCE[x] : x \in {s}} = {SOURCE_CONFIDENCE[s]}
  OBVIOUS
<1>4. Max({SOURCE_CONFIDENCE[s]}) = SOURCE_CONFIDENCE[s]
  <2> DEFINE v == SOURCE_CONFIDENCE[s]
  <2>1. v \in Int
    BY <1>2
  <2> HIDE DEF v
  <2>2. Max({v}) = v
    BY <2>1 DEF Max
  <2> QED
    BY <2>2 DEF v
<1>5. Confidence({s}) = Max({SOURCE_CONFIDENCE[x] : x \in {s}})
  BY <1>1 DEF Confidence
<1> QED
  BY <1>2, <1>3, <1>4, <1>5

\* A source more makes no word less trusted.
LEMMA MoreIsMore ==
  ASSUME NEW T \in SUBSET Origins, NEW S \in SUBSET T, S # {}
  PROVE  Confidence(T) >= Confidence(S)
<1>1. IsFiniteSet(Origins)
  <2>1. Origins = {"uvd_1"} \cup {"underthesea_merged"} \cup {"aspell_vi"} \cup {"vietnamese_names"}
    BY DEF Origins
  <2> QED
    BY <2>1, FS_Singleton, FS_Union
<1>2. IsFiniteSet(T)
  BY <1>1, FS_Subset
<1>3. /\ IsFiniteSet(S) /\ Cardinality(S) \in Nat /\ Cardinality(T) \in Nat
      /\ Cardinality(S) <= Cardinality(T) /\ (Cardinality(S) = Cardinality(T) => S = T)
  BY <1>2, FS_Subset, FS_CardinalityType
<1>4. ASSUME NEW U \in SUBSET Origins, IsFiniteSet(U), Cardinality(U) \in Nat, U # {}
      PROVE  \/ Cardinality(U) >= 3 /\ Confidence(U) = 100
             \/ Cardinality(U) = 2 /\ Confidence(U) = 98
             \/ Cardinality(U) = 1 /\ Confidence(U) \in 80 .. 95
  <2>1. CASE Cardinality(U) >= 3
    BY <1>4, <2>1 DEF Confidence
  <2>2. CASE Cardinality(U) = 2
    BY <2>2 DEF Confidence
  <2>3. CASE Cardinality(U) = 1
    <3>1. PICK s : U = {s}
      BY <1>4, <2>3, FS_Singleton
    <3> QED
      BY <2>3, <3>1, OfOne
  <2>4. Cardinality(U) # 0
    BY <1>4, FS_EmptySet
  <2> QED
    BY <1>4, <2>1, <2>2, <2>3, <2>4
<1>5. /\ \/ Cardinality(S) >= 3 /\ Confidence(S) = 100
         \/ Cardinality(S) = 2 /\ Confidence(S) = 98
         \/ Cardinality(S) = 1 /\ Confidence(S) \in 80 .. 95
      /\ \/ Cardinality(T) >= 3 /\ Confidence(T) = 100
         \/ Cardinality(T) = 2 /\ Confidence(T) = 98
         \/ Cardinality(T) = 1 /\ Confidence(T) \in 80 .. 95
  BY <1>2, <1>3, <1>4
<1>6. CASE Cardinality(S) = Cardinality(T)
  <2>1. S = T
    BY <1>3, <1>6
  <2> QED
    BY <1>5, <2>1
<1>7. CASE Cardinality(S) # Cardinality(T)
  <2>1. Cardinality(S) < Cardinality(T)
    BY <1>3, <1>7
  <2> QED
    BY <1>3, <1>5, <2>1
<1> QED
  BY <1>6, <1>7

-----------------------------------------------------------------------------
(***************************************************************************)
(* The list of trusted words.                                              *)
(***************************************************************************)
\* The entries stand for the words of the files.
StandFor(entries, words) ==
  /\ IsList(entries)
  /\ \A i, j \in DOMAIN entries : entries[i].normalized = entries[j].normalized => i = j
  /\ \A e \in Range(entries) :
       /\ e.confidence = Confidence(SourcesOf(words, e.normalized))
       /\ \E rw \in words :
            e.normalized = rw.normalized /\ e.noTone = rw.noTone /\ e.surface = rw.surface
  /\ \A rw \in words : \E e \in Range(entries) :
       e.normalized = rw.normalized /\ e.noTone = rw.noTone

LEMMA EntriesFacts ==
  ASSUME NEW f, AreFiles(f)
  PROVE  StandFor(build_trusted_lexicon(f), WordsOf(f))
<1> DEFINE raw == AllRaw(f)
           words == WordsOf(f)
           n == Len(raw)
           merged == merge_words(raw)
           keys == [i \in DOMAIN raw |-> raw[i].normalized]
           order == FirstOfEach(keys)
           es == build_trusted_lexicon(f)
<1>1. AreRaw(raw) /\ Range(raw) = words
  BY AllRawFacts
<1>2. es = [i \in DOMAIN order |-> to_entry_dict(merged[order[i]])]
  BY DEF build_trusted_lexicon
<1>3. \A g : /\ to_entry_dict(g).normalized = g.normalized
             /\ to_entry_dict(g).surface = g.surface
             /\ to_entry_dict(g).noTone = g.noTone
             /\ to_entry_dict(g).confidence = Confidence(g.sources)
  BY DEF to_entry_dict
<1> HIDE DEF raw, words
<1>4. IsMerged(merged, raw, n)
  BY <1>1, MergedFacts
<1>5. n \in Nat /\ DOMAIN raw = 1 .. n
  BY <1>1, ListFacts DEF AreRaw
<1> HIDE DEF merged, n
<1>6. IsList(keys) /\ DOMAIN keys = DOMAIN raw /\ \A i \in DOMAIN raw : keys[i] = raw[i].normalized
  <2>1. \A i \in DOMAIN raw : keys[i] = raw[i].normalized
    OBVIOUS
  <2>2. keys = [i \in DOMAIN raw |-> keys[i]]
    OBVIOUS
  <2> HIDE DEF keys
  <2>3. IsList(keys) /\ DOMAIN keys = DOMAIN raw
    BY <1>1, <2>2, SameLength DEF AreRaw
  <2> QED
    BY <2>1, <2>3
<1> HIDE DEF keys
<1>7. /\ IsList(order) /\ Range(order) = Range(keys)
      /\ \A k, l \in DOMAIN order : order[k] = order[l] => k = l
  BY <1>6, FirstOfEachFacts
<1>8. Range(keys) = {raw[i].normalized : i \in 1 .. n}
  BY <1>5, <1>6 DEF Range
<1> HIDE DEF order, es
<1>9. IsList(es) /\ DOMAIN es = DOMAIN order
  <2>1. es = [i \in DOMAIN order |-> es[i]]
    BY <1>2
  <2> QED
    BY <1>7, <2>1, SameLength
<1>10. \A k \in DOMAIN order : order[k] \in DOMAIN merged
  BY <1>4, <1>7, <1>8 DEF IsMerged, Range
<1>11. \A t : {raw[i].source : i \in WordsAt(raw, n, t)} = SourcesOf(words, t)
  <2>1. SUFFICES ASSUME NEW t
                 PROVE  {raw[i].source : i \in WordsAt(raw, n, t)} = SourcesOf(words, t)
    OBVIOUS
  <2>2. {rw \in words : rw.normalized = t} = {raw[i] : i \in WordsAt(raw, n, t)}
    BY <1>1, <1>5 DEF Range, WordsAt
  <2> QED
    BY <2>2 DEF SourcesOf
<1>12. ASSUME NEW k \in DOMAIN es
       PROVE  /\ es[k].normalized = order[k]
              /\ es[k].confidence = Confidence(SourcesOf(words, es[k].normalized))
              /\ es[k].noTone = strip_accents(es[k].normalized)
              /\ \E i \in 1 .. n : raw[i].normalized = order[k] /\ es[k].surface = raw[i].surface
  <2> DEFINE t == order[k]
             g == merged[t]
  <2>1. t \in DOMAIN merged /\ es[k] = to_entry_dict(g)
    BY <1>2, <1>9, <1>10, <1>12
  <2> HIDE DEF t
  <2>2. /\ g.normalized = t /\ g.noTone = strip_accents(t)
        /\ g.sources = {raw[i].source : i \in WordsAt(raw, n, t)}
        /\ \E i \in WordsAt(raw, n, t) : g.surface = raw[i].surface
    BY <1>4, <2>1 DEF IsMerged
  <2>3. g.sources = SourcesOf(words, t)
    BY <1>11, <2>2
  <2> HIDE DEF g
  <2>4. /\ es[k].normalized = t /\ es[k].noTone = strip_accents(t)
        /\ es[k].confidence = Confidence(SourcesOf(words, t)) /\ es[k].surface = g.surface
    BY <1>3, <2>1, <2>2, <2>3
  <2>5. \E i \in 1 .. n : raw[i].normalized = t /\ g.surface = raw[i].surface
    BY <2>2 DEF WordsAt
  <2> QED
    BY <2>4, <2>5 DEF t
<1>13. \A i, j \in DOMAIN es : es[i].normalized = es[j].normalized => i = j
  BY <1>7, <1>9, <1>12
<1>14. ASSUME NEW e \in Range(es)
       PROVE  /\ e.confidence = Confidence(SourcesOf(words, e.normalized))
              /\ \E rw \in words :
                   e.normalized = rw.normalized /\ e.noTone = rw.noTone /\ e.surface = rw.surface
  <2>1. PICK k \in DOMAIN es : es[k] = e
    BY DEF Range
  <2>2. PICK i \in 1 .. n : raw[i].normalized = order[k] /\ es[k].surface = raw[i].surface
    BY <1>12
  <2>3. raw[i] \in words /\ raw[i].noTone = strip_accents(raw[i].normalized)
    BY <1>1, <1>5 DEF AreRaw, Range
  <2>4. /\ es[k].normalized = order[k] /\ es[k].noTone = strip_accents(es[k].normalized)
        /\ es[k].confidence = Confidence(SourcesOf(words, es[k].normalized))
    BY <1>12
  <2> QED
    BY <2>1, <2>2, <2>3, <2>4
<1>15. ASSUME NEW rw \in words
       PROVE  \E e \in Range(es) : e.normalized = rw.normalized /\ e.noTone = rw.noTone
  <2>1. rw.noTone = strip_accents(rw.normalized)
    BY <1>1 DEF AreRaw
  <2>2. PICK i \in 1 .. n : raw[i] = rw
    BY <1>1, <1>5 DEF Range
  <2>3. rw.normalized \in Range(order)
    BY <1>7, <1>8, <2>2
  <2>4. PICK k \in DOMAIN order : order[k] = rw.normalized
    BY <2>3 DEF Range
  <2>5. /\ k \in DOMAIN es /\ es[k].normalized = rw.normalized
        /\ es[k].noTone = strip_accents(es[k].normalized)
    BY <1>9, <1>12, <2>4
  <2>6. es[k] \in Range(es)
    BY <2>5, InRange
  <2> QED
    BY <2>1, <2>5, <2>6
<1>16. StandFor(es, words)
  BY <1>9, <1>13, <1>14, <1>15 DEF StandFor
<1> QED
  BY <1>16 DEF es, words

\* A text that is not garbage is not blank, nor is the key made of it; and it
\* is not made of nothing.
LEMMA NotBlank ==
  ASSUME NEW surface, ~check_garbage(normalize_text(surface))
  PROVE  surface # <<>> /\ strip_accents(normalize_text(surface)) # <<>>
<1> DEFINE text == normalize_text(surface)
<1>1. ~IsBlank(text)
  BY DEF check_garbage
<1>2. surface # <<>>
  <2>1. SUFFICES ASSUME surface = <<>> PROVE DOMAIN text = {}
    BY <1>1 DEF IsBlank
  <2> DEFINE fixed == fix_lookalikes(surface)
             low == Lower(Strip(fixed))
             I == {i \in DOMAIN low : low[i] \in Whitespace => i = 1 \/ low[i - 1] \notin Whitespace}
             kept == Pick(low, I)
  <2>2. DOMAIN fixed = {}
    BY <2>1, NoElements DEF fix_lookalikes
  <2>3. Strip(fixed) = <<>>
    BY <2>2 DEF Strip
  <2>4. DOMAIN low = {}
    BY <2>3, NoElements DEF Lower
  <2>5. DOMAIN text = DOMAIN kept
    BY DEF normalize_text, Collapse
  <2>6. I = {}
    BY <2>4
  <2> HIDE DEF I, kept, low
  <2>7. DOMAIN kept = 1 .. Cardinality({})
    BY <2>6 DEF Pick, kept
  <2> QED
    BY <2>5, <2>7, FS_EmptySet
<1>3. DOMAIN text # {}
  BY <1>1 DEF IsBlank
<1>4. DOMAIN strip_accents(text) = DOMAIN text
  BY DEF strip_accents, Lower, strip_accents_preserve_case
<1> HIDE DEF text
<1>5. strip_accents(text) # <<>>
  BY <1>3, <1>4, NoElements
<1> QED
  BY <1>2, <1>5 DEF text

LEMMA LinesMade ==
  ASSUME NEW f, AreFiles(f)
  PROVE  AreLines(build_trusted_lexicon(f))
<1> DEFINE es == build_trusted_lexicon(f)
           words == WordsOf(f)
<1>1. StandFor(es, words)
  BY EntriesFacts
<1>2. AreRaw(AllRaw(f)) /\ Range(AllRaw(f)) = words
  BY AllRawFacts
<1> HIDE DEF es, words
<1>3. ASSUME NEW i \in DOMAIN es
      PROVE  /\ IsList(es[i].surface) /\ es[i].surface # <<>> /\ es[i].noTone # <<>>
             /\ es[i].normalized = normalize_text(es[i].surface)
  <2>1. PICK rw \in words : /\ es[i].normalized = rw.normalized /\ es[i].noTone = rw.noTone
                            /\ es[i].surface = rw.surface
    BY <1>1, <1>3 DEF StandFor, Range
  <2>2. /\ IsList(rw.surface) /\ rw.normalized = normalize_text(rw.surface)
        /\ rw.noTone = strip_accents(rw.normalized) /\ ~check_garbage(rw.normalized)
    BY <1>2 DEF AreRaw
  <2>3. rw.surface # <<>> /\ rw.noTone # <<>>
    BY <2>2, NotBlank
  <2> QED
    BY <2>1, <2>2, <2>3
<1>4. \A i, j \in DOMAIN es : es[j].surface = es[i].surface => j = i
  <2>1. SUFFICES ASSUME NEW i \in DOMAIN es, NEW j \in DOMAIN es, es[j].surface = es[i].surface
                 PROVE  j = i
    OBVIOUS
  <2>2. es[j].normalized = es[i].normalized
    BY <1>3, <2>1
  <2> QED
    BY <1>1, <2>2 DEF StandFor
<1> QED
  BY <1>1, <1>3, <1>4 DEF AreLines, StandFor, es

-----------------------------------------------------------------------------
(***************************************************************************)
(* Files that are missing.                                                 *)
(***************************************************************************)
LEMMA MissingFiles ==
  ASSUME NEW f \in SomeMissing
  PROVE  /\ AreFiles(f)
         /\ \A name : Restrict(f, DOMAIN f \ {name}) \in SomeMissing
<1>1. PICK all \in FileVersions : \E there \in SUBSET DOMAIN all : f = Restrict(all, there)
  BY DEF SomeMissing
<1> PICK there \in SUBSET DOMAIN all : f = Restrict(all, there)
  BY <1>1
<1>2. f = [x \in there |-> all[x]]
  BY DEF Restrict
<1>3. AreFiles(f)
  BY <1>1, <1>2, FilesAssumption DEF AreFiles, AreTexts
<1>4. \A name : Restrict(f, DOMAIN f \ {name}) \in SomeMissing
  <2>1. SUFFICES ASSUME NEW name PROVE Restrict(f, DOMAIN f \ {name}) \in SomeMissing
    OBVIOUS
  <2> DEFINE fewer == there \ {name}
  <2>2. Restrict(f, DOMAIN f \ {name}) = Restrict(all, fewer)
    BY <1>2 DEF Restrict
  <2> QED
    BY <1>1, <2>2 DEF SomeMissing
<1> QED
  BY <1>3, <1>4

LEMMA SomeFiles ==
  /\ \A f \in FileVersions : f \in SomeMissing
  /\ <<>> \in SomeMissing
<1>1. ASSUME NEW f \in FileVersions PROVE f \in SomeMissing
  <2>1. f = Restrict(f, DOMAIN f)
    BY FilesAssumption DEF Restrict
  <2> QED
    BY <2>1 DEF SomeMissing
<1>2. <<>> \in SomeMissing
  <2>1. PICK f \in FileVersions : TRUE
    BY FilesAssumption
  <2>2. Restrict(f, {}) = <<>>
    BY DEF Restrict
  <2> QED
    BY <2>2 DEF SomeMissing
<1> QED
  BY <1>1, <1>2

LEMMA ListsFacts ==
  ASSUME NEW f \in SomeMissing
  PROVE  /\ StandFor(Lists[f], WordsOf(f)) /\ AreLines(Lists[f])
         /\ RawLists[f] = AllRaw(f)
BY MissingFiles, EntriesFacts, LinesMade DEF Lists, RawLists

LEMMA FewerFiles ==
  ASSUME NEW f \in SomeMissing, NEW name
  PROVE  WordsOf(Restrict(f, DOMAIN f \ {name})) \subseteq WordsOf(f)
<1> DEFINE g == Restrict(f, DOMAIN f \ {name})
<1>1. DOMAIN g \subseteq DOMAIN f /\ \A x \in DOMAIN g : g[x] = f[x]
  BY DEF Restrict
<1> HIDE DEF g
<1>2. WordsOf(g) \subseteq WordsOf(f)
  BY <1>1 DEF WordsOf
<1> QED
  BY <1>2 DEF g

\* What the list loses nothing of, whatever the files.
LEMMA NothingLost ==
  ASSUME files \in SomeMissing
  PROVE  MergeLosesNothing
<1> DEFINE entries == Lists[files]
           words == WordsOf(files)
<1>1. StandFor(entries, words) /\ RawLists[files] = AllRaw(files)
  BY ListsFacts
<1>2. Range(RawLists[files]) = words
  BY <1>1, MissingFiles, AllRawFacts
<1>3. \A rw \in words : rw.source \in Origins
  BY MissingFiles, AllRawFacts DEF AreRaw
<1> HIDE DEF entries, words
<1>4. ASSUME NEW f \in DOMAIN files, NEW e \in Range(Lists[Restrict(files, DOMAIN files \ {f})])
      PROVE  \E now \in Range(entries) :
               now.normalized = e.normalized /\ now.confidence >= e.confidence
  <2> DEFINE few == Restrict(files, DOMAIN files \ {f})
             some == WordsOf(few)
  <2>1. few \in SomeMissing
    BY MissingFiles
  <2>2. some \subseteq words
    BY FewerFiles DEF words
  <2>3. StandFor(Lists[few], some) /\ e \in Range(Lists[few])
    BY <1>4, <2>1, ListsFacts
  <2> HIDE DEF few, some
  <2>4. e.confidence = Confidence(SourcesOf(some, e.normalized))
    BY <2>3 DEF StandFor
  <2>5. PICK rw \in some : e.normalized = rw.normalized
    BY <2>3 DEF StandFor
  <2>6. PICK now \in Range(entries) : now.normalized = e.normalized
    BY <1>1, <2>2, <2>5 DEF StandFor
  <2>7. now.confidence = Confidence(SourcesOf(words, e.normalized))
    BY <1>1, <2>6 DEF StandFor
  <2> DEFINE S == SourcesOf(some, e.normalized)
             T == SourcesOf(words, e.normalized)
  <2>8. T \in SUBSET Origins /\ S \in SUBSET T /\ S # {}
    BY <1>3, <2>2, <2>5 DEF SourcesOf
  <2> HIDE DEF S, T
  <2>9. Confidence(T) >= Confidence(S)
    BY <2>8, MoreIsMore
  <2> QED
    BY <2>4, <2>6, <2>7, <2>9 DEF S, T
<1>5. \A i, j \in DOMAIN entries : entries[i].normalized = entries[j].normalized => i = j
  BY <1>1 DEF StandFor
<1>6. \A rw \in Range(RawLists[files]) :
        \E e \in Range(entries) : e.normalized = rw.normalized /\ e.noTone = rw.noTone
  BY <1>1, <1>2 DEF StandFor
<1> QED
  BY <1>4, <1>5, <1>6 DEF MergeLosesNothing, entries

-----------------------------------------------------------------------------
(***************************************************************************)
(* The builds.                                                             *)
(***************************************************************************)
\* What the variables other than the reader hold.
Shapes ==
  /\ resources \in ResourceVersions /\ files \in SomeMissing
  /\ DOMAIN jsonl = {"there", "lines", "cut"} /\ AreLines(jsonl.lines)
  /\ DOMAIN db = {"file", "tables", "commits"} /\ AreTables(db.tables) /\ db.commits \in Nat
  /\ DOMAIN build = {"step", "tables", "trusted", "tokens"} /\ AreTables(build.tables)
  /\ build.step \in {"idle", "json", "trusted", "syllables", "commit"}

\* A database is empty, or complete for some resources.  The transaction of a
\* running build starts from the database there is and only adds to it: the
\* resources first, then the trusted words it reads, then their syllables.
Building ==
  /\ Shapes
  /\ \/ \A t \in TableNames : db.tables[t] = <<>>
     \/ \E r \in ResourceVersions : Complete(db.tables, r)
  /\ build.step # "idle" => KeysKept(db.tables, build.tables)
  /\ build.step \in {"trusted", "syllables", "commit"} =>
       \E r \in ResourceVersions : Complete(build.tables, r)
  /\ build.step \in {"json", "trusted"} => build.trusted = <<>>
  /\ build.step \in {"syllables", "commit"} => HasTrusted(build.tables, build.trusted)
  /\ build.step = "commit" /\ build.tokens = build.trusted =>
       HasSyllables(build.tables, build.trusted)

LEMMA StaysComplete ==
  ASSUME NEW tables, NEW later, KeysKept(tables, later), NEW r, Complete(tables, r)
  PROVE  Complete(later, r)
BY TableNamesAre DEF Complete, KeysKept, JsonTables

LEMMA KeysKeptAlong ==
  ASSUME NEW a, NEW b, NEW c, KeysKept(a, b), KeysKept(b, c)
  PROVE  KeysKept(a, c)
BY DEF KeysKept

LEMMA NoTables == AreTables(EmptyTables) /\ \A t \in TableNames : EmptyTables[t] = <<>>
BY NoElements DEF AreTables, EmptyTables

LEMMA NoLines ==
  AreLines(<<>>) /\ \A tables : HasTrusted(tables, <<>>) /\ HasSyllables(tables, <<>>)
BY NoElements DEF AreLines, HasTrusted, HasSyllables

LEMMA NoBuildFacts ==
  /\ DOMAIN NoBuild = {"step", "tables", "trusted", "tokens"}
  /\ NoBuild.step = "idle" /\ AreTables(NoBuild.tables)
BY NoTables DEF NoBuild

LEMMA FirstLines ==
  ASSUME NEW lines, AreLines(lines), TornAt < Len(lines)
  PROVE  AreLines(SubSeq(lines, 1, TornAt))
<1> DEFINE t == SubSeq(lines, 1, TornAt)
           n == TornAt
<1>1. IsList(lines) /\ Len(lines) \in Nat /\ DOMAIN lines = 1 .. Len(lines)
  BY ListFacts DEF AreLines
<1>2. n \in 0 .. Len(lines)
  BY <1>1, BoundsAssumption
<1>3. IsList(t) /\ Len(t) = n /\ \A i \in 1 .. n : t[i] = lines[i]
  BY <1>1, <1>2, ListSub
<1> HIDE DEF t
<1>4. DOMAIN t = 1 .. n
  BY <1>3, ListFacts
<1> HIDE DEF n
<1>5. \A i \in DOMAIN t : i \in DOMAIN lines /\ t[i] = lines[i]
  BY <1>1, <1>2, <1>3, <1>4
<1>6. AreLines(t)
  BY <1>3, <1>5 DEF AreLines
<1> QED
  BY <1>6 DEF t

LEMMA BuildingInit == Init => Building
<1> SUFFICES ASSUME Init PROVE Building
  OBVIOUS
<1>1. /\ DOMAIN jsonl = {"there", "lines", "cut"} /\ jsonl.lines = <<>>
      /\ DOMAIN db = {"file", "tables", "commits"} /\ db.tables = EmptyTables /\ db.commits = 0
      /\ build = NoBuild /\ resources \in ResourceVersions /\ files = <<>>
  BY DEF Init
<1>2. Shapes
  BY <1>1, NoLines, NoTables, NoBuildFacts, SomeFiles DEF Shapes
<1> QED
  BY <1>1, <1>2, NoTables, NoBuildFacts DEF Building

LEMMA ListSteps ==
  ASSUME Building, NEW f \in FileVersions,
         TrustedBuild(f) \/ \E cut \in BOOLEAN : TrustedTorn(f, cut)
  PROVE  Building'
<1>1. f \in SomeMissing /\ AreLines(Lists[f])
  BY SomeFiles, ListsFacts
<1>2. UNCHANGED <<resources, db, build>> /\ files' = f
  BY DEF TrustedBuild, TrustedTorn
<1>3. DOMAIN jsonl' = {"there", "lines", "cut"} /\ AreLines(jsonl'.lines)
  <2>1. CASE TrustedBuild(f)
    BY <1>1, <2>1 DEF TrustedBuild
  <2>2. ASSUME NEW cut \in BOOLEAN, TrustedTorn(f, cut)
        PROVE  DOMAIN jsonl' = {"there", "lines", "cut"} /\ AreLines(jsonl'.lines)
    <3>1. /\ DOMAIN jsonl' = {"there", "lines", "cut"} /\ TornAt < Len(Lists[f])
          /\ jsonl'.lines = IF cut THEN <<>> ELSE SubSeq(Lists[f], 1, TornAt)
      BY <2>2 DEF TrustedTorn
    <3>2. AreLines(SubSeq(Lists[f], 1, TornAt))
      BY <1>1, <3>1, FirstLines
    <3> QED
      BY <3>1, <3>2, NoLines
  <2> QED
    BY <2>1, <2>2
<1>4. Shapes'
  BY <1>1, <1>2, <1>3 DEF Building, Shapes
<1> QED
  BY <1>2, <1>4 DEF Building

LEMMA OpenStep ==
  ASSUME Building, NEW r \in ResourceVersions, OpenDb(r)
  PROVE  Building'
<1>1. UNCHANGED <<files, jsonl>> /\ resources' = r
  BY DEF OpenDb
<1>2. /\ DOMAIN db' = {"file", "tables", "commits"}
      /\ db'.tables = db.tables /\ db'.commits = db.commits
  BY DEF OpenDb, Building, Shapes
<1>3. /\ DOMAIN build' = {"step", "tables", "trusted", "tokens"}
      /\ build'.step = "json" /\ build'.tables = db.tables /\ build'.trusted = <<>>
  BY DEF OpenDb, NoBuild
<1>4. Shapes'
  BY <1>1, <1>2, <1>3 DEF Building, Shapes
<1>5. KeysKept(db.tables, db.tables)
  BY DEF KeysKept
<1> QED
  BY <1>2, <1>3, <1>4, <1>5 DEF Building

LEMMA PopulateJsonStep ==
  ASSUME Building, PopulateJson
  PROVE  Building'
<1> DEFINE later == _populate_from_json(build.tables, resources)
<1>1. UNCHANGED <<files, resources, jsonl, db>> /\ build.step = "json"
  BY DEF PopulateJson
<1>2. /\ DOMAIN build' = {"step", "tables", "trusted", "tokens"}
      /\ build'.step \in {"trusted", "commit"} /\ build'.tables = later
      /\ build'.trusted = build.trusted
  BY DEF PopulateJson, Building, Shapes
<1> HIDE DEF later
<1>3. AreTables(later) /\ KeysKept(build.tables, later) /\ Complete(later, resources)
  BY JsonPopulates DEF Building, Shapes, later
<1>4. build.trusted = <<>> /\ KeysKept(db.tables, build.tables) /\ resources \in ResourceVersions
  BY <1>1 DEF Building, Shapes
<1>5. KeysKept(db.tables, later)
  BY <1>3, <1>4, KeysKeptAlong
<1>6. HasTrusted(later, <<>>) /\ HasSyllables(later, <<>>)
  BY NoLines
<1>7. Shapes'
  BY <1>1, <1>2, <1>3 DEF Building, Shapes
<1> QED
  BY <1>1, <1>2, <1>3, <1>4, <1>5, <1>6, <1>7 DEF Building

LEMMA PopulateTrustedStep ==
  ASSUME Building, PopulateTrusted
  PROVE  Building'
<1> DEFINE later == _populate_trusted_jsonl(build.tables, jsonl.lines)
<1>1. UNCHANGED <<files, resources, jsonl, db>> /\ build.step = "trusted"
  BY DEF PopulateTrusted
<1>2. /\ DOMAIN build' = {"step", "tables", "trusted", "tokens"}
      /\ build'.step = "syllables" /\ build'.tables = later /\ build'.trusted = jsonl.lines
  BY DEF PopulateTrusted, Building, Shapes
<1> HIDE DEF later
<1>3. /\ AreTables(later) /\ KeysKept(build.tables, later)
      /\ HasTrusted(later, jsonl.lines)
  BY TrustedPopulates DEF Building, Shapes, later
<1>4. KeysKept(db.tables, build.tables) /\ \E r \in ResourceVersions : Complete(build.tables, r)
  BY <1>1 DEF Building
<1>5. KeysKept(db.tables, later) /\ \E r \in ResourceVersions : Complete(later, r)
  BY <1>3, <1>4, KeysKeptAlong, StaysComplete
<1>6. Shapes'
  BY <1>1, <1>2, <1>3 DEF Building, Shapes
<1> QED
  BY <1>1, <1>2, <1>3, <1>5, <1>6 DEF Building

LEMMA PopulateSyllablesStep ==
  ASSUME Building, PopulateSyllables
  PROVE  Building'
<1> DEFINE later == _populate_syllables(build.tables, jsonl.lines)
<1>1. UNCHANGED <<files, resources, jsonl, db>> /\ build.step = "syllables"
  BY DEF PopulateSyllables
<1>2. /\ DOMAIN build' = {"step", "tables", "trusted", "tokens"}
      /\ build'.step = "commit" /\ build'.tables = later
      /\ build'.trusted = build.trusted /\ build'.tokens = jsonl.lines
  BY DEF PopulateSyllables, Building, Shapes
<1> HIDE DEF later
<1>3. /\ AreTables(later) /\ KeysKept(build.tables, later)
      /\ later.words = build.tables.words /\ later.phrases = build.tables.phrases
      /\ HasSyllables(later, jsonl.lines)
  BY SyllablesPopulate DEF Building, Shapes, later
<1>4. /\ KeysKept(db.tables, build.tables) /\ HasTrusted(build.tables, build.trusted)
      /\ \E r \in ResourceVersions : Complete(build.tables, r)
  BY <1>1 DEF Building
<1>5. KeysKept(db.tables, later) /\ \E r \in ResourceVersions : Complete(later, r)
  BY <1>3, <1>4, KeysKeptAlong, StaysComplete
<1>6. HasTrusted(later, build.trusted)
  BY <1>3, <1>4 DEF HasTrusted
<1>7. Shapes'
  BY <1>1, <1>2, <1>3 DEF Building, Shapes
<1> QED
  BY <1>1, <1>2, <1>3, <1>5, <1>6, <1>7 DEF Building

LEMMA CommitStep ==
  ASSUME Building, Commit
  PROVE  Building'
<1>1. /\ UNCHANGED <<files, resources, jsonl>> /\ build.step = "commit" /\ build' = NoBuild
      /\ DOMAIN db' = {"file", "tables", "commits"}
      /\ db'.tables = build.tables /\ db'.commits = db.commits + 1
  BY DEF Commit, Building, Shapes
<1>2. Shapes'
  BY <1>1, NoBuildFacts DEF Building, Shapes
<1> QED
  BY <1>1, <1>2, NoBuildFacts DEF Building

LEMMA BuildingStep == Building /\ [Next]_vars => Building'
<1> SUFFICES ASSUME Building, [Next]_vars PROVE Building'
  OBVIOUS
<1>1. ASSUME NEW f \in FileVersions,
             TrustedBuild(f) \/ \E cut \in BOOLEAN : TrustedTorn(f, cut)
      PROVE  Building'
  BY <1>1, ListSteps
<1>2. ASSUME NEW r \in ResourceVersions, OpenDb(r) PROVE Building'
  BY <1>2, OpenStep
<1>3. CASE PopulateJson
  BY <1>3, PopulateJsonStep
<1>4. CASE PopulateTrusted
  BY <1>4, PopulateTrustedStep
<1>5. CASE PopulateSyllables
  BY <1>5, PopulateSyllablesStep
<1>6. CASE Commit
  BY <1>6, CommitStep
<1>7. CASE Crash
  <2>1. UNCHANGED <<files, resources, jsonl, db>> /\ build' = NoBuild
    BY <1>7 DEF Crash
  <2>2. Shapes'
    BY <2>1, NoBuildFacts DEF Building, Shapes
  <2> QED
    BY <2>1, <2>2, NoBuildFacts DEF Building
<1>8. ASSUME UNCHANGED <<files, resources, jsonl, db, build>> PROVE Building'
  BY <1>8 DEF Building, Shapes
<1>9. ASSUME NEW mode, NEW fallback, LoadDefault(mode, fallback) PROVE Building'
  BY <1>8, <1>9 DEF LoadDefault, Begin
<1>10. CASE ReadTable \/ ReadFails \/ Exit
  BY <1>8, <1>10 DEF ReadTable, ReadFails, Exit
<1>11. CASE UNCHANGED vars
  BY <1>8, <1>11 DEF vars
<1> QED
  BY <1>1, <1>2, <1>3, <1>4, <1>5, <1>6, <1>7, <1>9, <1>10, <1>11 DEF Next

LEMMA BuildingInvariance == Spec => []Building
BY BuildingInit, BuildingStep, PTL DEF Spec

\* However a build ends, other processes see no database that holds a part of
\* the resources only (build_trusted_lexicon_db.py:383).
THEOREM AllOrNothingCorrect == Spec => []AllOrNothing
<1>1. Building => AllOrNothing
  BY DEF Building, AllOrNothing, Complete
<1> QED
  BY <1>1, BuildingInvariance, PTL

\* Whatever the raw files hold and whichever of them are missing, the list has
\* one entry for each normalized text of a usable word, and one file less takes
\* no word away from it and makes none more trusted
\* (build_trusted_words_vi.py:300).
THEOREM MergeLosesNothingCorrect == Spec => []MergeLosesNothing
<1>1. Building => MergeLosesNothing
  BY NothingLost DEF Building, Shapes
<1> QED
  BY <1>1, BuildingInvariance, PTL

\* A build that ends well has lost no row of the database it opened, and every
\* word, phrase and syllable it read is in it
\* (build_trusted_lexicon_db.py:317).
THEOREM BuildKeepsAndAddsCorrect == Spec => BuildKeepsAndAdds
<1> DEFINE Ends == db'.commits # db.commits =>
                     /\ \A t \in TableNames : Keys(db.tables[t]) \subseteq Keys(db'.tables[t])
                     /\ \A e \in Range(build.trusted) :
                          /\ e.kind = "phrase" => e.surface \in Keys(db'.tables.phrases)
                          /\ e.kind # "phrase" => TrustedRow(e) \in Range(db'.tables.words)
                          /\ build.tokens = build.trusted =>
                               \A t \in Range(SyllableTokens(<<e>>)) :
                                  <<strip_accents(t), t>> \in Keys(db'.tables.syllables)
<1>1. Building /\ [Next]_vars => [Ends]_vars
  <2> SUFFICES ASSUME Building, Next PROVE Ends
    OBVIOUS
  <2>1. CASE Commit
    <3>1. build.step = "commit" /\ db'.tables = build.tables
      BY <2>1 DEF Commit, Building, Shapes
    <3>2. /\ KeysKept(db.tables, build.tables) /\ HasTrusted(build.tables, build.trusted)
          /\ build.tokens = build.trusted => HasSyllables(build.tables, build.trusted)
      BY <3>1 DEF Building
    <3> QED
      BY <3>1, <3>2 DEF KeysKept, HasTrusted, HasSyllables
  <2>2. ASSUME NEW r \in ResourceVersions, OpenDb(r) PROVE Ends
    <3>1. db'.commits = db.commits
      BY <2>2 DEF OpenDb, Building, Shapes
    <3> QED
      BY <3>1
  <2>3. ASSUME UNCHANGED db PROVE Ends
    BY <2>3
  <2>4. CASE \E f \in FileVersions : TrustedBuild(f) \/ \E cut \in BOOLEAN : TrustedTorn(f, cut)
    BY <2>3, <2>4 DEF TrustedBuild, TrustedTorn
  <2>5. CASE PopulateJson \/ PopulateTrusted \/ PopulateSyllables \/ Crash
    BY <2>3, <2>5 DEF PopulateJson, PopulateTrusted, PopulateSyllables, Crash
  <2>6. CASE \E mode \in {"json", "sqlite", "hybrid"}, fallback \in BOOLEAN :
                LoadDefault(mode, fallback)
    BY <2>3, <2>6 DEF LoadDefault, Begin
  <2>7. CASE ReadTable \/ ReadFails \/ Exit
    BY <2>3, <2>7 DEF ReadTable, ReadFails, Exit
  <2> QED
    BY <2>1, <2>2, <2>4, <2>5, <2>6, <2>7 DEF Next
<1> QED
  BY <1>1, BuildingInvariance, PTL DEF Spec, BuildKeepsAndAdds

-----------------------------------------------------------------------------
(***************************************************************************)
(* The indexes of a store.                                                 *)
(***************************************************************************)
\* The dictionary lists the entries of S under the field.
Indexes(dict, field, S) ==
  /\ DOMAIN dict = {e[field] : e \in S}
  /\ \A k \in DOMAIN dict : IsList(dict[k]) /\ Range(dict[k]) = {e \in S : e[field] = k}

LEMMA HavingFacts ==
  ASSUME NEW entries, IsList(entries), NEW field, NEW k
  PROVE  /\ IsList(Having(entries, field, k))
         /\ Range(Having(entries, field, k)) = {e \in Range(entries) : e[field] = k}
<1> DEFINE I == {i \in DOMAIN entries : entries[i][field] = k}
<1>1. I \in SUBSET (DOMAIN entries) /\ Having(entries, field, k) = Pick(entries, I)
  BY DEF Having
<1>2. {entries[i] : i \in I} = {e \in Range(entries) : e[field] = k}
  BY DEF Range
<1> HIDE DEF I
<1> QED
  BY <1>1, <1>2, PickRange

LEMMA GetIndexed ==
  ASSUME NEW dict, NEW field, NEW S, Indexes(dict, field, S), NEW k
  PROVE  IsList(Get(dict, k)) /\ Range(Get(dict, k)) = {e \in S : e[field] = k}
<1>1. CASE k \in DOMAIN dict
  BY <1>1 DEF Get, Indexes
<1>2. CASE k \notin DOMAIN dict
  <2>1. Get(dict, k) = <<>>
    BY <1>2 DEF Get
  <2>2. {e \in S : e[field] = k} = {}
    BY <1>2 DEF Indexes
  <2> QED
    BY <2>1, <2>2, NoElements
<1> QED
  BY <1>1, <1>2

LEMMA AppendIndexed ==
  ASSUME NEW dict, NEW field, NEW S, Indexes(dict, field, S), NEW entries, IsList(entries)
  PROVE  Indexes(AppendAll(dict, field, entries), field, S \cup Range(entries))
<1> DEFINE later == AppendAll(dict, field, entries)
           T == S \cup Range(entries)
<1>1. /\ DOMAIN later = DOMAIN dict \cup {entries[i][field] : i \in DOMAIN entries}
      /\ \A k \in DOMAIN later : later[k] = Get(dict, k) \o Having(entries, field, k)
  BY DEF AppendAll
<1> HIDE DEF later
<1>2. {entries[i][field] : i \in DOMAIN entries} = {e[field] : e \in Range(entries)}
  BY DEF Range
<1>3. DOMAIN later = {e[field] : e \in T}
  BY <1>1, <1>2 DEF Indexes
<1>4. ASSUME NEW k \in DOMAIN later
      PROVE  IsList(later[k]) /\ Range(later[k]) = {e \in T : e[field] = k}
  <2>1. /\ IsList(Get(dict, k)) /\ Range(Get(dict, k)) = {e \in S : e[field] = k}
        /\ IsList(Having(entries, field, k))
        /\ Range(Having(entries, field, k)) = {e \in Range(entries) : e[field] = k}
    BY GetIndexed, HavingFacts
  <2>2. /\ IsList(later[k])
        /\ Range(later[k]) = Range(Get(dict, k)) \cup Range(Having(entries, field, k))
    BY <1>1, <2>1, RangeConcat
  <2> QED
    BY <2>1, <2>2
<1>5. Indexes(later, field, T)
  BY <1>3, <1>4 DEF Indexes
<1> QED
  BY <1>5 DEF later

LEMMA NothingIndexed ==
  ASSUME NEW field
  PROVE  Indexes(<<>>, field, {})
BY NoElements DEF Indexes

\* No id twice, and all of one kind.
OneEach(list, prefix) ==
  /\ \A i \in DOMAIN list : list[i].id[1] = prefix
  /\ \A i, j \in DOMAIN list : list[i].id = list[j].id => i = j

LEMMA OneEachConcat ==
  ASSUME NEW s, NEW t, IsList(s), IsList(t),
         \A i, j \in DOMAIN s : s[i].id = s[j].id => i = j,
         \A i, j \in DOMAIN t : t[i].id = t[j].id => i = j,
         \A i \in DOMAIN s, j \in DOMAIN t : s[i].id # t[j].id
  PROVE  \A i, j \in DOMAIN (s \o t) : (s \o t)[i].id = (s \o t)[j].id => i = j
<1> DEFINE u == s \o t
           m == Len(s)
           n == Len(t)
<1>1. m \in Nat /\ n \in Nat /\ DOMAIN s = 1 .. m /\ DOMAIN t = 1 .. n
  BY ListFacts
<1>2. /\ IsList(u) /\ Len(u) = m + n
      /\ \A i \in 1 .. m : u[i] = s[i]
      /\ \A i \in 1 .. n : u[m + i] = t[i]
  BY ListConcat
<1>3. DOMAIN u = 1 .. m + n
  BY <1>2, ListFacts
<1> HIDE DEF u, m, n
<1>4. \A i \in 1 .. m + n : \/ i \in 1 .. m /\ u[i] = s[i]
                            \/ i - m \in 1 .. n /\ u[i] = t[i - m] /\ i > m
  <2>1. SUFFICES ASSUME NEW i \in 1 .. m + n, i \notin 1 .. m
                 PROVE  i - m \in 1 .. n /\ u[i] = t[i - m] /\ i > m
    BY <1>2
  <2>2. i - m \in 1 .. n /\ m + (i - m) = i /\ i > m
    BY <1>1, <2>1
  <2> QED
    BY <1>2, <2>2
<1>5. ASSUME NEW i \in 1 .. m + n, NEW j \in 1 .. m + n, u[i].id = u[j].id PROVE i = j
  <2>1. CASE i \in 1 .. m /\ u[i] = s[i] /\ j \in 1 .. m /\ u[j] = s[j]
    BY <1>1, <1>5, <2>1
  <2>2. CASE i - m \in 1 .. n /\ u[i] = t[i - m] /\ j - m \in 1 .. n /\ u[j] = t[j - m]
    <3>1. i - m = j - m
      BY <1>1, <1>5, <2>2
    <3> QED
      BY <1>1, <3>1
  <2>3. CASE i \in 1 .. m /\ u[i] = s[i] /\ j - m \in 1 .. n /\ u[j] = t[j - m]
    BY <1>1, <1>5, <2>3
  <2>4. CASE i - m \in 1 .. n /\ u[i] = t[i - m] /\ j \in 1 .. m /\ u[j] = s[j]
    BY <1>1, <1>5, <2>4
  <2> QED
    BY <1>4, <2>1, <2>2, <2>3, <2>4
<1> QED
  BY <1>3, <1>5 DEF u

LEMMA OneEachMore ==
  ASSUME NEW s, NEW t, IsList(s), IsList(t), NEW prefix,
         OneEach(s, prefix), OneEach(t, prefix),
         \A i \in DOMAIN s, j \in DOMAIN t : s[i].id # t[j].id
  PROVE  OneEach(s \o t, prefix)
<1> DEFINE u == s \o t
<1>1. \A i, j \in DOMAIN u : u[i].id = u[j].id => i = j
  BY OneEachConcat DEF OneEach
<1>2. Range(u) = Range(s) \cup Range(t)
  BY RangeConcat
<1>3. \A e \in Range(s) \cup Range(t) : e.id[1] = prefix
  BY DEF OneEach, Range
<1> HIDE DEF u
<1>4. \A i \in DOMAIN u : u[i].id[1] = prefix
  BY <1>2, <1>3 DEF Range
<1>5. OneEach(u, prefix)
  BY <1>1, <1>4 DEF OneEach
<1> QED
  BY <1>5 DEF u

\* The entries that are taken in, in place of all of them.
LEMMA UnseenFacts ==
  ASSUME NEW s, NEW entries, IsList(entries), NEW prefix,
         \A i \in DOMAIN entries : entries[i].id[1] = prefix
  PROVE  /\ IsList(Unseen(s, entries)) /\ OneEach(Unseen(s, entries), prefix)
         /\ Range(Unseen(s, entries)) \subseteq Range(entries)
         /\ \A i \in DOMAIN Unseen(s, entries) : Unseen(s, entries)[i].id \notin Ids(s)
<1> DEFINE ids == [i \in DOMAIN entries |-> entries[i].id]
           I == {i \in Firsts(ids) : ids[i] \notin Ids(s)}
           u == Unseen(s, entries)
<1>1. u = Pick(entries, I)
  BY DEF Unseen
<1>2. DOMAIN ids = DOMAIN entries /\ \A i \in DOMAIN entries : ids[i] = entries[i].id
  OBVIOUS
<1> HIDE DEF ids, u
<1>3. I \in SUBSET (DOMAIN entries)
  BY <1>2 DEF Firsts
<1>4. \A i, j \in I : entries[i].id = entries[j].id => i = j
  <2>1. SUFFICES ASSUME NEW i \in I, NEW j \in I, entries[i].id = entries[j].id, i # j
                 PROVE  FALSE
    OBVIOUS
  <2>2. i \in DOMAIN entries /\ j \in DOMAIN entries /\ i \in Nat /\ j \in Nat
    BY <1>3, ListFacts
  <2>3. i < j \/ j < i
    BY <2>1, <2>2
  <2> QED
    BY <1>2, <2>1, <2>2, <2>3 DEF Firsts
<1>5. \A i \in I : entries[i].id \notin Ids(s)
  BY <1>2, <1>3
<1> HIDE DEF I
<1>6. IsList(u) /\ Range(u) = {entries[i] : i \in I}
  BY <1>1, <1>3, PickRange
<1>7. PICK from : \A k \in DOMAIN u : /\ from[k] \in I /\ u[k] = entries[from[k]]
                                      /\ \A l \in DOMAIN u : from[k] = from[l] => k = l
  BY <1>1, <1>3, PickPlaces
<1>8. /\ \A k \in DOMAIN u : u[k].id[1] = prefix /\ u[k].id \notin Ids(s)
      /\ \A k, l \in DOMAIN u : u[k].id = u[l].id => k = l
  BY <1>3, <1>4, <1>5, <1>7
<1>9. Range(u) \subseteq Range(entries)
  BY <1>3, <1>6 DEF Range
<1> QED
  BY <1>6, <1>8, <1>9 DEF OneEach, u

-----------------------------------------------------------------------------
(***************************************************************************)
(* A store whose parts agree.                                              *)
(***************************************************************************)
StoreFields ==
  {"syllableData", "wordData", "unitData", "phraseData", "syllableIndex", "syllableBySurface",
   "wordIndex", "wordBySurface", "phraseIndex", "phraseSurfaces", "abbrevData", "ocrData",
   "foreignWords", "wordSurfaces"}

Words(s) == Range(s.wordData) \cup Range(s.unitData)

Agrees(s) ==
  /\ DOMAIN s = StoreFields
  /\ IsList(s.syllableData) /\ OneEach(s.syllableData, "syllable")
  /\ IsList(s.wordData) /\ OneEach(s.wordData, "word")
  /\ IsList(s.unitData) /\ OneEach(s.unitData, "unit")
  /\ \A e \in Range(s.syllableData) : e.kind # "unit"
  /\ Indexes(s.syllableIndex, "noTone", Range(s.syllableData))
  /\ Indexes(s.syllableBySurface, "surface", Range(s.syllableData))
  /\ Indexes(s.wordIndex, "noTone", Words(s))
  /\ Indexes(s.wordBySurface, "surface", Words(s))
  /\ s.wordSurfaces = {e.surface : e \in Words(s)}
  /\ \A k \in DOMAIN s.phraseSurfaces : IsList(s.phraseSurfaces[k])

\* What was there is there still, and the first answer for a phrase is the same.
Grows(s, later) ==
  /\ Range(s.wordData) \subseteq Range(later.wordData)
  /\ Range(s.unitData) \subseteq Range(later.unitData)
  /\ \A k \in DOMAIN s.phraseSurfaces :
       /\ k \in DOMAIN later.phraseSurfaces
       /\ s.phraseSurfaces[k] # <<>> =>
            /\ later.phraseSurfaces[k] # <<>>
            /\ later.phraseSurfaces[k][1] = s.phraseSurfaces[k][1]

LEMMA DataRange ==
  ASSUME NEW s, Agrees(s)
  PROVE  /\ IsList(data(s)) /\ Range(data(s)) = Range(s.syllableData) \cup Words(s)
         /\ Ids(s) = {e.id : e \in Range(s.syllableData) \cup Words(s)}
<1>1. /\ IsList(s.syllableData \o s.wordData)
      /\ Range(s.syllableData \o s.wordData) = Range(s.syllableData) \cup Range(s.wordData)
  BY RangeConcat DEF Agrees
<1>2. /\ IsList(data(s))
      /\ Range(data(s)) = Range(s.syllableData \o s.wordData) \cup Range(s.unitData)
  BY <1>1, RangeConcat DEF Agrees, data
<1> QED
  BY <1>1, <1>2 DEF Words, Ids

\* Nothing that the answers about words, units and phrases rest on is changed.
SameWords(s, later) ==
  /\ DOMAIN later = DOMAIN s
  /\ later.syllableData = s.syllableData /\ later.wordData = s.wordData
  /\ later.unitData = s.unitData /\ later.syllableIndex = s.syllableIndex
  /\ later.syllableBySurface = s.syllableBySurface /\ later.wordIndex = s.wordIndex
  /\ later.wordBySurface = s.wordBySurface /\ later.wordSurfaces = s.wordSurfaces
  /\ later.phraseSurfaces = s.phraseSurfaces

LEMMA SameAgrees ==
  ASSUME NEW s, Agrees(s), NEW later, SameWords(s, later)
  PROVE  Agrees(later) /\ Grows(s, later)
<1>1. Words(later) = Words(s)
  BY DEF Words, SameWords
<1>2. Agrees(later)
  BY <1>1 DEF Agrees, SameWords
<1>3. Grows(s, later)
  BY DEF Grows, SameWords
<1> QED
  BY <1>2, <1>3

LEMMA AddSyllablesFacts ==
  ASSUME NEW s, Agrees(s), NEW entries, IsList(entries), OneEach(entries, "syllable"),
         \A e \in Range(entries) : e.kind # "unit",
         \A i \in DOMAIN s.syllableData, j \in DOMAIN entries :
            s.syllableData[i].id # entries[j].id
  PROVE  Agrees(AddSyllables(s, entries)) /\ Grows(s, AddSyllables(s, entries))
<1> DEFINE later == AddSyllables(s, entries)
<1>1. /\ DOMAIN later = StoreFields
      /\ later.syllableData = s.syllableData \o entries
      /\ later.syllableIndex = AppendAll(s.syllableIndex, "noTone", entries)
      /\ later.syllableBySurface = AppendAll(s.syllableBySurface, "surface", entries)
      /\ later.wordData = s.wordData /\ later.unitData = s.unitData
      /\ later.wordIndex = s.wordIndex /\ later.wordBySurface = s.wordBySurface
      /\ later.wordSurfaces = s.wordSurfaces /\ later.phraseSurfaces = s.phraseSurfaces
  BY DEF AddSyllables, Agrees, StoreFields
<1> HIDE DEF later
<1>2. Words(later) = Words(s)
  BY <1>1 DEF Words
<1>3. /\ IsList(later.syllableData)
      /\ Range(later.syllableData) = Range(s.syllableData) \cup Range(entries)
  BY <1>1, RangeConcat DEF Agrees
<1>4. OneEach(later.syllableData, "syllable")
  BY <1>1, OneEachMore DEF Agrees
<1>5. /\ Indexes(later.syllableIndex, "noTone", Range(later.syllableData))
      /\ Indexes(later.syllableBySurface, "surface", Range(later.syllableData))
  BY <1>1, <1>3, AppendIndexed DEF Agrees
<1>6. \A e \in Range(later.syllableData) : e.kind # "unit"
  BY <1>3 DEF Agrees
<1>7. Agrees(later)
  BY <1>1, <1>2, <1>3, <1>4, <1>5, <1>6 DEF Agrees
<1>8. Grows(s, later)
  BY <1>1 DEF Grows
<1> QED
  BY <1>7, <1>8 DEF later

LEMMA AddWordsFacts ==
  ASSUME NEW s, Agrees(s), NEW entries, IsList(entries), OneEach(entries, "word"),
         \A i \in DOMAIN s.wordData, j \in DOMAIN entries : s.wordData[i].id # entries[j].id
  PROVE  /\ Agrees(AddWords(s, entries)) /\ Grows(s, AddWords(s, entries))
         /\ Range(AddWords(s, entries).wordData) = Range(s.wordData) \cup Range(entries)
         /\ AddWords(s, entries).unitData = s.unitData
         /\ AddWords(s, entries).phraseSurfaces = s.phraseSurfaces
<1> DEFINE later == AddWords(s, entries)
<1>1. /\ DOMAIN later = StoreFields
      /\ later.wordData = s.wordData \o entries
      /\ later.wordIndex = AppendAll(s.wordIndex, "noTone", entries)
      /\ later.wordBySurface = AppendAll(s.wordBySurface, "surface", entries)
      /\ later.wordSurfaces = s.wordSurfaces \cup {entries[i].surface : i \in DOMAIN entries}
      /\ later.syllableData = s.syllableData /\ later.unitData = s.unitData
      /\ later.syllableIndex = s.syllableIndex
      /\ later.syllableBySurface = s.syllableBySurface
      /\ later.phraseSurfaces = s.phraseSurfaces
  BY DEF AddWords, IndexWords, Agrees, StoreFields
<1> HIDE DEF later
<1>2. /\ IsList(later.wordData)
      /\ Range(later.wordData) = Range(s.wordData) \cup Range(entries)
  BY <1>1, RangeConcat DEF Agrees
<1>3. Words(later) = Words(s) \cup Range(entries)
  BY <1>1, <1>2 DEF Words
<1>4. OneEach(later.wordData, "word")
  BY <1>1, OneEachMore DEF Agrees
<1>5. /\ Indexes(later.wordIndex, "noTone", Words(later))
      /\ Indexes(later.wordBySurface, "surface", Words(later))
  BY <1>1, <1>3, AppendIndexed DEF Agrees
<1>6. later.wordSurfaces = {e.surface : e \in Words(later)}
  <2>1. {entries[i].surface : i \in DOMAIN entries} = {e.surface : e \in Range(entries)}
    BY DEF Range
  <2>2. later.wordSurfaces = {e.surface : e \in Words(s)} \cup {e.surface : e \in Range(entries)}
    BY <1>1, <2>1 DEF Agrees
  <2> QED
    BY <1>3, <2>2
<1>7. Agrees(later)
  BY <1>1, <1>2, <1>4, <1>5, <1>6 DEF Agrees
<1>8. Grows(s, later)
  BY <1>1, <1>2 DEF Grows
<1> QED
  BY <1>1, <1>2, <1>7, <1>8 DEF later

LEMMA AddUnitsFacts ==
  ASSUME NEW s, Agrees(s), NEW entries, IsList(entries), OneEach(entries, "unit"),
         \A i \in DOMAIN s.unitData, j \in DOMAIN entries : s.unitData[i].id # entries[j].id
  PROVE  /\ Agrees(AddUnits(s, entries)) /\ Grows(s, AddUnits(s, entries))
         /\ Range(AddUnits(s, entries).unitData) = Range(s.unitData) \cup Range(entries)
         /\ AddUnits(s, entries).phraseSurfaces = s.phraseSurfaces
<1> DEFINE later == AddUnits(s, entries)
<1>1. /\ DOMAIN later = StoreFields
      /\ later.unitData = s.unitData \o entries
      /\ later.wordIndex = AppendAll(s.wordIndex, "noTone", entries)
      /\ later.wordBySurface = AppendAll(s.wordBySurface, "surface", entries)
      /\ later.wordSurfaces = s.wordSurfaces \cup {entries[i].surface : i \in DOMAIN entries}
      /\ later.syllableData = s.syllableData /\ later.wordData = s.wordData
      /\ later.syllableIndex = s.syllableIndex
      /\ later.syllableBySurface = s.syllableBySurface
      /\ later.phraseSurfaces = s.phraseSurfaces
  BY DEF AddUnits, IndexWords, Agrees, StoreFields
<1> HIDE DEF later
<1>2. /\ IsList(later.unitData)
      /\ Range(later.unitData) = Range(s.unitData) \cup Range(entries)
  BY <1>1, RangeConcat DEF Agrees
<1>3. Words(later) = Words(s) \cup Range(entries)
  BY <1>1, <1>2 DEF Words
<1>4. OneEach(later.unitData, "unit")
  BY <1>1, OneEachMore DEF Agrees
<1>5. /\ Indexes(later.wordIndex, "noTone", Words(later))
      /\ Indexes(later.wordBySurface, "surface", Words(later))
  BY <1>1, <1>3, AppendIndexed DEF Agrees
<1>6. later.wordSurfaces = {e.surface : e \in Words(later)}
  <2>1. {entries[i].surface : i \in DOMAIN entries} = {e.surface : e \in Range(entries)}
    BY DEF Range
  <2>2. later.wordSurfaces = {e.surface : e \in Words(s)} \cup {e.surface : e \in Range(entries)}
    BY <1>1, <2>1 DEF Agrees
  <2> QED
    BY <1>3, <2>2
<1>7. Agrees(later)
  BY <1>1, <1>2, <1>4, <1>5, <1>6 DEF Agrees
<1>8. Grows(s, later)
  BY <1>1, <1>2 DEF Grows
<1> QED
  BY <1>1, <1>2, <1>7, <1>8 DEF later

LEMMA AddPhrasesFacts ==
  ASSUME NEW s, Agrees(s), NEW phrases, IsList(phrases)
  PROVE  /\ Agrees(AddPhrases(s, phrases)) /\ Grows(s, AddPhrases(s, phrases))
         /\ AddPhrases(s, phrases).wordData = s.wordData
         /\ AddPhrases(s, phrases).unitData = s.unitData
         /\ AddPhrases(s, phrases).phraseSurfaces
              = AppendAll(s.phraseSurfaces, "phrase", phrases)
<1> DEFINE later == AddPhrases(s, phrases)
           dict == s.phraseSurfaces
           next == later.phraseSurfaces
<1>1. /\ DOMAIN later = StoreFields
      /\ next = AppendAll(dict, "phrase", phrases)
      /\ later.wordData = s.wordData /\ later.unitData = s.unitData
      /\ later.syllableData = s.syllableData /\ later.syllableIndex = s.syllableIndex
      /\ later.syllableBySurface = s.syllableBySurface /\ later.wordIndex = s.wordIndex
      /\ later.wordBySurface = s.wordBySurface /\ later.wordSurfaces = s.wordSurfaces
  BY DEF AddPhrases, Agrees, StoreFields
<1> HIDE DEF later
<1>2. Words(later) = Words(s)
  BY <1>1 DEF Words
<1>3. /\ DOMAIN dict \subseteq DOMAIN next
      /\ \A k \in DOMAIN next : next[k] = Get(dict, k) \o Having(phrases, "phrase", k)
  BY <1>1 DEF AppendAll
<1>4. \A k : IsList(Get(dict, k)) /\ IsList(Having(phrases, "phrase", k))
  BY HavingFacts, NoElements DEF Get, Agrees
<1>5. \A k \in DOMAIN next : IsList(next[k])
  BY <1>3, <1>4, RangeConcat
<1>6. ASSUME NEW k \in DOMAIN dict, dict[k] # <<>>
      PROVE  next[k] # <<>> /\ next[k][1] = dict[k][1]
  <2> DEFINE a == dict[k]
             b == Having(phrases, "phrase", k)
  <2>1. Get(dict, k) = a
    BY <1>6 DEF Get
  <2>2. next[k] = a \o b /\ IsList(a) /\ IsList(b) /\ a # <<>>
    BY <1>3, <1>4, <1>6, <2>1
  <2> HIDE DEF a, b
  <2>3. /\ Len(a \o b) = Len(a) + Len(b) /\ IsList(a \o b)
        /\ \A i \in 1 .. Len(a) : (a \o b)[i] = a[i]
    BY <2>2, ListConcat
  <2>4. Len(a) \in Nat /\ Len(a) # 0 /\ Len(b) \in Nat
    BY <2>2, ListFacts
  <2>5. 1 \in 1 .. Len(a) /\ Len(a \o b) # 0
    BY <2>3, <2>4
  <2>6. a \o b # <<>>
    BY <2>3, <2>5, ListFacts
  <2> QED
    BY <2>2, <2>3, <2>5, <2>6 DEF a
<1>7. Agrees(later)
  BY <1>1, <1>2, <1>5 DEF Agrees
<1>8. Grows(s, later)
  BY <1>1, <1>3, <1>6 DEF Grows
<1> QED
  BY <1>1, <1>7, <1>8 DEF later

LEMMA AbbreviationsAgree ==
  ASSUME NEW s, Agrees(s), NEW list
  PROVE  SameWords(s, PutAbbreviations(s, list)) /\ SameWords(s, PutOcr(s, list))
BY DEF PutAbbreviations, PutOcr, SameWords, Agrees, StoreFields

LEMMA ForeignAgree ==
  ASSUME NEW s, Agrees(s), NEW S
  PROVE  SameWords(s, [s EXCEPT !.foreignWords = S])
BY DEF SameWords, Agrees, StoreFields

LEMMA GrowsAlong ==
  ASSUME NEW a, NEW b, NEW c, Grows(a, b), Grows(b, c)
  PROVE  Grows(a, c)
BY DEF Grows

-----------------------------------------------------------------------------
(***************************************************************************)
(* Loading.                                                                *)
(***************************************************************************)
SelectNames ==
  {"syllables", "words", "units of words", "abbreviations", "foreign", "units", "phrases",
   "ocr"}

LEMMA SelectsAre == Len(Selects) = 8 /\ \A n \in 1 .. 8 : Selects[n] \in SelectNames
BY DEF Selects, SelectNames

LEMMA FromSyllables ==
  ASSUME NEW s, Agrees(s), NEW rows, IsList(rows)
  PROVE  LET later == AddSyllables(s, Unseen(s, Mapped(SyllableEntry, rows))) IN
         Agrees(later) /\ Grows(s, later)
<1> DEFINE all == Mapped(SyllableEntry, rows)
           u == Unseen(s, all)
<1>1. all = [i \in DOMAIN rows |-> SyllableEntry(rows[i])]
  BY DEF Mapped
<1>2. \A row : SyllableEntry(row).id[1] = "syllable" /\ SyllableEntry(row).kind = "syllable"
  BY DEF SyllableEntry, Entry
<1> HIDE DEF all
<1>3. IsList(all) /\ DOMAIN all = DOMAIN rows
  <2>1. all = [i \in DOMAIN rows |-> all[i]]
    BY <1>1
  <2> QED
    BY <2>1, SameLength
<1>4. \A i \in DOMAIN all : all[i].id[1] = "syllable" /\ all[i].kind = "syllable"
  BY <1>1, <1>2, <1>3
<1>5. /\ IsList(u) /\ OneEach(u, "syllable") /\ Range(u) \subseteq Range(all)
      /\ \A i \in DOMAIN u : u[i].id \notin Ids(s)
  BY <1>3, <1>4, UnseenFacts
<1> HIDE DEF u
<1>6. \A e \in Range(u) : e.kind # "unit"
  BY <1>4, <1>5 DEF Range
<1>7. \A i \in DOMAIN s.syllableData : s.syllableData[i].id \in Ids(s)
  BY DataRange DEF Range
<1>8. Agrees(AddSyllables(s, u)) /\ Grows(s, AddSyllables(s, u))
  BY <1>5, <1>6, <1>7, AddSyllablesFacts
<1> QED
  BY <1>8 DEF u, all

LEMMA FromWords ==
  ASSUME NEW s, Agrees(s), NEW rows, IsList(rows)
  PROVE  LET later == AddWords(s, Unseen(s, Mapped(WordEntry, rows))) IN
         Agrees(later) /\ Grows(s, later)
<1> DEFINE all == Mapped(WordEntry, rows)
           u == Unseen(s, all)
<1>1. all = [i \in DOMAIN rows |-> WordEntry(rows[i])]
  BY DEF Mapped
<1>2. \A row : WordEntry(row).id[1] = "word"
  BY DEF WordEntry, Entry
<1> HIDE DEF all
<1>3. IsList(all) /\ DOMAIN all = DOMAIN rows
  <2>1. all = [i \in DOMAIN rows |-> all[i]]
    BY <1>1
  <2> QED
    BY <2>1, SameLength
<1>4. \A i \in DOMAIN all : all[i].id[1] = "word"
  BY <1>1, <1>2, <1>3
<1>5. /\ IsList(u) /\ OneEach(u, "word") /\ \A i \in DOMAIN u : u[i].id \notin Ids(s)
  BY <1>3, <1>4, UnseenFacts
<1> HIDE DEF u
<1>6. \A i \in DOMAIN s.wordData : s.wordData[i].id \in Ids(s)
  BY DataRange DEF Range, Words
<1>7. Agrees(AddWords(s, u)) /\ Grows(s, AddWords(s, u))
  BY <1>5, <1>6, AddWordsFacts
<1> QED
  BY <1>7 DEF u, all

\* The two SELECTs that give units differ in how a row becomes an entry.
LEMMA UnitsTaken ==
  ASSUME NEW s, Agrees(s), NEW all, IsList(all), \A i \in DOMAIN all : all[i].id[1] = "unit"
  PROVE  LET later == AddUnits(s, Unseen(s, all)) IN Agrees(later) /\ Grows(s, later)
<1> DEFINE u == Unseen(s, all)
<1>1. /\ IsList(u) /\ OneEach(u, "unit") /\ \A i \in DOMAIN u : u[i].id \notin Ids(s)
  BY UnseenFacts
<1> HIDE DEF u
<1>2. \A i \in DOMAIN s.unitData : s.unitData[i].id \in Ids(s)
  BY DataRange DEF Range, Words
<1>3. Agrees(AddUnits(s, u)) /\ Grows(s, AddUnits(s, u))
  BY <1>1, <1>2, AddUnitsFacts
<1> QED
  BY <1>3 DEF u

LEMMA FromUnitsOfWords ==
  ASSUME NEW s, Agrees(s), NEW rows, IsList(rows)
  PROVE  LET later == AddUnits(s, Unseen(s, Mapped(UnitOfWord, rows))) IN
         Agrees(later) /\ Grows(s, later)
<1> DEFINE all == Mapped(UnitOfWord, rows)
<1>1. all = [i \in DOMAIN rows |-> UnitOfWord(rows[i])]
  BY DEF Mapped
<1>2. \A row : UnitOfWord(row).id[1] = "unit"
  BY DEF UnitOfWord, WordEntry, Entry
<1> HIDE DEF all
<1>3. IsList(all) /\ DOMAIN all = DOMAIN rows
  <2>1. all = [i \in DOMAIN rows |-> all[i]]
    BY <1>1
  <2> QED
    BY <2>1, SameLength
<1>4. \A i \in DOMAIN all : all[i].id[1] = "unit"
  BY <1>1, <1>2, <1>3
<1>5. LET later == AddUnits(s, Unseen(s, all)) IN Agrees(later) /\ Grows(s, later)
  BY <1>3, <1>4, UnitsTaken
<1> QED
  BY <1>5 DEF all

LEMMA FromUnits ==
  ASSUME NEW s, Agrees(s), NEW rows, IsList(rows)
  PROVE  LET later == AddUnits(s, Unseen(s, Mapped(UnitEntry, rows))) IN
         Agrees(later) /\ Grows(s, later)
<1> DEFINE all == Mapped(UnitEntry, rows)
<1>1. all = [i \in DOMAIN rows |-> UnitEntry(rows[i])]
  BY DEF Mapped
<1>2. \A row : UnitEntry(row).id[1] = "unit"
  BY DEF UnitEntry, Entry
<1> HIDE DEF all
<1>3. IsList(all) /\ DOMAIN all = DOMAIN rows
  <2>1. all = [i \in DOMAIN rows |-> all[i]]
    BY <1>1
  <2> QED
    BY <2>1, SameLength
<1>4. \A i \in DOMAIN all : all[i].id[1] = "unit"
  BY <1>1, <1>2, <1>3
<1>5. LET later == AddUnits(s, Unseen(s, all)) IN Agrees(later) /\ Grows(s, later)
  BY <1>3, <1>4, UnitsTaken
<1> QED
  BY <1>5 DEF all

LEMMA FromPhrases ==
  ASSUME NEW s, Agrees(s), NEW rows, IsList(rows)
  PROVE  LET later == AddPhrases(s, Mapped(PhraseEntry, rows)) IN
         Agrees(later) /\ Grows(s, later)
<1> DEFINE all == Mapped(PhraseEntry, rows)
<1>1. IsList(all)
  <2>1. all = [i \in DOMAIN rows |-> all[i]]
    BY DEF Mapped
  <2> HIDE DEF all
  <2> QED
    BY <2>1, SameLength
<1> HIDE DEF all
<1>2. Agrees(AddPhrases(s, all)) /\ Grows(s, AddPhrases(s, all))
  BY <1>1, AddPhrasesFacts
<1> QED
  BY <1>2 DEF all

\* Every SELECT leaves a store whose parts agree, with what was in it before.
LEMMA SelectFacts ==
  ASSUME NEW s, Agrees(s), NEW tables, AreTables(tables), NEW select \in SelectNames
  PROVE  Agrees(load_sqlite(s, tables, select)) /\ Grows(s, load_sqlite(s, tables, select))
<1>1. /\ IsList(tables.syllables) /\ IsList(tables.words) /\ IsList(tables.units)
      /\ IsList(tables.phrases) /\ IsList(Having(tables.words, "kind", "unit"))
  BY TableNamesAre, HavingFacts DEF AreTables
<1>2. CASE select = "syllables"
  <2>1. load_sqlite(s, tables, select)
          = AddSyllables(s, Unseen(s, Mapped(SyllableEntry, tables.syllables)))
    BY <1>2 DEF load_sqlite
  <2> QED
    BY <1>1, <2>1, FromSyllables
<1>3. CASE select = "words"
  <2>1. load_sqlite(s, tables, select) = AddWords(s, Unseen(s, Mapped(WordEntry, tables.words)))
    BY <1>3 DEF load_sqlite
  <2> QED
    BY <1>1, <2>1, FromWords
<1>4. CASE select = "units of words"
  <2>1. load_sqlite(s, tables, select)
          = AddUnits(s, Unseen(s, Mapped(UnitOfWord, Having(tables.words, "kind", "unit"))))
    BY <1>4 DEF load_sqlite
  <2> QED
    BY <1>1, <2>1, FromUnitsOfWords
<1>5. CASE select = "abbreviations"
  <2> DEFINE list == Mapped(LAMBDA r : [surface |-> r.key, expansions |-> r.list],
                            tables.abbreviations)
  <2>1. load_sqlite(s, tables, select) = PutAbbreviations(s, list)
    BY <1>5 DEF load_sqlite
  <2> HIDE DEF list
  <2> QED
    BY <2>1, AbbreviationsAgree, SameAgrees
<1>6. CASE select = "foreign"
  <2> DEFINE S == s.foreignWords \cup {tables.foreign[i].key : i \in DOMAIN tables.foreign}
  <2>1. load_sqlite(s, tables, select) = [s EXCEPT !.foreignWords = S]
    BY <1>6 DEF load_sqlite
  <2> HIDE DEF S
  <2> QED
    BY <2>1, ForeignAgree, SameAgrees
<1>7. CASE select = "units"
  <2>1. load_sqlite(s, tables, select) = AddUnits(s, Unseen(s, Mapped(UnitEntry, tables.units)))
    BY <1>7 DEF load_sqlite
  <2> QED
    BY <1>1, <2>1, FromUnits
<1>8. CASE select = "phrases"
  <2>1. load_sqlite(s, tables, select) = AddPhrases(s, Mapped(PhraseEntry, tables.phrases))
    BY <1>8 DEF load_sqlite
  <2> QED
    BY <1>1, <2>1, FromPhrases
<1>9. CASE select = "ocr"
  <2> DEFINE list == Mapped(LAMBDA r : [noisy |-> r.key, corrections |-> r.list], tables.ocr)
  <2>1. load_sqlite(s, tables, select) = PutOcr(s, list)
    BY <1>9 DEF load_sqlite
  <2> HIDE DEF list
  <2> QED
    BY <2>1, AbbreviationsAgree, SameAgrees
<1> QED
  BY <1>2, <1>3, <1>4, <1>5, <1>6, <1>7, <1>8, <1>9 DEF SelectNames

\* What the resources say is there, and their phrases come first.
BuiltIn(s, r) ==
  /\ \A i \in DOMAIN r.words : JsonWord(r.words[i]) \in Range(s.wordData)
  /\ \A i \in DOMAIN r.units : JsonUnit(r.units[i]) \in Range(s.unitData)
  /\ \A i \in DOMAIN r.phrases :
       /\ r.phrases[i].surface \in DOMAIN s.phraseSurfaces
       /\ s.phraseSurfaces[r.phrases[i].surface] # <<>>
       /\ s.phraseSurfaces[r.phrases[i].surface][1].source = "built-in"

LEMMA BuiltInStays ==
  ASSUME NEW s, NEW r, BuiltIn(s, r), NEW later, Grows(s, later)
  PROVE  BuiltIn(later, r)
BY DEF BuiltIn, Grows

LEMMA EmptyAgrees ==
  /\ Agrees(EmptyStore) /\ EmptyStore.phraseSurfaces = <<>>
  /\ EmptyStore.wordData = <<>> /\ EmptyStore.unitData = <<>>
<1>1. /\ DOMAIN EmptyStore = StoreFields
      /\ EmptyStore.syllableData = <<>> /\ EmptyStore.wordData = <<>>
      /\ EmptyStore.unitData = <<>> /\ EmptyStore.syllableIndex = <<>>
      /\ EmptyStore.syllableBySurface = <<>> /\ EmptyStore.wordIndex = <<>>
      /\ EmptyStore.wordBySurface = <<>> /\ EmptyStore.wordSurfaces = {}
      /\ EmptyStore.phraseSurfaces = <<>>
  BY DEF EmptyStore, StoreFields
<1>2. Words(EmptyStore) = {}
  BY <1>1, NoElements DEF Words
<1>3. \A prefix : OneEach(<<>>, prefix)
  BY NoElements DEF OneEach
<1> QED
  BY <1>1, <1>2, <1>3, NoElements, NothingIndexed DEF Agrees

LEMMA JsonLoads ==
  ASSUME NEW r \in ResourceVersions
  PROVE  LET s == load_json_resources(EmptyStore, r) IN Agrees(s) /\ BuiltIn(s, r)
<1> DEFINE W == Mapped(JsonWord, r.words)
           U == Mapped(JsonUnit, r.units)
           P == Mapped(JsonPhrase, r.phrases)
           A == Mapped(LAMBDA e : [surface |-> e.surface, expansions |-> e.list], r.abbreviations)
           O == Mapped(LAMBDA e : [noisy |-> e.surface, corrections |-> e.list], r.ocr)
           s1 == AddWords(EmptyStore, W)
           s2 == AddUnits(s1, U)
           s3 == PutAbbreviations(s2, A)
           s4 == [s3 EXCEPT !.foreignWords = Range(r.foreign)]
           s5 == AddPhrases(s4, P)
           s6 == PutOcr(s5, O)
<1>1. load_json_resources(EmptyStore, r) = s6
  BY DEF load_json_resources, _load_words, _load_units, _load_abbreviations, _load_phrases,
         _load_ocr_confusions
<1>2. /\ IsList(r.words) /\ IsList(r.units) /\ IsList(r.phrases)
      /\ \A i, j \in DOMAIN r.words : r.words[i].surface = r.words[j].surface => i = j
      /\ \A i, j \in DOMAIN r.units : r.units[i].surface = r.units[j].surface => i = j
  BY ResourcesAssumption DEF JsonTables
<1>3. /\ W = [i \in DOMAIN r.words |-> JsonWord(r.words[i])]
      /\ U = [i \in DOMAIN r.units |-> JsonUnit(r.units[i])]
      /\ P = [i \in DOMAIN r.phrases |-> JsonPhrase(r.phrases[i])]
  BY DEF Mapped
<1>4. /\ \A e : JsonWord(e).id = <<"word", e.surface>> /\ JsonUnit(e).id = <<"unit", e.surface>>
      /\ \A e : JsonPhrase(e).phrase = e.surface /\ JsonPhrase(e).source = "built-in"
  BY DEF JsonWord, JsonUnit, JsonEntry, Entry, JsonPhrase, Phrase
<1> HIDE DEF W, U, P, A, O
<1>5. /\ IsList(W) /\ DOMAIN W = DOMAIN r.words /\ IsList(U) /\ DOMAIN U = DOMAIN r.units
      /\ IsList(P) /\ DOMAIN P = DOMAIN r.phrases
  <2>1. W = [i \in DOMAIN r.words |-> W[i]]
    BY <1>3
  <2>2. U = [i \in DOMAIN r.units |-> U[i]]
    BY <1>3
  <2>3. P = [i \in DOMAIN r.phrases |-> P[i]]
    BY <1>3
  <2> QED
    BY <1>2, <2>1, <2>2, <2>3, SameLength
<1>6. OneEach(W, "word") /\ OneEach(U, "unit")
  <2>1. \A i \in DOMAIN W : W[i].id = <<"word", r.words[i].surface>>
    BY <1>3, <1>4, <1>5
  <2>2. \A i \in DOMAIN U : U[i].id = <<"unit", r.units[i].surface>>
    BY <1>3, <1>4, <1>5
  <2> QED
    BY <1>2, <1>5, <2>1, <2>2 DEF OneEach
<1>7. /\ Agrees(s1) /\ s1.phraseSurfaces = <<>> /\ Range(s1.wordData) = Range(W)
      /\ s1.unitData = <<>>
  <2> DEFINE empty == EmptyStore
  <2>1. /\ Agrees(empty) /\ empty.phraseSurfaces = <<>>
        /\ empty.wordData = <<>> /\ empty.unitData = <<>>
    BY EmptyAgrees
  <2>2. s1 = AddWords(empty, W)
    OBVIOUS
  <2> HIDE DEF empty, s1
  <2>3. \A i \in DOMAIN empty.wordData, j \in DOMAIN W : empty.wordData[i].id # W[j].id
    BY <2>1, NoElements
  <2>4. /\ Agrees(s1) /\ Range(s1.wordData) = Range(empty.wordData) \cup Range(W)
        /\ s1.unitData = empty.unitData /\ s1.phraseSurfaces = empty.phraseSurfaces
    BY <1>5, <1>6, <2>1, <2>2, <2>3, AddWordsFacts
  <2> QED
    BY <2>1, <2>4, NoElements
<1> HIDE DEF s1
<1>8. /\ Agrees(s2) /\ Grows(s1, s2) /\ s2.phraseSurfaces = <<>>
      /\ Range(s2.unitData) = Range(U)
  <2>1. s2 = AddUnits(s1, U)
    OBVIOUS
  <2> HIDE DEF s2
  <2>2. \A i \in DOMAIN s1.unitData, j \in DOMAIN U : s1.unitData[i].id # U[j].id
    BY <1>7, NoElements
  <2>3. /\ Agrees(s2) /\ Grows(s1, s2) /\ s2.phraseSurfaces = s1.phraseSurfaces
        /\ Range(s2.unitData) = Range(s1.unitData) \cup Range(U)
    BY <1>5, <1>6, <1>7, <2>1, <2>2, AddUnitsFacts
  <2> QED
    BY <1>7, <2>3, NoElements
<1> HIDE DEF s2
<1>9. SameWords(s2, s3) /\ Agrees(s3)
  BY <1>8, AbbreviationsAgree, SameAgrees
<1> HIDE DEF s3
<1>10. SameWords(s3, s4) /\ Agrees(s4)
  BY <1>9, ForeignAgree, SameAgrees
<1> HIDE DEF s4
<1>11. /\ Range(W) \subseteq Range(s4.wordData) /\ Range(U) \subseteq Range(s4.unitData)
       /\ s4.phraseSurfaces = <<>>
  BY <1>7, <1>8, <1>9, <1>10 DEF Grows, SameWords
<1>12. /\ Agrees(s5) /\ s5.wordData = s4.wordData /\ s5.unitData = s4.unitData
       /\ s5.phraseSurfaces = AppendAll(<<>>, "phrase", P)
  BY <1>5, <1>10, <1>11, AddPhrasesFacts
<1> HIDE DEF s5
<1>13. Indexes(s5.phraseSurfaces, "phrase", {} \cup Range(P))
  BY <1>5, <1>12, NothingIndexed, AppendIndexed
<1>14. ASSUME NEW i \in DOMAIN r.phrases
       PROVE  LET k == r.phrases[i].surface IN
              /\ k \in DOMAIN s5.phraseSurfaces /\ s5.phraseSurfaces[k] # <<>>
              /\ s5.phraseSurfaces[k][1].source = "built-in"
  <2> DEFINE k == r.phrases[i].surface
             list == s5.phraseSurfaces[k]
  <2>1. P[i] \in Range(P) /\ P[i].phrase = k
    BY <1>3, <1>4, <1>5 DEF Range
  <2>2. k \in DOMAIN s5.phraseSurfaces
    BY <1>13, <2>1 DEF Indexes
  <2>3. IsList(list) /\ Range(list) = {e \in Range(P) : e.phrase = k}
    BY <1>13, <2>2 DEF Indexes
  <2> HIDE DEF list
  <2>4. P[i] \in Range(list)
    BY <2>1, <2>3
  <2>5. list # <<>>
    BY <2>4, NoElements
  <2>6. 1 \in DOMAIN list
    BY <2>3, <2>5, ListFacts
  <2>7. list[1] \in Range(P)
    BY <2>3, <2>6, InRange
  <2>8. list[1].source = "built-in"
    BY <1>3, <1>4, <1>5, <2>7 DEF Range
  <2> QED
    BY <2>2, <2>5, <2>8 DEF list
<1>15. BuiltIn(s5, r)
  <2>1. \A i \in DOMAIN r.words : JsonWord(r.words[i]) \in Range(W)
    BY <1>3, <1>5 DEF Range
  <2>2. \A i \in DOMAIN r.units : JsonUnit(r.units[i]) \in Range(U)
    BY <1>3, <1>5 DEF Range
  <2> QED
    BY <1>11, <1>12, <1>14, <2>1, <2>2 DEF BuiltIn
<1>16. Agrees(s6) /\ Grows(s5, s6)
  BY <1>12, AbbreviationsAgree, SameAgrees
<1> HIDE DEF s6
<1>17. BuiltIn(s6, r)
  BY <1>15, <1>16, BuiltInStays
<1> QED
  BY <1>1, <1>16, <1>17

-----------------------------------------------------------------------------
(***************************************************************************)
(* The loads.                                                              *)
(***************************************************************************)
\* The parts of the store that is being filled agree after every SELECT, and a
\* store that took in the resources has them still.
Reading ==
  /\ DOMAIN reader = {"phase", "mode", "next", "store", "resources"}
  /\ reader.phase \in {"idle", "reading", "done", "failed"}
  /\ Agrees(reader.store)
  /\ reader.phase = "reading" => reader.next \in 1 .. 8
  /\ reader.phase \in {"reading", "done"} => reader.resources \in ResourceVersions
  /\ reader.phase \in {"reading", "done"} /\ reader.mode # "sqlite" =>
       BuiltIn(reader.store, reader.resources)

LEMMA NoReaderFacts ==
  /\ DOMAIN NoReader = {"phase", "mode", "next", "store", "resources"}
  /\ NoReader.phase = "idle" /\ NoReader.store = EmptyStore
BY DEF NoReader

LEMMA ReadingInit == Init => Reading
<1> SUFFICES ASSUME Init PROVE Reading
  OBVIOUS
<1>1. /\ DOMAIN reader = {"phase", "mode", "next", "store", "resources"}
      /\ reader.phase = "idle" /\ reader.store = EmptyStore
  BY NoReaderFacts DEF Init
<1> QED
  BY <1>1, EmptyAgrees DEF Reading

LEMMA BeginStep ==
  ASSUME NEW mode, NEW phase \in {"reading", "done", "failed"}, NEW store, Agrees(store),
         resources \in ResourceVersions,
         phase \in {"reading", "done"} /\ mode # "sqlite" => BuiltIn(store, resources),
         Begin(mode, phase, store)
  PROVE  Reading'
<1>1. /\ DOMAIN reader' = {"phase", "mode", "next", "store", "resources"}
      /\ reader'.phase = phase /\ reader'.mode = mode /\ reader'.next = 1
      /\ reader'.store = store /\ reader'.resources = resources
      /\ resources' = resources
  BY DEF Begin
<1> QED
  BY <1>1 DEF Reading

LEMMA LoadStep ==
  ASSUME Building, Reading, NEW mode \in {"json", "sqlite", "hybrid"}, NEW fallback,
         LoadDefault(mode, fallback)
  PROVE  Reading'
<1>1. resources \in ResourceVersions
  BY DEF Building, Shapes
<1>2. /\ Agrees(FromJson) /\ BuiltIn(FromJson, resources) /\ Agrees(EmptyStore)
  BY <1>1, JsonLoads, EmptyAgrees DEF FromJson
<1>3. CASE Begin("json", "done", FromJson)
  BY <1>1, <1>2, <1>3, BeginStep
<1>4. CASE Begin(mode, "failed", EmptyStore)
  BY <1>1, <1>2, <1>4, BeginStep
<1>5. CASE mode = "sqlite" /\ Begin(mode, "reading", EmptyStore)
  BY <1>1, <1>2, <1>5, BeginStep
<1>6. CASE Begin(mode, "reading", FromJson)
  BY <1>1, <1>2, <1>6, BeginStep
<1> QED
  BY <1>3, <1>4, <1>5, <1>6 DEF LoadDefault

LEMMA TableStep ==
  ASSUME Building, Reading, ReadTable
  PROVE  Reading'
<1> DEFINE s == reader.store
           select == Selects[reader.next]
           later == load_sqlite(s, db.tables, select)
           last == reader.next = Len(Selects)
<1>1. /\ reader.phase = "reading" /\ reader.next \in 1 .. 8 /\ Agrees(s)
      /\ DOMAIN reader = {"phase", "mode", "next", "store", "resources"}
      /\ reader.resources \in ResourceVersions
      /\ reader.mode # "sqlite" => BuiltIn(s, reader.resources)
  BY DEF ReadTable, Reading
<1>2. select \in SelectNames /\ Len(Selects) = 8 /\ AreTables(db.tables)
  BY <1>1, SelectsAre DEF Building, Shapes
<1>3. /\ DOMAIN reader' = DOMAIN reader /\ reader'.store = later
      /\ reader'.next = IF last THEN 1 ELSE reader.next + 1
      /\ reader'.phase = IF last THEN "done" ELSE "reading"
      /\ reader'.mode = reader.mode /\ reader'.resources = reader.resources
  BY <1>1 DEF ReadTable
<1> HIDE DEF select, later, s
<1>4. Agrees(later) /\ Grows(s, later)
  BY <1>1, <1>2, SelectFacts DEF later
<1>5. reader.mode # "sqlite" => BuiltIn(later, reader.resources)
  BY <1>1, <1>4, BuiltInStays
<1> QED
  BY <1>1, <1>2, <1>3, <1>4, <1>5 DEF Reading

LEMMA ReadingStep == Building /\ Reading /\ [Next]_vars => Reading'
<1> SUFFICES ASSUME Building, Reading, [Next]_vars PROVE Reading'
  OBVIOUS
<1>1. ASSUME NEW mode \in {"json", "sqlite", "hybrid"}, NEW fallback, LoadDefault(mode, fallback)
      PROVE  Reading'
  BY <1>1, LoadStep
<1>2. CASE ReadTable
  BY <1>2, TableStep
<1>3. CASE ReadFails
  <2>1. reader' = [NoReader EXCEPT !.phase = "failed"]
    BY <1>3 DEF ReadFails
  <2>2. /\ DOMAIN reader' = {"phase", "mode", "next", "store", "resources"}
        /\ reader'.phase = "failed" /\ reader'.store = EmptyStore
    BY <2>1, NoReaderFacts
  <2> QED
    BY <2>2, EmptyAgrees DEF Reading
<1>4. CASE Exit
  <2>1. /\ DOMAIN reader' = {"phase", "mode", "next", "store", "resources"}
        /\ reader'.phase = "idle" /\ reader'.store = EmptyStore
    BY <1>4, NoReaderFacts DEF Exit
  <2> QED
    BY <2>1, EmptyAgrees DEF Reading
<1>5. ASSUME UNCHANGED reader PROVE Reading'
  BY <1>5 DEF Reading
<1>6. CASE \/ \E f \in FileVersions : TrustedBuild(f) \/ \E cut \in BOOLEAN : TrustedTorn(f, cut)
           \/ \E r \in ResourceVersions : OpenDb(r)
  BY <1>5, <1>6 DEF TrustedBuild, TrustedTorn, OpenDb
<1>7. CASE PopulateJson \/ PopulateTrusted \/ PopulateSyllables \/ Commit \/ Crash
  BY <1>5, <1>7 DEF PopulateJson, PopulateTrusted, PopulateSyllables, Commit, Crash
<1>8. CASE UNCHANGED vars
  BY <1>5, <1>8 DEF vars
<1> QED
  BY <1>1, <1>2, <1>3, <1>4, <1>6, <1>7, <1>8 DEF Next

LEMMA ReadingInvariance == Spec => [](Building /\ Reading)
<1>1. Init => Building /\ Reading
  BY BuildingInit, ReadingInit
<1>2. (Building /\ Reading) /\ [Next]_vars => (Building /\ Reading)'
  BY BuildingStep, ReadingStep
<1> QED
  BY <1>1, <1>2, PTL DEF Spec

\* No id is in the data twice.
LEMMA DistinctIds ==
  ASSUME NEW s, Agrees(s)
  PROVE  LET entries == data(s) IN
         \A i, j \in DOMAIN entries : entries[i].id = entries[j].id => i = j
<1> DEFINE a == s.syllableData
           b == s.wordData
           c == s.unitData
           ab == a \o b
<1>1. /\ IsList(a) /\ IsList(b) /\ IsList(c)
      /\ \A i, j \in DOMAIN a : a[i].id = a[j].id => i = j
      /\ \A i, j \in DOMAIN b : b[i].id = b[j].id => i = j
      /\ \A i, j \in DOMAIN c : c[i].id = c[j].id => i = j
      /\ \A i \in DOMAIN a : a[i].id[1] = "syllable"
      /\ \A i \in DOMAIN b : b[i].id[1] = "word"
      /\ \A i \in DOMAIN c : c[i].id[1] = "unit"
  BY DEF Agrees, OneEach
<1>2. data(s) = ab \o c
  BY DEF data
<1> HIDE DEF a, b, c
<1>3. \A i \in DOMAIN a, j \in DOMAIN b : a[i].id # b[j].id
  BY <1>1
<1>4. /\ IsList(ab) /\ Range(ab) = Range(a) \cup Range(b)
      /\ \A i, j \in DOMAIN ab : ab[i].id = ab[j].id => i = j
  BY <1>1, <1>3, RangeConcat, OneEachConcat
<1> HIDE DEF ab
<1>5. \A e \in Range(ab) : e.id[1] # "unit"
  BY <1>1, <1>4 DEF Range
<1>6. \A i \in DOMAIN ab, j \in DOMAIN c : ab[i].id # c[j].id
  BY <1>1, <1>5 DEF Range
<1>7. \A i, j \in DOMAIN (ab \o c) : (ab \o c)[i].id = (ab \o c)[j].id => i = j
  BY <1>1, <1>4, <1>6, OneEachConcat
<1> QED
  BY <1>2, <1>7

\* The dictionaries of the store answer like the index that is built on demand.
LEMMA AnswersAgree ==
  ASSUME NEW s, Agrees(s)
  PROVE  LET entries == data(s)
             index == LexiconIndex(entries)
         IN  /\ \A e \in Range(entries) :
                  /\ Range(lookup(s, e.surface)) = Range(index.by_surface[e.surface])
                  /\ Range(Get(s.syllableIndex, e.noTone) \o Get(s.wordIndex, e.noTone))
                       = Range(index.by_normalized[e.noTone])
                  /\ e.kind = "unit" => e \in Range(lookup_unit(s, e.surface))
                  /\ e.id[1] # "syllable" => e.surface \in s.wordSurfaces
             /\ s.wordSurfaces \cup DOMAIN s.syllableBySurface = DOMAIN index.by_surface
<1> DEFINE entries == data(s)
           index == LexiconIndex(entries)
           S == Range(s.syllableData)
           W == Words(s)
           byS == index.by_surface
           byN == index.by_normalized
<1>1. IsList(entries) /\ Range(entries) = S \cup W
  BY DataRange
<1>2. /\ byS = AppendAll(<<>>, "surface", entries)
      /\ byN = AppendAll(<<>>, "noTone", entries)
  BY DEF LexiconIndex
<1> HIDE DEF entries, index
<1>3. Indexes(byS, "surface", {} \cup Range(entries)) /\ Indexes(byN, "noTone", {} \cup Range(entries))
  BY <1>1, <1>2, NothingIndexed, AppendIndexed
<1> HIDE DEF byS, byN
<1>4. Indexes(byS, "surface", S \cup W) /\ Indexes(byN, "noTone", S \cup W)
  <2>1. {} \cup Range(entries) = S \cup W
    BY <1>1
  <2> QED
    BY <1>3, <2>1
<1>5. /\ Indexes(s.syllableIndex, "noTone", S) /\ Indexes(s.syllableBySurface, "surface", S)
      /\ Indexes(s.wordIndex, "noTone", W) /\ Indexes(s.wordBySurface, "surface", W)
      /\ s.wordSurfaces = {e.surface : e \in W}
      /\ \A e \in S : e.kind # "unit"
      /\ \A e \in S : e.id[1] = "syllable"
  BY DEF Agrees, OneEach, Range
<1> HIDE DEF S, W
<1>6. ASSUME NEW e \in S \cup W
      PROVE  /\ Range(lookup(s, e.surface)) = Range(byS[e.surface])
             /\ Range(Get(s.syllableIndex, e.noTone) \o Get(s.wordIndex, e.noTone))
                  = Range(byN[e.noTone])
             /\ e.kind = "unit" => e \in Range(lookup_unit(s, e.surface))
             /\ e.id[1] # "syllable" => e.surface \in s.wordSurfaces
  <2> DEFINE k == e.surface
             n == e.noTone
  <2>1. /\ IsList(Get(s.syllableBySurface, k)) /\ IsList(Get(s.wordBySurface, k))
        /\ Range(Get(s.syllableBySurface, k)) = {x \in S : x["surface"] = k}
        /\ Range(Get(s.wordBySurface, k)) = {x \in W : x["surface"] = k}
    BY <1>5, GetIndexed
  <2>2. /\ IsList(Get(s.syllableIndex, n)) /\ IsList(Get(s.wordIndex, n))
        /\ Range(Get(s.syllableIndex, n)) = {x \in S : x["noTone"] = n}
        /\ Range(Get(s.wordIndex, n)) = {x \in W : x["noTone"] = n}
    BY <1>5, GetIndexed
  <2>3. /\ Range(byS[k]) = {x \in S \cup W : x["surface"] = k}
        /\ Range(byN[n]) = {x \in S \cup W : x["noTone"] = n}
    BY <1>4, <1>6 DEF Indexes
  <2>4. Range(lookup(s, k)) = Range(byS[k])
    <3>1. Range(lookup(s, k)) = Range(Get(s.syllableBySurface, k)) \cup Range(Get(s.wordBySurface, k))
      BY <2>1, RangeConcat DEF lookup
    <3> QED
      BY <2>1, <2>3, <3>1
  <2>5. Range(Get(s.syllableIndex, n) \o Get(s.wordIndex, n)) = Range(byN[n])
    <3>1. Range(Get(s.syllableIndex, n) \o Get(s.wordIndex, n))
            = Range(Get(s.syllableIndex, n)) \cup Range(Get(s.wordIndex, n))
      BY <2>2, RangeConcat
    <3> QED
      BY <2>2, <2>3, <3>1
  <2>6. ASSUME e.kind = "unit" PROVE e \in Range(lookup_unit(s, k))
    <3>1. e \in W /\ e \in Range(Get(s.wordBySurface, k))
      BY <1>5, <1>6, <2>1, <2>6
    <3>2. Range(lookup_unit(s, k)) = {x \in Range(Get(s.wordBySurface, k)) : x["kind"] = "unit"}
      BY <2>1, HavingFacts DEF lookup_unit
    <3> QED
      BY <2>6, <3>1, <3>2
  <2>7. ASSUME e.id[1] # "syllable" PROVE k \in s.wordSurfaces
    BY <1>5, <1>6, <2>7
  <2> QED
    BY <2>4, <2>5, <2>6, <2>7
<1>7. s.wordSurfaces \cup DOMAIN s.syllableBySurface = DOMAIN byS
  BY <1>4, <1>5 DEF Indexes
<1> QED
  BY <1>1, <1>6, <1>7 DEF entries, index, byS, byN

\* Whatever is committed between two SELECTs of a load, no id is taken in
\* twice and the ways to look an entry up agree (data_store.py:415).
THEOREM StoreAgreesCorrect == Spec => []StoreAgrees
<1>1. Reading => StoreAgrees
  <2>1. SUFFICES ASSUME Reading PROVE StoreAgrees
    OBVIOUS
  <2> DEFINE s == reader.store
  <2>2. Agrees(s)
    BY <2>1 DEF Reading
  <2> HIDE DEF s
  <2>3. LET entries == data(s) IN
        \A i, j \in DOMAIN entries : entries[i].id = entries[j].id => i = j
    BY <2>2, DistinctIds
  <2>4. LET entries == data(s)
            index == LexiconIndex(entries)
        IN  /\ \A e \in Range(entries) :
                 /\ Range(lookup(s, e.surface)) = Range(index.by_surface[e.surface])
                 /\ Range(Get(s.syllableIndex, e.noTone) \o Get(s.wordIndex, e.noTone))
                      = Range(index.by_normalized[e.noTone])
                 /\ e.kind = "unit" => e \in Range(lookup_unit(s, e.surface))
                 /\ e.id[1] # "syllable" => e.surface \in s.wordSurfaces
            /\ s.wordSurfaces \cup DOMAIN s.syllableBySurface = DOMAIN index.by_surface
    BY <2>2, AnswersAgree
  <2> QED
    BY <2>3, <2>4 DEF StoreAgrees, s
<1> QED
  BY <1>1, ReadingInvariance, PTL

\* What the database holds never takes the place of what the resources say:
\* they were loaded first (backends/data_store.py, load_default_lexicon).
THEOREM BuiltInFirstCorrect == Spec => []BuiltInFirst
<1>1. Reading => BuiltInFirst
  <2>1. SUFFICES ASSUME Reading, reader.phase = "done", reader.mode # "sqlite"
                 PROVE  BuiltInFirst
    BY DEF BuiltInFirst
  <2> DEFINE s == reader.store
             r == reader.resources
  <2>2. Agrees(s) /\ BuiltIn(s, r)
    BY <2>1 DEF Reading
  <2> HIDE DEF s, r
  <2>3. Range(s.wordData) \subseteq Range(data(s)) /\ Range(s.unitData) \subseteq Range(data(s))
    BY <2>2, DataRange DEF Words
  <2>4. /\ \A i \in DOMAIN r.words : JsonWord(r.words[i]) \in Range(data(s))
        /\ \A i \in DOMAIN r.units : JsonUnit(r.units[i]) \in Range(data(s))
        /\ \A i \in DOMAIN r.phrases : lookup_phrase(s, r.phrases[i].surface)[1].source = "built-in"
    BY <2>2, <2>3 DEF BuiltIn, lookup_phrase, Get
  <2> QED
    BY <2>4 DEF BuiltInFirst, s, r
<1> QED
  BY <1>1, ReadingInvariance, PTL
=============================================================================
