----------------------------- MODULE TokenCache -----------------------------
(***************************************************************************)
(* stage4_candidates/cache.py: the least-recently-used cache of the        *)
(* candidates of a token.  A cache is a record of its entries, oldest      *)
(* first, and of its two counters.                                         *)
(***************************************************************************)
EXTENDS Lists, SequencesExt

CONSTANT MaxSize      \* maxsize

ASSUME MaxSizeAssumption == MaxSize \in Nat

EmptyCache == [store |-> <<>>, hits |-> 0, misses |-> 0]

Keys(cache) == {cache.store[i].key : i \in DOMAIN cache.store}

Holds(cache, key) == key \in Keys(cache)

Entry(cache, key) ==
  CHOOSE e \in {cache.store[i] : i \in DOMAIN cache.store} : e.key = key

CacheValue(cache, key) == Entry(cache, key).value

\* get: a hit moves the entry to the end, where the most recently used one is.
AfterGet(cache, key) ==
  IF Holds(cache, key)
  THEN [cache EXCEPT !.hits = @ + 1,
                     !.store = Append(Pick(@, {i \in DOMAIN @ : @[i].key # key}),
                                      Entry(cache, key))]
  ELSE [cache EXCEPT !.misses = @ + 1]

\* put: a full cache first drops a tenth of its size, at least one entry.
Evicted(store) ==
  LET tenth == IF MaxSize \div 10 > 1 THEN MaxSize \div 10 ELSE 1 IN
  IF Len(store) >= MaxSize THEN SubSeq(store, tenth + 1, Len(store)) ELSE store

AfterPut(cache, key, value) ==
  LET store == Evicted(cache.store) IN
  [cache EXCEPT !.store =
     IF \E i \in DOMAIN store : store[i].key = key
     THEN [i \in DOMAIN store |->
             IF store[i].key = key THEN [key |-> key, value |-> value] ELSE store[i]]
     ELSE Append(store, [key |-> key, value |-> value])]
=============================================================================
