------------------------- MODULE RouteContextProofs -------------------------
(***************************************************************************)
(* Machine-checked proofs about RouteContext, for every set of credentials *)
(* and models, every size of the cache and any number of lookups, however  *)
(* late each of them ends.                                                 *)
(***************************************************************************)
EXTENDS RouteContext, FiniteSetTheorems, WellFoundedInduction, TLAPS

(***************************************************************************)
(* Extrema of sets of numbers.                                             *)
(***************************************************************************)
\* A nonempty set of naturals has a least element.
LEMMA LeastNatural ==
  ASSUME NEW S \in SUBSET Nat, S # {}
  PROVE  \E m \in S : \A x \in S : m <= x
<1>1. IsWellFoundedOn(OpToRel(<, Nat), Nat)
  BY NatLessThanWellFounded, Zenon
<1>2. PICK m \in S : \A x \in S : ~(<<x, m>> \in OpToRel(<, Nat))
  BY <1>1, WFMin, Zenon
<1>3. \A x \in S : ~(x < m)
  BY <1>2, Zenon DEF OpToRel
<1>4. QED
  BY <1>3

\* Min and Max pick what their names say, the second of a bounded set.
LEMMA MinIsLeast ==
  ASSUME NEW S \in SUBSET Nat, S # {}
  PROVE  Min(S) \in S /\ \A x \in S : Min(S) <= x
BY LeastNatural, Zenon DEF Min

\* The same for Max, used for the eviction mark and for the length that is kept.
LEMMA MaxIsGreatest ==
  ASSUME NEW S \in SUBSET Nat, S # {}, NEW b \in Nat, \A x \in S : x <= b
  PROVE  Max(S) \in S /\ \A x \in S : x <= Max(S)
<1> DEFINE D == {b - x : x \in S}
<1>1. D \in SUBSET Nat /\ D # {}
  <2>1. \A x \in S : b - x \in Nat
    OBVIOUS
  <2>2. QED
    BY <2>1, Zenon
<1>2. PICK d \in D : \A y \in D : d <= y
  BY <1>1, LeastNatural, Zenon
<1>3. PICK m \in S : d = b - m
  BY Zenon
<1>4. \A x \in S : m >= x
  BY <1>2, <1>3
<1>5. QED
  BY <1>4, Zenon DEF Max

-----------------------------------------------------------------------------
(***************************************************************************)
(* The recency list.                                                       *)
(***************************************************************************)
\* The list l holds each key of the set S once and no other.
Lists(l, S) ==
  /\ l \in Seq(Keys)
  /\ \A i, j \in 1 .. Len(l) : l[i] = l[j] => i = j
  /\ \A k \in Keys : k \in S <=> \E i \in 1 .. Len(l) : l[i] = k

\* list.Remove takes the key out and keeps the others.
LEMMA RemovedKey ==
  ASSUME NEW S, Lists(lru, S), NEW k \in Keys
  PROVE  Lists(Without(k), S \ {k})
<1>0. lru \in Seq(Keys) /\ Len(lru) \in Nat /\ DOMAIN lru = 1 .. Len(lru)
  BY DEF Lists
<1>1. CASE k \notin Range(lru)
  <2>1. k \notin S
    BY <1>0, <1>1, Zenon DEF Lists, Range
  <2>2. Without(k) = lru /\ S \ {k} = S
    BY <1>1, <2>1, Zenon DEF Without
  <2>3. QED
    BY <2>2, Zenon
<1>2. CASE k \in Range(lru)
  <2> DEFINE p == CHOOSE i \in DOMAIN lru : lru[i] = k
             r == [i \in 1 .. Len(lru) - 1 |-> lru[IF i < p THEN i ELSE i + 1]]
             at(i) == IF i < p THEN i ELSE i + 1
  <2>1. p \in 1 .. Len(lru) /\ lru[p] = k
    BY <1>0, <1>2, Zenon DEF Range
  <2>2. Without(k) = r
    BY <1>2, Zenon DEF Without
  <2> HIDE DEF p
  <2>3. Len(lru) - 1 \in Nat
    BY <1>0, <2>1
  <2>4. \A i \in 1 .. Len(lru) - 1 : at(i) \in 1 .. Len(lru) /\ at(i) # p
    BY <1>0, <2>1
  <2>5. \A i \in 1 .. Len(lru) - 1 : r[i] = lru[at(i)] /\ lru[at(i)] \in Keys
    <3>1. \A i \in 1 .. Len(lru) : lru[i] \in Keys
      BY <1>0
    <3>2. QED
      BY <2>4, <3>1, Zenon
  <2>6. r \in Seq(Keys) /\ Len(r) = Len(lru) - 1
    <3>1. r \in [1 .. Len(lru) - 1 -> Keys]
      BY <2>5, Zenon
    <3> HIDE DEF r
    <3>2. QED
      BY <2>3, <3>1
  <2>7. \A i, j \in 1 .. Len(lru) - 1 : at(i) = at(j) => i = j
    BY <1>0, <2>1
  <2>8. ASSUME NEW i \in 1 .. Len(lru), i # p
        PROVE  \E j \in 1 .. Len(lru) - 1 : at(j) = i
    <3>1. CASE i < p
      <4>1. i \in 1 .. Len(lru) - 1 /\ at(i) = i
        BY <1>0, <2>1, <3>1
      <4>2. QED
        BY <4>1, Zenon
    <3>2. CASE i > p
      <4>1. i - 1 \in 1 .. Len(lru) - 1 /\ at(i - 1) = i
        BY <1>0, <2>1, <3>2
      <4>2. QED
        BY <4>1, Zenon
    <3>3. QED
      BY <1>0, <2>1, <2>8, <3>1, <3>2
  <2> HIDE DEF r, at
  <2>9. \A i, j \in 1 .. Len(r) : r[i] = r[j] => i = j
    <3>1. ASSUME NEW i \in 1 .. Len(r), NEW j \in 1 .. Len(r), r[i] = r[j] PROVE i = j
      <4>1. /\ i \in 1 .. Len(lru) - 1 /\ j \in 1 .. Len(lru) - 1
            /\ at(i) \in 1 .. Len(lru) /\ at(j) \in 1 .. Len(lru)
            /\ lru[at(i)] = lru[at(j)]
        BY <2>4, <2>5, <2>6, <3>1, Zenon
      <4>2. at(i) = at(j)
        BY <4>1, Zenon DEF Lists
      <4>3. QED
        BY <2>7, <4>1, <4>2, Zenon
    <3>2. QED
      BY <3>1, Zenon
  <2>10. ASSUME NEW x \in Keys
         PROVE  x \in S \ {k} <=> \E i \in 1 .. Len(r) : r[i] = x
    <3>1. ASSUME x \in S, x # k PROVE \E i \in 1 .. Len(r) : r[i] = x
      <4>1. PICK i \in 1 .. Len(lru) : lru[i] = x
        BY <3>1, Zenon DEF Lists
      <4>2. PICK j \in 1 .. Len(lru) - 1 : at(j) = i
        BY <2>1, <2>8, <3>1, <4>1, Zenon
      <4>3. QED
        BY <2>5, <2>6, <4>1, <4>2, Zenon
    <3>2. ASSUME NEW i \in 1 .. Len(r), r[i] = x PROVE x \in S /\ x # k
      <4>1. at(i) \in 1 .. Len(lru) /\ at(i) # p /\ lru[at(i)] = x
        BY <2>4, <2>5, <2>6, <3>2, Zenon
      <4>2. QED
        BY <2>1, <4>1, Zenon DEF Lists
    <3>3. QED
      BY <3>1, <3>2, Zenon
  <2>11. QED
    BY <2>2, <2>6, <2>9, <2>10, Zenon DEF Lists
<1>3. QED
  BY <1>1, <1>2, Zenon

\* list.PushFront adds a key that is not in it.
LEMMA PushedKey ==
  ASSUME NEW l, NEW S, Lists(l, S), NEW k \in Keys, k \notin S
  PROVE  Lists(<<k>> \o l, S \cup {k})
<1> DEFINE r == <<k>> \o l
<1>1. l \in Seq(Keys) /\ Len(l) \in Nat
  BY DEF Lists
<1>2. /\ r \in Seq(Keys) /\ Len(r) = Len(l) + 1 /\ r[1] = k
      /\ \A i \in 1 .. Len(l) : r[i + 1] = l[i]
  BY <1>1
<1>3. \A i \in 2 .. Len(r) : i - 1 \in 1 .. Len(l) /\ r[i] = l[i - 1]
  <2> SUFFICES ASSUME NEW i \in 2 .. Len(r) PROVE i - 1 \in 1 .. Len(l) /\ r[i] = l[i - 1]
    BY Zenon
  <2>1. i - 1 \in 1 .. Len(l) /\ (i - 1) + 1 = i
    BY <1>1, <1>2
  <2>2. QED
    BY <1>2, <2>1, Zenon
<1> HIDE DEF r
<1>4. \A i \in 1 .. Len(l) : l[i] # k
  BY Zenon DEF Lists
<1>5. \A i \in 1 .. Len(r) : i = 1 \/ i \in 2 .. Len(r)
  BY <1>1, <1>2
<1>6. \A i, j \in 1 .. Len(r) : r[i] = r[j] => i = j
  <2> SUFFICES ASSUME NEW i \in 1 .. Len(r), NEW j \in 1 .. Len(r), r[i] = r[j] PROVE i = j
    BY Zenon
  <2>1. CASE i = 1 \/ j = 1
    BY <1>2, <1>3, <1>4, <1>5, <2>1
  <2>2. CASE i \in 2 .. Len(r) /\ j \in 2 .. Len(r)
    <3>1. i - 1 = j - 1
      BY <1>3, <2>2 DEF Lists
    <3>2. QED
      BY <2>2, <3>1
  <2>3. QED
    BY <1>5, <2>1, <2>2, Zenon
<1>7. ASSUME NEW x \in Keys
      PROVE  x \in S \cup {k} <=> \E i \in 1 .. Len(r) : r[i] = x
  <2>1. ASSUME x \in S PROVE \E i \in 1 .. Len(r) : r[i] = x
    <3>1. PICK i \in 1 .. Len(l) : l[i] = x
      BY <2>1, Zenon DEF Lists
    <3>2. i + 1 \in 1 .. Len(r) /\ r[i + 1] = x
      BY <1>1, <1>2, <3>1
    <3>3. QED
      BY <3>2, Zenon
  <2>2. 1 \in 1 .. Len(r)
    BY <1>1, <1>2
  <2>3. ASSUME NEW i \in 1 .. Len(r), r[i] = x PROVE x \in S \cup {k}
    BY <1>2, <1>3, <1>5, <2>3, Zenon DEF Lists
  <2>4. QED
    BY <1>2, <2>1, <2>2, <2>3, Zenon
<1>8. QED
  BY <1>2, <1>6, <1>7, Zenon DEF Lists, r

\* The eviction loop keeps the front of the list.
LEMMA KeptKeys ==
  ASSUME NEW l, NEW S, Lists(l, S), NEW n \in 0 .. Len(l)
  PROVE  Lists(SubSeq(l, 1, n), S \ Beyond(l, n)) /\ Beyond(l, n) \subseteq S
<1>1. l \in Seq(Keys) /\ Len(l) \in Nat /\ \A i \in 1 .. Len(l) : l[i] \in Keys
  BY DEF Lists
<1>2. /\ SubSeq(l, 1, n) \in Seq(Keys) /\ Len(SubSeq(l, 1, n)) = n
      /\ \A i \in 1 .. n : SubSeq(l, 1, n)[i] = l[i]
  BY <1>1
<1>3. \A i \in 1 .. Len(l) : i \in 1 .. n \/ i \in n + 1 .. Len(l)
  BY <1>1
<1>4. \A i \in 1 .. n : i \in 1 .. Len(l) /\ \A j \in n + 1 .. Len(l) : i # j /\ j \in 1 .. Len(l)
  BY <1>1
<1>5. Beyond(l, n) \subseteq S
  <2>1. \A i \in n + 1 .. Len(l) : i \in 1 .. Len(l)
    BY <1>1
  <2>2. QED
    BY <1>1, <2>1 DEF Beyond, Lists
<1>6. ASSUME NEW x \in Keys
      PROVE  x \in S \ Beyond(l, n) <=> \E i \in 1 .. n : SubSeq(l, 1, n)[i] = x
  <2>1. ASSUME x \in S \ Beyond(l, n) PROVE \E i \in 1 .. n : l[i] = x
    BY <1>3, <2>1, Zenon DEF Beyond, Lists
  <2>2. ASSUME NEW i \in 1 .. n, l[i] = x PROVE x \in S \ Beyond(l, n)
    BY <1>4, <2>2, Zenon DEF Beyond, Lists
  <2>3. QED
    BY <1>2, <2>1, <2>2, Zenon
<1>7. QED
  BY <1>2, <1>4, <1>5, <1>6, Zenon DEF Lists

\* A list of the keys of S is as long as S is large.
LEMMA ListLength ==
  ASSUME NEW l, NEW S \in SUBSET Keys, Lists(l, S)
  PROVE  Range(l) = S /\ Len(l) = Cardinality(S) /\ IsFiniteSet(S)
<1>1. l \in Seq(Keys) /\ Len(l) \in Nat /\ DOMAIN l = 1 .. Len(l) /\ l \in [1 .. Len(l) -> Keys]
  BY DEF Lists
<1>2. Range(l) = S
  BY <1>1 DEF Lists, Range
<1>3. l \in [1 .. Len(l) -> S]
  BY <1>1, Zenon DEF Lists
<1>4. l \in Bijection(1 .. Len(l), S)
  <2>1. \A i, j \in 1 .. Len(l) : l[i] = l[j] => i = j
    BY Zenon DEF Lists
  <2>2. \A x \in S : \E i \in 1 .. Len(l) : l[i] = x
    BY Zenon DEF Lists
  <2>3. QED
    BY <1>3, <2>1, <2>2, Zenon DEF Bijection, Injection, Surjection, IsInjective
<1>5. Cardinality(S) = Len(l)
  BY <1>1, <1>4, FS_CountingElements, Zenon DEF ExistsBijection
<1>6. IsFiniteSet(S)
  <2>1. IsFiniteSet(1 .. Len(l))
    BY <1>1, FS_Interval
  <2>2. QED
    BY <1>4, <2>1, FS_Bijection, Zenon DEF ExistsBijection
<1>7. QED
  BY <1>2, <1>5, <1>6, Zenon

-----------------------------------------------------------------------------
(***************************************************************************)
(* The bytes of the cache, counted as pairs of a key and an offset.        *)
(***************************************************************************)
\* The bytes that the entries c hold under the keys S.
Held(c, S) == {b \in S \X (1 .. MaxBytes) : b[2] <= c[b[1]].bytes}

\* A finite number of entries holds a finite number of bytes.
LEMMA HeldFinite ==
  ASSUME NEW c, NEW S, IsFiniteSet(S)
  PROVE  IsFiniteSet(Held(c, S)) /\ Cardinality(Held(c, S)) \in Nat
<1>1. IsFiniteSet(1 .. MaxBytes)
  BY RouteContextAssumption, FS_Interval
<1>2. IsFiniteSet(S \X (1 .. MaxBytes))
  BY <1>1, FS_Product, Zenon
<1>3. Held(c, S) \in SUBSET (S \X (1 .. MaxBytes))
  BY Zenon DEF Held
<1>4. IsFiniteSet(Held(c, S))
  BY <1>2, <1>3, FS_Subset, Zenon
<1>5. QED
  BY <1>4, FS_CardinalityType, Zenon

\* The bytes of two disjoint sets of keys add up.
LEMMA HeldAddsUp ==
  ASSUME NEW c, NEW S, IsFiniteSet(S), NEW T, IsFiniteSet(T), S \cap T = {}
  PROVE  Cardinality(Held(c, S \cup T)) = Cardinality(Held(c, S)) + Cardinality(Held(c, T))
<1>1. Held(c, S \cup T) = Held(c, S) \cup Held(c, T)
  BY Zenon DEF Held
<1>2. Held(c, S) \cap Held(c, T) = {}
  BY Zenon DEF Held
<1> DEFINE X == Held(c, S)
           Y == Held(c, T)
<1>3. IsFiniteSet(X) /\ IsFiniteSet(Y) /\ Cardinality(X) \in Nat /\ Cardinality(Y) \in Nat
  BY HeldFinite, Zenon
<1> HIDE DEF X, Y
<1>4. Cardinality(X \cup Y) = Cardinality(X) + Cardinality(Y) - Cardinality(X \cap Y)
  BY <1>3, FS_Union, Zenon
<1>5. Cardinality(X \cap Y) = 0
  BY <1>2, FS_EmptySet, Zenon DEF X, Y
<1>6. Cardinality(X \cup Y) = Cardinality(X) + Cardinality(Y)
  BY <1>3, <1>4, <1>5
<1>7. QED
  BY <1>1, <1>6, Zenon DEF X, Y

\* One entry holds as many bytes as it says.
LEMMA HeldByOne ==
  ASSUME NEW c, NEW k, c[k].bytes \in 0 .. MaxBytes
  PROVE  Cardinality(Held(c, {k})) = c[k].bytes
<1> DEFINE n == c[k].bytes
           f == [i \in 1 .. n |-> <<k, i>>]
<1>1. n \in Nat /\ MaxBytes \in Nat /\ n <= MaxBytes
  BY RouteContextAssumption
<1>2. \A i \in 1 .. n : i \in 1 .. MaxBytes /\ i <= n
  BY <1>1
<1>3. \A i \in 1 .. MaxBytes : i <= n => i \in 1 .. n
  BY <1>1
<1>4. \A i \in 1 .. n : f[i] = <<k, i>> /\ <<k, i>> \in Held(c, {k})
  BY <1>2, Zenon DEF Held
<1>5. \A b \in Held(c, {k}) : \E i \in 1 .. n : f[i] = b
  <2> SUFFICES ASSUME NEW b \in Held(c, {k}) PROVE \E i \in 1 .. n : f[i] = b
    BY Zenon
  <2>1. b = <<k, b[2]>> /\ b[2] \in 1 .. MaxBytes /\ b[2] <= n
    BY DEF Held
  <2>2. b[2] \in 1 .. n
    BY <1>3, <2>1, Zenon
  <2>3. f[b[2]] = <<k, b[2]>>
    BY <2>2, Zenon
  <2>4. QED
    BY <2>1, <2>2, <2>3, Zenon
<1>6. f \in [1 .. n -> Held(c, {k})]
  BY <1>4, Zenon
<1>7. \A i, j \in 1 .. n : f[i] = f[j] => i = j
  BY <1>4, Zenon
<1> HIDE DEF f
<1>8. f \in Bijection(1 .. n, Held(c, {k}))
  BY <1>5, <1>6, <1>7, Zenon DEF Bijection, Injection, Surjection, IsInjective
<1>9. QED
  BY <1>1, <1>8, FS_CountingElements, Zenon DEF ExistsBijection

\* Only the sizes of the entries matter.
LEMMA HeldSame ==
  ASSUME NEW c, NEW d, NEW S, \A k \in S : c[k].bytes = d[k].bytes
  PROVE  Held(c, S) = Held(d, S)
BY Zenon DEF Held

\* The eviction loop finds room for what fits into the cache, and what is in use
\* after it are the bytes of the entries it kept.
LEMMA EvictionFindsRoom ==
  ASSUME NEW rest, NEW S \in SUBSET Keys, Lists(rest, S),
         NEW size \in Nat, size <= MaxBytes
  PROVE  LET used == Cardinality(Held(cache, S))
             kept == Kept(rest, used, size)
             out  == Beyond(rest, kept)
         IN  /\ kept \in 0 .. Len(rest)
             /\ used - BytesOf(out) = Cardinality(Held(cache, S \ out))
             /\ used - BytesOf(out) + size <= MaxBytes
<1> DEFINE used == Cardinality(Held(cache, S))
           kept == Kept(rest, used, size)
           inUse(n) == used - BytesOf(Beyond(rest, n))
           F == {n \in 1 .. Len(rest) : inUse(n) + size <= MaxBytes}
<1>1. Len(rest) \in Nat /\ IsFiniteSet(S) /\ MaxBytes \in Nat
  <2>1. Len(rest) \in Nat
    BY DEF Lists
  <2>2. IsFiniteSet(S)
    BY ListLength, Zenon
  <2>3. QED
    BY <2>1, <2>2, RouteContextAssumption, Zenon
<1>2. ASSUME NEW n \in 0 .. Len(rest)
      PROVE  inUse(n) = Cardinality(Held(cache, S \ Beyond(rest, n)))
  <2> DEFINE B == Beyond(rest, n)
  <2>1. B \in SUBSET S /\ (S \ B) \in SUBSET S
    BY KeptKeys, Zenon
  <2>2. BytesOf(B) = Cardinality(Held(cache, B))
    BY Zenon DEF BytesOf, Held
  <2> HIDE DEF B
  <2>3. IsFiniteSet(B) /\ IsFiniteSet(S \ B)
    BY <1>1, <2>1, FS_Subset, Zenon
  <2>4. (S \ B) \cap B = {} /\ (S \ B) \cup B = S
    BY <2>1, Zenon
  <2>5. used = Cardinality(Held(cache, S \ B)) + Cardinality(Held(cache, B))
    <3>1. Cardinality(Held(cache, (S \ B) \cup B))
            = Cardinality(Held(cache, S \ B)) + Cardinality(Held(cache, B))
      BY <2>3, <2>4, HeldAddsUp, Zenon
    <3>2. QED
      BY <2>4, <3>1, Zenon
  <2>6. Cardinality(Held(cache, S \ B)) \in Nat /\ Cardinality(Held(cache, B)) \in Nat
    BY <2>3, HeldFinite, Zenon
  <2>7. used - BytesOf(B) = Cardinality(Held(cache, S \ B))
    BY <2>2, <2>5, <2>6
  <2>8. QED
    BY <2>7, Zenon DEF B
<1>3. kept = Max({0} \cup F)
  BY Zenon DEF Kept
<1>4. F \subseteq 1 .. Len(rest) /\ \A n \in F : inUse(n) + size <= MaxBytes
  BY Zenon
<1> HIDE DEF F, inUse, kept
<1>5. kept \in {0} \cup F
  <2>1. {0} \cup F \in SUBSET Nat /\ {0} \cup F # {} /\ \A x \in {0} \cup F : x <= Len(rest)
    BY <1>1, <1>4
  <2>2. QED
    BY <1>1, <1>3, <2>1, MaxIsGreatest, Zenon
<1>6. kept \in 0 .. Len(rest)
  BY <1>1, <1>4, <1>5
<1>7. inUse(kept) + size <= MaxBytes
  <2>1. CASE kept = 0
    <3>1. \A i \in 1 .. Len(rest) : rest[i] \in Beyond(rest, 0)
      BY DEF Beyond
    <3>2. S \ Beyond(rest, 0) = {}
      <4>1. \A x \in S : x \in Keys /\ \E i \in 1 .. Len(rest) : rest[i] = x
        BY Zenon DEF Lists
      <4>2. \A x \in S : x \in Beyond(rest, 0)
        BY <3>1, <4>1, Zenon
      <4>3. QED
        BY <4>2, Zenon
    <3>3. Held(cache, {}) = {}
      BY Zenon DEF Held
    <3>4. inUse(0) = 0
      BY <1>2, <1>6, <2>1, <3>2, <3>3, FS_EmptySet, Zenon
    <3>5. QED
      BY <2>1, <3>4
  <2>2. CASE kept \in F
    BY <1>4, <2>2, Zenon
  <2>3. QED
    BY <1>5, <2>1, <2>2, Zenon
<1>8. QED
  BY <1>2, <1>6, <1>7, Zenon DEF inUse, kept

-----------------------------------------------------------------------------
(***************************************************************************)
(* The invariant.  A key that lost its entry is remembered by the eviction *)
(* mark alone, which is at least the newest sequence the key ever held.    *)
(***************************************************************************)
CachedKeys == {k \in Keys : Cached(k)}

\* A rejection counts down from the start of its lookup.
Sound(v) == v \in Verdicts /\ (v.decision = "rejected" => v.observedAt = v.asked)

CacheInv ==
  /\ cache \in [Keys -> Entries \cup {Missing}]
  /\ newest \in [Keys -> Nat]
  /\ evictedSequence \in Nat /\ sequence \in Nat /\ evictedSequence <= sequence
  /\ \A k \in Keys : Cached(k) =>
       cache[k].sequence = newest[k] /\ newest[k] <= sequence /\ Sound(cache[k].verdict)
  /\ \A k \in Keys : ~Cached(k) => newest[k] <= evictedSequence
  /\ Lists(lru, CachedKeys)
  /\ \A k \in Keys : Cached(k) => cache[k].bytes \in 0 .. MaxBytes
  /\ bytes = Cardinality(Held(cache, CachedKeys)) /\ bytes <= MaxBytes

TaskInv ==
  /\ tasks \subseteq Tasks
  /\ IsFiniteSet(tasks) /\ Cardinality(tasks) <= MaxRefreshes
  /\ \A t \in tasks : t.sequence <= sequence /\ t.answer.decision # "rejected"
  /\ waiting \subseteq Creds /\ now \in Nat

Inv == CacheInv /\ TaskInv

\* A cached key holds an entry, whose parts have their types.
LEMMA CachedEntry ==
  ASSUME CacheInv, NEW k \in Keys, Cached(k)
  PROVE  /\ cache[k] \in Entries /\ cache[k].sequence \in Nat /\ cache[k].sequence <= sequence
         /\ cache[k].verdict \in Verdicts
<1>1. cache[k] \in Entries
  BY Zenon DEF CacheInv, Cached
<1>2. QED
  BY <1>1, Zenon DEF CacheInv, Entries

\* What put counts before it evicts: the bytes of the other keys.
LEMMA BytesWithout ==
  ASSUME CacheInv, NEW k \in Keys
  PROVE  (IF Cached(k) THEN bytes - cache[k].bytes ELSE bytes)
           = Cardinality(Held(cache, CachedKeys \ {k}))
<1>1. CASE ~Cached(k)
  <2>1. CachedKeys \ {k} = CachedKeys
    BY <1>1, Zenon DEF CachedKeys
  <2>2. QED
    BY <1>1, <2>1, Zenon DEF CacheInv
<1>2. CASE Cached(k)
  <2> DEFINE R == CachedKeys \ {k}
  <2>1. R \cap {k} = {} /\ R \cup {k} = CachedKeys
    BY <1>2, Zenon DEF CachedKeys
  <2>2. IsFiniteSet(R) /\ IsFiniteSet({k})
    <3>1. CachedKeys \in SUBSET Keys /\ R \in SUBSET CachedKeys /\ Lists(lru, CachedKeys)
      BY Zenon DEF CachedKeys, CacheInv
    <3>2. IsFiniteSet(CachedKeys)
      BY <3>1, ListLength, Zenon
    <3>3. QED
      BY <3>1, <3>2, FS_Subset, FS_Singleton, Zenon
  <2>3. Cardinality(Held(cache, {k})) = cache[k].bytes /\ cache[k].bytes \in Nat
    <3>1. cache[k].bytes \in 0 .. MaxBytes
      BY <1>2, Zenon DEF CacheInv
    <3>2. Cardinality(Held(cache, {k})) = cache[k].bytes
      BY <3>1, HeldByOne, Zenon
    <3>3. QED
      BY <3>1, <3>2
  <2> HIDE DEF R
  <2>4. Cardinality(Held(cache, R \cup {k}))
          = Cardinality(Held(cache, R)) + Cardinality(Held(cache, {k}))
    BY <2>1, <2>2, HeldAddsUp, Zenon
  <2>5. bytes = Cardinality(Held(cache, R)) + cache[k].bytes
    BY <2>1, <2>3, <2>4, Zenon DEF CacheInv
  <2>6. Cardinality(Held(cache, R)) \in Nat
    BY <2>2, HeldFinite, Zenon
  <2>7. bytes - cache[k].bytes = Cardinality(Held(cache, R))
    BY <2>3, <2>5, <2>6
  <2>8. QED
    BY <1>2, <2>7, Zenon DEF R
<1>3. QED
  BY <1>1, <1>2, Zenon

\* Every put keeps the invariant: refused, replacing an older result of its
\* key, or evicting others.
LEMMA PutKeeps ==
  ASSUME CacheInv, NEW k \in Keys, NEW v, Sound(v), NEW s \in Nat, s <= sequence,
         Put(k, v, s), sequence' = sequence
  PROVE  CacheInv'
<1>1. CASE Refused(k, v, s)
  <2>1. UNCHANGED <<cache, lru, bytes, evictedSequence, newest>>
    BY <1>1, Zenon DEF Put, store
  <2>2. CachedKeys' = CachedKeys
    BY <2>1, Zenon DEF CachedKeys, Cached
  <2>3. Lists(lru, CachedKeys)' /\ Held(cache, CachedKeys)' = Held(cache, CachedKeys)
    BY <2>1, <2>2, Zenon DEF CacheInv, Held
  <2>4. QED
    BY <2>1, <2>2, <2>3, Zenon DEF CacheInv, Cached
<1>2. CASE ~Refused(k, v, s)
  <2> DEFINE rest == Without(k)
             used == IF Cached(k) THEN bytes - cache[k].bytes ELSE bytes
             kept == Kept(rest, used, Size(v))
             out  == Beyond(rest, kept)
             entry == [verdict |-> v, sequence |-> s, bytes |-> Size(v)]
  <2>1. /\ cache' = [j \in Keys |-> IF j = k THEN entry
                                    ELSE IF j \in out THEN Missing ELSE cache[j]]
        /\ lru' = <<k>> \o SubSeq(rest, 1, kept)
        /\ bytes' = used - BytesOf(out) + Size(v)
        /\ evictedSequence' = Max({evictedSequence} \cup {cache[j].sequence : j \in out})
        /\ newest' = [newest EXCEPT ![k] = Max({@, s})]
    BY <1>2, Zenon DEF Put
  <2>size. Size(v) \in Nat /\ Size(v) <= MaxBytes
    <3>1. Size(v) \in Nat
      BY Zenon DEF Size
    <3>2. ~(Size(v) > MaxBytes)
      BY <1>2, Zenon DEF Refused
    <3>3. QED
      BY <3>1, <3>2, RouteContextAssumption
  <2>2. /\ entry \in Entries /\ entry # Missing /\ entry.sequence = s /\ entry.verdict = v
        /\ entry.bytes = Size(v)
    <3>1. entry \in Entries /\ entry.sequence = s /\ entry.verdict = v /\ entry.bytes = Size(v)
      BY <2>size, Zenon DEF Entries, Sound
    <3>2. QED
      BY <3>1, MissingAssumption, Zenon
  <2>3. Lists(rest, CachedKeys \ {k})
    BY RemovedKey, Zenon DEF CacheInv
  <2>4. used = Cardinality(Held(cache, CachedKeys \ {k}))
    BY BytesWithout, Zenon DEF CacheInv
  <2> HIDE DEF rest, used, entry
  <2>room. /\ kept \in 0 .. Len(rest)
         /\ used - BytesOf(out) = Cardinality(Held(cache, (CachedKeys \ {k}) \ out))
         /\ used - BytesOf(out) + Size(v) <= MaxBytes
    <3> DEFINE R == CachedKeys \ {k}
    <3>1. R \in SUBSET Keys
      BY Zenon DEF CachedKeys
    <3>2. kept = Kept(rest, used, Size(v))
      BY Zenon
    <3> HIDE DEF kept, R
    <3>3. Lists(rest, R) /\ used = Cardinality(Held(cache, R))
      BY <2>3, <2>4, Zenon DEF R
    <3>4. LET u == Cardinality(Held(cache, R))
              n == Kept(rest, u, Size(v))
          IN  /\ n \in 0 .. Len(rest)
              /\ u - BytesOf(Beyond(rest, n)) = Cardinality(Held(cache, R \ Beyond(rest, n)))
              /\ u - BytesOf(Beyond(rest, n)) + Size(v) <= MaxBytes
      BY <2>size, <3>1, <3>3, EvictionFindsRoom, Zenon
    <3>5. QED
      BY <3>2, <3>3, <3>4, Zenon DEF R
  <2> HIDE DEF kept
  <2>5. /\ Lists(SubSeq(rest, 1, kept), (CachedKeys \ {k}) \ out)
        /\ out \subseteq CachedKeys \ {k}
    BY <2>3, <2>room, KeptKeys, Zenon
  <2> HIDE DEF out
  <2>6. Lists(lru', ((CachedKeys \ {k}) \ out) \cup {k})
    BY <2>1, <2>5, PushedKey, Zenon
  <2>7. \A j \in Keys : /\ j = k => cache'[j] = entry
                        /\ j # k /\ j \in out => cache'[j] = Missing
                        /\ j # k /\ j \notin out => cache'[j] = cache[j]
    BY <2>1, Zenon
  <2>8. CachedKeys' = ((CachedKeys \ {k}) \ out) \cup {k}
    BY <2>2, <2>7, Zenon DEF CachedKeys, Cached
  <2>9. \A j \in out : j \in Keys /\ Cached(j) /\ j # k
    BY <2>5, Zenon DEF CachedKeys
  <2>10. /\ evictedSequence' \in Nat /\ evictedSequence <= evictedSequence'
         /\ evictedSequence' <= sequence
         /\ \A j \in out : cache[j].sequence <= evictedSequence'
    <3> DEFINE E == {evictedSequence} \cup {cache[j].sequence : j \in out}
    <3>1. \A x \in E : x \in Nat /\ x <= sequence
      BY <2>9, CachedEntry, Zenon DEF CacheInv
    <3>2. evictedSequence \in E /\ \A j \in out : cache[j].sequence \in E
      BY Zenon
    <3>3. evictedSequence' = Max(E)
      BY <2>1, Zenon
    <3> HIDE DEF E
    <3>4. Max(E) \in E /\ \A x \in E : x <= Max(E)
      <4>1. E \in SUBSET Nat /\ E # {} /\ \A x \in E : x <= sequence
        BY <3>1, <3>2, Zenon
      <4>2. sequence \in Nat
        BY Zenon DEF CacheInv
      <4>3. QED
        BY <4>1, <4>2, MaxIsGreatest, Zenon
    <3>5. QED
      BY <3>1, <3>2, <3>3, <3>4, Zenon
  <2>11. newest[k] \in Nat /\ newest[k] <= s
    <3>1. newest[k] \in Nat
      BY Zenon DEF CacheInv
    <3>2. CASE Cached(k)
      <4>1. ~(s < cache[k].sequence)
        BY <1>2, <3>2, Zenon DEF Refused
      <4>2. QED
        BY <3>1, <3>2, <4>1 DEF CacheInv
    <3>3. CASE ~Cached(k)
      <4>1. ~(s <= evictedSequence)
        BY <1>2, <3>3, Zenon DEF Refused
      <4>2. QED
        BY <3>1, <3>3, <4>1 DEF CacheInv
    <3>4. QED
      BY <3>1, <3>2, <3>3, Zenon
  <2>12. Max({newest[k], s}) = s
    <3>1. {newest[k], s} \in SUBSET Nat /\ \A x \in {newest[k], s} : x <= s
      BY <2>11
    <3>2. Max({newest[k], s}) \in {newest[k], s} /\ s <= Max({newest[k], s})
      BY <3>1, MaxIsGreatest, Zenon
    <3>3. QED
      BY <2>11, <3>2
  <2>13. /\ newest' \in [Keys -> Nat] /\ newest'[k] = s
         /\ \A j \in Keys : j # k => newest'[j] = newest[j]
    BY <2>1, <2>12, Zenon DEF CacheInv
  <2>14. cache' \in [Keys -> Entries \cup {Missing}]
    BY <2>1, <2>2, Zenon DEF CacheInv
  <2>15. ASSUME NEW j \in Keys
         PROVE  /\ cache'[j] # Missing =>
                     /\ cache'[j].sequence = newest'[j] /\ newest'[j] <= sequence
                     /\ Sound(cache'[j].verdict)
                /\ cache'[j] = Missing => newest'[j] <= evictedSequence'
    <3>1. CASE j = k
      BY <2>2, <2>7, <2>13, <3>1, Zenon
    <3>2. CASE j # k /\ j \in out
      <4>1. cache'[j] = Missing /\ newest'[j] = newest[j]
        BY <2>7, <2>13, <3>2, Zenon
      <4>2. newest[j] <= evictedSequence'
        BY <2>9, <2>10, <3>2, Zenon DEF CacheInv
      <4>3. QED
        BY <4>1, <4>2, Zenon
    <3>3. CASE j # k /\ j \notin out
      <4>1. cache'[j] = cache[j] /\ newest'[j] = newest[j] /\ newest[j] \in Nat
        BY <2>7, <2>13, <3>3, Zenon DEF CacheInv
      <4>2. CASE Cached(j)
        BY <4>1, <4>2, Zenon DEF CacheInv, Cached
      <4>3. CASE ~Cached(j)
        <5>1. newest[j] <= evictedSequence /\ evictedSequence \in Nat
          BY <4>3, Zenon DEF CacheInv
        <5>2. newest'[j] <= evictedSequence'
          BY <2>10, <4>1, <5>1
        <5>3. QED
          BY <4>1, <4>3, <5>2, Zenon DEF Cached
      <4>4. QED
        BY <4>2, <4>3, Zenon
    <3>4. QED
      BY <3>1, <3>2, <3>3, Zenon
  <2>16. Lists(lru', CachedKeys')
    BY <2>6, <2>8, Zenon
  <2>17. \A j \in Keys : cache'[j] # Missing => cache'[j].bytes \in 0 .. MaxBytes
    <3>1. \A j \in Keys : cache[j] # Missing => cache[j].bytes \in 0 .. MaxBytes
      BY Zenon DEF CacheInv, Cached
    <3>2. Size(v) \in 0 .. MaxBytes
      BY <2>size, RouteContextAssumption
    <3>3. QED
      BY <2>2, <2>7, <3>1, <3>2, Zenon
  <2>18. bytes' = Cardinality(Held(cache', CachedKeys')) /\ bytes' <= MaxBytes
    <3> DEFINE L == (CachedKeys \ {k}) \ out
    <3>1. IsFiniteSet(L) /\ L \cap {k} = {} /\ CachedKeys' = L \cup {k}
      <4>1. CachedKeys \in SUBSET Keys /\ Lists(lru, CachedKeys)
        BY Zenon DEF CachedKeys, CacheInv
      <4>2. IsFiniteSet(CachedKeys) /\ L \in SUBSET CachedKeys
        BY <4>1, ListLength, Zenon
      <4>3. IsFiniteSet(L)
        BY <4>2, FS_Subset, Zenon
      <4>4. QED
        BY <2>8, <4>3, Zenon
    <3>2. Held(cache', L) = Held(cache, L)
      <4>1. \A j \in L : cache'[j].bytes = cache[j].bytes
        BY <2>7, Zenon DEF CachedKeys
      <4>2. QED
        BY <4>1, HeldSame, Zenon
    <3>3. Cardinality(Held(cache', {k})) = Size(v)
      <4>1. cache'[k].bytes = Size(v)
        BY <2>2, <2>7, Zenon
      <4>2. Size(v) \in 0 .. MaxBytes
        BY <2>size, RouteContextAssumption
      <4>3. QED
        BY <4>1, <4>2, HeldByOne, Zenon
    <3>4. used - BytesOf(out) = Cardinality(Held(cache, L))
      BY <2>room, Zenon
    <3> HIDE DEF L
    <3>5. Cardinality(Held(cache', L \cup {k}))
            = Cardinality(Held(cache', L)) + Cardinality(Held(cache', {k}))
      <4>1. IsFiniteSet({k})
        BY FS_Singleton, Zenon
      <4>2. QED
        BY <3>1, <4>1, HeldAddsUp, Zenon
    <3>6. bytes' = Cardinality(Held(cache', CachedKeys'))
      BY <2>1, <3>1, <3>2, <3>3, <3>4, <3>5, Zenon
    <3>7. QED
      BY <2>1, <2>room, <3>6, Zenon
  <2>19. QED
    BY <2>10, <2>13, <2>14, <2>15, <2>16, <2>17, <2>18, Zenon DEF CacheInv, Cached, Held
<1>3. QED
  BY <1>1, <1>2, Zenon

-----------------------------------------------------------------------------
(***************************************************************************)
(* The steps.                                                              *)
(***************************************************************************)
\* get moves a key to the front of the list and changes nothing else.
LEMMA TouchKeeps ==
  ASSUME CacheInv, NEW k \in Keys, Touch(k)
  PROVE  Lists(lru', CachedKeys)
<1>1. CASE Cached(k)
  <2>1. Lists(Without(k), CachedKeys \ {k})
    BY RemovedKey, Zenon DEF CacheInv
  <2>2. Lists(<<k>> \o Without(k), (CachedKeys \ {k}) \cup {k})
    BY <2>1, PushedKey, Zenon
  <2>3. (CachedKeys \ {k}) \cup {k} = CachedKeys
    BY <1>1, Zenon DEF CachedKeys
  <2>4. QED
    BY <1>1, <2>2, <2>3, Zenon DEF Touch
<1>2. CASE ~Cached(k)
  BY <1>2, Zenon DEF Touch, CacheInv
<1>3. QED
  BY <1>1, <1>2, Zenon

\* A step that leaves the entries alone keeps the cache, also when it starts a
\* lookup.
LEMMA CacheFrame ==
  ASSUME CacheInv, UNCHANGED <<cache, bytes, evictedSequence, newest>>, Lists(lru', CachedKeys),
         sequence' \in Nat, sequence <= sequence'
  PROVE  CacheInv'
<1>1. CachedKeys' = CachedKeys /\ \A k \in Keys : Cached(k)' = Cached(k)
  BY Zenon DEF CachedKeys, Cached
<1>2. Held(cache, CachedKeys)' = Held(cache, CachedKeys)
  BY <1>1, Zenon DEF Held
<1>3. \A k \in Keys : Cached(k) => newest[k] <= sequence'
  BY DEF CacheInv
<1>4. evictedSequence <= sequence'
  BY DEF CacheInv
<1>5. QED
  BY <1>1, <1>2, <1>3, <1>4, Zenon DEF CacheInv

\* The verdicts that the client caches.
LEMMA VerdictsSound ==
  ASSUME now \in Nat, NEW t \in Tasks, NEW o \in Orgs \cup {NoOrg},
         NEW d \in {"none", "allowed", "rejected"}
  PROVE  /\ Sound(Answer(t, o, d)) /\ Answer(t, o, d).decision = d
         /\ Sound([Empty EXCEPT !.err = TRUE, !.refreshedAt = now, !.asOf = t.sequence])
         /\ Sound([Empty EXCEPT !.asOf = t.sequence])
         /\ Sound([t.previous EXCEPT !.refreshedAt = now, !.decision = "none"])
<1>1. t.sequence \in Nat /\ t.started \in Nat /\ t.previous \in Verdicts
  BY Zenon DEF Tasks
<1>2. /\ Answer(t, o, d) \in Verdicts /\ Answer(t, o, d).decision = d
      /\ Answer(t, o, d).observedAt = t.started /\ Answer(t, o, d).asked = t.started
  BY <1>1, Zenon DEF Answer, Empty, Verdicts, Never
<1>3. [Empty EXCEPT !.err = TRUE, !.refreshedAt = now, !.asOf = t.sequence] \in Verdicts
  BY <1>1, Zenon DEF Empty, Verdicts, Never
<1>4. [Empty EXCEPT !.err = TRUE, !.refreshedAt = now, !.asOf = t.sequence].decision = "none"
  BY Zenon DEF Empty
<1>5. [Empty EXCEPT !.asOf = t.sequence] \in Verdicts
  BY <1>1, Zenon DEF Empty, Verdicts, Never
<1>6. [Empty EXCEPT !.asOf = t.sequence].decision = "none"
  BY Zenon DEF Empty
<1>7. [t.previous EXCEPT !.refreshedAt = now, !.decision = "none"] \in Verdicts
  BY <1>1, Zenon DEF Verdicts
<1>8. [t.previous EXCEPT !.refreshedAt = now, !.decision = "none"].decision = "none"
  BY <1>1, Zenon DEF Verdicts
<1>9. QED
  BY <1>2, <1>3, <1>4, <1>5, <1>6, <1>7, <1>8, Zenon DEF Sound

\* What get returns has the type of a verdict.
LEMMA GetTyped ==
  ASSUME CacheInv, NEW k \in Keys
  PROVE  Get(k) \in Verdicts
<1>1. Empty \in Verdicts
  BY Zenon DEF Empty, Verdicts, Never
<1>2. ASSUME Cached(k) PROVE Get(k) \in Verdicts
  <2>1. cache[k].verdict \in Verdicts
    BY <1>2, CachedEntry, Zenon
  <2>2. [cache[k].verdict EXCEPT !.decision = "none"] \in Verdicts
    BY <2>1, Zenon DEF Verdicts
  <2>3. QED
    BY <1>2, <2>1, <2>2, Zenon DEF Get
<1>3. QED
  BY <1>1, <1>2, Zenon DEF Get

\* A lookup takes a slot, with the next sequence.
LEMMA StartKeeps ==
  ASSUME Inv, NEW c \in Creds, NEW m \in Models \cup {NoModel}, NEW previous \in Verdicts,
         SlotFree, Start(c, m, previous), now' = now, waiting' \subseteq Creds
  PROVE  TaskInv' /\ sequence' \in Nat /\ sequence <= sequence'
<1> DEFINE t == [cred |-> c, model |-> m, sequence |-> sequence + 1, started |-> now,
                 previous |-> previous, stage |-> "fetch", answer |-> Empty]
<1>1. sequence \in Nat /\ sequence' = sequence + 1 /\ now \in Nat
  BY Zenon DEF Inv, CacheInv, TaskInv, Start
<1>2. tasks' = tasks \cup {t}
  BY Zenon DEF Start
<1>3. Empty \in Verdicts /\ Empty.decision = "none"
  BY Zenon DEF Empty, Verdicts, Never
<1>4. t \in Tasks /\ t.sequence = sequence + 1 /\ t.answer = Empty
  BY <1>1, <1>3 DEF Tasks
<1> HIDE DEF t
<1>5. IsFiniteSet(tasks') /\ Cardinality(tasks') <= Cardinality(tasks) + 1
  <2>1. IsFiniteSet(tasks) /\ Cardinality(tasks) \in Nat
    BY FS_CardinalityType, Zenon DEF Inv, TaskInv
  <2>2. /\ IsFiniteSet(tasks \cup {t})
        /\ Cardinality(tasks \cup {t}) = Cardinality(tasks)
           \/ Cardinality(tasks \cup {t}) = Cardinality(tasks) + 1
    BY <2>1, FS_AddElement, Zenon
  <2>3. QED
    BY <1>2, <2>1, <2>2
<1>6. Cardinality(tasks') <= MaxRefreshes
  <2>1. Cardinality(tasks) \in Nat /\ Cardinality(tasks') \in Nat
    BY <1>5, FS_CardinalityType, Zenon DEF Inv, TaskInv
  <2>2. Cardinality(tasks) < MaxRefreshes /\ MaxRefreshes \in Nat
    BY RouteContextAssumption, Zenon DEF SlotFree
  <2>3. QED
    BY <1>5, <2>1, <2>2
<1>7. \A u \in tasks' : u.sequence <= sequence' /\ u.answer.decision # "rejected"
  <2>1. \A u \in tasks : u.sequence \in Nat /\ u.sequence <= sequence
    BY Zenon DEF Inv, TaskInv, Tasks
  <2>2. QED
    BY <1>1, <1>2, <1>3, <1>4, <2>1 DEF Inv, TaskInv
<1>8. QED
  BY <1>1, <1>2, <1>4, <1>5, <1>6, <1>7 DEF Inv, TaskInv

\* A lookup that ends gives its slot back.
LEMMA EndedKeeps ==
  ASSUME TaskInv, NEW t \in tasks, Ended(t), UNCHANGED <<sequence, waiting, now>>
  PROVE  TaskInv'
<1>1. tasks' \subseteq tasks
  BY Zenon DEF Ended
<1>2. IsFiniteSet(tasks') /\ Cardinality(tasks') <= Cardinality(tasks)
  BY <1>1, FS_Subset, Zenon DEF TaskInv
<1>3. Cardinality(tasks) \in Nat /\ Cardinality(tasks') \in Nat
  BY <1>2, FS_CardinalityType, Zenon DEF TaskInv
<1>4. Cardinality(tasks') <= MaxRefreshes
  BY <1>2, <1>3, RouteContextAssumption DEF TaskInv
<1>5. QED
  BY <1>1, <1>2, <1>4, Zenon DEF TaskInv

\* The calls of the client: Lookup, Metadata, and the wait that Metadata ends.
LEMMA CallsKeep ==
  ASSUME Inv, NEW c \in Creds,
         Metadata(c) \/ MetadataReturns(c) \/ \E m \in Models : Lookup(c, m)
  PROVE  Inv'
<1>1. <<c, NoModel>> \in Keys /\ \A m \in Models : <<c, m>> \in Keys
  BY Zenon DEF Keys
<1>2. Empty \in Verdicts
  BY Zenon DEF Empty, Verdicts, Never
<1>3. sequence \in Nat /\ CacheInv /\ TaskInv
  BY Zenon DEF Inv, CacheInv
<1>4. ASSUME NEW m \in Models, Lookup(c, m) PROVE Inv'
  <2>1. UNCHANGED <<cache, bytes, evictedSequence, newest, waiting, now>> /\ Touch(<<c, m>>)
    BY <1>4, Zenon DEF Lookup
  <2>2. Lists(lru', CachedKeys)
    BY <1>1, <1>3, <2>1, TouchKeeps, Zenon
  <2>3. CASE SlotFree
    <3>1. TaskInv' /\ sequence' \in Nat /\ sequence <= sequence'
      BY <1>2, <1>3, <1>4, <2>1, <2>3, StartKeeps, Zenon DEF Lookup, TaskInv
    <3>2. QED
      BY <1>3, <2>1, <2>2, <3>1, CacheFrame, Zenon DEF Inv
  <2>4. CASE ~SlotFree
    <3>1. UNCHANGED <<sequence, tasks>>
      BY <1>4, <2>4, Zenon DEF Lookup
    <3>2. CacheInv'
      BY <1>3, <2>1, <2>2, <3>1, CacheFrame
    <3>3. QED
      BY <1>3, <2>1, <3>1, <3>2, Zenon DEF Inv, TaskInv
  <2>5. QED
    BY <2>3, <2>4, Zenon
<1>5. CASE Metadata(c)
  <2> DEFINE k == <<c, NoModel>>
  <2>1. UNCHANGED <<cache, bytes, evictedSequence, newest, now>> /\ Touch(k)
    BY <1>5, Zenon DEF Metadata
  <2>2. Lists(lru', CachedKeys)
    BY <1>1, <1>3, <2>1, TouchKeeps, Zenon
  <2>3. waiting' \subseteq Creds
    BY <1>3, <1>5, Zenon DEF Metadata, TaskInv
  <2>4. CASE UNCHANGED <<sequence, tasks>>
    <3>1. CacheInv'
      BY <1>3, <2>1, <2>2, <2>4, CacheFrame
    <3>2. QED
      BY <1>3, <2>1, <2>3, <2>4, <3>1, ZenonT(30) DEF Inv, TaskInv
  <2>5. CASE SlotFree /\ Start(c, NoModel, Get(k))
    <3>1. Get(k) \in Verdicts
      BY <1>1, <1>3, GetTyped, Zenon
    <3>2. TaskInv' /\ sequence' \in Nat /\ sequence <= sequence'
      BY <2>1, <2>3, <2>5, <3>1, StartKeeps, Zenon
    <3>3. QED
      BY <1>3, <2>1, <2>2, <3>2, CacheFrame, Zenon DEF Inv
  <2>6. QED
    BY <1>5, <2>4, <2>5, Zenon DEF Metadata
<1>6. CASE MetadataReturns(c)
  <2>1. UNCHANGED <<cache, bytes, evictedSequence, newest, sequence, tasks, now>>
        /\ waiting' \subseteq waiting
    BY <1>6, Zenon DEF MetadataReturns
  <2>2. Lists(lru', CachedKeys)
    <3>1. CASE Touch(<<c, NoModel>>)
      BY <1>1, <1>3, <3>1, TouchKeeps, Zenon
    <3>2. CASE UNCHANGED lru
      BY <1>3, <3>2, Zenon DEF CacheInv
    <3>3. QED
      BY <1>6, <3>1, <3>2, Zenon DEF MetadataReturns
  <2>3. CacheInv'
    BY <1>3, <2>1, <2>2, CacheFrame
  <2>4. QED
    BY <1>3, <2>1, <2>3, Zenon DEF Inv, TaskInv
<1>7. QED
  BY <1>4, <1>5, <1>6, Zenon

\* The ends of the background lookups.
LEMMA FinishKeeps ==
  ASSUME Inv, NEW t \in tasks, Finish(t)
  PROVE  Inv'
<1>1. /\ CacheInv /\ TaskInv /\ t \in Tasks /\ now \in Nat /\ t.sequence <= sequence
      /\ t.answer.decision # "rejected"
  BY Zenon DEF Inv, TaskInv
<1>2. /\ t.sequence \in Nat /\ t.cred \in Creds /\ t.model \in Models \cup {NoModel}
      /\ t.answer \in Verdicts
  BY <1>1, Zenon DEF Tasks
<1>3. <<t.cred, t.model>> \in Keys /\ <<t.cred, NoModel>> \in Keys
  BY <1>2, Zenon DEF Keys
<1>4. UNCHANGED <<sequence, waiting, now>>
  BY Zenon DEF Finish, RefreshUnavailable, RefreshDenied, RefreshAnswered, RefreshMetadata,
     MetadataDenied, MetadataAnswered, MetadataUnavailable
<1>5. ASSUME NEW k \in Keys, NEW v, Sound(v), Put(k, v, t.sequence) PROVE CacheInv'
  BY <1>1, <1>2, <1>4, <1>5, PutKeeps, Zenon
<1>6. ASSUME UNCHANGED store PROVE CacheInv'
  BY <1>1, <1>4, <1>6, Zenon DEF store, CacheInv, CachedKeys, Cached
<1>7. CASE RefreshUnavailable(t)
  BY <1>1, <1>4, <1>6, <1>7, EndedKeeps, Zenon DEF RefreshUnavailable, Inv
<1>8. CASE RefreshDenied(t)
  <2>1. Sound([Empty EXCEPT !.err = TRUE, !.refreshedAt = now, !.asOf = t.sequence])
    BY <1>1, VerdictsSound, Zenon
  <2>2. CacheInv'
    BY <1>3, <1>5, <1>8, <2>1, Zenon DEF RefreshDenied
  <2>3. QED
    BY <1>1, <1>4, <1>8, <2>2, EndedKeeps, Zenon DEF RefreshDenied, Inv
<1>9. CASE RefreshAnswered(t)
  <2>1. PICK o \in Orgs \cup {NoOrg}, d \in {"allowed", "rejected"} :
          /\ Put(<<t.cred, t.model>>, Answer(t, o, d), t.sequence)
          /\ tasks' = (tasks \ {t}) \cup
                        {[t EXCEPT !.stage = "second", !.answer = Answer(t, o, "none")]}
    BY <1>9, ZenonT(30) DEF RefreshAnswered
  <2>2. Sound(Answer(t, o, d)) /\ Sound(Answer(t, o, "none")) /\ Answer(t, o, "none").decision = "none"
    BY <1>1, VerdictsSound, Zenon
  <2>3. CacheInv'
    BY <1>3, <1>5, <2>1, <2>2
  <2> DEFINE u == [t EXCEPT !.stage = "second", !.answer = Answer(t, o, "none")]
  <2>4. u \in Tasks /\ u.sequence = t.sequence /\ u.answer = Answer(t, o, "none")
    BY <1>1, <2>2, Zenon DEF Tasks, Sound
  <2>5. tasks' = (tasks \ {t}) \cup {u}
    BY <2>1, Zenon
  <2> HIDE DEF u
  <2>6. IsFiniteSet(tasks') /\ Cardinality(tasks') <= MaxRefreshes
    <3>1. IsFiniteSet(tasks) /\ Cardinality(tasks) \in Nat
      BY <1>1, FS_CardinalityType, Zenon DEF TaskInv
    <3>2. IsFiniteSet(tasks \ {t}) /\ Cardinality(tasks \ {t}) = Cardinality(tasks) - 1
      BY <3>1, FS_RemoveElement, Zenon
    <3>3. /\ IsFiniteSet((tasks \ {t}) \cup {u})
          /\ Cardinality((tasks \ {t}) \cup {u}) = Cardinality(tasks \ {t})
             \/ Cardinality((tasks \ {t}) \cup {u}) = Cardinality(tasks \ {t}) + 1
      BY <3>2, FS_AddElement, Zenon
    <3>4. QED
      BY <1>1, <2>5, <3>1, <3>2, <3>3, RouteContextAssumption DEF TaskInv
  <2>7. TaskInv'
    BY <1>1, <1>4, <2>2, <2>4, <2>5, <2>6, Zenon DEF TaskInv
  <2>8. QED
    BY <2>3, <2>7, Zenon DEF Inv
<1>10. CASE RefreshMetadata(t)
  <2>1. Sound(t.answer)
    BY <1>1, <1>2, Zenon DEF Sound
  <2>2. CacheInv'
    BY <1>3, <1>5, <1>10, <2>1, Zenon DEF RefreshMetadata
  <2>3. QED
    BY <1>1, <1>4, <1>10, <2>2, EndedKeeps, Zenon DEF RefreshMetadata, Inv
<1>11. CASE MetadataDenied(t)
  <2>1. Sound([Empty EXCEPT !.asOf = t.sequence])
    BY <1>1, VerdictsSound, Zenon
  <2>2. CacheInv'
    BY <1>3, <1>5, <1>11, <2>1, Zenon DEF MetadataDenied
  <2>3. QED
    BY <1>1, <1>4, <1>11, <2>2, EndedKeeps, Zenon DEF MetadataDenied, Inv
<1>12. CASE MetadataAnswered(t)
  <2>1. PICK o \in Orgs \cup {NoOrg} : Put(<<t.cred, NoModel>>, Answer(t, o, "none"), t.sequence)
    BY <1>12, Zenon DEF MetadataAnswered
  <2>2. Sound(Answer(t, o, "none"))
    BY <1>1, VerdictsSound, Zenon
  <2>3. CacheInv'
    BY <1>3, <1>5, <2>1, <2>2, Zenon
  <2>4. QED
    BY <1>1, <1>4, <1>12, <2>3, EndedKeeps, Zenon DEF MetadataAnswered, Inv
<1>13. CASE MetadataUnavailable(t)
  <2>1. Sound([t.previous EXCEPT !.refreshedAt = now, !.decision = "none"])
    BY <1>1, VerdictsSound, Zenon
  <2>2. CacheInv'
    BY <1>3, <1>5, <1>6, <1>13, <2>1, Zenon DEF MetadataUnavailable
  <2>3. QED
    BY <1>1, <1>4, <1>13, <2>2, EndedKeeps, Zenon DEF MetadataUnavailable, Inv
<1>14. QED
  BY <1>7, <1>8, <1>9, <1>10, <1>11, <1>12, <1>13 DEF Finish

\* The invariant holds of the empty cache, and every step keeps it.
LEMMA Invariance == Spec => []Inv
<1>1. Init => Inv
  <2> SUFFICES ASSUME Init PROVE Inv
    BY Zenon
  <2>1. CachedKeys = {}
    BY Zenon DEF Init, CachedKeys, Cached
  <2>2. Lists(lru, CachedKeys)
    BY <2>1 DEF Init, Lists
  <2>3. CacheInv
    <3>1. Held(cache, {}) = {}
      BY Zenon DEF Held
    <3>2. bytes = Cardinality(Held(cache, CachedKeys)) /\ bytes <= MaxBytes
      <4>1. bytes = 0 /\ Cardinality(Held(cache, CachedKeys)) = 0
        BY <2>1, <3>1, FS_EmptySet, Zenon DEF Init
      <4>2. QED
        BY <4>1, RouteContextAssumption
    <3>3. QED
      BY <2>2, <3>2 DEF Init, CacheInv, Cached
  <2>4. TaskInv
    <3>1. IsFiniteSet({}) /\ Cardinality({}) = 0
      BY FS_EmptySet, Zenon
    <3>2. QED
      BY <3>1, RouteContextAssumption DEF Init, TaskInv
  <2>5. QED
    BY <2>3, <2>4, Zenon DEF Inv
<1>2. Inv /\ [Next]_vars => Inv'
  <2> SUFFICES ASSUME Inv, [Next]_vars PROVE Inv'
    BY Zenon
  <2>1. CASE Tick
    <3>1. UNCHANGED <<cache, lru, bytes, evictedSequence, newest, sequence, waiting, tasks>> /\ now' = now + 1
      BY <2>1, Zenon DEF Tick, store
    <3>2. CachedKeys' = CachedKeys
      BY <3>1, Zenon DEF CachedKeys, Cached
    <3>3. QED
      BY <3>1, <3>2 DEF Inv, CacheInv, TaskInv, Cached
  <2>2. CASE UNCHANGED vars
    <3>1. UNCHANGED <<cache, lru, bytes, evictedSequence, newest, sequence, waiting, tasks, now>>
      BY <2>2, Zenon DEF vars, store
    <3>2. CachedKeys' = CachedKeys
      BY <3>1, Zenon DEF CachedKeys, Cached
    <3>3. QED
      BY <3>1, <3>2, Zenon DEF Inv, CacheInv, TaskInv, Cached
  <2>3. QED
    BY <2>1, <2>2, CallsKeep, FinishKeeps, Zenon DEF Next
<1>3. QED
  BY <1>1, <1>2, PTL DEF Spec

-----------------------------------------------------------------------------
(***************************************************************************)
(* A result never comes back from the dead: in whatever order the lookups  *)
(* end and whatever is evicted in between, a key holds the newest result   *)
(* it ever held, or none (routeContextCache.put, evictedSequence).         *)
(***************************************************************************)
THEOREM CacheNeverGoesBack == Spec => []NewestWins
<1>1. Inv => NewestWins
  BY Zenon DEF Inv, CacheInv, NewestWins
<1>2. QED
  BY <1>1, Invariance, PTL

(***************************************************************************)
(* A rejection is served no longer than the control plane asked, counted   *)
(* from the start of the lookup, however long the lookup took (fetch, get).*)
(***************************************************************************)
THEOREM RejectionsEndOnTime == Spec => []RejectionNotExtended
<1>1. Inv => RejectionNotExtended
  <2> SUFFICES ASSUME Inv, NEW k \in Keys, Get(k).decision = "rejected"
               PROVE  now < cache[k].verdict.asked + RetryAfter
    BY Zenon DEF RejectionNotExtended
  <2>1. Cached(k)
    BY Zenon DEF Get, Empty
  <2> DEFINE v == cache[k].verdict
  <2>2. v \in Verdicts /\ (v.decision = "rejected" => v.observedAt = v.asked)
    BY <2>1, Zenon DEF Inv, CacheInv, Sound
  <2> HIDE DEF v
  <2>3. [v EXCEPT !.decision = "none"].decision = "none"
    BY <2>2, Zenon DEF Verdicts
  <2>4. v.decision = "rejected" /\ ~(RetryAfter - (now - v.observedAt) <= 0)
    <3>1. Get(k) = IF v.decision = "rejected" /\ RetryAfter - (now - v.observedAt) <= 0
                   THEN [v EXCEPT !.decision = "none"] ELSE v
      BY <2>1, Zenon DEF Get, v
    <3>2. CASE v.decision = "rejected" /\ RetryAfter - (now - v.observedAt) <= 0
      BY <2>3, <3>1, <3>2, Zenon
    <3>3. CASE ~(v.decision = "rejected" /\ RetryAfter - (now - v.observedAt) <= 0)
      BY <3>1, <3>3, Zenon
    <3>4. QED
      BY <3>2, <3>3, Zenon
  <2>5. now \in Nat /\ RetryAfter \in Nat /\ v.asked \in Nat
    BY <2>2, RouteContextAssumption, Zenon DEF Inv, TaskInv, Verdicts
  <2>6. now < v.asked + RetryAfter
    BY <2>2, <2>4, <2>5
  <2>7. QED
    BY <2>6, Zenon DEF v
<1>2. QED
  BY <1>1, Invariance, PTL

(***************************************************************************)
(* The recency list and the map of entries agree at every moment, for      *)
(* every size of the cache: each cached key is in the list exactly once    *)
(* (get's MoveToFront, put's Remove, eviction and PushFront).              *)
(***************************************************************************)
THEOREM RecencyListIsExact == Spec => []RecencyExact
<1>1. Inv => RecencyExact
  <2> SUFFICES ASSUME Inv PROVE RecencyExact
    BY Zenon
  <2>1. Lists(lru, CachedKeys) /\ CachedKeys \in SUBSET Keys
    BY Zenon DEF Inv, CacheInv, CachedKeys
  <2>2. Range(lru) = CachedKeys /\ Len(lru) = Cardinality(CachedKeys)
    BY <2>1, ListLength, Zenon
  <2>3. QED
    BY <2>2, Zenon DEF RecencyExact, CachedKeys
<1>2. QED
  BY <1>1, Invariance, PTL

(***************************************************************************)
(* The background lookups never outnumber their slots, whatever the rate   *)
(* of requests (Lookup, Metadata).                                         *)
(***************************************************************************)
THEOREM LookupsAreBounded == Spec => []RefreshesBounded
<1>1. Inv => RefreshesBounded
  BY Zenon DEF Inv, TaskInv, RefreshesBounded
<1>2. QED
  BY <1>1, Invariance, PTL

(***************************************************************************)
(* The cache's books balance, for every size of the cache and of its       *)
(* entries: the bytes it counts are those of the entries it holds, never   *)
(* more than its limit, so the eviction loop always finds a victim before  *)
(* the list is empty; and the lookups keep to their slots                  *)
(* (routeContextCache.put).                                                *)
(***************************************************************************)
THEOREM CacheBooksBalance == Spec => []BooksBalance
<1>1. Inv => CacheBalanced /\ TypeOK
  <2> SUFFICES ASSUME Inv PROVE CacheBalanced /\ TypeOK
    BY Zenon
  <2>1. Lists(lru, CachedKeys) /\ CachedKeys \in SUBSET Keys
    BY Zenon DEF Inv, CacheInv, CachedKeys
  <2>2. Range(lru) = CachedKeys /\ Len(lru) = Cardinality(CachedKeys) /\ IsFiniteSet(CachedKeys)
    BY <2>1, ListLength, Zenon
  <2>3. bytes = BytesOf(CachedKeys)
    BY Zenon DEF Inv, CacheInv, BytesOf, Held
  <2>4. CacheBalanced
    BY <2>2, <2>3, Zenon DEF CacheBalanced, RecencyExact, CachedKeys
  <2>5. bytes \in 0 .. MaxBytes
    <3>1. bytes \in Nat
      BY <2>2, HeldFinite, Zenon DEF Inv, CacheInv
    <3>2. bytes <= MaxBytes
      BY Zenon DEF Inv, CacheInv
    <3>3. QED
      BY <3>1, <3>2, RouteContextAssumption
  <2>6. TypeOK
    BY <2>1, <2>5, Zenon DEF TypeOK, Inv, CacheInv, TaskInv, Lists
  <2>7. QED
    BY <2>4, <2>6, Zenon
<1>2. QED
  BY <1>1, Invariance, LookupsAreBounded, PTL DEF BooksBalance
=============================================================================
