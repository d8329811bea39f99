--------------------------- MODULE LruInclusionProofs ---------------------------
(***************************************************************************)
(* The list and the map of a cache agree, a larger cache includes a        *)
(* smaller one, and a cache holds what was used last, for any set of       *)
(* addresses and any sizes.                                                *)
(***************************************************************************)
EXTENDS LruInclusion, SequenceProofs

(* The map of a well-formed cache has as many keys as the list has nodes.  *)
LEMMA CountIsLength ==
    ASSUME NEW cache, NEW size \in Nat, WellFormed(cache, size)
    PROVE  Cardinality(cache.cachedLines) = Len(cache.lruList)
<1>. DEFINE s == cache.lruList
            n == Len(s)
<1>1. s \in Seq(Lines) /\ n \in Nat /\ DOMAIN s = 1 .. n
  BY DEF WellFormed
<1>2. s \in [1 .. n -> cache.cachedLines]
  BY <1>1 DEF WellFormed
<1>3. s \in Surjection(1 .. n, cache.cachedLines)
  BY <1>1, <1>2 DEF WellFormed, Surjection
<1>4. s \in Injection(1 .. n, cache.cachedLines)
  BY <1>1, <1>2 DEF WellFormed, Injection, IsInjective
<1>5. IsFiniteSet(1 .. n) /\ Cardinality(1 .. n) = n
  BY <1>1, FS_Interval
<1>. HIDE DEF s, n
<1>6. Cardinality(cache.cachedLines) = n
  BY <1>3, <1>4, <1>5, FS_Surjection
<1>. QED  BY <1>6 DEF s, n

(* A hit on the k-th address: those before it move back by one.            *)
LEMMA AfterHit ==
    ASSUME NEW cache, NEW size \in Nat, WellFormed(cache, size),
           NEW a \in Lines, Hit(cache, a)
    PROVE  LET s == cache.lruList
               t == CacheAfter(cache, a, size).lruList
           IN  /\ CacheAfter(cache, a, size) =
                      [lruList |-> t, cachedLines |-> cache.cachedLines]
               /\ t \in Seq(Lines) /\ Len(t) = Len(s)
               /\ \E k \in 1 .. Len(s) :
                     /\ s[k] = a /\ t[1] = a
                     /\ \A j \in 2 .. Len(s) :
                           t[j] = IF j <= k THEN s[j - 1] ELSE s[j]
<1>. DEFINE s == cache.lruList
            n == Len(s)
            k == Place(s, a)
            t == <<a>> \o RemoveAt(s, k)
<1>1. s \in Seq(Lines) /\ n \in Nat /\ DOMAIN s = 1 .. n
  BY DEF WellFormed
<1>2. k \in 1 .. n /\ s[k] = a
  BY <1>1 DEF WellFormed, Hit, Place
<1>3. CacheAfter(cache, a, size) =
          [lruList |-> t, cachedLines |-> cache.cachedLines]
  BY DEF CacheAfter, Touch, WellFormed
<1>. HIDE DEF k
<1>4. /\ RemoveAt(s, k) \in Seq(Lines) /\ Len(RemoveAt(s, k)) = n - 1
      /\ \A j \in 1 .. n - 1 :
            RemoveAt(s, k)[j] = IF j < k THEN s[j] ELSE s[j + 1]
  BY <1>1, <1>2, RemoveAtSeq
<1>5. /\ t \in Seq(Lines) /\ Len(t) = (n - 1) + 1 /\ t[1] = a
      /\ \A j \in 2 .. (n - 1) + 1 : t[j] = RemoveAt(s, k)[j - 1]
  BY <1>4, AtFront
<1>6. ASSUME NEW j \in 2 .. n
      PROVE  t[j] = IF j <= k THEN s[j - 1] ELSE s[j]
  <2>1. /\ j - 1 \in 1 .. n - 1 /\ (j - 1) + 1 = j
        /\ (j - 1 < k <=> j <= k) /\ j \in 2 .. (n - 1) + 1
    BY <1>1, <1>2
  <2>2. t[j] = RemoveAt(s, k)[j - 1]
    BY <2>1, <1>5
  <2>. QED  BY <2>1, <2>2, <1>4
<1>7. Len(t) = n
  BY <1>1, <1>5
<1>. HIDE DEF t
<1>. QED  BY <1>2, <1>3, <1>5, <1>6, <1>7

(* A miss: all move back by one, and the last leaves a full cache.         *)
LEMMA AfterMiss ==
    ASSUME NEW cache, NEW size \in Nat \ {0}, WellFormed(cache, size),
           NEW a \in Lines, ~Hit(cache, a)
    PROVE  LET s == cache.lruList
               t == CacheAfter(cache, a, size).lruList
           IN  /\ CacheAfter(cache, a, size) =
                      [lruList |-> t,
                       cachedLines |-> {t[j] : j \in DOMAIN t}]
               /\ t \in Seq(Lines) /\ t[1] = a
               /\ Len(t) = IF Len(s) = size THEN size ELSE Len(s) + 1
               /\ \A j \in 2 .. Len(t) : t[j] = s[j - 1]
<1>. DEFINE s == cache.lruList
            n == Len(s)
            m == IF n = size THEN n - 1 ELSE n
            room == SubSeq(s, 1, m)
            t == <<a>> \o room
<1>1. /\ s \in Seq(Lines) /\ n \in Nat /\ DOMAIN s = 1 .. n
      /\ n <= size /\ m \in 0 .. n
  BY DEF WellFormed
<1>2. Full(cache, size) <=> n = size
  BY <1>1, CountIsLength DEF Full
<1>. DEFINE lines == IF n = size THEN cache.cachedLines \ {s[n]}
                     ELSE cache.cachedLines
<1>3. CacheAfter(cache, a, size) =
          [lruList |-> t, cachedLines |-> lines \cup {a}]
  <2>1. CASE n = size
    BY <1>2, <2>1 DEF CacheAfter, Insert, Evict
  <2>2. CASE n # size
    <3>1. room = s
      BY <1>1, <2>2, SubSeqFull
    <3>. QED  BY <1>2, <2>2, <3>1 DEF CacheAfter, Insert
  <2>. QED  BY <2>1, <2>2
<1>4. /\ room \in Seq(Lines) /\ Len(room) = m
      /\ \A j \in 1 .. m : room[j] = s[j]
  BY <1>1, FrontOf
<1>5. lines = {s[j] : j \in 1 .. m}
  BY <1>1 DEF WellFormed
<1>. HIDE DEF room, lines, m
<1>6. /\ t \in Seq(Lines) /\ Len(t) = m + 1 /\ t[1] = a
      /\ \A j \in 2 .. m + 1 : t[j] = room[j - 1]
  BY <1>4, AtFront
<1>7. \A j \in 2 .. m + 1 : t[j] = s[j - 1]
  BY <1>1, <1>4, <1>6
<1>8. DOMAIN t = 1 .. m + 1
  BY <1>6, LenProperties
<1>. HIDE DEF t
<1>9. lines \cup {a} = {t[j] : j \in DOMAIN t}
  <2>1. ASSUME NEW j \in 1 .. m + 1 PROVE t[j] \in lines \cup {a}
    <3>1. CASE j = 1
      BY <1>6, <3>1
    <3>2. CASE j # 1
      <4>1. j - 1 \in 1 .. m /\ j \in 2 .. m + 1
        BY <1>1, <3>2
      <4>. QED  BY <4>1, <1>5, <1>7
    <3>. QED  BY <3>1, <3>2
  <2>2. ASSUME NEW j \in 1 .. m PROVE s[j] \in {t[i] : i \in 1 .. m + 1}
    <3>1. j + 1 \in 2 .. m + 1 /\ j + 1 \in 1 .. m + 1 /\ (j + 1) - 1 = j
      BY <1>1
    <3>2. t[j + 1] = s[j]
      BY <3>1, <1>7
    <3>. QED  BY <3>1, <3>2
  <2>3. a \in {t[i] : i \in 1 .. m + 1}
    BY <1>1, <1>6
  <2>. QED  BY <1>5, <1>8, <2>1, <2>2, <2>3
<1>10. m + 1 = IF n = size THEN size ELSE n + 1
  BY <1>1 DEF m
<1>11. CacheAfter(cache, a, size) =
           [lruList |-> t, cachedLines |-> {t[j] : j \in DOMAIN t}]
  BY <1>3, <1>9 DEF t
<1>12. CacheAfter(cache, a, size).lruList = t
  BY <1>11
<1>. QED  BY <1>6, <1>7, <1>10, <1>11, <1>12
-----------------------------------------------------------------------------
(* A list without repetitions, with a map of its addresses, is a cache.     *)
LEMMA SeenWellFormed ==
    ASSUME NEW t \in Seq(Lines), NEW size \in Nat, Len(t) <= size,
           \A i, j \in 1 .. Len(t) : t[i] = t[j] => i = j
    PROVE  WellFormed([lruList |-> t,
                       cachedLines |-> {t[j] : j \in 1 .. Len(t)}], size)
<1>1. DOMAIN t = 1 .. Len(t)
  BY LenProperties
<1>2. {t[j] : j \in 1 .. Len(t)} \in SUBSET Lines
  BY ElementOfSeq
<1>. QED  BY <1>1, <1>2 DEF WellFormed

(* One access keeps the list and the map of a cache in agreement.          *)
LEMMA StaysWellFormed ==
    ASSUME NEW cache, NEW size \in Nat \ {0}, WellFormed(cache, size),
           NEW a \in Lines
    PROVE  WellFormed(CacheAfter(cache, a, size), size)
<1>. DEFINE s == cache.lruList
            n == Len(s)
            after == CacheAfter(cache, a, size)
            t == after.lruList
<1>1. /\ s \in Seq(Lines) /\ n \in Nat /\ DOMAIN s = 1 .. n /\ n <= size
      /\ \A i, j \in 1 .. n : s[i] = s[j] => i = j
      /\ cache.cachedLines = {s[j] : j \in 1 .. n}
  BY DEF WellFormed
<1>2. CASE Hit(cache, a)
  <2>1. /\ after = [lruList |-> t, cachedLines |-> cache.cachedLines]
        /\ t \in Seq(Lines) /\ Len(t) = n
    BY <1>2, AfterHit
  <2>2. PICK k \in 1 .. n :
           /\ s[k] = a /\ t[1] = a
           /\ \A j \in 2 .. n : t[j] = IF j <= k THEN s[j - 1] ELSE s[j]
    BY <1>2, AfterHit
  <2>3. DOMAIN t = 1 .. n
    BY <2>1, LenProperties
  <2>. HIDE DEF t, s, n
  <2>. DEFINE old(j) == IF j = 1 THEN k ELSE IF j <= k THEN j - 1 ELSE j
              new(j) == IF j = k THEN 1 ELSE IF j < k THEN j + 1 ELSE j
  <2>4. \A j \in 1 .. n : old(j) \in 1 .. n /\ t[j] = s[old(j)]
    BY <1>1, <2>2
  <2>5. \A i, j \in 1 .. n : old(i) = old(j) => i = j
    BY <1>1
  <2>6. \A j \in 1 .. n : new(j) \in 1 .. n /\ old(new(j)) = j
    BY <1>1
  <2>7. \A i, j \in 1 .. n : t[i] = t[j] => i = j
    BY <1>1, <2>4, <2>5
  <2>8. {t[j] : j \in 1 .. n} = {s[j] : j \in 1 .. n}
    BY <2>4, <2>6
  <2>10. after = [lruList |-> t, cachedLines |-> {t[j] : j \in 1 .. Len(t)}]
    BY <1>1, <2>1, <2>8
  <2>11. Len(t) <= size
    BY <1>1, <2>1
  <2>. QED  BY <2>1, <2>7, <2>10, <2>11, SeenWellFormed
<1>3. CASE ~Hit(cache, a)
  <2>1. /\ after = [lruList |-> t, cachedLines |-> {t[j] : j \in DOMAIN t}]
        /\ t \in Seq(Lines) /\ t[1] = a
        /\ Len(t) = IF n = size THEN size ELSE n + 1
        /\ \A j \in 2 .. Len(t) : t[j] = s[j - 1]
    BY <1>3, AfterMiss
  <2>2. DOMAIN t = 1 .. Len(t)
    BY <2>1, LenProperties
  <2>3. \A j \in 1 .. n : s[j] # a
    BY <1>1, <1>3 DEF Hit
  <2>. HIDE DEF t, s, n
  <2>4. Len(t) \in Nat /\ Len(t) <= size /\ Len(t) - 1 <= n
    BY <1>1, <2>1
  <2>5. ASSUME NEW i \in 1 .. Len(t), NEW j \in 1 .. Len(t), t[i] = t[j]
        PROVE  i = j
    <3>1. ASSUME NEW x \in 2 .. Len(t)
          PROVE  x - 1 \in 1 .. n /\ t[x] = s[x - 1] /\ t[x] # a
      BY <1>1, <2>1, <2>3, <2>4
    <3>2. CASE i = 1 \/ j = 1
      BY <2>1, <2>4, <2>5, <3>1, <3>2
    <3>3. CASE i # 1 /\ j # 1
      <4>1. i \in 2 .. Len(t) /\ j \in 2 .. Len(t)
        BY <2>4, <3>3
      <4>2. i - 1 = j - 1
        BY <1>1, <2>5, <3>1, <4>1
      <4>. QED  BY <4>1, <4>2
    <3>. QED  BY <3>2, <3>3
  <2>. QED  BY <2>1, <2>2, <2>4, <2>5, SeenWellFormed
<1>. QED  BY <1>2, <1>3

(* One access of both caches keeps the smaller one the front of the other. *)
LEMMA StaysIncluded ==
    ASSUME ListAndMapAgree, Inclusion, NEW a \in Lines, Ask(a)
    PROVE  Inclusion'
<1>. DEFINE s == small.lruList
            l == large.lruList
            n == Len(l)
            m == Len(s)
            s2 == small'.lruList
            l2 == large'.lruList
            m2 == IF Len(l2) < SmallSize THEN Len(l2) ELSE SmallSize
<1>1. /\ SmallSize \in Nat \ {0} /\ LargeSize \in Nat \ {0}
      /\ SmallSize <= LargeSize
  BY SizesAssumption
<1>2. WellFormed(small, SmallSize) /\ WellFormed(large, LargeSize)
  BY DEF ListAndMapAgree
<1>3. /\ s \in Seq(Lines) /\ l \in Seq(Lines) /\ n \in Nat
      /\ DOMAIN s = 1 .. m /\ DOMAIN l = 1 .. n
      /\ n <= LargeSize
      /\ \A i, j \in 1 .. n : l[i] = l[j] => i = j
      /\ small.cachedLines = {s[j] : j \in 1 .. m}
      /\ large.cachedLines = {l[j] : j \in 1 .. n}
  BY <1>2 DEF WellFormed
<1>4. /\ m = IF n < SmallSize THEN n ELSE SmallSize
      /\ \A j \in 1 .. m : s[j] = l[j]
  <2>. DEFINE q == IF n < SmallSize THEN n ELSE SmallSize
  <2>1. q \in 0 .. n
    BY <1>1, <1>3
  <2>2. s = SubSeq(l, 1, q)
    BY DEF Inclusion
  <2>. HIDE DEF q, s, l
  <2>3. Len(s) = q /\ \A j \in 1 .. q : s[j] = l[j]
    BY <1>3, <2>1, <2>2, FrontOf
  <2>. QED  BY <2>3 DEF q
<1>5. small' = CacheAfter(small, a, SmallSize)
      /\ large' = CacheAfter(large, a, LargeSize)
  BY DEF Ask
<1>6. s2 \in Seq(Lines) /\ l2 \in Seq(Lines)
  BY <1>1, <1>2, <1>5, StaysWellFormed DEF WellFormed
<1>7. SUFFICES /\ Len(s2) = m2
               /\ \A j \in 1 .. m2 : s2[j] = l2[j]
  <2>1. m2 \in 0 .. Len(l2)
    BY <1>1, <1>6, LenProperties
  <2>. HIDE DEF s2, l2, m2
  <2>2. /\ SubSeq(l2, 1, m2) \in Seq(Lines) /\ Len(SubSeq(l2, 1, m2)) = m2
        /\ \A j \in 1 .. m2 : SubSeq(l2, 1, m2)[j] = l2[j]
    BY <1>6, <2>1, FrontOf
  <2>3. s2 = SubSeq(l2, 1, m2)
    BY <1>6, <1>7, <2>2, SeqEqual
  <2>. QED  BY <2>3 DEF Inclusion, s2, l2, m2
<1>8. CASE Hit(large, a)
  <2>1. Len(l2) = n
    BY <1>1, <1>2, <1>5, <1>8, AfterHit
  <2>2. PICK k \in 1 .. n :
           /\ l[k] = a /\ l2[1] = a
           /\ \A j \in 2 .. n : l2[j] = IF j <= k THEN l[j - 1] ELSE l[j]
    BY <1>1, <1>2, <1>5, <1>8, AfterHit
  <2>3. m2 = m
    BY <1>4, <2>1
  <2>4. CASE k <= m
    <3>1. Hit(small, a)
      BY <1>1, <1>3, <1>4, <2>2, <2>4 DEF Hit
    <3>2. Len(s2) = m
      BY <1>1, <1>2, <1>5, <3>1, AfterHit
    <3>3. PICK i \in 1 .. m :
             /\ s[i] = a /\ s2[1] = a
             /\ \A j \in 2 .. m : s2[j] = IF j <= i THEN s[j - 1] ELSE s[j]
      BY <1>1, <1>2, <1>5, <3>1, AfterHit
    <3>. HIDE DEF s, l, n, m, s2, l2, m2
    <3>4. i = k
      BY <1>1, <1>3, <1>4, <2>2, <3>3
    <3>5. ASSUME NEW j \in 1 .. m PROVE s2[j] = l2[j]
      BY <1>1, <1>3, <1>4, <2>2, <3>3, <3>4
    <3>. QED  BY <2>3, <3>2, <3>5
  <2>5. CASE ~(k <= m)
    <3>1. m = SmallSize
      BY <1>1, <1>3, <1>4, <2>2, <2>5
    <3>2. ~Hit(small, a)
      BY <1>1, <1>3, <1>4, <2>2, <2>5 DEF Hit
    <3>3. /\ Len(s2) = SmallSize /\ s2[1] = a
          /\ \A j \in 2 .. SmallSize : s2[j] = s[j - 1]
      BY <1>1, <1>2, <1>5, <3>1, <3>2, AfterMiss
    <3>. HIDE DEF s, l, n, m, s2, l2, m2
    <3>4. ASSUME NEW j \in 1 .. m PROVE s2[j] = l2[j]
      <4>1. m \in Nat /\ n \in Nat /\ m <= n /\ k \in 1 .. n /\ ~(k <= m)
        BY <1>3, <1>4, <2>5
      <4>2. CASE j = 1
        BY <2>2, <3>3, <4>2
      <4>3. CASE j # 1
        <5>1. /\ j \in 2 .. m /\ j \in 2 .. n /\ j <= k
              /\ j - 1 \in 1 .. m
          BY <4>1, <4>3
        <5>2. l2[j] = l[j - 1] /\ s2[j] = s[j - 1]
          BY <2>2, <3>1, <3>3, <5>1
        <5>. QED  BY <1>4, <5>1, <5>2
      <4>. QED  BY <4>2, <4>3
    <3>. QED  BY <2>3, <3>1, <3>3, <3>4
  <2>. QED  BY <2>4, <2>5
<1>9. CASE ~Hit(large, a)
  <2>1. ~Hit(small, a)
    BY <1>1, <1>3, <1>4, <1>9 DEF Hit
  <2>2. /\ Len(s2) = IF m = SmallSize THEN SmallSize ELSE m + 1
        /\ s2[1] = a /\ \A j \in 2 .. Len(s2) : s2[j] = s[j - 1]
    BY <1>1, <1>2, <1>5, <2>1, AfterMiss
  <2>3. /\ Len(l2) = IF n = LargeSize THEN LargeSize ELSE n + 1
        /\ l2[1] = a /\ \A j \in 2 .. Len(l2) : l2[j] = l[j - 1]
    BY <1>1, <1>2, <1>5, <1>9, AfterMiss
  <2>. HIDE DEF s, l, n, m, s2, l2
  <2>4. Len(s2) = m2
    BY <1>1, <1>3, <1>4, <2>2, <2>3
  <2>5. m2 \in Nat /\ m2 <= Len(l2) /\ m2 - 1 <= m
    BY <1>1, <1>3, <1>4, <2>2, <2>3
  <2>6. ASSUME NEW j \in 1 .. m2 PROVE s2[j] = l2[j]
    <3>1. CASE j = 1
      BY <2>2, <2>3, <3>1
    <3>2. CASE j # 1
      <4>. HIDE DEF m2
      <4>1. j \in 2 .. Len(s2) /\ j \in 2 .. Len(l2) /\ j - 1 \in 1 .. m
        BY <1>1, <1>3, <1>4, <2>3, <2>4, <2>5, <3>2
      <4>. QED  BY <1>4, <2>2, <2>3, <4>1
    <3>. QED  BY <3>1, <3>2
  <2>. QED  BY <2>4, <2>6
<1>. QED  BY <1>8, <1>9

-----------------------------------------------------------------------------
(* What the list and the map agree on, and the inclusion, need each other. *)
LEMMA CachesInvariance == Spec => [](ListAndMapAgree /\ Inclusion)
<1>1. Init => ListAndMapAgree /\ Inclusion
  <2>. SUFFICES ASSUME Init PROVE ListAndMapAgree /\ Inclusion
    OBVIOUS
  <2>1. ListAndMapAgree
    BY SizesAssumption DEF Init, EmptyCache, ListAndMapAgree, WellFormed
  <2>2. <<>> \in Seq(Lines) /\ Len(<<>>) = 0 /\ 0 < SmallSize
    BY SizesAssumption
  <2>3. SubSeq(<<>>, 1, 0) = <<>>
    BY SubSeqEmpty
  <2>. QED  BY <2>1, <2>2, <2>3 DEF Init, EmptyCache, Inclusion
<1>2. /\ ListAndMapAgree /\ Inclusion
      /\ [Next]_caches
      => (ListAndMapAgree /\ Inclusion)'
  <2>. SUFFICES ASSUME ListAndMapAgree, Inclusion, [Next]_caches
                PROVE  (ListAndMapAgree /\ Inclusion)'
    OBVIOUS
  <2>1. ASSUME NEW a \in Lines, Ask(a)
        PROVE  (ListAndMapAgree /\ Inclusion)'
    <3>1. SmallSize \in Nat \ {0} /\ LargeSize \in Nat \ {0}
      BY SizesAssumption
    <3>2. ListAndMapAgree'
      BY <2>1, <3>1, StaysWellFormed DEF ListAndMapAgree, Ask
    <3>3. Inclusion'
      BY <2>1, StaysIncluded
    <3>. QED  BY <3>2, <3>3
  <2>2. CASE UNCHANGED caches
    <3>1. small' = small /\ large' = large
      BY <2>2 DEF caches
    <3>2. ListAndMapAgree'
      BY <3>1 DEF ListAndMapAgree
    <3>3. Inclusion'
      BY <3>1 DEF Inclusion
    <3>. QED  BY <3>2, <3>3
  <2>. QED  BY <2>1, <2>2 DEF Next
<1>. QED  BY <1>1, <1>2, PTL DEF Spec

(* Cache.cpp, lookup() and insert(): the list and the map agree for ever,  *)
(* so no iterator the map holds is invalid and no eviction finds an empty  *)
(* list.                                                                   *)
THEOREM ListsAgreeWithMaps == Spec => []ListAndMapAgree
BY CachesInvariance, PTL

(* A larger cache hits wherever a smaller one does, whatever the order in  *)
(* which they are asked.                                                   *)
THEOREM LargerIncludesSmaller == Spec => []Inclusion
BY CachesInvariance, PTL
-----------------------------------------------------------------------------
(* THE LEAST RECENTLY USED                                                 *)

(* The list is in the order of the last uses, last[a] being the time at    *)
(* which a was last used; what is not cached was used before what is; and  *)
(* nothing is left out while there is room.                                *)
InOrder(cache, size, last) ==
    LET s == cache.lruList
    IN  /\ WellFormed(cache, size)
        /\ cache.cachedLines \subseteq DOMAIN last
        /\ \A i, j \in 1 .. Len(s) : i < j => last[s[j]] < last[s[i]]
        /\ \A b \in DOMAIN last \ cache.cachedLines : \A j \in 1 .. Len(s) :
              last[b] < last[s[j]]
        /\ Len(s) < size => cache.cachedLines = DOMAIN last

(* An access, later than all those before it, keeps a cache in order.      *)
LEMMA StaysInOrder ==
    ASSUME NEW cache, NEW size \in Nat \ {0}, NEW a \in Lines,
           NEW D \in SUBSET Lines, NEW n0 \in Nat, NEW last \in [D -> 1 .. n0],
           InOrder(cache, size, last)
    PROVE  InOrder(CacheAfter(cache, a, size), size,
                   [b \in D \cup {a} |-> IF b = a THEN n0 + 1 ELSE last[b]])
<1>. DEFINE s == cache.lruList
            n == Len(s)
            after == CacheAfter(cache, a, size)
            t == after.lruList
            later == [b \in D \cup {a} |-> IF b = a THEN n0 + 1 ELSE last[b]]
<1>1. /\ WellFormed(cache, size) /\ cache.cachedLines \subseteq D
      /\ \A i, j \in 1 .. n : i < j => last[s[j]] < last[s[i]]
      /\ \A b \in D \ cache.cachedLines : \A j \in 1 .. n : last[b] < last[s[j]]
      /\ n < size => cache.cachedLines = D
  BY DEF InOrder
<1>2. /\ s \in Seq(Lines) /\ n \in Nat /\ DOMAIN s = 1 .. n /\ n <= size
      /\ \A i, j \in 1 .. n : s[i] = s[j] => i = j
      /\ cache.cachedLines = {s[j] : j \in 1 .. n}
  BY <1>1 DEF WellFormed
<1>3. WellFormed(after, size)
  BY <1>1, StaysWellFormed
<1>4. /\ DOMAIN later = D \cup {a} /\ later[a] = n0 + 1
      /\ \A b \in D : b # a => later[b] = last[b] /\ later[b] < n0 + 1
      /\ \A b \in D : last[b] \in Nat
  OBVIOUS
<1>5. \A j \in 1 .. n : s[j] \in D
  BY <1>1, <1>2
<1>6. CASE Hit(cache, a)
  <2>1. /\ after.cachedLines = cache.cachedLines
        /\ t \in Seq(Lines) /\ Len(t) = n
    BY <1>1, <1>6, AfterHit
  <2>2. PICK k \in 1 .. n :
           /\ s[k] = a /\ t[1] = a
           /\ \A j \in 2 .. n : t[j] = IF j <= k THEN s[j - 1] ELSE s[j]
    BY <1>1, <1>6, AfterHit
  <2>. HIDE DEF t, s, n, later, after
  <2>. DEFINE old(j) == IF j <= k THEN j - 1 ELSE j
  <2>3. ASSUME NEW j \in 2 .. n
        PROVE  /\ old(j) \in 1 .. n /\ t[j] = s[old(j)] /\ t[j] \in D
               /\ t[j] # a /\ later[t[j]] = last[s[old(j)]]
               /\ later[t[j]] < n0 + 1
    <3>1. old(j) \in 1 .. n /\ old(j) # k /\ t[j] = s[old(j)]
      BY <1>2, <2>2
    <3>2. t[j] # a /\ t[j] \in D
      BY <1>2, <1>5, <2>2, <3>1
    <3>. QED  BY <3>1, <3>2, <1>4
  <2>4. ASSUME NEW i \in 1 .. n, NEW j \in 1 .. n, i < j
        PROVE  later[t[j]] < later[t[i]]
    <3>1. j \in 2 .. n
      BY <2>4, <1>2
    <3>2. CASE i = 1
      BY <3>1, <3>2, <2>2, <2>3, <1>4
    <3>3. CASE i # 1
      <4>1. i \in 2 .. n /\ old(i) < old(j)
        BY <3>1, <3>3, <2>4, <1>2
      <4>2. last[s[old(j)]] < last[s[old(i)]]
        BY <4>1, <3>1, <2>3, <1>1
      <4>. QED  BY <4>1, <4>2, <3>1, <2>3
    <3>. QED  BY <3>2, <3>3
  <2>5. ASSUME NEW b \in DOMAIN later \ after.cachedLines, NEW j \in 1 .. n
        PROVE  later[b] < later[t[j]]
    <3>1. b \in D \ cache.cachedLines /\ b # a
      BY <2>1, <1>4, <1>6 DEF Hit
    <3>2. later[b] = last[b] /\ later[b] < n0 + 1
      BY <3>1, <1>4
    <3>3. CASE j = 1
      BY <3>2, <3>3, <2>2, <1>4
    <3>4. CASE j # 1
      <4>1. j \in 2 .. n
        BY <3>4, <1>2
      <4>2. old(j) \in 1 .. n /\ later[t[j]] = last[s[old(j)]]
        BY <4>1, <2>3
      <4>. QED  BY <4>2, <3>1, <3>2, <1>1
    <3>. QED  BY <3>3, <3>4
  <2>6. a \in cache.cachedLines
    BY <1>6 DEF Hit
  <2>7. after.cachedLines \subseteq DOMAIN later
    BY <2>1, <1>1, <1>4
  <2>8. n < size => after.cachedLines = DOMAIN later
    BY <2>1, <2>6, <1>1, <1>4
  <2>9. Len(after.lruList) = n /\ after.lruList = t
    BY <2>1 DEF t
  <2>10. InOrder(after, size, later)
    BY <1>3, <2>4, <2>5, <2>7, <2>8, <2>9 DEF InOrder
  <2>. QED  BY <2>10 DEF after, later
<1>7. CASE ~Hit(cache, a)
  <2>1. /\ after.cachedLines = {t[j] : j \in DOMAIN t}
        /\ t \in Seq(Lines) /\ t[1] = a
        /\ Len(t) = IF n = size THEN size ELSE n + 1
        /\ \A j \in 2 .. Len(t) : t[j] = s[j - 1]
    BY <1>1, <1>7, AfterMiss
  <2>2. DOMAIN t = 1 .. Len(t)
    BY <2>1, LenProperties
  <2>3. \A j \in 1 .. n : s[j] # a
    BY <1>2, <1>7 DEF Hit
  <2>. HIDE DEF t, s, n, later, after
  <2>4. Len(t) \in Nat /\ Len(t) <= size /\ Len(t) - 1 <= n /\ Len(t) >= 1
    BY <1>2, <2>1
  <2>5. ASSUME NEW j \in 2 .. Len(t)
        PROVE  /\ j - 1 \in 1 .. n /\ t[j] = s[j - 1] /\ t[j] \in D
               /\ later[t[j]] = last[s[j - 1]] /\ later[t[j]] < n0 + 1
    <3>1. j - 1 \in 1 .. n
      BY <2>4, <1>2
    <3>2. t[j] = s[j - 1]
      BY <2>1
    <3>3. t[j] # a /\ t[j] \in D
      BY <1>5, <2>3, <3>1, <3>2
    <3>. QED  BY <3>1, <3>2, <3>3, <1>4
  <2>6. ASSUME NEW i \in 1 .. Len(t), NEW j \in 1 .. Len(t), i < j
        PROVE  later[t[j]] < later[t[i]]
    <3>1. j \in 2 .. Len(t)
      BY <2>4, <2>6
    <3>2. CASE i = 1
      BY <3>1, <3>2, <2>1, <2>5, <1>4
    <3>3. CASE i # 1
      <4>1. i \in 2 .. Len(t) /\ i - 1 < j - 1
        BY <3>1, <3>3, <2>4, <2>6
      <4>2. last[s[j - 1]] < last[s[i - 1]]
        BY <4>1, <3>1, <2>5, <1>1
      <4>. QED  BY <4>1, <4>2, <3>1, <2>5
    <3>. QED  BY <3>2, <3>3
  <2>7. ASSUME NEW b \in DOMAIN later \ after.cachedLines, NEW j \in 1 .. Len(t)
        PROVE  later[b] < later[t[j]]
    <3>1. b # a /\ b \in D
      <4>1. a \in after.cachedLines
        BY <2>1, <2>2, <2>4
      <4>. QED  BY <4>1, <1>4
    <3>2. later[b] = last[b] /\ later[b] < n0 + 1
      BY <3>1, <1>4
    <3>3. CASE j = 1
      BY <3>2, <3>3, <2>1, <1>4
    <3>4. CASE j # 1
      <4>1. j \in 2 .. Len(t)
        BY <3>4, <2>4
      <4>2. j - 1 \in 1 .. n /\ later[t[j]] = last[s[j - 1]]
        BY <4>1, <2>5
      <4>3. CASE b \notin cache.cachedLines
        BY <4>2, <4>3, <3>1, <3>2, <1>1
      <4>4. CASE b \in cache.cachedLines
        <5>1. PICK i \in 1 .. n : b = s[i]
          BY <4>4, <1>2
        <5>2. i + 1 \notin 2 .. Len(t)
          <6>. SUFFICES ASSUME i + 1 \in 2 .. Len(t) PROVE FALSE
            OBVIOUS
          <6>1. (i + 1) - 1 = i /\ i + 1 \in DOMAIN t
            BY <2>2, <2>4
          <6>2. t[i + 1] = b
            BY <6>1, <5>1, <2>5
          <6>. QED  BY <6>1, <6>2, <2>1
        <5>3. j - 1 < i
          BY <5>1, <5>2, <4>1, <2>4
        <5>4. last[s[i]] < last[s[j - 1]]
          BY <5>3, <4>2, <1>1
        <5>. QED  BY <5>1, <5>4, <4>2, <3>2
      <4>. QED  BY <4>3, <4>4
    <3>. QED  BY <3>3, <3>4
  <2>8. after.cachedLines \subseteq DOMAIN later
    <3>1. ASSUME NEW j \in 1 .. Len(t) PROVE t[j] \in D \cup {a}
      <4>1. j = 1 \/ j \in 2 .. Len(t)
        BY <2>4
      <4>. QED  BY <4>1, <2>1, <2>5
    <3>. QED  BY <3>1, <2>1, <2>2, <1>4
  <2>9. ASSUME Len(t) < size PROVE after.cachedLines = DOMAIN later
    <3>1. n < size /\ Len(t) = n + 1
      BY <2>9, <2>1, <1>2
    <3>2. ASSUME NEW b \in D PROVE b \in after.cachedLines
      <4>1. PICK i \in 1 .. n : b = s[i]
        BY <3>1, <1>1, <1>2
      <4>2. i + 1 \in 2 .. Len(t) /\ (i + 1) - 1 = i /\ i + 1 \in DOMAIN t
        BY <3>1, <2>2, <1>2
      <4>3. t[i + 1] = b
        BY <4>1, <4>2, <2>5
      <4>. QED  BY <4>2, <4>3, <2>1
    <3>3. a \in after.cachedLines
      BY <2>1, <2>2, <2>4
    <3>. QED  BY <3>2, <3>3, <2>8, <1>4
  <2>10. after.lruList = t
    BY DEF t
  <2>11. InOrder(after, size, later)
    BY <1>3, <2>6, <2>7, <2>8, <2>9, <2>10 DEF InOrder
  <2>. QED  BY <2>11 DEF after, later
<1>. QED  BY <1>6, <1>7

(* The addresses in a cache in order are those with fewer than size more   *)
(* recently used, and each is behind as many as were used after it.        *)
Above(D, last, a) == {b \in D : last[b] > last[a]}
More(D, last, a) == Cardinality(Above(D, last, a))
Kept(D, last, size) == {a \in D : More(D, last, a) < size}

(* A list in the order of the last uses holds exactly the last ones used.  *)
LEMMA OrderIsExact ==
    ASSUME NEW cache, NEW size \in Nat \ {0},
           NEW D \in SUBSET Lines, NEW last \in [D -> Nat],
           IsFiniteSet(D), InOrder(cache, size, last)
    PROVE  /\ cache.cachedLines = Kept(D, last, size)
           /\ Len(cache.lruList) = Cardinality(Kept(D, last, size))
           /\ \A a \in Kept(D, last, size) :
                 cache.lruList[More(D, last, a) + 1] = a
<1>. DEFINE s == cache.lruList
            n == Len(s)
            above(a) == {b \in D : last[b] > last[a]}
            more(a) == Cardinality(above(a))
            kept == {a \in D : more(a) < size}
<1>1. /\ WellFormed(cache, size) /\ cache.cachedLines \subseteq D
      /\ \A i, j \in 1 .. n : i < j => last[s[j]] < last[s[i]]
      /\ \A b \in D \ cache.cachedLines : \A j \in 1 .. n : last[b] < last[s[j]]
      /\ n < size => cache.cachedLines = D
  BY DEF InOrder
<1>2. /\ s \in Seq(Lines) /\ n \in Nat /\ DOMAIN s = 1 .. n /\ n <= size
      /\ \A i, j \in 1 .. n : s[i] = s[j] => i = j
      /\ cache.cachedLines = {s[j] : j \in 1 .. n}
  BY <1>1 DEF WellFormed
<1>3. Cardinality(cache.cachedLines) = n
  BY <1>1, CountIsLength
<1>4. \A j \in 1 .. n : s[j] \in D
  BY <1>1, <1>2
<1>. HIDE DEF s, n
<1>5. ASSUME NEW k \in 1 .. n PROVE more(s[k]) = k - 1
  <2>. DEFINE front == [j \in 1 .. k - 1 |-> s[j]]
  <2>1. above(s[k]) = {s[j] : j \in 1 .. k - 1}
    <3>1. ASSUME NEW b \in above(s[k]) PROVE b \in {s[j] : j \in 1 .. k - 1}
      <4>1. b \in cache.cachedLines
        BY <1>1, <1>4
      <4>2. PICK j \in 1 .. n : b = s[j]
        BY <4>1, <1>2
      <4>3. j # k /\ ~(k < j)
        BY <4>2, <1>1, <1>4
      <4>4. j \in 1 .. k - 1
        BY <4>3, <1>2
      <4>. QED  BY <4>2, <4>4
    <3>2. ASSUME NEW j \in 1 .. k - 1 PROVE s[j] \in above(s[k])
      <4>1. j \in 1 .. n /\ j < k
        BY <1>2
      <4>. QED  BY <4>1, <1>1, <1>4
    <3>. QED  BY <3>1, <3>2
  <2>. HIDE DEF above
  <2>2. front \in Surjection(1 .. k - 1, above(s[k]))
    BY <2>1 DEF Surjection
  <2>3. front \in Injection(1 .. k - 1, above(s[k]))
    BY <2>1, <1>2 DEF Injection, IsInjective
  <2>4. IsFiniteSet(1 .. k - 1) /\ Cardinality(1 .. k - 1) = k - 1
    BY <1>2, FS_Interval
  <2>. HIDE DEF front
  <2>. QED  BY <2>2, <2>3, <2>4, FS_Surjection
<1>6. ASSUME NEW a \in D \ cache.cachedLines PROVE ~(more(a) < size)
  <2>1. n = size
    BY <1>1, <1>2
  <2>2. cache.cachedLines \subseteq above(a)
    BY <1>1, <1>2
  <2>3. above(a) \in SUBSET D
    OBVIOUS
  <2>. HIDE DEF above
  <2>4. IsFiniteSet(above(a))
    BY <2>3, FS_Subset
  <2>5. cache.cachedLines \in SUBSET above(a)
    BY <2>2
  <2>6. Cardinality(cache.cachedLines) <= Cardinality(above(a))
    BY <2>4, <2>5, FS_Subset
  <2>7. Cardinality(above(a)) \in Nat
    BY <2>4, FS_CardinalityType
  <2>. QED  BY <2>1, <2>6, <2>7, <1>3
<1>. HIDE DEF more
<1>7. cache.cachedLines = kept
  <2>1. ASSUME NEW a \in cache.cachedLines PROVE a \in kept
    <3>1. PICK k \in 1 .. n : a = s[k]
      BY <1>2
    <3>. QED  BY <3>1, <1>2, <1>4, <1>5
  <2>. QED  BY <2>1, <1>6
<1>8. ASSUME NEW a \in kept PROVE s[more(a) + 1] = a
  <2>1. PICK k \in 1 .. n : a = s[k]
    BY <1>2, <1>7
  <2>2. more(a) + 1 = k
    BY <2>1, <1>2, <1>5
  <2>. QED  BY <2>1, <2>2
<1>9. n = Cardinality(kept)
  BY <1>3, <1>7
<1>. QED  BY <1>7, <1>8, <1>9 DEF s, n, more, above, Above, More, Kept
=============================================================================
