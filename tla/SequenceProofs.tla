----------------------------- MODULE SequenceProofs -----------------------------
(***************************************************************************)
(* Lemmas on natural numbers, sequences and sums that several proofs need. *)
(***************************************************************************)
EXTENDS SequencesExt, Selection, SequenceTheorems, FiniteSetTheorems, TLAPS

(* A set of natural numbers has a least one.                               *)
LEMMA LeastNatural ==
    ASSUME NEW S \in SUBSET Nat, S # {}
    PROVE  \E n \in S : \A m \in S : n <= m
<1>1. PICK n \in S : \A m \in S : <<m, n>> \notin OpToRel(<, Nat)
  BY NatLessThanWellFounded, WFMin
<1>2. ASSUME NEW m \in S PROVE n <= m
  <2>1. m \in Nat /\ n \in Nat
    OBVIOUS
  <2>2. ~(m < n)
    BY <1>1, <2>1 DEF OpToRel
  <2>. QED  BY <2>1, <2>2
<1>. QED  BY <1>2

(* Induction up to n, with a set for the property.                         *)
LEMMA Induction ==
    ASSUME NEW n \in Nat, NEW T, 0 \in T,
           \A m \in 1 .. n : m - 1 \in T => m \in T
    PROVE  \A m \in 0 .. n : m \in T
<1>. DEFINE Bad == {m \in 0 .. n : m \notin T}
<1>. SUFFICES ASSUME Bad # {} PROVE FALSE
  OBVIOUS
<1>1. Bad \in SUBSET Nat
  OBVIOUS
<1>2. PICK m \in Bad : \A k \in Bad : m <= k
  BY <1>1, LeastNatural
<1>3. m \in 1 .. n /\ m - 1 \in 0 .. n /\ ~(m <= m - 1)
  OBVIOUS
<1>4. m - 1 \in T
  BY <1>2, <1>3
<1>. QED  BY <1>3, <1>4
-----------------------------------------------------------------------------
(* What RemoveAt leaves of a sequence.                                     *)
LEMMA RemoveAtSeq ==
    ASSUME NEW S, NEW s \in Seq(S), NEW k \in 1 .. Len(s)
    PROVE  /\ RemoveAt(s, k) \in Seq(S)
           /\ Len(RemoveAt(s, k)) = Len(s) - 1
           /\ DOMAIN RemoveAt(s, k) = 1 .. Len(s) - 1
           /\ \A j \in 1 .. Len(s) - 1 :
                 RemoveAt(s, k)[j] = IF j < k THEN s[j] ELSE s[j + 1]
<1>. DEFINE n == Len(s)
            front == SubSeq(s, 1, k - 1)
            back == SubSeq(s, k + 1, n)
<1>1. n \in Nat /\ k \in Nat /\ k <= n /\ k >= 1 /\ \A j \in 1 .. n : s[j] \in S
  BY LenProperties
<1>2. /\ front \in Seq(S)
      /\ Len(front) = IF 1 <= k - 1 THEN k - 1 - 1 + 1 ELSE 0
      /\ \A j \in 1 .. k - 1 - 1 + 1 : front[j] = s[1 + j - 1]
  <2>1. 1 \in Int /\ k - 1 \in Int /\ \A j \in 1 .. k - 1 : s[j] \in S
    BY <1>1
  <2>. HIDE DEF n
  <2>. QED  BY <2>1, SubSeqProperties
<1>3. /\ back \in Seq(S)
      /\ Len(back) = IF k + 1 <= n THEN n - (k + 1) + 1 ELSE 0
      /\ \A j \in 1 .. n - (k + 1) + 1 : back[j] = s[k + 1 + j - 1]
  <2>1. k + 1 \in Int /\ n \in Int /\ \A j \in k + 1 .. n : s[j] \in S
    BY <1>1
  <2>. HIDE DEF n
  <2>. QED  BY <2>1, SubSeqProperties
<1>4. RemoveAt(s, k) = front \o back
  BY DEF RemoveAt
<1>. HIDE DEF front, back, n
<1>5. Len(front) = k - 1 /\ Len(back) = n - k
  <2>1. n \in Int /\ k \in Int /\ k <= n /\ k >= 1
    BY <1>1
  <2>2. Len(front) = IF 1 <= k - 1 THEN k - 1 - 1 + 1 ELSE 0
    BY <1>2
  <2>3. Len(back) = IF k + 1 <= n THEN n - (k + 1) + 1 ELSE 0
    BY <1>3
  <2>4. (IF 1 <= k - 1 THEN k - 1 - 1 + 1 ELSE 0) = k - 1
    BY ONLY <2>1
  <2>5. (IF k + 1 <= n THEN n - (k + 1) + 1 ELSE 0) = n - k
    BY ONLY <2>1
  <2>. QED  BY ONLY <2>2, <2>3, <2>4, <2>5
<1>6. /\ front \o back \in Seq(S)
      /\ Len(front \o back) = (k - 1) + (n - k)
      /\ \A j \in 1 .. (k - 1) + (n - k) :
            (front \o back)[j] =
                IF j <= k - 1 THEN front[j] ELSE back[j - (k - 1)]
  <2>1. front \in Seq(S) /\ back \in Seq(S)
    BY <1>2, <1>3
  <2>2. /\ front \o back \in Seq(S)
        /\ Len(front \o back) = Len(front) + Len(back)
        /\ \A j \in 1 .. Len(front) + Len(back) :
              (front \o back)[j] =
                  IF j <= Len(front) THEN front[j] ELSE back[j - Len(front)]
    BY ONLY <2>1, ConcatProperties
  <2>. QED  BY ONLY <2>2, <1>5
<1>7. ASSUME NEW j \in 1 .. n - 1
      PROVE  (front \o back)[j] = IF j < k THEN s[j] ELSE s[j + 1]
  <2>1. (front \o back)[j] =
            IF j <= k - 1 THEN front[j] ELSE back[j - (k - 1)]
    BY <1>1, <1>6
  <2>2. CASE j < k
    <3>1. j \in 1 .. k - 1 - 1 + 1 /\ 1 + j - 1 = j /\ j <= k - 1
      BY <1>1, <2>2
    <3>. QED  BY <1>2, <2>1, <2>2, <3>1
  <2>3. CASE ~(j < k)
    <3>1. /\ j - (k - 1) \in 1 .. n - (k + 1) + 1
          /\ k + 1 + (j - (k - 1)) - 1 = j + 1
          /\ ~(j <= k - 1)
      BY <1>1, <2>3
    <3>. QED  BY <1>3, <2>1, <2>3, <3>1
  <2>. QED  BY <2>2, <2>3
<1>. QED  BY <1>1, <1>4, <1>6, <1>7 DEF n

(* What push_front makes of a sequence.                                    *)
LEMMA AtFront ==
    ASSUME NEW S, NEW s \in Seq(S), NEW a \in S
    PROVE  /\ <<a>> \o s \in Seq(S)
           /\ Len(<<a>> \o s) = Len(s) + 1
           /\ (<<a>> \o s)[1] = a
           /\ \A j \in 2 .. Len(s) + 1 : (<<a>> \o s)[j] = s[j - 1]
<1>1. <<a>> \in Seq(S) /\ Len(<<a>>) = 1 /\ <<a>>[1] = a
  OBVIOUS
<1>2. Len(s) \in Nat
  BY LenProperties
<1>3. /\ <<a>> \o s \in Seq(S)
      /\ Len(<<a>> \o s) = 1 + Len(s)
      /\ \A j \in 1 .. 1 + Len(s) :
            (<<a>> \o s)[j] = IF j <= 1 THEN <<a>>[j] ELSE s[j - 1]
  BY <1>1, ConcatProperties
<1>. QED  BY <1>1, <1>2, <1>3

(* What pop_back leaves of a sequence, and any other front of it.          *)
LEMMA FrontOf ==
    ASSUME NEW S, NEW s \in Seq(S), NEW m \in 0 .. Len(s)
    PROVE  /\ SubSeq(s, 1, m) \in Seq(S)
           /\ Len(SubSeq(s, 1, m)) = m
           /\ \A j \in 1 .. m : SubSeq(s, 1, m)[j] = s[j]
<1>1. Len(s) \in Nat /\ m \in Nat /\ m <= Len(s)
  BY LenProperties
<1>2. \A j \in 1 .. m : s[j] \in S
  BY <1>1, ElementOfSeq
<1>3. /\ SubSeq(s, 1, m) \in Seq(S)
      /\ Len(SubSeq(s, 1, m)) = IF 1 <= m THEN m - 1 + 1 ELSE 0
      /\ \A j \in 1 .. m - 1 + 1 : SubSeq(s, 1, m)[j] = s[1 + j - 1]
  BY <1>1, <1>2, SubSeqProperties
<1>. QED  BY <1>1, <1>3

-----------------------------------------------------------------------------
(* A selection that stays as it is when something else is appended, and    *)
(* one that grows by what is appended.                                     *)
LEMMA SelectionStays ==
    ASSUME NEW S, NEW s \in Seq(S), NEW a \in S, NEW P \in SUBSET (1 .. Len(s)),
           NEW t, IsSelection(s, P, t)
    PROVE  IsSelection(Append(s, a), P, t)
BY DEF IsSelection

(* A selection stays one when both sequences get the same element.         *)
LEMMA SelectionGrows ==
    ASSUME NEW S, NEW s \in Seq(S), NEW a \in S, NEW P \in SUBSET (1 .. Len(s)),
           NEW t \in Seq(S), IsSelection(s, P, t)
    PROVE  IsSelection(Append(s, a), P \cup {Len(s) + 1}, Append(t, a))
<1>. DEFINE last == Len(s) + 1
            Q == P \cup {last}
            upTo(n) == {m \in P : m <= n}
<1>1. /\ Len(s) \in Nat /\ last \notin P
      /\ \A n \in P : n \in Nat /\ n < last
  OBVIOUS
<1>2. /\ IsFiniteSet(1 .. Len(s))
      /\ IsFiniteSet(P)
  <2>1. IsFiniteSet(1 .. Len(s))
    BY <1>1, FS_Interval
  <2>. QED  BY <2>1, FS_Subset
<1>3. Cardinality(Q) = Cardinality(P) + 1 /\ Cardinality(P) \in Nat
  BY <1>1, <1>2, FS_AddElement, FS_CardinalityType
<1>4. /\ Len(t) = Cardinality(P)
      /\ \A n \in P : t[Cardinality(upTo(n))] = s[n]
  BY DEF IsSelection
<1>5. ASSUME NEW n \in P
      PROVE  Append(t, a)[Cardinality({m \in Q : m <= n})] = Append(s, a)[n]
  <2>1. {m \in Q : m <= n} = upTo(n)
    BY <1>1
  <2>2. upTo(n) \in SUBSET P /\ n \in upTo(n)
    BY <1>1
  <2>. HIDE DEF upTo
  <2>3. /\ IsFiniteSet(upTo(n)) /\ Cardinality(upTo(n)) \in Nat
        /\ Cardinality(upTo(n)) <= Cardinality(P)
    BY <2>2, <1>2, FS_Subset, FS_CardinalityType
  <2>4. Cardinality(upTo(n)) # 0
    BY <2>2, <2>3, FS_EmptySet
  <2>5. Cardinality(upTo(n)) \in 1 .. Len(t)
    BY <2>3, <2>4, <1>3, <1>4
  <2>6. Append(t, a)[Cardinality(upTo(n))] = t[Cardinality(upTo(n))]
    BY <2>5
  <2>7. Append(s, a)[n] = s[n]
    OBVIOUS
  <2>. QED  BY <2>1, <2>6, <2>7, <1>4
<1>6. Append(t, a)[Cardinality({m \in Q : m <= last})] = Append(s, a)[last]
  <2>1. \A m \in Q : m <= last
    BY <1>1
  <2>2. Append(t, a)[Cardinality(P) + 1] = a /\ Append(s, a)[last] = a
    BY <1>1, <1>3, <1>4
  <2>. HIDE DEF Q, last
  <2>3. {m \in Q : m <= last} = Q
    BY <2>1
  <2>. QED  BY <2>2, <2>3, <1>3
<1>7. Len(Append(t, a)) = Cardinality(Q)
  BY <1>3, <1>4
<1>. HIDE DEF upTo
<1>. QED  BY <1>5, <1>6, <1>7 DEF IsSelection
-----------------------------------------------------------------------------
(* A function defined by recursion on the numbers up to n exists: what the *)
(* library's theorems say with an operator, said with a function.          *)

(* The values a step function leads to from a first one.                   *)
Leads(f, n, first, step) ==
    /\ f[0] = first
    /\ \A m \in 1 .. n : f[m] = step[m][f[m - 1]]

(* The values that steps lead through exist, one function of them.         *)
LEMMA LeadsExists ==
    ASSUME NEW n \in Nat, NEW S, NEW first \in S,
           NEW step \in [1 .. n -> [S -> S]]
    PROVE  \E f \in [0 .. n -> S] : Leads(f, n, first, step)
<1>. DEFINE T == {m \in 0 .. n : \E f \in [0 .. m -> S] : Leads(f, m, first, step)}
<1>1. 0 \in T
  <2>. DEFINE f == [i \in 0 .. 0 |-> first]
  <2>1. f \in [0 .. 0 -> S] /\ Leads(f, 0, first, step)
    BY DEF Leads
  <2>. QED  BY <2>1
<1>2. ASSUME NEW m \in 1 .. n, m - 1 \in T PROVE m \in T
  <2>1. PICK f \in [0 .. m - 1 -> S] : Leads(f, m - 1, first, step)
    BY <1>2
  <2>. DEFINE g == [i \in 0 .. m |-> IF i = m THEN step[m][f[m - 1]] ELSE f[i]]
  <2>2. step[m][f[m - 1]] \in S
    OBVIOUS
  <2>3. g \in [0 .. m -> S]
    BY <2>2
  <2>4. Leads(g, m, first, step)
    BY <2>1 DEF Leads
  <2>. HIDE DEF g
  <2>. QED  BY <2>3, <2>4
<1>. HIDE DEF T
<1>3. \A m \in 0 .. n : m \in T
  BY <1>1, <1>2, Induction
<1>. QED  BY <1>3 DEF T

(* The first of a second sequence moves to the end of the one before it.   *)
LEMMA HeadMoves ==
    ASSUME NEW S, NEW s \in Seq(S), NEW t \in Seq(S), t # <<>>
    PROVE  Append(s, Head(t)) \o Tail(t) = s \o t
<1>. DEFINE l == Append(s, Head(t)) \o Tail(t)
            r == s \o t
<1>1. /\ Head(t) = t[1] /\ Head(t) \in S /\ Tail(t) \in Seq(S)
      /\ Len(Tail(t)) = Len(t) - 1
      /\ \A k \in 1 .. Len(t) - 1 : Tail(t)[k] = t[k + 1]
  BY HeadTailProperties
<1>2. /\ Append(s, Head(t)) \in Seq(S) /\ Len(Append(s, Head(t))) = Len(s) + 1
      /\ \A k \in 1 .. Len(s) : Append(s, Head(t))[k] = s[k]
      /\ Append(s, Head(t))[Len(s) + 1] = t[1]
  BY <1>1, AppendProperties
<1>3. Len(s) \in Nat /\ Len(t) \in Nat \ {0}
  BY EmptySeq, LenProperties
<1>4. l \in Seq(S) /\ r \in Seq(S)
  BY <1>1, <1>2, ConcatProperties
<1>5. Len(l) = Len(s) + Len(t) /\ Len(r) = Len(s) + Len(t)
  BY <1>1, <1>2, <1>3, ConcatProperties
<1>6. ASSUME NEW k \in 1 .. Len(l) PROVE l[k] = r[k]
  <2>1. r[k] = IF k <= Len(s) THEN s[k] ELSE t[k - Len(s)]
    BY <1>3, <1>5, ConcatProperties
  <2>2. l[k] = IF k <= Len(s) + 1 THEN Append(s, Head(t))[k]
               ELSE Tail(t)[k - (Len(s) + 1)]
    BY <1>1, <1>2, <1>3, <1>5, ConcatProperties
  <2>3. CASE k <= Len(s) + 1
    BY <1>2, <1>3, <2>1, <2>2, <2>3
  <2>4. CASE ~(k <= Len(s) + 1)
    <3>1. k - (Len(s) + 1) \in 1 .. Len(t) - 1
          /\ k - (Len(s) + 1) + 1 = k - Len(s)
      BY <1>3, <1>5, <2>4
    <3>. QED  BY <1>1, <1>3, <2>1, <2>2, <2>4, <3>1
  <2>. QED  BY <2>3, <2>4
<1>. HIDE DEF l, r
<1>7. l = r
  BY <1>4, <1>5, <1>6, SeqEqual
<1>. QED  BY <1>7 DEF l, r

(* What is appended to the second is appended to both.                     *)
LEMMA AppendMoves ==
    ASSUME NEW S, NEW s \in Seq(S), NEW t \in Seq(S), NEW a \in S
    PROVE  s \o Append(t, a) = Append(s \o t, a)
<1>1. <<a>> \in Seq(S) /\ s \o t \in Seq(S)
  BY ConcatProperties
<1>2. Append(t, a) = t \o <<a>> /\ Append(s \o t, a) = (s \o t) \o <<a>>
  BY <1>1, AppendIsConcat
<1>. QED  BY <1>1, <1>2, ConcatAssociative
-----------------------------------------------------------------------------
(* SUMS                                                                    *)
(*                                                                         *)
(* The folds of the community modules are recursive functions on the       *)
(* subsets of a set, and those that add come to the same whichever element *)
(* is taken first: g sums f on the subsets of S.                           *)
Sums(g, f, S) ==
    /\ g \in [SUBSET S -> Int]
    /\ g[{}] = 0
    /\ \A s \in SUBSET S : \A x \in s : g[s] = f[x] + g[s \ {x}]

(* The sum of f over S, as the model writes it.                            *)
SumOver(f, S) == MapThenSumSet(LAMBDA x : f[x], S)

(* The recursive function of a fold that takes the elements in the order   *)
(* of pick.                                                                *)
Folded(g, f, S, pick) ==
    [s \in SUBSET S |-> IF s = {} THEN 0 ELSE f[pick[s]] + g[s \ {pick[s]}]]

Picks(pick, S) == \A s \in SUBSET S : s # {} => pick[s] \in s

(* Induction over the subsets of a finite set, with a set for the property. *)
LEMMA SubsetInduction ==
    ASSUME NEW S, IsFiniteSet(S), NEW T, {} \in T,
           \A s \in SUBSET S : s # {} /\ (\A x \in s : s \ {x} \in T) => s \in T
    PROVE  SUBSET S \subseteq T
<1>. DEFINE n == Cardinality(S)
            Up == {m \in 0 .. n : \A s \in SUBSET S : Cardinality(s) = m => s \in T}
<1>1. n \in Nat
  BY FS_CardinalityType
<1>2. \A s \in SUBSET S : IsFiniteSet(s) /\ Cardinality(s) \in 0 .. n
  BY <1>1, FS_Subset, FS_CardinalityType
<1>3. 0 \in Up
  BY <1>1, <1>2, FS_EmptySet
<1>4. ASSUME NEW m \in 1 .. n, m - 1 \in Up PROVE m \in Up
  <2>1. ASSUME NEW s \in SUBSET S, Cardinality(s) = m PROVE s \in T
    <3>1. s # {}
      BY <2>1, FS_EmptySet
    <3>2. ASSUME NEW x \in s PROVE s \ {x} \in T
      <4>1. Cardinality(s \ {x}) = m - 1
        BY <1>2, <2>1, FS_RemoveElement
      <4>. QED  BY <1>4, <4>1
    <3>. QED  BY <3>1, <3>2
  <2>. QED  BY <2>1
<1>. HIDE DEF Up
<1>5. \A m \in 0 .. n : m \in Up
  BY <1>1, <1>3, <1>4, Induction
<1>. QED  BY <1>2, <1>5 DEF Up

(* The function that folds the sum over every part of a set exists.        *)
LEMMA FoldExists ==
    ASSUME NEW S, IsFiniteSet(S), NEW f \in [S -> Int], NEW pick, Picks(pick, S)
    PROVE  \E g \in [SUBSET S -> Int] : g = Folded(g, f, S, pick)
<1>. DEFINE n == Cardinality(S)
            Upto(m, g) ==
                \A s \in SUBSET S :
                    Cardinality(s) <= m => g[s] = Folded(g, f, S, pick)[s]
            T == {m \in 0 .. n : \E g \in [SUBSET S -> Int] : Upto(m, g)}
<1>1. n \in Nat
  BY FS_CardinalityType
<1>2. \A s \in SUBSET S : IsFiniteSet(s) /\ Cardinality(s) \in 0 .. n
  BY <1>1, FS_Subset, FS_CardinalityType
<1>3. \A s \in SUBSET S : s # {} =>
         /\ pick[s] \in s /\ f[pick[s]] \in Int
         /\ s \ {pick[s]} \in SUBSET S
         /\ Cardinality(s \ {pick[s]}) = Cardinality(s) - 1
  BY <1>2, FS_RemoveElement DEF Picks
<1>4. 0 \in T
  <2>. DEFINE g == [s \in SUBSET S |-> 0]
  <2>1. \A s \in SUBSET S : Cardinality(s) <= 0 => s = {}
    BY <1>2, FS_EmptySet
  <2>2. g \in [SUBSET S -> Int] /\ Upto(0, g)
    BY <2>1 DEF Folded
  <2>. HIDE DEF g, Upto
  <2>. QED  BY <1>1, <2>2
<1>5. ASSUME NEW m \in 1 .. n, m - 1 \in T PROVE m \in T
  <2>1. PICK g \in [SUBSET S -> Int] : Upto(m - 1, g)
    BY <1>5
  <2>. DEFINE h == [s \in SUBSET S |->
                       IF Cardinality(s) = m THEN f[pick[s]] + g[s \ {pick[s]}]
                       ELSE g[s]]
  <2>2. \A s \in SUBSET S : Cardinality(s) = m => s # {}
    <3>1. m # 0 /\ Cardinality({}) = 0
      BY <1>1, FS_EmptySet
    <3>. QED  BY <3>1
  <2>3. h \in [SUBSET S -> Int]
    BY <1>3, <2>2
  <2>4. ASSUME NEW s \in SUBSET S, Cardinality(s) <= m
        PROVE  h[s] = Folded(h, f, S, pick)[s]
    <3>1. CASE Cardinality(s) = m
      <4>1. h[s \ {pick[s]}] = g[s \ {pick[s]}]
        BY <1>1, <1>3, <2>2, <3>1
      <4>. QED  BY <2>2, <3>1, <4>1 DEF Folded
    <3>2. CASE Cardinality(s) <= m - 1
      <4>1. g[s] = Folded(g, f, S, pick)[s] /\ h[s] = g[s]
        BY <2>1, <3>2, <1>2
      <4>2. s # {} => h[s \ {pick[s]}] = g[s \ {pick[s]}]
        BY <1>2, <1>3, <3>2
      <4>. QED  BY <4>1, <4>2 DEF Folded
    <3>. QED  BY <1>2, <2>4, <3>1, <3>2
  <2>5. Upto(m, h)
    BY <2>4
  <2>. HIDE DEF h, Upto
  <2>. QED  BY <2>3, <2>5
<1>. HIDE DEF T
<1>6. \A m \in 0 .. n : m \in T
  BY <1>1, <1>4, <1>5, Induction
<1>7. PICK g \in [SUBSET S -> Int] : Upto(n, g)
  <2>. HIDE DEF Upto, n
  <2>1. n \in T
    BY <1>1, <1>6
  <2>. QED  BY <2>1 DEF T
<1>8. \A s \in SUBSET S : g[s] = Folded(g, f, S, pick)[s]
  BY <1>2, <1>7
<1>. QED  BY <1>8 DEF Folded

(* The order of pick makes no difference.                                  *)
LEMMA FoldedSums ==
    ASSUME NEW S, IsFiniteSet(S), NEW f \in [S -> Int], NEW pick, Picks(pick, S),
           NEW g, g = Folded(g, f, S, pick)
    PROVE  Sums(g, f, S)
<1>0. g \in [SUBSET S -> Int]
  <2>. DEFINE T == {s \in SUBSET S : g[s] \in Int}
  <2>1. {} \in T
    BY DEF Folded
  <2>2. ASSUME NEW s \in SUBSET S, s # {}, \A x \in s : s \ {x} \in T
        PROVE  s \in T
    <3>1. pick[s] \in s /\ g[s] = f[pick[s]] + g[s \ {pick[s]}]
      BY <2>2 DEF Folded, Picks
    <3>2. f[pick[s]] \in Int /\ g[s \ {pick[s]}] \in Int
      BY <2>2, <3>1
    <3>. QED  BY <3>1, <3>2
  <2>. HIDE DEF T
  <2>3. SUBSET S \subseteq T
    BY <2>1, <2>2, SubsetInduction
  <2>. QED  BY <2>3 DEF Folded, T
<1>. DEFINE T == {s \in SUBSET S : \A x \in s : g[s] = f[x] + g[s \ {x}]}
<1>1. \A s \in SUBSET S :
         g[s] = IF s = {} THEN 0 ELSE f[pick[s]] + g[s \ {pick[s]}]
  BY DEF Folded
<1>2. ASSUME NEW s \in SUBSET S, s # {}, \A x \in s : s \ {x} \in T
      PROVE  s \in T
  <2>. DEFINE y == pick[s]
  <2>1. y \in s /\ g[s] = f[y] + g[s \ {y}]
    BY <1>1, <1>2 DEF Picks
  <2>2. ASSUME NEW x \in s, x # y PROVE g[s] = f[x] + g[s \ {x}]
    <3>. DEFINE both == s \ {x, y}
    <3>1. x \in s \ {y} /\ y \in s \ {x}
      BY <2>1, <2>2
    <3>2. (s \ {y}) \ {x} = both /\ (s \ {x}) \ {y} = both
      OBVIOUS
    <3>3. g[s \ {y}] = f[x] + g[both] /\ g[s \ {x}] = f[y] + g[both]
      <4>1. s \ {y} \in T /\ s \ {x} \in T
        BY <1>2, <2>1
      <4>. QED  BY <3>1, <3>2, <4>1
    <3>4. f[x] \in Int /\ f[y] \in Int /\ g[both] \in Int
      BY <1>0, <2>1
    <3>. HIDE DEF both, y
    <3>. QED  BY <2>1, <3>3, <3>4
  <2>. QED  BY <2>1, <2>2
<1>3. {} \in T
  OBVIOUS
<1>. HIDE DEF T
<1>4. SUBSET S \subseteq T
  BY <1>2, <1>3, SubsetInduction
<1>. QED  BY <1>0, <1>1, <1>4 DEF T, Sums

(* Two functions that sum f are the same.                                  *)
LEMMA SumsUnique ==
    ASSUME NEW S, IsFiniteSet(S), NEW f, NEW g, NEW h, Sums(g, f, S), Sums(h, f, S)
    PROVE  g = h
<1>. DEFINE T == {s \in SUBSET S : g[s] = h[s]}
<1>1. {} \in T
  BY DEF Sums
<1>2. ASSUME NEW s \in SUBSET S, s # {}, \A x \in s : s \ {x} \in T
      PROVE  s \in T
  <2>1. PICK x \in s : TRUE
    BY <1>2
  <2>2. g[s] = f[x] + g[s \ {x}] /\ h[s] = f[x] + h[s \ {x}]
    BY <2>1 DEF Sums
  <2>. QED  BY <1>2, <2>2
<1>. HIDE DEF T
<1>3. SUBSET S \subseteq T
  BY <1>1, <1>2, SubsetInduction
<1>. QED  BY <1>3 DEF T, Sums

(* SumOver() is the value, for the whole set, of a function of sums.       *)
LEMMA SumOverSums ==
    ASSUME NEW S, IsFiniteSet(S), NEW f \in [S -> Int]
    PROVE  \E g : Sums(g, f, S) /\ SumOver(f, S) = g[S]
<1>. DEFINE pick == [s \in SUBSET S |-> CHOOSE x \in s : TRUE]
            Body(g) ==
                [s \in SUBSET S |->
                    IF s = {} THEN 0
                    ELSE f[CHOOSE x \in s : TRUE]
                         + g[s \ {CHOOSE x \in s : TRUE}]]
            h == CHOOSE g : g = Body(g)
<1>1. Picks(pick, S)
  BY DEF Picks
<1>2. \E g : g = Body(g)
  <2>1. PICK g \in [SUBSET S -> Int] : g = Folded(g, f, S, pick)
    BY <1>1, FoldExists
  <2>2. g = Body(g)
    BY <2>1 DEF Folded
  <2>. QED  BY <2>2
<1>3. h = Body(h)
  BY <1>2
<1>4. SumOver(f, S) = h[S]
  BY DEF SumOver, MapThenSumSet, MapThenFoldSet
<1>. HIDE DEF h
<1>5. h = Folded(h, f, S, pick)
  BY <1>3 DEF Folded
<1>6. Sums(h, f, S)
  BY <1>1, <1>5, FoldedSums
<1>. QED  BY <1>4, <1>6

(* All functions of sums agree about the whole set.                        *)
LEMMA SumIs ==
    ASSUME NEW S, IsFiniteSet(S), NEW f \in [S -> Int], NEW g, Sums(g, f, S)
    PROVE  SumOver(f, S) = g[S]
BY SumOverSums, SumsUnique

-----------------------------------------------------------------------------
(* What sums of integers are and how they change with their terms.         *)
LEMMA SumType ==
    ASSUME NEW S, IsFiniteSet(S), NEW f \in [S -> Int]
    PROVE  /\ SumOver(f, S) \in Int
           /\ f \in [S -> Nat] => SumOver(f, S) \in Nat
<1>1. PICK g : Sums(g, f, S) /\ SumOver(f, S) = g[S]
  BY SumOverSums
<1>2. SumOver(f, S) \in Int
  BY <1>1 DEF Sums
<1>3. ASSUME f \in [S -> Nat] PROVE SumOver(f, S) \in Nat
  <2>. DEFINE T == {s \in SUBSET S : g[s] \in Nat}
  <2>1. {} \in T
    BY <1>1 DEF Sums
  <2>2. ASSUME NEW s \in SUBSET S, s # {}, \A x \in s : s \ {x} \in T
        PROVE  s \in T
    <3>1. PICK x \in s : TRUE
      BY <2>2
    <3>2. g[s] = f[x] + g[s \ {x}] /\ f[x] \in Nat
      BY <1>1, <1>3, <3>1 DEF Sums
    <3>3. g[s \ {x}] \in Nat
      BY <2>2, <3>1
    <3>. QED  BY <3>2, <3>3
  <2>. HIDE DEF T
  <2>3. SUBSET S \subseteq T
    BY <2>1, <2>2, SubsetInduction
  <2>. QED  BY <1>1, <2>3 DEF T
<1>. QED  BY <1>2, <1>3

(* The sum of the sums is the sum of both.                                 *)
LEMMA SumOfSums ==
    ASSUME NEW S, IsFiniteSet(S), NEW f \in [S -> Int], NEW h \in [S -> Int]
    PROVE  SumOver([x \in S |-> f[x] + h[x]], S) = SumOver(f, S) + SumOver(h, S)
<1>. DEFINE both == [x \in S |-> f[x] + h[x]]
<1>1. PICK g : Sums(g, f, S) /\ SumOver(f, S) = g[S]
  BY SumOverSums
<1>2. PICK k : Sums(k, h, S) /\ SumOver(h, S) = k[S]
  BY SumOverSums
<1>. DEFINE sum == [s \in SUBSET S |-> g[s] + k[s]]
<1>3. Sums(sum, both, S)
  <2>1. sum \in [SUBSET S -> Int] /\ sum[{}] = 0
    BY <1>1, <1>2 DEF Sums
  <2>2. ASSUME NEW s \in SUBSET S, NEW x \in s
        PROVE  sum[s] = both[x] + sum[s \ {x}]
    <3>1. /\ g[s] = f[x] + g[s \ {x}] /\ k[s] = h[x] + k[s \ {x}]
          /\ g[s \ {x}] \in Int /\ k[s \ {x}] \in Int /\ f[x] \in Int /\ h[x] \in Int
      BY <1>1, <1>2 DEF Sums
    <3>. QED  BY <3>1
  <2>. HIDE DEF sum, both
  <2>. QED  BY <2>1, <2>2 DEF Sums
<1>4. both \in [S -> Int]
  OBVIOUS
<1>5. sum[S] = SumOver(f, S) + SumOver(h, S)
  BY <1>1, <1>2
<1>. HIDE DEF sum, both
<1>6. SumOver(both, S) = sum[S]
  BY <1>3, <1>4, SumIs
<1>. QED  BY <1>5, <1>6 DEF both

(* With larger values the sum is not smaller.                              *)
LEMMA SumMonotone ==
    ASSUME NEW S, IsFiniteSet(S), NEW f \in [S -> Int], NEW h \in [S -> Int],
           \A x \in S : f[x] <= h[x]
    PROVE  SumOver(f, S) <= SumOver(h, S)
<1>. DEFINE d == [x \in S |-> h[x] - f[x]]
            both == [x \in S |-> f[x] + d[x]]
<1>1. d \in [S -> Nat] /\ d \in [S -> Int]
  OBVIOUS
<1>2. both = h
  OBVIOUS
<1>. HIDE DEF d
<1>3. SumOver(both, S) = SumOver(f, S) + SumOver(d, S)
  BY <1>1, SumOfSums
<1>4. SumOver(d, S) \in Nat /\ SumOver(f, S) \in Int
  BY <1>1, SumType
<1>. QED  BY <1>2, <1>3, <1>4

(* What the solver has to be told of products.                             *)
LEMMA Multiples ==
    ASSUME NEW d \in Int, NEW n \in Int
    PROVE  d * n \in Int /\ d * (n + 1) = d + d * n /\ d * 1 = d /\ d * 0 = 0
OBVIOUS

(* As many times d as there are elements in a part of S.                   *)
LEMMA SumOfPart ==
    ASSUME NEW S, IsFiniteSet(S), NEW R \in SUBSET S, NEW d \in Int
    PROVE  SumOver([x \in S |-> IF x \in R THEN d ELSE 0], S) = d * Cardinality(R)
<1>. DEFINE f == [x \in S |-> IF x \in R THEN d ELSE 0]
            g == [s \in SUBSET S |-> d * Cardinality(s \cap R)]
            count(s) == Cardinality(s \cap R)
<1>1. \A s \in SUBSET S : IsFiniteSet(s \cap R) /\ count(s) \in Int
  <2>1. \A s \in SUBSET S : IsFiniteSet(s \cap R)
    BY FS_Subset
  <2>. QED  BY <2>1, FS_CardinalityType
<1>2. ASSUME NEW s \in SUBSET S, NEW x \in s, x \in R
      PROVE  g[s] = f[x] + g[s \ {x}]
  <2>1. (s \ {x}) \cap R = (s \cap R) \ {x} /\ x \in s \cap R
    BY <1>2
  <2>2. count(s \ {x}) = count(s) - 1
    <3>. DEFINE a == s \cap R
    <3>1. IsFiniteSet(a) /\ x \in a
      BY <1>1, <2>1
    <3>. HIDE DEF a
    <3>2. Cardinality(a \ {x}) = Cardinality(a) - 1
      BY <3>1, FS_RemoveElement
    <3>. QED  BY <2>1, <3>2 DEF a
  <2>3. /\ count(s) \in Int /\ count(s \ {x}) \in Int
        /\ g[s] = d * count(s) /\ g[s \ {x}] = d * count(s \ {x}) /\ f[x] = d
    BY <1>1, <1>2
  <2>. HIDE DEF g, count, f
  <2>4. count(s) = count(s \ {x}) + 1
    BY <2>2, <2>3
  <2>5. d * (count(s \ {x}) + 1) = d + d * count(s \ {x})
    BY <2>3, Multiples
  <2>. QED  BY <2>3, <2>4, <2>5
<1>3. g \in [SUBSET S -> Int]
  <2>. HIDE DEF count
  <2>1. \A s \in SUBSET S : d * count(s) \in Int
    BY <1>1, Multiples
  <2>. QED  BY <2>1 DEF count
<1>4. ASSUME NEW s \in SUBSET S, NEW x \in s, x \notin R
      PROVE  g[s] = f[x] + g[s \ {x}]
  <2>1. (s \ {x}) \cap R = s \cap R
    BY <1>4
  <2>2. g[s] = g[s \ {x}] /\ f[x] = 0
    BY <1>4, <2>1
  <2>3. g[s] \in Int
    BY <1>3
  <2>. HIDE DEF g, f
  <2>. QED  BY <2>2, <2>3
<1>5. /\ g[{}] = 0 /\ g[S] = d * Cardinality(R)
      /\ f \in [S -> Int]
  <2>1. {} \cap R = {} /\ Cardinality({}) = 0 /\ S \cap R = R
    BY FS_EmptySet
  <2>2. g[{}] = d * Cardinality({})
    BY <2>1
  <2>3. d * 0 = 0
    BY Multiples
  <2>4. g[S] = d * Cardinality(R)
    BY <2>1
  <2>5. f \in [S -> Int]
    OBVIOUS
  <2>. HIDE DEF g, f
  <2>. QED  BY <2>1, <2>2, <2>3, <2>4, <2>5
<1>. HIDE DEF g, f
<1>6. Sums(g, f, S)
  BY <1>2, <1>3, <1>4, <1>5 DEF Sums
<1>7. SumOver(f, S) = g[S]
  BY <1>5, <1>6, SumIs
<1>. QED  BY <1>5, <1>7 DEF f

(* Each term of a part of S grows by d.                                    *)
LEMMA SumGrows ==
    ASSUME NEW S, IsFiniteSet(S), NEW R \in SUBSET S, NEW d \in Int,
           NEW f \in [S -> Int], NEW h \in [S -> Int],
           \A x \in R : h[x] = f[x] + d, \A x \in S \ R : h[x] = f[x]
    PROVE  SumOver(h, S) = SumOver(f, S) + d * Cardinality(R)
<1>. DEFINE e == [x \in S |-> IF x \in R THEN d ELSE 0]
            both == [x \in S |-> f[x] + e[x]]
<1>1. e \in [S -> Int]
  OBVIOUS
<1>2. h = both
  OBVIOUS
<1>3. SumOver(e, S) = d * Cardinality(R)
  BY SumOfPart
<1>. HIDE DEF e
<1>4. SumOver(both, S) = SumOver(f, S) + SumOver(e, S)
  BY <1>1, SumOfSums
<1>. QED  BY <1>2, <1>3, <1>4

(* One term changes.                                                       *)
LEMMA SumChanges ==
    ASSUME NEW S, IsFiniteSet(S), NEW y \in S,
           NEW f \in [S -> Int], NEW h \in [S -> Int],
           \A x \in S \ {y} : h[x] = f[x]
    PROVE  SumOver(h, S) = SumOver(f, S) + (h[y] - f[y])
<1>. DEFINE d == h[y] - f[y]
            R == {y}
<1>1. d \in Int /\ R \in SUBSET S
  OBVIOUS
<1>2. (\A x \in R : h[x] = f[x] + d) /\ \A x \in S \ R : h[x] = f[x]
  OBVIOUS
<1>4. Cardinality(R) = 1 /\ d * 1 = d
  <2>1. Cardinality(R) = 1
    BY FS_Singleton
  <2>. HIDE DEF d
  <2>. QED  BY <1>1, <2>1, Multiples
<1>. HIDE DEF d, R
<1>3. SumOver(h, S) = SumOver(f, S) + d * Cardinality(R)
  <2>1. IsFiniteSet(S) /\ f \in [S -> Int] /\ h \in [S -> Int]
    OBVIOUS
  <2>. QED  BY ONLY <1>1, <1>2, <2>1, SumGrows
<1>. QED  BY <1>3, <1>4 DEF d

(* The sum of a sequence grows by what is appended.                        *)
LEMMA SumOfAppended ==
    ASSUME NEW s \in Seq(Int), NEW a \in Int
    PROVE  /\ SumOver(Append(s, a), DOMAIN Append(s, a))
                  = SumOver(s, DOMAIN s) + a
           /\ SumOver(s, DOMAIN s) \in Int
<1>. DEFINE n == Len(s)
            t == Append(s, a)
            S == DOMAIN t
            R == DOMAIN s
<1>1. n \in Nat /\ R = 1 .. n /\ S = 1 .. n + 1
  OBVIOUS
<1>2. /\ s \in [R -> Int] /\ t \in [S -> Int]
      /\ t[n + 1] = a /\ \A k \in R : t[k] = s[k]
  <2>1. t \in Seq(Int) /\ Len(t) = n + 1
    BY AppendProperties
  <2>2. t \in [1 .. Len(t) -> Int] /\ s \in [1 .. Len(s) -> Int]
    BY <2>1, LenProperties
  <2>3. t[n + 1] = a /\ \A k \in 1 .. n : t[k] = s[k]
    BY AppendProperties
  <2>. HIDE DEF t
  <2>. QED  BY <1>1, <2>1, <2>2, <2>3
<1>3. R \in SUBSET S /\ n + 1 \in S /\ S \ {n + 1} = R
  BY <1>1
<1>4. IsFiniteSet(S) /\ IsFiniteSet(R)
  BY <1>1, FS_Interval
<1>. HIDE DEF t, S, R, n
<1>5. PICK g : Sums(g, t, S) /\ SumOver(t, S) = g[S]
  BY <1>2, <1>4, SumOverSums
<1>6. g[S] = a + g[R]
  BY <1>2, <1>3, <1>5 DEF Sums
<1>. DEFINE h == [x \in SUBSET R |-> g[x]]
<1>7. Sums(h, t, R)
  <2>1. h \in [SUBSET R -> Int] /\ \A s_ \in SUBSET R : h[s_] = g[s_]
    BY <1>3, <1>5 DEF Sums
  <2>. HIDE DEF h
  <2>2. ASSUME NEW r \in SUBSET R, NEW x \in r PROVE h[r] = t[x] + h[r \ {x}]
    <3>1. r \in SUBSET S /\ r \ {x} \in SUBSET R
      BY <1>3
    <3>2. g[r] = t[x] + g[r \ {x}]
      BY <1>5, <3>1 DEF Sums
    <3>. QED  BY <2>1, <3>1, <3>2
  <2>3. h[{}] = 0
    BY <1>5, <2>1 DEF Sums
  <2>. QED  BY <2>1, <2>2, <2>3 DEF Sums
<1>8. Sums(h, s, R)
  BY <1>2, <1>7 DEF Sums
<1>9. SumOver(s, R) = h[R] /\ h[R] = g[R]
  BY <1>2, <1>4, <1>8, SumIs
<1>10. g[R] \in Int
  BY <1>3, <1>5 DEF Sums
<1>. QED  BY <1>5, <1>6, <1>9, <1>10 DEF t, S, R

-----------------------------------------------------------------------------
(* The maximum of a finite set of integers is its largest element.         *)
LEMMA MaxOf ==
    ASSUME NEW S, IsFiniteSet(S), S # {}, S \subseteq Int
    PROVE  Max(S) \in S /\ \A x \in S : x <= Max(S)
<1>. DEFINE T == {s \in SUBSET S : s # {} => \E x \in s : \A y \in s : x >= y}
<1>1. {} \in T
  OBVIOUS
<1>2. ASSUME NEW s \in SUBSET S, s # {}, \A x \in s : s \ {x} \in T
      PROVE  s \in T
  <2>1. PICK x \in s : TRUE
    BY <1>2
  <2>2. CASE s \ {x} = {}
    <3>1. \A y \in s : y = x
      BY <2>2
    <3>. QED  BY <2>1, <3>1
  <2>3. CASE s \ {x} # {}
    <3>1. PICK z \in s \ {x} : \A y \in s \ {x} : z >= y
      BY <1>2, <2>3
    <3>2. x >= z \/ z >= x
      OBVIOUS
    <3>. QED  BY <3>1, <3>2
  <2>. QED  BY <2>2, <2>3
<1>. HIDE DEF T
<1>3. SUBSET S \subseteq T
  BY <1>1, <1>2, SubsetInduction
<1>4. \E x \in S : \A y \in S : x >= y
  BY <1>3 DEF T
<1>5. Max(S) \in S /\ \A y \in S : Max(S) >= y
  BY <1>4 DEF Max
<1>. QED  BY <1>5

(* The minimum of a set of naturals is its smallest element.               *)
LEMMA MinOf ==
    ASSUME NEW S, S # {}, S \subseteq Nat
    PROVE  Min(S) \in S /\ \A x \in S : Min(S) <= x
<1>1. \E x \in S : \A y \in S : x <= y
  BY LeastNatural
<1>. QED  BY <1>1 DEF Min
=============================================================================
