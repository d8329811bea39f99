---------------------------- MODULE TaskLoaderProofs ----------------------------
(***************************************************************************)
(* What loadFromCSV() makes of the files it does not reject is a workload, *)
(* and the depth-first search of CycleDetection is right about it.         *)
(***************************************************************************)
EXTENDS TaskLoader, SequenceProofs

(* FlattenSeq(), written as the steps it takes.                            *)
Joining(S, seqs) == [k \in 1 .. Len(seqs) |-> [s \in Seq(S) |-> s \o seqs[k]]]

(* What FlattenSeq() returns is where its steps lead from <<>>.            *)
LEMMA FlattenLeads ==
    ASSUME NEW S, NEW seqs \in Seq(Seq(S)), Len(seqs) # 0
    PROVE  \E f \in [0 .. Len(seqs) -> Seq(S)] :
              /\ Leads(f, Len(seqs), <<>>, Joining(S, seqs))
              /\ FlattenSeq(seqs) = f[Len(seqs)]
<1>. DEFINE n == Len(seqs)
            flatten == CHOOSE F : F = [i \in 1 .. n |->
                          IF i = 1 THEN seqs[i] ELSE F[i - 1] \o seqs[i]]
<1>1. n \in Nat \ {0} /\ \A k \in 1 .. n : seqs[k] \in Seq(S)
  OBVIOUS
<1>2. Joining(S, seqs) \in [1 .. n -> [Seq(S) -> Seq(S)]]
  <2>1. \A k \in 1 .. n : \A s \in Seq(S) : s \o seqs[k] \in Seq(S)
    BY <1>1, ConcatProperties
  <2>. QED  BY <2>1 DEF Joining
<1>3. PICK f \in [0 .. n -> Seq(S)] : Leads(f, n, <<>>, Joining(S, seqs))
  <2>1. n \in Nat /\ <<>> \in Seq(S)
    BY <1>1
  <2>. HIDE DEF n
  <2>. QED  BY <1>2, <2>1, LeadsExists, Zenon
<1>. HIDE DEF flatten
<1>4. ASSUME NEW k \in 1 .. n PROVE f[k] = f[k - 1] \o seqs[k] /\ f[k - 1] \in Seq(S)
  <2>1. f[k - 1] \in Seq(S)
    <3>1. k - 1 \in 0 .. n
      BY <1>1
    <3>. QED  BY <3>1
  <2>2. f[k] = Joining(S, seqs)[k][f[k - 1]]
    BY <1>3 DEF Leads
  <2>. QED  BY <2>1, <2>2 DEF Joining
<1>5. f[1] = seqs[1]
  <2>1. f[0] = <<>> /\ 1 \in 1 .. n /\ seqs[1] \in Seq(S)
    BY <1>1, <1>3 DEF Leads
  <2>2. f[1] = <<>> \o seqs[1]
    BY <1>4, <2>1
  <2>. QED  BY <2>1, <2>2, ConcatEmptySeq
<1>. DEFINE g == [i \in 1 .. n |-> f[i]]
<1>6. g = [i \in 1 .. n |-> IF i = 1 THEN seqs[i] ELSE g[i - 1] \o seqs[i]]
  <2>1. ASSUME NEW i \in 1 .. n
        PROVE  f[i] = IF i = 1 THEN seqs[i] ELSE g[i - 1] \o seqs[i]
    <3>1. CASE i = 1
      BY <1>5, <3>1
    <3>2. CASE i # 1
      <4>1. i - 1 \in 1 .. n
        BY <3>2, <1>1
      <4>. QED  BY <1>4, <3>2, <4>1
    <3>. QED  BY <3>1, <3>2
  <2>. QED  BY <2>1
<1>. HIDE DEF g
<1>7. flatten = [i \in 1 .. n |->
                    IF i = 1 THEN seqs[i] ELSE flatten[i - 1] \o seqs[i]]
  BY <1>6 DEF flatten
<1>8. FlattenSeq(seqs) = flatten[n]
  BY <1>1 DEF FlattenSeq, flatten
<1>9. \A k \in 0 .. n : k \in 1 .. n => flatten[k] = f[k]
  <2>. DEFINE T == {k \in 0 .. n : k \in 1 .. n => flatten[k] = f[k]}
  <2>1. 0 \in T
    BY <1>1
  <2>2. ASSUME NEW k \in 1 .. n, k - 1 \in T PROVE k \in T
    <3>1. flatten[k] = IF k = 1 THEN seqs[k] ELSE flatten[k - 1] \o seqs[k]
      BY <1>7
    <3>2. CASE k = 1
      BY <3>1, <3>2, <1>5
    <3>3. CASE k # 1
      <4>1. k - 1 \in 1 .. n
        BY <3>3, <1>1
      <4>2. flatten[k - 1] = f[k - 1]
        BY <2>2, <4>1
      <4>3. flatten[k] = f[k]
        BY <3>1, <3>3, <4>2, <1>4
      <4>4. k \in 0 .. n
        BY <1>1
      <4>. QED  BY <4>3, <4>4
    <3>. QED  BY <3>2, <3>3
  <2>. HIDE DEF T
  <2>3. \A k \in 0 .. n : k \in T
    BY <1>1, <2>1, <2>2, Induction
  <2>. QED  BY <2>3 DEF T
<1>. QED  BY <1>1, <1>3, <1>8, <1>9

(* What is in two sequences, one after the other.                          *)
LEMMA JoinedSets ==
    ASSUME NEW S, NEW s \in Seq(S), NEW t \in Seq(S)
    PROVE  ToSet(s \o t) = ToSet(s) \cup ToSet(t)
<1>1. /\ Len(s) \in Nat /\ Len(t) \in Nat /\ Len(s \o t) = Len(s) + Len(t)
      /\ DOMAIN s = 1 .. Len(s) /\ DOMAIN t = 1 .. Len(t)
      /\ DOMAIN (s \o t) = 1 .. Len(s) + Len(t)
      /\ \A k \in 1 .. Len(s) + Len(t) :
            (s \o t)[k] = IF k <= Len(s) THEN s[k] ELSE t[k - Len(s)]
  BY ConcatProperties, LenProperties
<1>2. ASSUME NEW k \in DOMAIN s PROVE s[k] \in ToSet(s \o t)
  BY <1>1 DEF ToSet
<1>3. ASSUME NEW k \in DOMAIN t PROVE t[k] \in ToSet(s \o t)
  <2>1. k + Len(s) \in 1 .. Len(s) + Len(t) /\ ~(k + Len(s) <= Len(s))
        /\ k + Len(s) - Len(s) = k
    BY <1>1
  <2>2. (s \o t)[k + Len(s)] = t[k]
    BY <1>1, <2>1
  <2>. QED  BY <1>1, <2>1, <2>2 DEF ToSet
<1>4. ASSUME NEW k \in DOMAIN (s \o t) PROVE (s \o t)[k] \in ToSet(s) \cup ToSet(t)
  <2>1. CASE k <= Len(s)
    BY <1>1, <2>1 DEF ToSet
  <2>2. CASE ~(k <= Len(s))
    <3>1. k - Len(s) \in DOMAIN t
      BY <1>1, <2>2
    <3>. QED  BY <1>1, <2>2, <3>1 DEF ToSet
  <2>. QED  BY <2>1, <2>2
<1>. QED  BY <1>2, <1>3, <1>4 DEF ToSet

(* The sequences joined, and nothing else, are in what they are joined to. *)
LEMMA FlattenIsUnion ==
    ASSUME NEW S, NEW seqs \in Seq(Seq(S))
    PROVE  /\ FlattenSeq(seqs) \in Seq(S)
           /\ ToSet(FlattenSeq(seqs)) = UNION {ToSet(seqs[k]) : k \in 1 .. Len(seqs)}
<1>. DEFINE n == Len(seqs)
            upTo(k) == UNION {ToSet(seqs[j]) : j \in 1 .. k}
<1>1. n \in Nat /\ \A k \in 1 .. n : seqs[k] \in Seq(S)
  OBVIOUS
<1>2. CASE n = 0
  <2>1. seqs = <<>>
    BY <1>2
  <2>2. FlattenSeq(seqs) = <<>>
    BY <1>2, <2>1 DEF FlattenSeq
  <2>3. ToSet(<<>>) = {} /\ <<>> \in Seq(S)
    BY DEF ToSet
  <2>4. 1 .. n = {}
    BY <1>2
  <2>5. UNION {ToSet(seqs[k]) : k \in 1 .. n} = {}
    BY <2>4
  <2>. QED  BY <2>2, <2>3, <2>5
<1>3. CASE n # 0
  <2>1. PICK f \in [0 .. n -> Seq(S)] :
           Leads(f, n, <<>>, Joining(S, seqs)) /\ FlattenSeq(seqs) = f[n]
    BY <1>3, FlattenLeads
  <2>. DEFINE T == {k \in 0 .. n : ToSet(f[k]) = upTo(k)}
  <2>2. 0 \in T
    <3>1. f[0] = <<>>
      BY <2>1 DEF Leads
    <3>. QED  BY <1>1, <3>1 DEF ToSet
  <2>3. ASSUME NEW k \in 1 .. n, k - 1 \in T PROVE k \in T
    <3>. k - 1 \in 0 .. n /\ k \in 0 .. n
      BY <1>1
    <3>1. f[k - 1] \in Seq(S) /\ seqs[k] \in Seq(S)
      BY <1>1
    <3>2. f[k] = f[k - 1] \o seqs[k]
      BY <2>1, <3>1 DEF Leads, Joining
    <3>3. ToSet(f[k]) = ToSet(f[k - 1]) \cup ToSet(seqs[k])
      BY <3>1, <3>2, JoinedSets
    <3>4. upTo(k) = upTo(k - 1) \cup ToSet(seqs[k])
      <4>1. 1 .. k = (1 .. k - 1) \cup {k}
        BY <1>1
      <4>. QED  BY <4>1
    <3>5. ToSet(f[k - 1]) = upTo(k - 1)
      BY <2>3
    <3>. QED  BY <3>3, <3>4, <3>5
  <2>. HIDE DEF T
  <2>4. \A k \in 0 .. n : k \in T
    BY <1>1, <2>2, <2>3, Induction
  <2>5. ToSet(f[n]) = upTo(n) /\ f[n] \in Seq(S)
    BY <1>1, <2>4 DEF T
  <2>. QED  BY <2>1, <2>5
<1>. QED  BY <1>2, <1>3
(* A function on the first numbers, written as one, is a sequence.         *)
LEMMA AllInSeq ==
    ASSUME NEW S, NEW n \in Nat, NEW s, s = [k \in 1 .. n |-> s[k]],
           \A k \in 1 .. n : s[k] \in S
    PROVE  s \in Seq(S)
<1>1. [k \in 1 .. n |-> s[k]] \in Seq(S)
  BY IsASeq
<1>. QED  BY <1>1

(* Sequences of S joined are a sequence of S.                              *)
LEMMA FlattenType ==
    ASSUME NEW S, NEW seqs \in Seq(Seq(S))
    PROVE  FlattenSeq(seqs) \in Seq(S)
<1>1. CASE Len(seqs) = 0
  <2>1. seqs = <<>> /\ FlattenSeq(seqs) = seqs
    BY <1>1 DEF FlattenSeq
  <2>2. <<>> \in Seq(S)
    OBVIOUS
  <2>. QED  BY <2>1, <2>2
<1>2. CASE Len(seqs) # 0
  <2>1. PICK f \in [0 .. Len(seqs) -> Seq(S)] : FlattenSeq(seqs) = f[Len(seqs)]
    BY <1>2, FlattenLeads, Zenon
  <2>2. Len(seqs) \in 0 .. Len(seqs)
    OBVIOUS
  <2>. QED  BY <2>1, <2>2
<1>. QED  BY <1>1, <1>2

(* What Kept() joins: one element or none for each.                        *)
LEMMA KeptType ==
    ASSUME NEW S, NEW s \in Seq(S), NEW c, DOMAIN c = DOMAIN s,
           c = [k \in DOMAIN s |-> c[k]],
           \A k \in DOMAIN s : c[k] \in {<<s[k]>>, <<>>}
    PROVE  FlattenSeq(c) \in Seq(S)
<1>1. DOMAIN s = 1 .. Len(s) /\ Len(s) \in Nat
  OBVIOUS
<1>2. \A k \in 1 .. Len(s) : c[k] \in Seq(S)
  <2>. TAKE k \in 1 .. Len(s)
  <2>1. s[k] \in S
    OBVIOUS
  <2>2. <<s[k]>> \in Seq(S) /\ <<>> \in Seq(S)
    BY <2>1
  <2>3. c[k] = <<s[k]>> \/ c[k] = <<>>
    BY <1>1
  <2>. QED  BY <2>2, <2>3
<1>3. c \in Seq(Seq(S))
  BY <1>1, <1>2, IsASeq
<1>. QED  BY <1>3, FlattenType

(* A part of a sequence is a sequence of the same elements.                *)
LEMMA PartOf ==
    ASSUME NEW S, NEW s \in Seq(S), NEW a \in Nat \ {0}, NEW b \in Int, b <= Len(s)
    PROVE  SubSeq(s, a, b) \in Seq(S)
<1>1. \A i \in a .. b : s[i] \in S
  <2>. TAKE i \in a .. b
  <2>1. i \in 1 .. Len(s)
    OBVIOUS
  <2>. QED  BY <2>1
<1>. QED  BY <1>1, SubSeqProperties

(* A sequence cut at positions within it, as Parts() does: its parts.      *)
LEMMA CutType ==
    ASSUME NEW S, NEW s \in Seq(S), NEW ends \in Seq(1 .. Len(s) + 1)
    PROVE  [n \in DOMAIN ends |->
               SubSeq(s, IF n = 1 THEN 1 ELSE ends[n - 1] + 1, ends[n] - 1)]
              \in Seq(Seq(S))
<1>. DEFINE part(n) == SubSeq(s, IF n = 1 THEN 1 ELSE ends[n - 1] + 1, ends[n] - 1)
<1>1. DOMAIN ends = 1 .. Len(ends) /\ Len(ends) \in Nat /\ Len(s) \in Nat
  OBVIOUS
<1>2. ASSUME NEW n \in 1 .. Len(ends) PROVE part(n) \in Seq(S)
  <2>1. ends[n] \in 1 .. Len(s) + 1
    BY <1>1
  <2>2. n # 1 => ends[n - 1] \in 1 .. Len(s) + 1
    <3>. SUFFICES ASSUME n # 1 PROVE ends[n - 1] \in 1 .. Len(s) + 1
      OBVIOUS
    <3>1. n - 1 \in 1 .. Len(ends)
      BY <1>1
    <3>. QED  BY <1>1, <3>1
  <2>3. (IF n = 1 THEN 1 ELSE ends[n - 1] + 1) \in Nat \ {0}
    BY <2>2
  <2>4. ends[n] - 1 \in Int /\ ends[n] - 1 <= Len(s)
    BY <1>1, <2>1
  <2>. QED  BY <2>3, <2>4, PartOf
<1>. HIDE DEF part
<1>3. [n \in 1 .. Len(ends) |-> part(n)] \in Seq(Seq(S))
  BY <1>1, <1>2
<1>. QED  BY <1>1, <1>3 DEF part

(* A trimmed field is made of the same tokens.                             *)
LEMMA TrimType ==
    ASSUME NEW S, NEW s \in Seq(S)
    PROVE  Trim(s) \in Seq(S)
<1>. DEFINE solid == {k \in DOMAIN s : s[k] # Blank}
<1>1. DOMAIN s = 1 .. Len(s) /\ Len(s) \in Nat
  OBVIOUS
<1>2. solid \in SUBSET (1 .. Len(s)) /\ solid \subseteq Nat /\ solid \subseteq Int
  BY <1>1
<1>3. IsFiniteSet(solid)
  <2>1. IsFiniteSet(1 .. Len(s)) /\ solid \subseteq 1 .. Len(s)
    BY <1>1, <1>2, FS_Interval
  <2>. HIDE DEF solid
  <2>. QED  BY <2>1, FS_Subset
<1>4. CASE solid = {}
  BY <1>4 DEF Trim
<1>5. CASE solid # {}
  <2>. HIDE DEF solid
  <2>1. Min(solid) \in solid /\ Max(solid) \in solid
    BY <1>2, <1>3, <1>5, MinOf, MaxOf
  <2>2. /\ Min(solid) \in Nat \ {0} /\ Max(solid) \in Int
        /\ Max(solid) <= Len(s)
    <3>1. Min(solid) \in 1 .. Len(s) /\ Max(solid) \in 1 .. Len(s)
      BY <1>2, <2>1
    <3>. QED  BY <1>1, <3>1
  <2>4. SubSeq(s, Min(solid), Max(solid)) \in Seq(S)
    BY <2>2, PartOf
  <2>3. Trim(s) = SubSeq(s, Min(solid), Max(solid))
    BY <1>5 DEF Trim, solid
  <2>. QED  BY <2>3, <2>4
<1>. QED  BY <1>4, <1>5
-----------------------------------------------------------------------------
(* THE TABLES AND WHAT THEY BECOME                                         *)

(* A line of tokens becomes a sequence of fields.                          *)
LEMMA ParseLineType ==
    ASSUME NEW line \in Seq(Token)
    PROVE  ParseLine(line) \in Seq(Seq(Token))
<1>. DEFINE last == Len(line) + 1
            all == [k \in 1 .. last |-> k]
            kept == [k \in DOMAIN all |->
                        IF all[k] = last \/ (line[all[k]] = Comma /\ ~InQuotes(line, all[k]))
                        THEN <<all[k]>> ELSE <<>>]
            ends == FlattenSeq(kept)
            parts == [n \in DOMAIN ends |->
                SubSeq(line, IF n = 1 THEN 1 ELSE ends[n - 1] + 1, ends[n] - 1)]
            bare(n) == [k \in DOMAIN parts[n] |->
                IF parts[n][k] # Quote THEN <<parts[n][k]>> ELSE <<>>]
            fields == [n \in DOMAIN parts |-> Trim(FlattenSeq(bare(n)))]
<1>1. fields = ParseLine(line)
  BY DEF ParseLine, Parts, Kept
<1>2. last \in Nat \ {0} /\ all \in Seq(1 .. last)
  <2>1. last \in Nat \ {0}
    OBVIOUS
  <2>. QED  BY <2>1, IsASeq
<1>3. ends \in Seq(1 .. last)
  <2>1. DOMAIN kept = DOMAIN all /\ \A k \in DOMAIN all : kept[k] \in {<<all[k]>>, <<>>}
    OBVIOUS
  <2>2. kept = [k \in DOMAIN all |-> kept[k]]
    OBVIOUS
  <2>. HIDE DEF kept, all, last
  <2>. QED  BY <1>2, <2>1, <2>2, KeptType
<1>4. parts \in Seq(Seq(Token))
  <2>. HIDE DEF ends
  <2>. QED  BY <1>3, CutType
<1>5. ASSUME NEW n \in DOMAIN parts PROVE Trim(FlattenSeq(bare(n))) \in Seq(Token)
  <2>. HIDE DEF parts
  <2>1. parts[n] \in Seq(Token)
    BY <1>4
  <2>2. DOMAIN bare(n) = DOMAIN parts[n]
        /\ \A k \in DOMAIN parts[n] : bare(n)[k] \in {<<parts[n][k]>>, <<>>}
    OBVIOUS
  <2>3. bare(n) = [k \in DOMAIN parts[n] |-> bare(n)[k]]
    OBVIOUS
  <2>4. FlattenSeq(bare(n)) \in Seq(Token)
    <3>. HIDE DEF bare
    <3>. QED  BY <2>1, <2>2, <2>3, KeptType
  <2>. QED  BY <2>4, TrimType
<1>6. fields \in Seq(Seq(Token))
  <2>. DEFINE field(n) == Trim(FlattenSeq(bare(n)))
  <2>1. fields = [n \in DOMAIN parts |-> field(n)]
    OBVIOUS
  <2>2. \A n \in DOMAIN parts : field(n) \in Seq(Token)
    BY <1>5
  <2>. HIDE DEF fields, field, parts
  <2>3. DOMAIN parts = 1 .. Len(parts) /\ Len(parts) \in Nat
    BY <1>4
  <2>. QED  BY <2>1, <2>2, <2>3, IsASeq
<1>. QED  BY <1>1, <1>6

(* What parseCSV() returns: fields are sequences of tokens.                *)
Table == [headers : Seq(Seq(Token)), rows : Seq(Seq(Seq(Token)))]

(* A file of tokens that has a line becomes a table.                       *)
LEMMA ParseCSVType ==
    ASSUME NEW file \in Seq(Seq(Token)), file # <<>>
    PROVE  ParseCSV(file) \in Table
<1>. DEFINE lines == Tail(file)
            kept == [k \in DOMAIN lines |->
                        IF ~IsWhitespace(lines[k]) THEN <<lines[k]>> ELSE <<>>]
            data == FlattenSeq(kept)
            rows == [k \in DOMAIN data |-> ParseLine(data[k])]
<1>1. ParseCSV(file) = [headers |-> ParseLine(Head(file)), rows |-> rows]
  BY DEF ParseCSV, Kept
<1>2. Head(file) \in Seq(Token) /\ lines \in Seq(Seq(Token))
  BY HeadTailProperties
<1>3. data \in Seq(Seq(Token))
  <2>1. DOMAIN kept = DOMAIN lines
        /\ \A k \in DOMAIN lines : kept[k] \in {<<lines[k]>>, <<>>}
    OBVIOUS
  <2>2. kept = [k \in DOMAIN lines |-> kept[k]]
    OBVIOUS
  <2>. HIDE DEF kept, lines
  <2>. QED  BY <1>2, <2>1, <2>2, KeptType
<1>4. rows \in Seq(Seq(Seq(Token)))
  <2>. HIDE DEF data
  <2>1. DOMAIN data = 1 .. Len(data) /\ Len(data) \in Nat
    BY <1>3
  <2>2. \A k \in DOMAIN data : ParseLine(data[k]) \in Seq(Seq(Token))
    <3>1. \A k \in DOMAIN data : data[k] \in Seq(Token)
      BY <1>3
    <3>. QED  BY <3>1, ParseLineType
  <2>. QED  BY <2>1, <2>2, IsASeq
<1>5. ParseLine(Head(file)) \in Seq(Seq(Token))
  BY <1>2, ParseLineType
<1>. HIDE DEF rows
<1>. QED  BY <1>1, <1>4, <1>5 DEF Table

(* The pieces of a list of dependencies are made of tokens.                *)
LEMMA PiecesType ==
    ASSUME NEW field \in Seq(Token)
    PROVE  Pieces(field) \in Seq(Seq(Token))
<1>. DEFINE last == Len(field) + 1
            all == [k \in 1 .. last |-> k]
            kept == [k \in DOMAIN all |->
                        IF all[k] = last \/ field[all[k]] = Semicolon
                        THEN <<all[k]>> ELSE <<>>]
            ends == FlattenSeq(kept)
            parts == [n \in DOMAIN ends |->
                SubSeq(field, IF n = 1 THEN 1 ELSE ends[n - 1] + 1, ends[n] - 1)]
            trimmed == [n \in DOMAIN parts |-> Trim(parts[n])]
            solid == [k \in DOMAIN trimmed |->
                IF trimmed[k] # <<>> THEN <<trimmed[k]>> ELSE <<>>]
<1>1. Pieces(field) = FlattenSeq(solid)
  BY DEF Pieces, Parts, Kept
<1>2. last \in Nat \ {0} /\ all \in Seq(1 .. last)
  <2>1. last \in Nat \ {0}
    OBVIOUS
  <2>. QED  BY <2>1, IsASeq
<1>3. ends \in Seq(1 .. last)
  <2>1. DOMAIN kept = DOMAIN all /\ \A k \in DOMAIN all : kept[k] \in {<<all[k]>>, <<>>}
    OBVIOUS
  <2>2. kept = [k \in DOMAIN all |-> kept[k]]
    OBVIOUS
  <2>. HIDE DEF kept, all, last
  <2>. QED  BY <1>2, <2>1, <2>2, KeptType
<1>4. parts \in Seq(Seq(Token))
  <2>. HIDE DEF ends
  <2>. QED  BY <1>3, CutType
<1>5. trimmed \in Seq(Seq(Token))
  <2>. HIDE DEF parts
  <2>1. DOMAIN parts = 1 .. Len(parts) /\ Len(parts) \in Nat
    BY <1>4
  <2>2. \A n \in DOMAIN parts : Trim(parts[n]) \in Seq(Token)
    <3>1. \A n \in DOMAIN parts : parts[n] \in Seq(Token)
      BY <1>4
    <3>. QED  BY <3>1, TrimType
  <2>. QED  BY <2>1, <2>2, IsASeq
<1>6. FlattenSeq(solid) \in Seq(Seq(Token))
  <2>1. DOMAIN solid = DOMAIN trimmed
        /\ \A k \in DOMAIN trimmed : solid[k] \in {<<trimmed[k]>>, <<>>}
    OBVIOUS
  <2>2. solid = [k \in DOMAIN trimmed |-> solid[k]]
    OBVIOUS
  <2>. HIDE DEF solid, trimmed
  <2>. QED  BY <1>5, <2>1, <2>2, KeptType
<1>. QED  BY <1>1, <1>6
(* A field of a row, in a column of the header, is one of that column.     *)
LEMMA CellType ==
    ASSUME NEW table \in Table, Rectangular(table), NEW fields \in ToSet(table.rows),
           NEW name, HasColumn(table, name)
    PROVE  /\ Column(table, fields, name) \in Seq(Token)
           /\ Column(table, fields, name) \in ColumnOf(table, name)
<1>1. table.headers \in Seq(Seq(Token)) /\ table.rows \in Seq(Seq(Seq(Token)))
  BY DEF Table
<1>2. DOMAIN table.headers = 1 .. Len(table.headers) /\ Len(table.headers) \in Nat
  BY <1>1
<1>3. Places(table, name) # {} /\ Places(table, name) \subseteq 1 .. Len(table.headers)
  BY <1>2 DEF HasColumn, Places
<1>4. Max(Places(table, name)) \in 1 .. Len(table.headers)
  <2>1. IsFiniteSet(1 .. Len(table.headers))
    BY <1>2, FS_Interval
  <2>2. IsFiniteSet(Places(table, name)) /\ Places(table, name) \subseteq Int
    BY <1>2, <1>3, <2>1, FS_Subset
  <2>3. Max(Places(table, name)) \in Places(table, name)
    BY <1>3, <2>2, MaxOf
  <2>. QED  BY <1>3, <2>3
<1>5. fields \in Seq(Seq(Token)) /\ Len(fields) = Len(table.headers)
  <2>1. \A k \in DOMAIN table.rows : table.rows[k] \in Seq(Seq(Token))
    BY <1>1
  <2>. QED  BY <2>1 DEF ToSet, Rectangular
<1>6. Column(table, fields, name) \in Seq(Token)
  BY <1>4, <1>5 DEF Column
<1>7. Column(table, fields, name) \in ColumnOf(table, name)
  BY DEF ColumnOf
<1>. QED  BY <1>6, <1>7

(* A field that begins with a number is converted to an integer.           *)
LEMMA StoiType ==
    ASSUME NEW field \in Seq(Token), BeginsWith(field, "number")
    PROVE  Stoi(field) \in Int
<1>1. field[1] \in Token /\ field[1][1] = "number"
  <2>1. 1 \in 1 .. Len(field)
    BY DEF BeginsWith
  <2>. QED  BY <2>1 DEF BeginsWith
<1>2. field[1] \in {"number"} \X Int
  BY <1>1 DEF Token, Comma, Quote, Semicolon, Blank
<1>. QED  BY <1>2 DEF Stoi

(* What a field converts to is among what its column converts to.          *)
LEMMA NumberIn ==
    ASSUME NEW fields, NEW kind, NEW field \in fields, BeginsWith(field, kind)
    PROVE  Stoi(field) \in NumbersOf(fields, kind)
BY DEF NumbersOf

(* A row that converts becomes a task.                                     *)
LEMMA TaskOfType ==
    ASSUME csv \in Table, Rectangular(csv),
           NEW fields \in ToSet(csv.rows), TaskRowConverts(fields),
           NumbersOf(ColumnOf(csv, "id"), "number") \subseteq TaskIds,
           NumbersOf(UNION {ToSet(Pieces(deps)) : deps \in ColumnOf(csv, "deps")}, "number")
              \subseteq TaskIds
    PROVE  TaskOf(fields) \in Task
<1>. DEFINE cell(name) == Cell(fields, name)
            pieces == Pieces(Cell(fields, "deps"))
            deps == [k \in DOMAIN pieces |-> Stoi(pieces[k])]
<1>1. Stoi(Cell(fields, "id")) \in TaskIds
  <2>1. HasColumn(csv, "id") /\ BeginsWith(Cell(fields, "id"), "number")
    BY DEF TaskRowConverts, HasNumber
  <2>2. Cell(fields, "id") \in ColumnOf(csv, "id")
    BY <2>1, CellType DEF Cell
  <2>. QED  BY <2>1, <2>2, NumberIn
<1>2. Stoi(Cell(fields, "executions")) \in Int
  <2>1. HasColumn(csv, "executions") /\ BeginsWith(Cell(fields, "executions"), "number")
    BY DEF TaskRowConverts, HasNumber
  <2>2. Cell(fields, "executions") \in Seq(Token)
    BY <2>1, CellType DEF Cell
  <2>. QED  BY <2>1, <2>2, StoiType
<1>3. Cell(fields, "deps") \in Seq(Token) /\ Cell(fields, "deps") \in ColumnOf(csv, "deps")
  <2>1. HasColumn(csv, "deps")
    BY DEF TaskRowConverts
  <2>. QED  BY <2>1, CellType DEF Cell
<1>4. pieces \in Seq(Seq(Token))
  BY <1>3, PiecesType
<1>5. \A k \in DOMAIN pieces : Stoi(pieces[k]) \in TaskIds
  <2>. TAKE k \in DOMAIN pieces
  <2>1. pieces[k] \in ToSet(pieces)
    BY DEF ToSet
  <2>2. pieces[k] \in UNION {ToSet(Pieces(f)) : f \in ColumnOf(csv, "deps")}
    BY <1>3, <2>1
  <2>3. BeginsWith(pieces[k], "number")
    BY <2>1 DEF TaskRowConverts
  <2>. HIDE DEF pieces
  <2>. QED  BY <2>2, <2>3, NumberIn
<1>6. deps \in Seq(TaskIds)
  <2>. HIDE DEF pieces
  <2>1. DOMAIN pieces = 1 .. Len(pieces) /\ Len(pieces) \in Nat
    BY <1>4
  <2>. QED  BY <1>5, <2>1, IsASeq
<1>7. TaskOf(fields) = [id |-> Stoi(Cell(fields, "id")),
                        executions |-> Stoi(Cell(fields, "executions")),
                        deps |-> deps]
  BY DEF TaskOf
<1>. HIDE DEF deps
<1>. QED  BY <1>1, <1>2, <1>6, <1>7 DEF Task

(* A row that converts becomes an operation.                               *)
LEMMA OpOfType ==
    ASSUME csv \in Table, Rectangular(csv), 0 \in Addresses,
           NEW fields \in ToSet(csv.rows), OpRowConverts(fields),
           NumbersOf(ColumnOf(csv, "address"), "hex") \subseteq Addresses
    PROVE  OpOf(fields) \in Op
<1>1. CASE IsCompute(fields)
  <2>1. HasColumn(csv, "cycles") /\ BeginsWith(Cell(fields, "cycles"), "number")
    <3>1. Cell(fields, "type") # <<Word("mem")>>
      <4>1. Word("compute") # Word("mem")
        BY DEF Word
      <4>. QED  BY <1>1, <4>1 DEF IsCompute
    <3>. QED  BY <3>1 DEF OpRowConverts, HasNumber
  <2>2. Cell(fields, "cycles") \in Seq(Token)
    BY <2>1, CellType DEF Cell
  <2>3. Stoi(Cell(fields, "cycles")) \in Int
    BY <2>1, <2>2, StoiType
  <2>4. OpOf(fields) = [type |-> "Compute", cycles |-> Stoi(Cell(fields, "cycles")),
                        address |-> 0]
    BY <1>1 DEF OpOf
  <2>. QED  BY <2>3, <2>4 DEF Op, OpTypes
<1>2. CASE ~IsCompute(fields)
  <2>1. /\ HasColumn(csv, "address")
        /\ \/ Cell(fields, "address") = <<>>
           \/ BeginsWith(Cell(fields, "address"), "hex")
    BY <1>2 DEF OpRowConverts
  <2>2. Cell(fields, "address") \in ColumnOf(csv, "address")
    BY <2>1, CellType DEF Cell
  <2>3. (IF Cell(fields, "address") = <<>> THEN 0 ELSE Stoi(Cell(fields, "address")))
           \in Addresses
    BY <2>1, <2>2, NumberIn
  <2>4. OpOf(fields) = [type |-> "Memory", cycles |-> 0,
           address |-> IF Cell(fields, "address") = <<>> THEN 0
                       ELSE Stoi(Cell(fields, "address"))]
    BY <1>2 DEF OpOf
  <2>. QED  BY <2>3, <2>4 DEF Op, OpTypes
<1>. QED  BY <1>1, <1>2

(* However the rows of a task come out of the sort, they are operations.   *)
LEMMA ArrangedType ==
    ASSUME NEW rows \in Seq(ToSet(csv.rows)),
           \A fields \in ToSet(csv.rows) : OpOf(fields) \in Op,
           NEW ops \in Arrangements(rows)
    PROVE  ops \in Seq(Op)
<1>1. PICK p \in SetToSeqs(DOMAIN rows) : ops = [k \in DOMAIN p |-> OpOf(rows[p[k]])]
  BY DEF Arrangements
<1>2. DOMAIN rows = 1 .. Len(rows) /\ Len(rows) \in Nat
  OBVIOUS
<1>3. Cardinality(1 .. Len(rows)) \in Nat
  BY <1>2, FS_Interval, FS_CardinalityType
<1>4. p \in [1 .. Cardinality(1 .. Len(rows)) -> 1 .. Len(rows)]
  BY <1>1, <1>2 DEF SetToSeqs
<1>5. \A k \in DOMAIN p : OpOf(rows[p[k]]) \in Op
  <2>. TAKE k \in DOMAIN p
  <2>1. p[k] \in 1 .. Len(rows)
    BY <1>4
  <2>2. rows[p[k]] \in ToSet(csv.rows)
    BY <2>1
  <2>. QED  BY <2>2
<1>6. DOMAIN p = 1 .. Cardinality(1 .. Len(rows))
  BY <1>4
<1>. QED  BY <1>1, <1>3, <1>5, <1>6, IsASeq

(* The rows of a task are rows of the table.                               *)
LEMMA RowsOfType ==
    ASSUME csv \in Table, NEW id
    PROVE  OpsRowsOf(id) \in Seq(ToSet(csv.rows))
<1>. DEFINE rows == csv.rows
            kept == [k \in DOMAIN rows |->
                        IF Stoi(Cell(rows[k], "task_id")) = id
                        THEN <<rows[k]>> ELSE <<>>]
<1>1. OpsRowsOf(id) = FlattenSeq(kept)
  BY DEF OpsRowsOf, Kept
<1>2. rows \in Seq(ToSet(rows))
  <2>1. rows \in Seq(Seq(Seq(Token)))
    BY DEF Table
  <2>2. DOMAIN rows = 1 .. Len(rows) /\ Len(rows) \in Nat
        /\ rows = [k \in 1 .. Len(rows) |-> rows[k]]
    BY <2>1
  <2>3. \A k \in 1 .. Len(rows) : rows[k] \in ToSet(rows)
    BY <2>2 DEF ToSet
  <2>. HIDE DEF rows
  <2>. QED  BY <2>2, <2>3, IsASeq
<1>3. DOMAIN kept = DOMAIN rows /\ \A k \in DOMAIN rows : kept[k] \in {<<rows[k]>>, <<>>}
  OBVIOUS
<1>4. kept = [k \in DOMAIN rows |-> kept[k]]
  OBVIOUS
<1>5. FlattenSeq(kept) \in Seq(ToSet(rows))
  <2>. HIDE DEF kept, rows
  <2>. QED  BY <1>2, <1>3, <1>4, KeptType
<1>. QED  BY <1>1, <1>5
(* THE FILES READ                                                          *)

WorkloadLoaded == Loaded => work \in Workload

NoOps == [id \in TaskIds |-> <<>>]

LoadingInv ==
    /\ \E f \in Files : tasksFile = f[1] /\ opsFile = f[2]
    /\ outcome \in {"reading tasks", "making tasks"} =>
          work = [tasks |-> <<>>, ops |-> NoOps]
    /\ outcome = "making tasks" => Readable(tasksFile) /\ csv = ParseCSV(tasksFile)
    /\ outcome \in {"reading ops", "making ops"} =>
          \E tasks \in Seq(Task) : work = [tasks |-> tasks, ops |-> NoOps]
    /\ outcome = "making ops" => Readable(opsFile) /\ csv = ParseCSV(opsFile)
    /\ WorkloadLoaded

(* A file that can be read becomes a table.                                *)
LEMMA ReadableTable ==
    ASSUME NEW file \in Seq(Seq(Token)), Readable(file)
    PROVE  ParseCSV(file) \in Table /\ Rectangular(ParseCSV(file))
BY ParseCSVType DEF Readable

(* The rows of tasks.csv become the tasks of a workload.                   *)
LEMMA TasksAreMade ==
    ASSUME LoadingInv, outcome = "making tasks", AllConvert(TaskRowConverts)
    PROVE  [k \in DOMAIN csv.rows |-> TaskOf(csv.rows[k])] \in Seq(Task)
<1>1. PICK f \in Files : tasksFile = f[1]
  BY DEF LoadingInv
<1>2. Readable(f[1]) /\ csv = ParseCSV(f[1])
  BY <1>1 DEF LoadingInv
<1>3. f[1] \in Seq(Seq(Token))
  BY FilesAssumption DEF FilesAssumption
<1>4. csv \in Table /\ Rectangular(csv)
  BY <1>2, <1>3, ReadableTable
<1>5. /\ NumbersOf(ColumnOf(csv, "id"), "number") \subseteq TaskIds
      /\ NumbersOf(UNION {ToSet(Pieces(deps)) : deps \in ColumnOf(csv, "deps")}, "number")
            \subseteq TaskIds
  BY <1>2, FilesAssumption, Zenon DEF FilesAssumption
<1>6. ASSUME NEW k \in DOMAIN csv.rows PROVE TaskOf(csv.rows[k]) \in Task
  <2>1. csv.rows[k] \in ToSet(csv.rows)
    BY DEF ToSet
  <2>2. TaskRowConverts(csv.rows[k])
    BY <2>1 DEF AllConvert
  <2>. QED  BY <1>4, <1>5, <2>1, <2>2, TaskOfType
<1>7. DOMAIN csv.rows = 1 .. Len(csv.rows) /\ Len(csv.rows) \in Nat
  <2>1. csv.rows \in Seq(Seq(Seq(Token)))
    BY <1>4 DEF Table
  <2>. QED  BY <2>1, LenProperties
<1>. DEFINE tasks == [k \in DOMAIN csv.rows |-> TaskOf(csv.rows[k])]
            n == Len(csv.rows)
<1>8. tasks = [k \in 1 .. n |-> tasks[k]] /\ n \in Nat
      /\ \A k \in 1 .. n : tasks[k] \in Task
  BY <1>6, <1>7
<1>. HIDE DEF tasks, n
<1>9. tasks \in Seq(Task)
  BY <1>8, AllInSeq
<1>. QED  BY <1>9 DEF tasks

(* The rows of ops.csv become the operations of a workload.                *)
LEMMA OpsAreMade ==
    ASSUME LoadingInv, outcome = "making ops", MakeOps
    PROVE  work' \in Workload
<1>1. PICK f \in Files : opsFile = f[2]
  BY DEF LoadingInv
<1>2. Readable(f[2]) /\ csv = ParseCSV(f[2])
  BY <1>1 DEF LoadingInv
<1>3. f[2] \in Seq(Seq(Token))
  BY FilesAssumption DEF FilesAssumption
<1>4. csv \in Table /\ Rectangular(csv)
  BY <1>2, <1>3, ReadableTable
<1>5. /\ 0 \in Addresses
      /\ NumbersOf(ColumnOf(csv, "address"), "hex") \subseteq Addresses
  BY <1>2, FilesAssumption, Zenon DEF FilesAssumption
<1>6. \A fields \in ToSet(csv.rows) : OpOf(fields) \in Op
  <2>. TAKE fields \in ToSet(csv.rows)
  <2>1. OpRowConverts(fields)
    BY DEF MakeOps, AllConvert
  <2>. QED  BY <1>4, <1>5, <2>1, OpOfType
<1>7. PICK tasks \in Seq(Task) : work = [tasks |-> tasks, ops |-> NoOps]
  BY DEF LoadingInv
<1>. DEFINE choices == [id \in Ids |-> Arrangements(OpsRowsOf(id))]
<1>8. PICK ops \in [Ids -> UNION {choices[id] : id \in Ids}] :
         /\ \A id \in Ids : ops[id] \in choices[id]
         /\ work' = [work EXCEPT !.ops =
                        [id \in TaskIds |-> IF id \in Ids THEN ops[id] ELSE <<>>]]
  BY DEF MakeOps
<1>9. ASSUME NEW id \in Ids PROVE ops[id] \in Seq(Op)
  <2>1. ops[id] \in Arrangements(OpsRowsOf(id))
    BY <1>8
  <2>2. OpsRowsOf(id) \in Seq(ToSet(csv.rows))
    BY <1>4, RowsOfType
  <2>. QED  BY <1>6, <2>1, <2>2, ArrangedType
<1>. DEFINE all == [id \in TaskIds |-> IF id \in Ids THEN ops[id] ELSE <<>>]
<1>10. all \in [TaskIds -> Seq(Op)]
  <2>1. <<>> \in Seq(Op)
    BY EmptySeq
  <2>. QED  BY <1>9, <2>1
<1>11. work' = [tasks |-> tasks, ops |-> all]
  <2>. HIDE DEF all
  <2>1. work' = [work EXCEPT !.ops = all]
    BY <1>8 DEF all
  <2>. QED  BY <1>7, <2>1
<1>. HIDE DEF all
<1>. QED  BY <1>10, <1>11 DEF Workload

(* Every step of the loader keeps the invariant of the loading.            *)
LEMMA LoadingStep ==
    ASSUME LoadingInv, [LoaderNext]_<<vars, loaderVars>>
    PROVE  LoadingInv'
<1>1. CASE LoadFromCSV
  <2>1. \E f \in Files : tasksFile' = f[1] /\ opsFile' = f[2]
    BY <1>1 DEF LoadFromCSV, LoadingInv
  <2>2. tasksFile' = tasksFile /\ opsFile' = opsFile
    BY <1>1 DEF LoadFromCSV
  <2>3. CASE outcome = "reading tasks" /\ Parse(tasksFile) /\ outcome' = "making tasks"
    BY <2>1, <2>2, <2>3 DEF Parse, LoadingInv, WorkloadLoaded, Loaded
  <2>4. CASE outcome = "making tasks" /\ MakeTasks /\ outcome' = "reading ops"
    <3>. DEFINE tasks == [k \in DOMAIN csv.rows |-> TaskOf(csv.rows[k])]
    <3>1. tasks \in Seq(Task)
      BY <2>4, TasksAreMade DEF MakeTasks
    <3>2. work' = [work EXCEPT !.tasks = tasks]
      BY <2>4 DEF MakeTasks
    <3>3. work = [tasks |-> <<>>, ops |-> NoOps]
      BY <2>4 DEF LoadingInv
    <3>. HIDE DEF tasks
    <3>4. work' = [tasks |-> tasks, ops |-> NoOps]
      BY <3>2, <3>3
    <3>5. \E t \in Seq(Task) : work' = [tasks |-> t, ops |-> NoOps]
      BY <3>1, <3>4
    <3>. QED  BY <2>1, <2>4, <3>5 DEF LoadingInv, WorkloadLoaded, Loaded
  <2>5. CASE outcome = "reading ops" /\ Parse(opsFile) /\ outcome' = "making ops"
    BY <2>1, <2>2, <2>5 DEF Parse, LoadingInv, WorkloadLoaded, Loaded
  <2>6. CASE outcome = "making ops" /\ MakeOps /\ outcome' = "searching"
    <3>1. work' \in Workload
      BY <2>6, OpsAreMade
    <3>. QED  BY <2>1, <2>6, <3>1 DEF LoadingInv, WorkloadLoaded
  <2>. QED  BY <1>1, <2>3, <2>4, <2>5, <2>6 DEF LoadFromCSV
<1>2. CASE Reject
  BY <1>2 DEF Reject, LoadingInv, WorkloadLoaded, Loaded, loaderVars
<1>3. CASE Search /\ UNCHANGED loaderVars
  <2>1. work' = work /\ outcome = "searching" /\ work \in Workload
    BY <1>3 DEF Search, LoadingInv, WorkloadLoaded, Loaded
  <2>2. outcome' \in {"searching", "cycle", "acyclic"}
    BY <1>3 DEF Search, NextRow, NextSuccessor, Leave, Finish
  <2>. QED  BY <1>3, <2>1, <2>2 DEF LoadingInv, WorkloadLoaded, loaderVars
<1>4. CASE UNCHANGED <<vars, loaderVars>>
  BY <1>4 DEF vars, loaderVars, LoadingInv, WorkloadLoaded, Loaded
<1>. QED  BY <1>1, <1>2, <1>3, <1>4 DEF LoaderNext, Returned

(* What loadFromCSV() makes of the files it does not reject is a workload. *)
THEOREM WorkloadsAreLoaded ==
    LoaderSpec => [](Loaded => work \in Workload)
<1>1. LoaderInit => LoadingInv
  BY DEF LoaderInit, LoadingInv, NoOps, WorkloadLoaded, Loaded
<1>2. LoadingInv /\ [LoaderNext]_<<vars, loaderVars>> => LoadingInv'
  BY LoadingStep
<1>3. LoadingInv => (Loaded => work \in Workload)
  BY DEF LoadingInv, WorkloadLoaded
<1>. QED  BY <1>1, <1>2, <1>3, PTL DEF LoaderSpec
-----------------------------------------------------------------------------
(* Whom an adjacency list names: the tasks with a row that names the task. *)
LEMMA AdjacencyOf ==
    ASSUME NEW w \in Workload, NEW id
    PROVE  /\ AdjacencyList(w, id) \in Seq({w.tasks[r].id : r \in Rows(w)})
           /\ ToSet(AdjacencyList(w, id)) =
                 {w.tasks[r].id : r \in {s \in Rows(w) : Naming(w, s, id) # {}}}
<1>. DEFINE S == {w.tasks[r].id : r \in Rows(w)}
            entries(r) == [n \in 1 .. Cardinality(Naming(w, r, id)) |-> w.tasks[r].id]
            seqs == [r \in Rows(w) |-> entries(r)]
<1>1. w.tasks \in Seq(Task)
  BY DEF Workload
<1>2. Rows(w) = 1 .. Len(w.tasks) /\ Len(w.tasks) \in Nat
  BY <1>1 DEF Rows
<1>3. ASSUME NEW r \in Rows(w)
      PROVE  /\ Cardinality(Naming(w, r, id)) \in Nat
             /\ Cardinality(Naming(w, r, id)) = 0 <=> Naming(w, r, id) = {}
  <2>1. w.tasks[r] \in Task
    BY <1>1, <1>2
  <2>2. w.tasks[r].deps \in Seq(TaskIds)
    BY <2>1 DEF Task
  <2>3. IsFiniteSet(DOMAIN w.tasks[r].deps)
    BY <2>2, FS_Interval
  <2>4. Naming(w, r, id) \in SUBSET (DOMAIN w.tasks[r].deps)
    BY DEF Naming
  <2>5. IsFiniteSet(Naming(w, r, id))
    BY <2>3, <2>4, FS_Subset
  <2>. QED  BY <2>5, FS_CardinalityType, FS_EmptySet
<1>4. ASSUME NEW r \in Rows(w)
      PROVE  /\ entries(r) \in Seq(S)
             /\ ToSet(entries(r)) =
                   IF Naming(w, r, id) = {} THEN {} ELSE {w.tasks[r].id}
  <2>. DEFINE n == Cardinality(Naming(w, r, id))
  <2>1. n \in Nat /\ (n = 0 <=> Naming(w, r, id) = {})
    BY <1>3
  <2>. HIDE DEF n
  <2>2. [k \in 1 .. n |-> w.tasks[r].id] \in Seq(S)
    BY <2>1
  <2>3. ToSet([k \in 1 .. n |-> w.tasks[r].id]) =
            IF n = 0 THEN {} ELSE {w.tasks[r].id}
    <3>1. CASE n = 0
      BY <3>1 DEF ToSet
    <3>2. CASE n # 0
      <4>1. 1 \in 1 .. n
        BY <2>1, <3>2
      <4>. QED  BY <3>2, <4>1 DEF ToSet
    <3>. QED  BY <3>1, <3>2
  <2>. QED  BY <2>1, <2>2, <2>3 DEF n
<1>. HIDE DEF entries
<1>5. seqs \in Seq(Seq(S)) /\ Len(seqs) = Len(w.tasks)
  BY <1>2, <1>4
<1>6. AdjacencyList(w, id) = FlattenSeq(seqs)
  BY DEF AdjacencyList, entries
<1>7. /\ FlattenSeq(seqs) \in Seq(S)
      /\ ToSet(FlattenSeq(seqs)) = UNION {ToSet(seqs[k]) : k \in 1 .. Len(seqs)}
  <2>. HIDE DEF S, seqs
  <2>. QED  BY <1>5, FlattenIsUnion
<1>8. UNION {ToSet(seqs[k]) : k \in Rows(w)} =
          {w.tasks[r].id : r \in {s \in Rows(w) : Naming(w, s, id) # {}}}
  <2>1. \A k \in Rows(w) : ToSet(seqs[k]) =
            IF Naming(w, k, id) = {} THEN {} ELSE {w.tasks[k].id}
    BY <1>4
  <2>. HIDE DEF seqs
  <2>2. ASSUME NEW x
        PROVE  x \in UNION {ToSet(seqs[k]) : k \in Rows(w)}
               <=> \E k \in Rows(w) : Naming(w, k, id) # {} /\ x = w.tasks[k].id
    <3>1. x \in UNION {ToSet(seqs[k]) : k \in Rows(w)}
             <=> \E k \in Rows(w) : x \in ToSet(seqs[k])
      OBVIOUS
    <3>. QED  BY <2>1, <3>1
  <2>. QED  BY <2>2
<1>. QED  BY <1>2, <1>5, <1>6, <1>7, <1>8

-----------------------------------------------------------------------------
(* THE SEARCH                                                              *)

Frames == [id : Ids, next : Nat \ {0}]

Adjacent(id) == AdjacencyList(work, id)

Visited == {id \in Ids : state[id] = 2}

SearchTypeOK ==
    /\ state \in [Ids -> 0 .. 2]
    /\ path \in Seq(Frames)
    /\ row \in 1 .. Len(work.tasks) + 1

(* The tasks being visited are those on the path, each once.               *)
GreyIsPath ==
    /\ \A id \in Ids : state[id] = 1 <=> \E k \in 1 .. Len(path) : path[k].id = id
    /\ \A j, k \in 1 .. Len(path) : path[j].id = path[k].id => j = k

(* Each frame is where its caller's position last was.                     *)
Called ==
    \A k \in 1 .. Len(path) - 1 :
        /\ path[k].next - 1 \in DOMAIN Adjacent(path[k].id)
        /\ Adjacent(path[k].id)[path[k].next - 1] = path[k + 1].id

(* A successor that was passed is visited, but for the one being called.   *)
PassedIsVisited ==
    \A k \in 1 .. Len(path) : \A j \in DOMAIN Adjacent(path[k].id) :
        j < path[k].next =>
            \/ Adjacent(path[k].id)[j] \in Visited
            \/ k < Len(path) /\ Adjacent(path[k].id)[j] = path[k + 1].id

(* Successors are visited before the task is.                              *)
VisitedIsClosed ==
    \A id \in Visited : ToSet(Adjacent(id)) \subseteq Visited

(* Among visited tasks, the one that was visited first has no successor.   *)
VisitedIsAcyclic ==
    \A ids \in SUBSET Visited :
        ids # {} => \E a \in ids : ToSet(Adjacent(a)) \cap ids = {}

RowsBegun == \A r \in 1 .. row - 1 : state[work.tasks[r].id] # 0

SearchInv ==
    /\ SearchTypeOK
    /\ GreyIsPath
    /\ Called
    /\ PassedIsVisited
    /\ VisitedIsClosed
    /\ VisitedIsAcyclic
    /\ RowsBegun
    /\ VerdictCorrect

(* Until the files are loaded, the search has not begun.                   *)
NotBegun == row = 1 /\ state = <<>> /\ path = <<>>

LoaderInv == IF Loaded THEN SearchInv ELSE NotBegun
-----------------------------------------------------------------------------
(* The ids of the rows, and their adjacency lists.                         *)
LEMMA RowIds ==
    ASSUME work \in Workload
    PROVE  /\ Rows(work) = 1 .. Len(work.tasks) /\ Len(work.tasks) \in Nat
           /\ \A r \in Rows(work) : work.tasks[r].id \in Ids
           /\ \A id \in Ids : /\ Adjacent(id) \in Seq(Ids)
                              /\ DOMAIN Adjacent(id) = 1 .. Len(Adjacent(id))
                              /\ Len(Adjacent(id)) \in Nat
                              /\ ToSet(Adjacent(id)) \subseteq Ids
<1>1. work.tasks \in Seq(Task)
  BY DEF Workload
<1>2. \A id : Adjacent(id) \in Seq(Ids)
  BY AdjacencyOf DEF Adjacent, Ids
<1>3. ASSUME NEW id
      PROVE  /\ DOMAIN Adjacent(id) = 1 .. Len(Adjacent(id))
             /\ Len(Adjacent(id)) \in Nat
             /\ ToSet(Adjacent(id)) \subseteq Ids
  <2>1. Adjacent(id) \in Seq(Ids)
    BY <1>2
  <2>. HIDE DEF Adjacent
  <2>. QED  BY <2>1 DEF ToSet
<1>. QED  BY <1>1, <1>2, <1>3 DEF Rows, Ids

(* A cycle, said with adjacency lists.                                     *)
LEMMA CycleIs ==
    ASSUME work \in Workload
    PROVE  HasCycle(work) <=>
              \E ids \in (SUBSET Ids) \ {{}} :
                  \A a \in ids : ToSet(Adjacent(a)) \cap ids # {}
<1>1. ASSUME NEW ids \in SUBSET Ids, NEW a \in ids
      PROVE  (\E r \in Rows(work) : \E p \in DOMAIN work.tasks[r].deps :
                 work.tasks[r].id \in ids /\ work.tasks[r].deps[p] = a)
             <=> ToSet(Adjacent(a)) \cap ids # {}
  <2>1. ToSet(Adjacent(a)) =
           {work.tasks[r].id : r \in {s \in Rows(work) : Naming(work, s, a) # {}}}
    BY AdjacencyOf DEF Adjacent
  <2>. QED  BY <2>1 DEF Naming
<1>. QED  BY <1>1, Zenon DEF HasCycle, Ids

(* What the invariant says while the tasks visited stay the same.          *)
LEMMA VisitedStays ==
    ASSUME VisitedIsClosed, VisitedIsAcyclic, work' = work, Visited' = Visited
    PROVE  VisitedIsClosed' /\ VisitedIsAcyclic'
<1>1. VisitedIsClosed'
  BY Zenon DEF VisitedIsClosed, Adjacent
<1>2. VisitedIsAcyclic'
  BY Zenon DEF VisitedIsAcyclic, Adjacent
<1>. QED  BY <1>1, <1>2

(* A call of dfsVisit() for an unvisited task: stack is the path with the  *)
(* caller's position advanced past it.                                     *)
LEMMA Entering ==
    ASSUME work \in Workload, SearchInv, work' = work,
           NEW id \in Ids, state[id] = 0,
           NEW stack \in Seq(Frames), Len(stack) = Len(path),
           \A k \in 1 .. Len(path) : stack[k].id = path[k].id,
           \A k \in 1 .. Len(path) - 1 : stack[k].next = path[k].next,
           Len(path) # 0 =>
              LET n == Len(path)
                  list == AdjacencyList(work, path[n].id)
              IN  /\ path[n].next \in DOMAIN list
                  /\ list[path[n].next] = id
                  /\ stack[n].next = path[n].next + 1,
           Enter(id, stack)
    PROVE  /\ state' \in [Ids -> 0 .. 2] /\ path' \in Seq(Frames)
           /\ GreyIsPath' /\ Called' /\ PassedIsVisited'
           /\ VisitedIsClosed' /\ VisitedIsAcyclic'
           /\ \A x \in Ids : state[x] # 0 => state'[x] # 0
<1>. DEFINE n == Len(path)
            frame == [id |-> id, next |-> 1]
<1>1. /\ state \in [Ids -> 0 .. 2] /\ n \in Nat
      /\ \A k \in 1 .. n : path[k] \in Frames /\ stack[k] \in Frames
  BY DEF SearchInv, SearchTypeOK
<1>2. /\ state' = [state EXCEPT ![id] = 1]
      /\ path' = Append(stack, frame)
  BY DEF Enter, Frame
<1>3. frame \in Frames
  BY DEF Frames
<1>4. /\ path' \in Seq(Frames) /\ Len(path') = n + 1
      /\ \A k \in 1 .. n : path'[k] = stack[k]
      /\ path'[n + 1] = frame
  BY <1>1, <1>2, <1>3, AppendProperties
<1>5. state' \in [Ids -> 0 .. 2]
  BY <1>1, <1>2
<1>6. state'[id] = 1 /\ \A x \in Ids : x # id => state'[x] = state[x]
  BY <1>1, <1>2
<1>7. \A k \in 1 .. n : path[k].id # id /\ path[k].id \in Ids
  <2>1. ASSUME NEW k \in 1 .. n PROVE path[k].id \in Ids /\ state[path[k].id] = 1
    BY <1>1 DEF SearchInv, GreyIsPath, Frames
  <2>. QED  BY <2>1
<1>8. Ids' = Ids
  BY DEF Ids
<1>9. Visited' = Visited
  BY <1>1, <1>6, <1>8 DEF Visited
<1>10. \A k \in 1 .. n : path'[k].id = path[k].id
  BY <1>4
<1>11. path'[n + 1].id = id /\ path'[n + 1].next = 1
  BY <1>4
<1>12. GreyIsPath'
  <2>1. /\ \A x \in Ids : state[x] = 1 <=> \E k \in 1 .. n : path[k].id = x
        /\ \A j, k \in 1 .. n : path[j].id = path[k].id => j = k
    BY DEF SearchInv, GreyIsPath
  <2>2. ASSUME NEW x \in Ids
        PROVE  state'[x] = 1 <=> \E k \in 1 .. n + 1 : path'[k].id = x
    <3>1. CASE x = id
      <4>1. n + 1 \in 1 .. n + 1
        BY <1>1
      <4>. QED  BY <3>1, <4>1, <1>6, <1>11
    <3>2. CASE x # id
      <4>1. \A k \in 1 .. n + 1 : k \in 1 .. n \/ k = n + 1
        BY <1>1
      <4>2. \A k \in 1 .. n : k \in 1 .. n + 1
        BY <1>1
      <4>3. (\E k \in 1 .. n + 1 : path'[k].id = x) <=> \E k \in 1 .. n : path[k].id = x
        BY <3>2, <4>1, <4>2, <1>10, <1>11
      <4>. QED  BY <2>1, <3>2, <4>3, <1>6
    <3>. QED  BY <3>1, <3>2
  <2>3. ASSUME NEW j \in 1 .. n + 1, NEW k \in 1 .. n + 1, path'[j].id = path'[k].id
        PROVE  j = k
    <3>1. (j \in 1 .. n \/ j = n + 1) /\ (k \in 1 .. n \/ k = n + 1)
      BY <1>1
    <3>. QED  BY <2>1, <2>3, <3>1, <1>7, <1>10, <1>11
  <2>. QED  BY <2>2, <2>3, <1>4, <1>8 DEF GreyIsPath
<1>13. Called'
  <2>. SUFFICES ASSUME NEW k \in 1 .. n
                PROVE  LET list == AdjacencyList(work, path'[k].id)
                       IN  /\ path'[k].next - 1 \in DOMAIN list
                           /\ list[path'[k].next - 1] = path'[k + 1].id
    <3>1. Len(path') - 1 = n
      BY <1>1, <1>4
    <3>. QED  BY <3>1 DEF Called, Adjacent
  <2>1. CASE k = n
    <3>1. /\ stack[n].next = path[n].next + 1 /\ path[n].next \in Nat
          /\ path[n].next \in DOMAIN AdjacencyList(work, path[n].id)
          /\ AdjacencyList(work, path[n].id)[path[n].next] = id
      BY <2>1, <1>1 DEF Frames
    <3>2. path'[n].next - 1 = path[n].next
      BY <3>1, <2>1, <1>4
    <3>. QED  BY <2>1, <3>1, <3>2, <1>10, <1>11
  <2>2. CASE k # n
    <3>1. k \in 1 .. n - 1 /\ k + 1 \in 1 .. n
      BY <1>1, <2>2
    <3>2. path'[k].next = path[k].next
      BY <3>1, <1>4
    <3>3. /\ path[k].next - 1 \in DOMAIN AdjacencyList(work, path[k].id)
          /\ AdjacencyList(work, path[k].id)[path[k].next - 1] = path[k + 1].id
      BY <3>1 DEF SearchInv, Called, Adjacent
    <3>. QED  BY <3>1, <3>2, <3>3, <1>10
  <2>. QED  BY <2>1, <2>2
<1>14. PassedIsVisited'
  <2>. SUFFICES ASSUME NEW k \in 1 .. n + 1,
                       NEW j \in DOMAIN AdjacencyList(work, path'[k].id),
                       j < path'[k].next
                PROVE  \/ AdjacencyList(work, path'[k].id)[j] \in Visited
                       \/ /\ k < n + 1
                          /\ AdjacencyList(work, path'[k].id)[j] = path'[k + 1].id
    BY <1>4, <1>9 DEF PassedIsVisited, Adjacent
  <2>1. CASE k = n + 1
    <3>1. AdjacencyList(work, path'[k].id) \in Seq(Ids)
      BY AdjacencyOf DEF Ids
    <3>2. j \in Nat \ {0} /\ path'[k].next = 1
      BY <2>1, <3>1, <1>11
    <3>. QED  BY <3>2
  <2>2. CASE k = n
    <3>1. /\ stack[n].next = path[n].next + 1 /\ path[n].next \in Nat
          /\ AdjacencyList(work, path[n].id)[path[n].next] = id
      BY <2>2, <1>1 DEF Frames
    <3>2. path'[k].id = path[n].id /\ path'[k].next = path[n].next + 1
      BY <2>2, <3>1, <1>4
    <3>3. j \in Nat
      <4>1. AdjacencyList(work, path'[k].id) \in Seq(Ids)
        BY AdjacencyOf DEF Ids
      <4>. QED  BY <4>1
    <3>4. CASE j = path[n].next
      BY <2>2, <3>1, <3>2, <3>4, <1>1, <1>11
    <3>5. CASE j < path[n].next
      <4>1. n \in 1 .. n /\ ~(n < n)
        BY <2>2, <1>1
      <4>. QED  BY <3>2, <3>5, <4>1 DEF SearchInv, PassedIsVisited, Adjacent
    <3>. QED  BY <3>1, <3>2, <3>3, <3>4, <3>5
  <2>3. CASE k \in 1 .. n - 1
    <3>1. k \in 1 .. n /\ k + 1 \in 1 .. n /\ k < n /\ k < n + 1
      BY <1>1, <2>3
    <3>2. path'[k].next = path[k].next /\ path'[k].id = path[k].id
          /\ path'[k + 1].id = path[k + 1].id
      BY <2>3, <3>1, <1>4, <1>10
    <3>. QED  BY <3>1, <3>2 DEF SearchInv, PassedIsVisited, Adjacent
  <2>. QED  BY <2>1, <2>2, <2>3, <1>1
<1>15. VisitedIsClosed' /\ VisitedIsAcyclic'
  BY <1>9, VisitedStays DEF SearchInv
<1>16. Frames' = Frames
  BY <1>8 DEF Frames
<1>. QED  BY <1>4, <1>5, <1>6, <1>12, <1>13, <1>14, <1>15

(* A step of the loop of detectCycles() keeps the invariant.               *)
LEMMA NextRowKeeps ==
    ASSUME work \in Workload, SearchInv, outcome = "searching", NextRow, work' = work
    PROVE  SearchInv'
<1>1. /\ path = <<>> /\ row \in 1 .. Len(work.tasks) /\ row' = row + 1
      /\ outcome' = outcome /\ work.tasks[row].id \in Ids
  BY RowIds DEF NextRow
<1>2. Len(work.tasks) \in Nat
  BY RowIds
<1>3. row' \in 1 .. Len(work'.tasks) + 1
  BY <1>1, <1>2
<1>4. VerdictCorrect'
  BY <1>1 DEF VerdictCorrect
<1>5. Ids' = Ids /\ Frames' = Frames
  BY DEF Frames, Ids
<1>6. \A r \in 1 .. row' - 1 : r \in 1 .. row - 1 \/ r = row
  BY <1>1, <1>2
<1>7. \A r \in 1 .. row - 1 : /\ state[work.tasks[r].id] # 0
                              /\ work.tasks[r].id \in Ids
  <2>1. \A r \in 1 .. row - 1 : r \in 1 .. Len(work.tasks)
    BY <1>1, <1>2
  <2>2. \A r \in 1 .. row - 1 : state[work.tasks[r].id] # 0
    BY DEF SearchInv, RowsBegun
  <2>. QED  BY <2>1, <2>2, RowIds
<1>8. CASE state[work.tasks[row].id] = 0 /\ Enter(work.tasks[row].id, path)
  <2>1. path \in Seq(Frames) /\ Len(path) = 0 /\ state \in [Ids -> 0 .. 2]
    BY <1>1 DEF SearchInv, SearchTypeOK
  <2>2. /\ state' \in [Ids -> 0 .. 2] /\ path' \in Seq(Frames)
        /\ GreyIsPath' /\ Called' /\ PassedIsVisited'
        /\ VisitedIsClosed' /\ VisitedIsAcyclic'
        /\ \A x \in Ids : state[x] # 0 => state'[x] # 0
    BY <1>1, <1>8, <2>1, Entering
  <2>3. state'[work.tasks[row].id] # 0
    BY <1>1, <1>8, <2>1 DEF Enter
  <2>4. RowsBegun'
    BY <1>6, <1>7, <2>2, <2>3 DEF RowsBegun
  <2>. QED  BY <1>3, <1>4, <1>5, <2>2, <2>4 DEF SearchInv, SearchTypeOK
<1>9. CASE state[work.tasks[row].id] # 0 /\ UNCHANGED <<state, path>>
  <2>1. RowsBegun'
    BY <1>6, <1>7, <1>9 DEF RowsBegun
  <2>2. Visited' = Visited
    BY <1>5, <1>9 DEF Visited
  <2>3. VisitedIsClosed' /\ VisitedIsAcyclic'
    BY <2>2, VisitedStays DEF SearchInv
  <2>4. GreyIsPath' /\ Called'
    BY <1>5, <1>9, Zenon DEF SearchInv, GreyIsPath, Called, Adjacent
  <2>5. PassedIsVisited'
    BY <2>2, <1>9, Zenon DEF SearchInv, PassedIsVisited, Adjacent
  <2>6. state' \in [Ids' -> 0 .. 2] /\ path' \in Seq(Frames')
    BY <1>5, <1>9 DEF SearchInv, SearchTypeOK
  <2>. QED  BY <1>3, <1>4, <2>1, <2>3, <2>4, <2>5, <2>6 DEF SearchInv, SearchTypeOK
<1>. QED  BY <1>8, <1>9 DEF NextRow

(* A frame of the path names a task, and its position is a number.         *)
LEMMA FrameOf ==
    ASSUME SearchTypeOK
    PROVE  /\ path \in Seq(Frames) /\ Len(path) \in Nat
           /\ path # <<>> <=> Len(path) # 0
           /\ \A k \in 1 .. Len(path) : /\ path[k] \in Frames
                                        /\ path[k].id \in Ids
                                        /\ path[k].next \in Nat \ {0}
<1>1. path \in Seq(Frames)
  BY DEF SearchTypeOK
<1>2. ASSUME NEW k \in 1 .. Len(path)
      PROVE  path[k] \in Frames /\ path[k].id \in Ids /\ path[k].next \in Nat \ {0}
  <2>1. path[k] \in Frames
    BY <1>1, ElementOfSeq
  <2>. QED  BY <2>1 DEF Frames
<1>3. Len(path) \in Nat /\ (path # <<>> <=> Len(path) # 0)
  BY <1>1, EmptySeq, LenProperties
<1>. QED  BY <1>1, <1>2, <1>3

(* A successor that is being visited closes a cycle: the tasks from its    *)
(* place on the path to the top.                                           *)
LEMMA GreyClosesCycle ==
    ASSUME work \in Workload, SearchInv, path # <<>>,
           Top.next \in DOMAIN Successors, state[Successors[Top.next]] = 1
    PROVE  HasCycle(work)
<1>. DEFINE n == Len(path)
            list == AdjacencyList(work, path[n].id)
<1>1. /\ path \in Seq(Frames) /\ n \in Nat \ {0}
      /\ \A k \in 1 .. n : path[k] \in Frames /\ path[k].id \in Ids
  BY FrameOf DEF SearchInv
<1>2. /\ path[n].next \in DOMAIN list /\ state[list[path[n].next]] = 1
      /\ list[path[n].next] \in ToSet(Adjacent(path[n].id))
  BY DEF Top, Successors, ToSet, Adjacent
<1>3. list[path[n].next] \in Ids
  BY <1>1, <1>2, RowIds
<1>4. PICK m \in 1 .. n : path[m].id = list[path[n].next]
  BY <1>2, <1>3 DEF SearchInv, GreyIsPath
<1>. DEFINE ids == {path[k].id : k \in m .. n}
<1>5. ids \in (SUBSET Ids) \ {{}}
  <2>1. n \in m .. n /\ \A k \in m .. n : k \in 1 .. n
    BY <1>1
  <2>2. path[n].id \in ids /\ \A k \in m .. n : path[k].id \in Ids
    BY <1>1, <2>1
  <2>. QED  BY <2>2
<1>6. ASSUME NEW a \in ids PROVE ToSet(Adjacent(a)) \cap ids # {}
  <2>1. PICK k \in m .. n : a = path[k].id
    OBVIOUS
  <2>2. CASE k = n
    <3>1. path[m].id \in ids
      BY <1>1
    <3>. QED  BY <1>2, <1>4, <2>1, <2>2, <3>1
  <2>3. CASE k # n
    <3>1. k \in 1 .. n - 1 /\ k + 1 \in m .. n
      BY <1>1, <2>3
    <3>2. path[k + 1].id \in ToSet(Adjacent(path[k].id))
      BY <3>1, Zenon DEF SearchInv, Called, ToSet
    <3>. QED  BY <2>1, <3>1, <3>2
  <2>. QED  BY <2>2, <2>3
<1>. HIDE DEF ids
<1>. QED  BY <1>5, <1>6, CycleIs

(* A step of the loop of dfsVisit() keeps the invariant.                   *)
LEMMA NextSuccessorKeeps ==
    ASSUME work \in Workload, SearchInv, outcome = "searching", NextSuccessor,
           work' = work
    PROVE  SearchInv'
<1>. DEFINE n == Len(path)
            list == AdjacencyList(work, path[n].id)
            successor == list[path[n].next]
            advanced == [path EXCEPT ![n].next = @ + 1]
<1>1. /\ path \in Seq(Frames) /\ n \in Nat \ {0} /\ state \in [Ids -> 0 .. 2]
      /\ \A k \in 1 .. n : /\ path[k] \in Frames /\ path[k].id \in Ids
                           /\ path[k].next \in Nat \ {0}
  BY FrameOf DEF SearchInv, SearchTypeOK, NextSuccessor
<1>2. /\ path[n].next \in DOMAIN list /\ row' = row
      /\ \/ state[successor] = 1 /\ outcome' = "cycle" /\ UNCHANGED <<state, path>>
         \/ state[successor] = 0 /\ Enter(successor, advanced) /\ UNCHANGED outcome
         \/ state[successor] = 2 /\ path' = advanced /\ UNCHANGED <<state, outcome>>
  BY DEF NextSuccessor, Top, Successors
<1>3. successor \in Ids
  BY <1>1, <1>2, RowIds DEF ToSet, Adjacent
<1>4. /\ Ids' = Ids /\ Frames' = Frames /\ row' \in 1 .. Len(work'.tasks) + 1
  BY <1>2 DEF Frames, Ids, SearchInv, SearchTypeOK
<1>5. /\ advanced \in Seq(Frames) /\ Len(advanced) = n
      /\ \A k \in 1 .. n : advanced[k].id = path[k].id
      /\ \A k \in 1 .. n - 1 : advanced[k] = path[k]
      /\ advanced[n].next = path[n].next + 1
  <2>1. n \in 1 .. n
    BY <1>1
  <2>. DEFINE frame == [path[n] EXCEPT !.next = path[n].next + 1]
  <2>2. /\ frame = [id |-> path[n].id, next |-> path[n].next + 1]
        /\ frame \in Frames
    BY <1>1, <2>1 DEF Frames
  <2>3. advanced = [path EXCEPT ![n] = frame]
    BY <1>1, <2>1
  <2>. HIDE DEF frame
  <2>4. [path EXCEPT ![n] = frame] \in Seq(Frames)
        /\ Len([path EXCEPT ![n] = frame]) = n
    BY <1>1, <2>1, <2>2, ExceptSeq
  <2>5. \A k \in 1 .. n : advanced[k] = IF k = n THEN frame ELSE path[k]
    BY <1>1, <2>3
  <2>6. frame.id = path[n].id /\ frame.next = path[n].next + 1
    BY <2>2
  <2>7. \A k \in 1 .. n - 1 : k \in 1 .. n /\ k # n
    BY <1>1
  <2>. HIDE DEF advanced
  <2>. QED  BY <2>1, <2>3, <2>4, <2>5, <2>6, <2>7
<1>. HIDE DEF advanced
<1>6. ASSUME UNCHANGED <<state, path>>, VerdictCorrect'
      PROVE  SearchInv'
  <2>1. RowsBegun'
    BY <1>2, <1>6, Zenon DEF SearchInv, RowsBegun
  <2>2. Visited' = Visited
    BY <1>4, <1>6 DEF Visited
  <2>3. VisitedIsClosed' /\ VisitedIsAcyclic'
    BY <2>2, VisitedStays DEF SearchInv
  <2>4. GreyIsPath' /\ Called'
    BY <1>4, <1>6, Zenon DEF SearchInv, GreyIsPath, Called, Adjacent
  <2>5. PassedIsVisited'
    BY <2>2, <1>6, Zenon DEF SearchInv, PassedIsVisited, Adjacent
  <2>. QED  BY <1>1, <1>4, <1>6, <2>1, <2>3, <2>4, <2>5 DEF SearchInv, SearchTypeOK
<1>7. CASE state[successor] = 1 /\ outcome' = "cycle" /\ UNCHANGED <<state, path>>
  <2>1. HasCycle(work)
    BY <1>1, <1>2, <1>7, GreyClosesCycle DEF Top, Successors, NextSuccessor
  <2>2. VerdictCorrect'
    BY <1>7, <2>1 DEF VerdictCorrect
  <2>. QED  BY <1>6, <1>7, <2>2
<1>8. CASE state[successor] = 0 /\ Enter(successor, advanced) /\ UNCHANGED outcome
  <2>1. /\ state' \in [Ids -> 0 .. 2] /\ path' \in Seq(Frames)
        /\ GreyIsPath' /\ Called' /\ PassedIsVisited'
        /\ VisitedIsClosed' /\ VisitedIsAcyclic'
        /\ \A x \in Ids : state[x] # 0 => state'[x] # 0
    <3>. HIDE DEF successor
    <3>. QED  BY <1>1, <1>2, <1>3, <1>5, <1>8, Entering DEF successor
  <2>2. RowsBegun'
    <3>1. ASSUME NEW r \in 1 .. row - 1
          PROVE  state[work.tasks[r].id] # 0 /\ work.tasks[r].id \in Ids
      <4>1. r \in 1 .. Len(work.tasks)
        BY RowIds DEF SearchInv, SearchTypeOK
      <4>. QED  BY <4>1, RowIds DEF SearchInv, RowsBegun
    <3>. QED  BY <1>2, <2>1, <3>1 DEF RowsBegun
  <2>3. VerdictCorrect'
    BY <1>8 DEF VerdictCorrect
  <2>. QED  BY <1>4, <2>1, <2>2, <2>3 DEF SearchInv, SearchTypeOK
<1>9. CASE state[successor] = 2 /\ path' = advanced /\ UNCHANGED <<state, outcome>>
  <2>1. /\ path' \in Seq(Frames) /\ Len(path') = n
        /\ \A k \in 1 .. n : path'[k].id = path[k].id
        /\ \A k \in 1 .. n - 1 : path'[k] = path[k]
        /\ path'[n].next = path[n].next + 1
    BY <1>5, <1>9
  <2>2. RowsBegun' /\ VerdictCorrect'
    BY <1>2, <1>9 DEF SearchInv, RowsBegun, VerdictCorrect
  <2>3. Visited' = Visited /\ successor \in Visited
    BY <1>3, <1>4, <1>9 DEF Visited
  <2>4. VisitedIsClosed' /\ VisitedIsAcyclic'
    BY <2>3, VisitedStays DEF SearchInv
  <2>5. GreyIsPath'
    BY <1>4, <1>9, <2>1 DEF SearchInv, GreyIsPath
  <2>6. Called'
    <3>1. \A k \in 1 .. n - 1 : k + 1 \in 1 .. n
      BY <1>1
    <3>. QED  BY <2>1, <3>1 DEF SearchInv, Called, Adjacent
  <2>7. PassedIsVisited'
    <3>. SUFFICES ASSUME NEW k \in 1 .. n,
                         NEW j \in DOMAIN AdjacencyList(work, path[k].id),
                         j < path'[k].next
                  PROVE  \/ AdjacencyList(work, path[k].id)[j] \in Visited
                         \/ /\ k < n
                            /\ AdjacencyList(work, path[k].id)[j] = path'[k + 1].id
      BY <2>1, <2>3 DEF PassedIsVisited, Adjacent
    <3>1. CASE k = n
      <4>1. j \in Nat
        <5>1. AdjacencyList(work, path[k].id) \in Seq(Ids)
          BY AdjacencyOf DEF Ids
        <5>. QED  BY <5>1
      <4>2. CASE j = path[n].next
        BY <3>1, <4>2, <2>3
      <4>3. CASE j < path[n].next
        <5>1. n \in 1 .. n /\ ~(n < n)
          BY <1>1
        <5>. QED  BY <3>1, <4>3, <5>1 DEF SearchInv, PassedIsVisited, Adjacent
      <4>. QED  BY <1>1, <2>1, <3>1, <4>1, <4>2, <4>3
    <3>2. CASE k # n
      <4>1. k \in 1 .. n - 1 /\ k + 1 \in 1 .. n /\ k < n
        BY <1>1, <3>2
      <4>. QED  BY <2>1, <4>1 DEF SearchInv, PassedIsVisited, Adjacent
    <3>. QED  BY <3>1, <3>2
  <2>. QED  BY <1>1, <1>4, <1>9, <2>1, <2>2, <2>4, <2>5, <2>6, <2>7
            DEF SearchInv, SearchTypeOK
<1>. QED  BY <1>2, <1>7, <1>8, <1>9

(* The task on top has no successor left, and all of them are visited.  Of *)
(* a set of visited tasks that it joins, the one without a successor in    *)
(* the set is the one it was before, or the task itself if it is alone.    *)
LEMMA LeaveKeeps ==
    ASSUME work \in Workload, SearchInv, outcome = "searching", Leave, work' = work
    PROVE  SearchInv'
<1>. DEFINE n == Len(path)
            top == path[n].id
            list == AdjacencyList(work, top)
<1>1. /\ path \in Seq(Frames) /\ n \in Nat \ {0} /\ state \in [Ids -> 0 .. 2]
      /\ \A k \in 1 .. n : /\ path[k] \in Frames /\ path[k].id \in Ids
                           /\ path[k].next \in Nat \ {0}
  BY FrameOf DEF SearchInv, SearchTypeOK, Leave
<1>2. /\ path[n].next \notin DOMAIN list /\ row' = row /\ outcome' = outcome
      /\ state' = [state EXCEPT ![top] = 2]
      /\ path' = SubSeq(path, 1, n - 1)
  BY DEF Leave, Top, Successors
<1>3. Ids' = Ids /\ Frames' = Frames /\ row' \in 1 .. Len(work'.tasks) + 1
  BY <1>2 DEF Frames, Ids, SearchInv, SearchTypeOK
<1>4. /\ top \in Ids /\ state[top] = 1 /\ n \in 1 .. n
      /\ \A k \in 1 .. n - 1 : path[k].id # top /\ k \in 1 .. n /\ k < n /\ k + 1 \in 1 .. n
  <2>1. n \in 1 .. n /\ \A k \in 1 .. n - 1 : k \in 1 .. n /\ k # n /\ k < n /\ k + 1 \in 1 .. n
    BY <1>1
  <2>. QED  BY <1>1, <2>1 DEF SearchInv, GreyIsPath
<1>5. /\ path' \in Seq(Frames) /\ Len(path') = n - 1
      /\ \A k \in 1 .. n - 1 : path'[k] = path[k]
  <2>1. n - 1 \in 0 .. n
    BY <1>1
  <2>. QED  BY <1>1, <1>2, <2>1, FrontOf
<1>6. /\ state' \in [Ids -> 0 .. 2] /\ state'[top] = 2
      /\ \A x \in Ids : x # top => state'[x] = state[x]
  BY <1>1, <1>2, <1>4
<1>7. Visited' = Visited \cup {top} /\ top \notin Visited
  BY <1>3, <1>4, <1>6 DEF Visited
<1>8. ToSet(list) \subseteq Visited
  <2>1. list \in Seq(Ids) /\ DOMAIN list = 1 .. Len(list) /\ Len(list) \in Nat
    BY <1>4, RowIds DEF Adjacent
  <2>. PICK next, last : next = path[n].next /\ last = Len(list)
    OBVIOUS
  <2>2. \A j \in DOMAIN list : j < path[n].next /\ ~(n < n)
    <3>1. next \in Nat \ {0} /\ last \in Nat /\ next \notin 1 .. last
      BY <1>1, <1>2, <1>4, <2>1
    <3>2. \A j \in 1 .. last : j < next
      BY ONLY <3>1
    <3>. QED  BY <1>1, <2>1, <3>2
  <2>3. \A j \in DOMAIN list : list[j] \in Visited
    BY <1>4, <2>2 DEF SearchInv, PassedIsVisited, Adjacent
  <2>. QED  BY <2>3 DEF ToSet
<1>9. GreyIsPath'
  <2>1. ASSUME NEW x \in Ids
        PROVE  state'[x] = 1 <=> \E k \in 1 .. n - 1 : path'[k].id = x
    <3>1. CASE x = top
      BY <3>1, <1>4, <1>5, <1>6
    <3>2. CASE x # top
      <4>1. state'[x] = 1 <=> \E k \in 1 .. n : path[k].id = x
        BY <3>2, <1>6 DEF SearchInv, GreyIsPath
      <4>2. \A k \in 1 .. n : k = n \/ k \in 1 .. n - 1
        BY <1>1
      <4>. QED  BY <3>2, <4>1, <4>2, <1>4, <1>5
    <3>. QED  BY <3>1, <3>2
  <2>2. ASSUME NEW j \in 1 .. n - 1, NEW k \in 1 .. n - 1, path'[j].id = path'[k].id
        PROVE  j = k
    BY <2>2, <1>4, <1>5 DEF SearchInv, GreyIsPath
  <2>. QED  BY <2>1, <2>2, <1>3, <1>5 DEF GreyIsPath
<1>10. Called'
  <2>1. \A k \in 1 .. n - 1 - 1 : k \in 1 .. n - 1 /\ k + 1 \in 1 .. n - 1
    BY <1>1
  <2>. QED  BY <1>5, <2>1 DEF SearchInv, Called, Adjacent
<1>11. PassedIsVisited'
  <2>. SUFFICES ASSUME NEW k \in 1 .. n - 1,
                       NEW j \in DOMAIN AdjacencyList(work, path[k].id),
                       j < path[k].next
                PROVE  \/ AdjacencyList(work, path[k].id)[j] \in Visited'
                       \/ /\ k < n - 1
                          /\ AdjacencyList(work, path[k].id)[j] = path'[k + 1].id
    BY <1>5 DEF PassedIsVisited, Adjacent
  <2>1. \/ AdjacencyList(work, path[k].id)[j] \in Visited
        \/ AdjacencyList(work, path[k].id)[j] = path[k + 1].id
    BY <1>4 DEF SearchInv, PassedIsVisited, Adjacent
  <2>2. CASE k + 1 = n
    BY <1>7, <2>1, <2>2
  <2>3. CASE k + 1 # n
    <3>1. k < n - 1 /\ k + 1 \in 1 .. n - 1
      BY <1>1, <2>3
    <3>. QED  BY <1>5, <1>7, <2>1, <3>1
  <2>. QED  BY <2>2, <2>3
<1>12. VisitedIsClosed'
  <2>1. \A id \in Visited' : ToSet(AdjacencyList(work, id)) \subseteq Visited'
    BY <1>7, <1>8 DEF SearchInv, VisitedIsClosed, Adjacent
  <2>. QED  BY <2>1 DEF VisitedIsClosed, Adjacent
<1>13. VisitedIsAcyclic'
  <2>. SUFFICES ASSUME NEW ids \in SUBSET (Visited \cup {top}), ids # {}
                PROVE  \E a \in ids : ToSet(AdjacencyList(work, a)) \cap ids = {}
    BY <1>7 DEF VisitedIsAcyclic, Adjacent
  <2>1. CASE ids \cap Visited = {}
    <3>1. ids = {top}
      BY <2>1
    <3>. QED  BY <1>7, <1>8, <3>1
  <2>2. CASE ids \cap Visited # {}
    <3>1. PICK a \in ids \cap Visited :
             ToSet(AdjacencyList(work, a)) \cap (ids \cap Visited) = {}
      <4>1. ids \cap Visited \in SUBSET Visited
        OBVIOUS
      <4>. QED  BY <2>2, <4>1, Zenon DEF SearchInv, VisitedIsAcyclic, Adjacent
    <3>2. ToSet(AdjacencyList(work, a)) \subseteq Visited
      BY <3>1 DEF SearchInv, VisitedIsClosed, Adjacent
    <3>. QED  BY <3>1, <3>2
  <2>. QED  BY <2>1, <2>2
<1>14. RowsBegun'
  <2>1. ASSUME NEW r \in 1 .. row - 1
        PROVE  state[work.tasks[r].id] # 0 /\ work.tasks[r].id \in Ids
    <3>1. r \in 1 .. Len(work.tasks)
      BY RowIds DEF SearchInv, SearchTypeOK
    <3>. QED  BY <3>1, RowIds DEF SearchInv, RowsBegun
  <2>2. \A x \in Ids : state[x] # 0 => state'[x] # 0
    BY <1>6
  <2>. QED  BY <1>2, <2>1, <2>2 DEF RowsBegun
<1>15. VerdictCorrect'
  BY <1>2 DEF VerdictCorrect
<1>. QED  BY <1>3, <1>5, <1>6, <1>9, <1>10, <1>11, <1>12, <1>13, <1>14, <1>15
          DEF SearchInv, SearchTypeOK

(* Every row begun and none on the path: every task is visited.            *)
LEMMA FinishKeeps ==
    ASSUME work \in Workload, SearchInv, outcome = "searching", Finish, work' = work
    PROVE  SearchInv'
<1>1. /\ path = <<>> /\ row \notin 1 .. Len(work.tasks) /\ outcome' = "acyclic"
      /\ UNCHANGED <<row, state, path>>
  BY RowIds DEF Finish
<1>2. row = Len(work.tasks) + 1 /\ Len(work.tasks) \in Nat
  BY <1>1, RowIds DEF SearchInv, SearchTypeOK
<1>3. Visited = Ids
  <2>1. ASSUME NEW id \in Ids PROVE state[id] = 2
    <3>1. PICK r \in 1 .. Len(work.tasks) : work.tasks[r].id = id
      BY RowIds DEF Ids
    <3>2. r \in 1 .. row - 1
      BY <1>2
    <3>3. state[id] # 0
      BY <3>1, <3>2 DEF SearchInv, RowsBegun
    <3>4. state[id] # 1
      <4>1. 1 .. Len(path) = {}
        BY <1>1
      <4>. QED  BY <4>1 DEF SearchInv, GreyIsPath
    <3>5. state[id] \in 0 .. 2
      BY DEF SearchInv, SearchTypeOK
    <3>. QED  BY <3>3, <3>4, <3>5
  <2>. QED  BY <2>1 DEF Visited
<1>4. ~HasCycle(work)
  <2>1. \A ids \in (SUBSET Ids) \ {{}} : \E a \in ids : ToSet(Adjacent(a)) \cap ids = {}
    BY <1>3, Zenon DEF SearchInv, VisitedIsAcyclic
  <2>. QED  BY <2>1, CycleIs, Zenon
<1>5. VerdictCorrect'
  BY <1>1, <1>4 DEF VerdictCorrect
<1>6. Ids' = Ids /\ Frames' = Frames
  BY DEF Ids, Frames
<1>7. Visited' = Visited
  BY <1>1, <1>6 DEF Visited
<1>8. VisitedIsClosed' /\ VisitedIsAcyclic'
  BY <1>7, VisitedStays DEF SearchInv
<1>9. GreyIsPath' /\ Called'
  BY <1>6, <1>1 DEF SearchInv, GreyIsPath, Called, Adjacent
<1>10. PassedIsVisited'
  BY <1>7, <1>1, Zenon DEF SearchInv, PassedIsVisited, Adjacent
<1>11. RowsBegun' /\ SearchTypeOK'
  BY <1>1, <1>6 DEF SearchInv, RowsBegun, SearchTypeOK
<1>. QED  BY <1>5, <1>8, <1>9, <1>10, <1>11 DEF SearchInv

(* A search that begins has visited nothing.                               *)
Begun ==
    /\ work \in Workload /\ row = 1 /\ path = <<>> /\ state = [id \in Ids |-> 0]
    /\ outcome = "searching"

(* The invariant holds when the search begins.                             *)
LEMMA SearchBegins == Begun => SearchInv
<1>. SUFFICES ASSUME Begun PROVE SearchInv
  OBVIOUS
<1>1. /\ work \in Workload /\ row = 1 /\ path = <<>> /\ outcome = "searching"
      /\ state = [id \in Ids |-> 0]
  BY DEF Begun
<1>2. SearchTypeOK
  BY <1>1, RowIds DEF SearchTypeOK
<1>3. 1 .. Len(path) = {} /\ 1 .. Len(path) - 1 = {} /\ 1 .. row - 1 = {}
  BY <1>1
<1>4. GreyIsPath /\ Called /\ PassedIsVisited /\ RowsBegun
  BY <1>1, <1>3 DEF GreyIsPath, Called, PassedIsVisited, RowsBegun
<1>5. Visited = {}
  BY <1>1 DEF Visited
<1>6. VisitedIsClosed /\ VisitedIsAcyclic
  BY <1>5 DEF VisitedIsClosed, VisitedIsAcyclic
<1>7. VerdictCorrect
  BY <1>1 DEF VerdictCorrect
<1>. QED  BY <1>2, <1>4, <1>6, <1>7 DEF SearchInv

(* The invariant is about the variables of the search only.                *)
LEMMA StaysTheSame ==
    ASSUME LoaderInv, UNCHANGED vars
    PROVE  LoaderInv'
<1>1. work' = work /\ row' = row /\ state' = state /\ path' = path
      /\ outcome' = outcome
  BY DEF vars
<1>2. Ids' = Ids /\ Visited' = Visited /\ (Loaded <=> Loaded')
  BY <1>1 DEF Ids, Visited, Loaded
<1>3. NotBegun => NotBegun'
  BY <1>1 DEF NotBegun
<1>4. ASSUME SearchInv PROVE SearchInv'
  <2>1. SearchTypeOK' /\ RowsBegun' /\ VerdictCorrect'
    BY <1>1, <1>2, <1>4
    DEF SearchInv, SearchTypeOK, Frames, RowsBegun, VerdictCorrect
  <2>2. VisitedIsClosed' /\ VisitedIsAcyclic'
    BY <1>1, <1>2, <1>4, VisitedStays DEF SearchInv
  <2>3. GreyIsPath'
    BY <1>1, <1>2, <1>4 DEF SearchInv, GreyIsPath
  <2>4. Called'
    BY <1>1, <1>2, <1>4 DEF SearchInv, Called, Adjacent
  <2>5. PassedIsVisited'
    BY <1>1, <1>2, <1>4 DEF SearchInv, PassedIsVisited, Adjacent
  <2>. QED  BY <2>1, <2>2, <2>3, <2>4, <2>5 DEF SearchInv
<1>. QED  BY <1>1, <1>2, <1>3, <1>4 DEF LoaderInv
-----------------------------------------------------------------------------
(* Before anything is loaded the search has not begun.                     *)
LEMMA LoaderStarts == LoaderInit => LoaderInv
BY DEF LoaderInit, LoaderInv, NotBegun, Loaded

(* The operations replaced, the tasks stay.                                *)
LEMMA TasksStay ==
    ASSUME NEW w, NEW ops, [w EXCEPT !.ops = ops] \in Workload
    PROVE  [w EXCEPT !.ops = ops].tasks = w.tasks
<1>1. DOMAIN [w EXCEPT !.ops = ops] = {"tasks", "ops"}
  BY DEF Workload
<1>2. "tasks" \in DOMAIN w
  BY <1>1
<1>. QED  BY <1>2

(* Every step of the loader keeps the invariant of the search.             *)
LEMMA LoaderStep ==
    ASSUME LoaderInv, WorkloadLoaded, WorkloadLoaded',
           [LoaderNext]_<<vars, loaderVars>>
    PROVE  LoaderInv'
<1>1. CASE LoadFromCSV
  <2>1. CASE outcome = "making ops" /\ MakeOps /\ outcome' = "searching"
    <3>1. NotBegun /\ Loaded' /\ row' = row /\ path' = path
      BY <1>1, <2>1 DEF LoaderInv, LoadFromCSV, Loaded
    <3>2. work' \in Workload
      BY <3>1 DEF WorkloadLoaded
    <3>3. work'.tasks = work.tasks
      BY <2>1, <3>2, TasksStay DEF MakeOps
    <3>4. Ids' = Ids
      BY <3>3 DEF Ids, Rows
    <3>5. Begun'
      BY <2>1, <3>1, <3>2, <3>4 DEF MakeOps, NotBegun, Begun
    <3>6. SearchInv'
      BY <3>5, SearchBegins, PTL
    <3>. QED  BY <3>1, <3>6 DEF LoaderInv
  <2>2. CASE /\ outcome \in {"reading tasks", "making tasks", "reading ops"}
             /\ outcome' \in {"making tasks", "reading ops", "making ops"}
             /\ UNCHANGED <<state, row, path>>
    BY <2>2 DEF LoaderInv, NotBegun, Loaded
  <2>. QED  BY <1>1, <2>1, <2>2 DEF LoadFromCSV, Parse, MakeTasks
<1>2. CASE Reject
  BY <1>2 DEF Reject, LoaderInv, NotBegun, Loaded
<1>3. CASE Search /\ UNCHANGED loaderVars
  <2>1. Loaded /\ outcome = "searching" /\ work' = work
    BY <1>3 DEF Search, Loaded
  <2>2. work \in Workload /\ SearchInv
    BY <2>1 DEF WorkloadLoaded, LoaderInv
  <2>3. SearchInv'
    BY <1>3, <2>1, <2>2, NextRowKeeps, NextSuccessorKeeps, LeaveKeeps, FinishKeeps
       DEF Search
  <2>4. Loaded'
    BY <1>3, <2>1 DEF Search, Loaded, NextRow, NextSuccessor, Leave, Finish
  <2>. QED  BY <2>3, <2>4 DEF LoaderInv
<1>4. CASE UNCHANGED <<vars, loaderVars>>
  <2>1. UNCHANGED vars
    BY <1>4
  <2>. QED  BY <2>1, StaysTheSame
<1>. QED  BY <1>1, <1>2, <1>3, <1>4 DEF LoaderNext, Returned

(* The invariant of the search holds of whatever is loaded.                *)
LEMMA LoaderInvariance ==
    LoaderSpec => []LoaderInv
<1>1. LoaderInv /\ WorkloadLoaded /\ WorkloadLoaded'
      /\ [LoaderNext]_<<vars, loaderVars>> => LoaderInv'
  BY LoaderStep
<1>2. LoaderSpec => []WorkloadLoaded
  BY WorkloadsAreLoaded, PTL DEF WorkloadLoaded
<1>. QED  BY <1>1, <1>2, LoaderStarts, PTL DEF LoaderSpec

(* The search is right about every pair of files: it throws only if the    *)
(* tasks have a cycle, and passes only those that have none.               *)
THEOREM VerdictIsCorrect == LoaderSpec => []VerdictCorrect
<1>1. LoaderInv => VerdictCorrect
  BY DEF LoaderInv, SearchInv, VerdictCorrect, Loaded
<1>. QED  BY <1>1, LoaderInvariance, PTL

(* The path in the message of the exception is a chain of dependencies.    *)
THEOREM PathIsAChain == LoaderSpec => []PathIsChain
<1>1. ASSUME work \in Workload, SearchInv PROVE PathIsChain
  <2>1. state \in [Ids -> 0 .. 2] /\ DOMAIN path = 1 .. Len(path)
    BY <1>1, FrameOf DEF SearchInv, SearchTypeOK
  <2>2. \A k \in 1 .. Len(path) - 1 :
           path[k + 1].id \in ToSet(AdjacencyList(work, path[k].id))
    BY <1>1, Zenon DEF SearchInv, Called, Adjacent, ToSet
  <2>3. \A k \in 1 .. Len(path) : path[k].id \in Ids
    BY <1>1, FrameOf DEF SearchInv
  <2>4. {id \in DOMAIN state : state[id] = 1} = {path[k].id : k \in DOMAIN path}
    BY <1>1, <2>1, <2>3 DEF SearchInv, GreyIsPath
  <2>5. \A j, k \in DOMAIN path : path[j].id = path[k].id => j = k
    BY <1>1, <2>1 DEF SearchInv, GreyIsPath
  <2>. QED  BY <2>2, <2>4, <2>5 DEF PathIsChain
<1>2. NotBegun => PathIsChain
  BY DEF NotBegun, PathIsChain
<1>3. LoaderInv /\ WorkloadLoaded => PathIsChain
  BY <1>1, <1>2 DEF LoaderInv, WorkloadLoaded
<1>4. LoaderSpec => []WorkloadLoaded
  BY WorkloadsAreLoaded, PTL DEF WorkloadLoaded
<1>. QED  BY <1>3, <1>4, LoaderInvariance, PTL
=============================================================================
