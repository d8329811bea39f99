-------------------------- MODULE ConfigLoaderProofs --------------------------
(***************************************************************************)
(* A configuration that load() accepts is one the memory system can work   *)
(* with, whatever the text it was read from.                               *)
(***************************************************************************)
EXTENDS ConfigLoader, SequenceProofs

(* THE BANK OF AN ADDRESS                                                  *)

(* The exclusive or of two numbers is a number.                            *)
LEMMA XorType ==
    ASSUME NEW a \in Int, NEW b \in Int
    PROVE  Xor(a, b) \in Int
<1>. DEFINE S == 0 .. AddressBits - 1
            f == [k \in S |-> ((Bit(a, k) + Bit(b, k)) % 2) * 2^k]
<1>1. IsFiniteSet(S)
  BY AddressBitsAssumption, FS_Interval
<1>2. \A k \in S : f[k] \in Int
  <2>. TAKE k \in S
  <2>1. 2^k \in Nat \ {0}
    BY AddressBitsAssumption, PowersAssumption
  <2>2. Bit(a, k) \in Int /\ Bit(b, k) \in Int
    BY <2>1 DEF Bit
  <2>. QED  BY <2>1, <2>2
<1>3. Xor(a, b) = SumOver(f, S)
  BY DEF Xor, SumOver, MapThenSumSet, MapThenFoldSet
<1>4. f \in [S -> Int]
  BY <1>2
<1>. HIDE DEF f, S
<1>. QED  BY <1>1, <1>3, <1>4, SumType

(* Whatever the bank index function, the bank exists.                      *)
LEMMA BankExists ==
    ASSUME NEW c, c.numMemoryBanks \in Nat \ {0}, NEW a \in Int
    PROVE  BankIndex(c, a) \in BankIds(c)
<1>1. a \div 2^16 \in Int /\ a \div 64 \in Int
  OBVIOUS
<1>2. Xor(a, a \div 2^16) \in Int
  BY <1>1, XorType
<1>. QED  BY <1>1, <1>2 DEF BankIndex, BankIds

-----------------------------------------------------------------------------
(* VALUES                                                                  *)

(* A set of values that, with an object, has all its members, and whose    *)
(* numbers are numbers.                                                    *)
Closed(V) ==
    \A v \in V :
        /\ v = <<TypeOf(v), Contents(v)>>
        /\ TypeOf(v) = "number" => Contents(v) \in Int
        /\ TypeOf(v) = "object" =>
              \A key \in DOMAIN Contents(v) : Get(v, key) \in V

(* The containers that are being read.                                     *)
Frames(V, K) ==
    {f \in [value : V, key : K] : TypeOf(f.value) \in {"object", "array"}}

(* With one more value in it, a container is a container.                  *)
LEMMA PutClosed ==
    ASSUME NEW V, NEW K, Closed(V), NEW f \in Frames(V, K), NEW key, NEW v \in V
    PROVE  \E W : /\ V \subseteq W /\ Closed(W)
                  /\ Put(f, key, v) \in Frames(W, K)
<1>. DEFINE new == [k \in DOMAIN Contents(f.value) \cup {key} |->
                       IF k = key THEN v ELSE Contents(f.value)[k]]
            more == Append(Contents(f.value), v)
            c == <<TypeOf(f.value),
                   IF TypeOf(f.value) = "array" THEN more ELSE new>>
<1>1. /\ f.value \in V /\ f.key \in K /\ f = [value |-> f.value, key |-> f.key]
      /\ TypeOf(f.value) \in {"object", "array"}
      /\ f.value = <<TypeOf(f.value), Contents(f.value)>>
  BY DEF Frames, Closed
<1>2. [f.value EXCEPT ![2] = more] = <<TypeOf(f.value), more>>
      /\ [f.value EXCEPT ![2] = new] = <<TypeOf(f.value), new>>
  <2>. HIDE DEF more, new
  <2>. QED  BY <1>1
<1>3. Put(f, key, v) = [value |-> c, key |-> f.key]
  <2>1. CASE TypeOf(f.value) = "array"
    <3>1. Put(f, key, v) = [f EXCEPT !.value = [@ EXCEPT ![2] = more]]
      BY <2>1 DEF Put, Contents
    <3>. HIDE DEF more, new
    <3>. QED  BY <1>1, <1>2, <2>1, <3>1
  <2>2. CASE TypeOf(f.value) # "array"
    <3>1. Put(f, key, v) = [f EXCEPT !.value = [@ EXCEPT ![2] = new]]
      BY <2>2 DEF Put, Contents
    <3>. HIDE DEF more, new
    <3>. QED  BY <1>1, <1>2, <2>2, <3>1
  <2>. QED  BY <2>1, <2>2
<1>. DEFINE W == V \cup {c}
<1>4. /\ TypeOf(c) = TypeOf(f.value)
      /\ Contents(c) = (IF TypeOf(f.value) = "array" THEN more ELSE new)
      /\ c = <<TypeOf(c), Contents(c)>>
  <2>. HIDE DEF more, new
  <2>. QED  BY DEF TypeOf, Contents
<1>5. TypeOf(c) = "object" => \A k \in DOMAIN Contents(c) : Get(c, k) \in V
  <2>. HAVE TypeOf(c) = "object"
  <2>1. TypeOf(f.value) = "object" /\ Contents(c) = new
    <3>. HIDE DEF more, new, c
    <3>. QED  BY <1>4
  <2>2. \A k \in DOMAIN new : new[k] \in V
    BY <1>1, <2>1 DEF Closed, Get
  <2>. QED  BY <2>1, <2>2 DEF Get
<1>6. Closed(W)
  <2>1. TypeOf(c) # "number"
    BY <1>1, <1>4
  <2>. HIDE DEF c
  <2>. QED  BY <1>4, <1>5, <2>1 DEF Closed
<1>7. Put(f, key, v) \in Frames(W, K)
  <2>. HIDE DEF c
  <2>. QED  BY <1>1, <1>3, <1>4 DEF Frames
<1>. QED  BY <1>6, <1>7

(* With more values and more keys there are more frames.                   *)
LEMMA MoreFrames ==
    ASSUME NEW V, NEW W, V \subseteq W, NEW K, NEW L, K \subseteq L
    PROVE  Frames(V, K) \subseteq Frames(W, L)
           /\ Seq(Frames(V, K)) \subseteq Seq(Frames(W, L))
<1>1. Frames(V, K) \subseteq Frames(W, L)
  BY DEF Frames
<1>. HIDE DEF Frames
<1>. QED  BY <1>1

(* A value that is one token may join every set of values.                 *)
LEMMA ScalarJoins ==
    ASSUME NEW V, Closed(V), NEW v \in ScalarValues
    PROVE  Closed(V \cup {v})
<1>1. /\ v = <<TypeOf(v), Contents(v)>>
      /\ TypeOf(v) \in {"null", "string", "number", "boolean"}
      /\ TypeOf(v) = "number" => Contents(v) \in Int
  BY DEF ScalarValues, Null, TypeOf, Contents
<1>. QED  BY <1>1 DEF Closed

(* An empty container has no members: values stay closed with it.          *)
LEMMA EmptyJoins ==
    ASSUME NEW V, Closed(V), NEW empty \in {EmptyObject, EmptyArray}
    PROVE  /\ Closed(V \cup {empty})
           /\ TypeOf(empty) \in {"object", "array"}
<1>1. /\ empty = <<TypeOf(empty), Contents(empty)>>
      /\ TypeOf(empty) \in {"object", "array"}
      /\ Contents(empty) = <<>>
  BY DEF EmptyObject, EmptyArray, TypeOf, Contents
<1>2. DOMAIN Contents(empty) = {}
  BY <1>1
<1>. QED  BY <1>1, <1>2 DEF Closed

-----------------------------------------------------------------------------
(* THE READER                                                              *)

Opened == {"opened", "loop", "key", "colon", "after"}

(* All the values the reader has made are in V.                            *)
ReaderInv(V, K) ==
    /\ Closed(V)
    /\ text \in Seq(Token)
    /\ pos \in Nat \ {0}
    /\ stack \in Seq(Frames(V, K))
    /\ root \in V
    /\ mode \in Opened => stack # <<>>

ValuesAreTyped == \E V, K : ReaderInv(V, K)

(* A value token of the text carries a scalar value.                       *)
LEMMA TokenHere ==
    ASSUME text \in Seq(Token), pos \in Nat \ {0}, Here("value")
    PROVE  text[pos][2] \in ScalarValues
<1>1. text[pos] \in Token /\ text[pos][1] = "value"
  <2>1. pos \in 1 .. Len(text)
    BY DEF Here, AtEnd
  <2>. HIDE DEF Token
  <2>. QED  BY <2>1 DEF Here
<1>2. \A kind : <<kind>>[1] = kind
  OBVIOUS
<1>3. text[pos] \in {"value"} \X ScalarValues
  <2>. HIDE DEF ScalarValues
  <2>. QED  BY <1>1, <1>2 DEF Token
<1>. QED
  <2>. HIDE DEF ScalarValues
  <2>. QED  BY <1>3

(* A value that is returned, to the caller of the reader or to the loop of *)
(* the container around it.                                                *)
LEMMA ReturnKeeps ==
    ASSUME NEW V, NEW K, Closed(V), text \in Seq(Token), text' = text,
           pos' \in Nat \ {0}, NEW callers \in Seq(Frames(V, K)), root \in V,
           NEW v \in V, Return(v, callers)
    PROVE  ValuesAreTyped'
<1>1. CASE callers = <<>>
  <2>1. mode' = "done" /\ root' = v /\ stack' = callers
    BY <1>1 DEF Return
  <2>2. ReaderInv(V, K)'
    <3>1. Closed(V)'
      BY DEF Closed, TypeOf, Contents, Get
    <3>2. (stack \in Seq(Frames(V, K)))'
      BY <2>1 DEF Frames, TypeOf
    <3>. QED  BY <2>1, <3>1, <3>2 DEF ReaderInv, Opened
  <2>. QED  BY <2>2 DEF ValuesAreTyped
<1>2. CASE callers # <<>>
  <2>. DEFINE n == Len(callers)
              f == callers[n]
  <2>1. n \in Nat /\ n \in 1 .. n /\ f \in Frames(V, K)
    <3>. HIDE DEF Frames
    <3>. QED  BY <1>2
  <2>2. mode' = "after" /\ root' = root
        /\ stack' = [callers EXCEPT ![n] = Put(f, f.key, v)]
    BY <1>2 DEF Return
  <2>. HIDE DEF f
  <2>3. PICK W : /\ V \subseteq W /\ Closed(W)
                 /\ Put(f, f.key, v) \in Frames(W, K)
    BY <2>1, PutClosed
  <2>4. callers \in Seq(Frames(W, K))
    BY <2>3, MoreFrames
  <2>5. stack' \in Seq(Frames(W, K)) /\ stack' # <<>>
    <3>. HIDE DEF Frames, Put
    <3>1. stack' \in Seq(Frames(W, K)) /\ Len(stack') = n
      BY <2>1, <2>2, <2>3, <2>4
    <3>. QED  BY <3>1, <1>2, <2>1
  <2>6. ReaderInv(W, K)'
    <3>1. Closed(W)'
      BY <2>3 DEF Closed, TypeOf, Contents, Get
    <3>2. Frames(W, K)' = Frames(W, K)
      BY DEF Frames, TypeOf
    <3>. QED  BY <2>2, <2>3, <2>5, <3>1, <3>2 DEF ReaderInv
  <2>. QED  BY <2>6 DEF ValuesAreTyped
<1>. QED  BY <1>1, <1>2

(* A step that makes no value.                                             *)
LEMMA ReaderMoves ==
    ASSUME NEW V, NEW K, ReaderInv(V, K), text' = text, root' = root,
           pos' \in Nat \ {0}, NEW W, NEW L, V \subseteq W, K \subseteq L,
           Closed(W), stack' \in Seq(Frames(W, L)),
           mode' \in Opened => stack' # <<>>
    PROVE  ValuesAreTyped'
<1>1. Closed(W)'
  BY DEF Closed, TypeOf, Contents, Get
<1>2. Frames(W, L)' = Frames(W, L)
  BY DEF Frames, TypeOf
<1>3. ReaderInv(W, L)'
  BY <1>1, <1>2 DEF ReaderInv
<1>. QED  BY <1>3 DEF ValuesAreTyped

(* Every step of the reader.                                               *)
LEMMA ReadTokenKeeps ==
    ASSUME ValuesAreTyped, ReadToken
    PROVE  ValuesAreTyped'
<1>1. PICK V, K : ReaderInv(V, K)
  BY DEF ValuesAreTyped
<1>2. text' = text /\ text \in Seq(Token) /\ pos \in Nat \ {0} /\ pos + 1 \in Nat \ {0}
      /\ stack \in Seq(Frames(V, K)) /\ root \in V /\ Closed(V)
  BY <1>1 DEF ReadToken, ReaderInv
<1>3. ASSUME UNCHANGED <<stack, root>>, pos' \in {pos, pos + 1},
             mode' \in Opened => mode \in Opened
      PROVE  ValuesAreTyped'
  <2>1. stack' \in Seq(Frames(V, K)) /\ (mode' \in Opened => stack' # <<>>)
    BY <1>1, <1>3 DEF ReaderInv
  <2>2. text' = text /\ root' = root /\ pos' \in Nat \ {0} /\ Closed(V)
    BY <1>2, <1>3
  <2>. QED  BY <1>1, <2>1, <2>2, ReaderMoves, Zenon
<1>4. CASE SkipWhitespace
  BY <1>3, <1>4 DEF SkipWhitespace, Opened
<1>5. CASE ParseScalar
  <2>1. text[pos][2] \in ScalarValues
    BY <1>2, <1>5, TokenHere DEF ParseScalar
  <2>. DEFINE W == V \cup {text[pos][2]}
  <2>2. Closed(W) /\ V \subseteq W /\ text[pos][2] \in W
    BY <1>2, <2>1, ScalarJoins
  <2>3. stack \in Seq(Frames(W, K))
    BY <1>2, <2>2, MoreFrames
  <2>4. Return(text[pos][2], stack) /\ pos' \in Nat \ {0} /\ root \in W
    BY <1>2, <1>5, <2>2 DEF ParseScalar
  <2>. HIDE DEF W
  <2>. QED  BY <1>2, <2>2, <2>3, <2>4, ReturnKeeps
<1>6. CASE OpenContainer
  <2>1. PICK empty \in {EmptyObject, EmptyArray} :
            stack' = Append(stack, [value |-> empty, key |-> ""])
    BY <1>6 DEF OpenContainer
  <2>. DEFINE W == V \cup {empty}
              L == K \cup {""}
              f == [value |-> empty, key |-> ""]
  <2>2. Closed(W) /\ f \in Frames(W, L)
    BY <1>2, EmptyJoins DEF Frames
  <2>3. stack \in Seq(Frames(W, L))
    BY <1>2, MoreFrames
  <2>4. stack' \in Seq(Frames(W, L)) /\ stack' # <<>>
    <3>. HIDE DEF Frames, f, W, L
    <3>1. stack' = Append(stack, f)
      BY <2>1 DEF f
    <3>. QED  BY <2>2, <2>3, <3>1
  <2>5. root' = root /\ pos' \in Nat \ {0}
    BY <1>2, <1>6 DEF OpenContainer
  <2>6. V \subseteq W /\ K \subseteq L
    OBVIOUS
  <2>. HIDE DEF W, L
  <2>. QED  BY <1>1, <1>2, <2>2, <2>4, <2>5, <2>6, ReaderMoves, Zenon
<1>7. ASSUME ReturnContainer, mode \in Opened, pos' \in {pos, pos + 1}
      PROVE  ValuesAreTyped'
  <2>1. stack # <<>>
    BY <1>1, <1>7 DEF ReaderInv
  <2>2. Last(stack) \in Frames(V, K) /\ Front(stack) \in Seq(Frames(V, K))
    <3>. HIDE DEF Frames
    <3>. QED  BY <1>2, <2>1 DEF Last, Front
  <2>3. Last(stack).value \in V
    BY <2>2 DEF Frames
  <2>. QED  BY <1>2, <1>7, <2>2, <2>3, ReturnKeeps DEF ReturnContainer
<1>8. CASE CloseContainer
  BY <1>7, <1>8 DEF CloseContainer, Opened
<1>9. CASE EnterLoop
  BY <1>3, <1>9 DEF EnterLoop, Opened
<1>10. CASE LeaveLoop
  BY <1>7, <1>10 DEF LeaveLoop, Opened
<1>11. CASE NextElement
  BY <1>3, <1>11 DEF NextElement, Opened
<1>12. CASE ParseKey
  <2>. DEFINE n == Len(stack)
              key == Contents(text[pos][2])
              L == K \cup {key}
              f == stack[n]
              g == [f EXCEPT !.key = key]
  <2>1. stack # <<>> /\ stack' = [stack EXCEPT ![n] = g]
        /\ root' = root /\ pos' \in Nat \ {0}
    BY <1>1, <1>2, <1>12 DEF ParseKey, Opened, ReaderInv
  <2>2. n \in Nat /\ n \in 1 .. n /\ f \in Frames(V, K)
    <3>. HIDE DEF Frames
    <3>. QED  BY <1>2, <2>1
  <2>3. g \in Frames(V, L)
    <3>. HIDE DEF f, key
    <3>. QED  BY <2>2 DEF Frames
  <2>4. V \subseteq V /\ K \subseteq L
    OBVIOUS
  <2>5. stack \in Seq(Frames(V, L))
    BY <1>2, <2>4, MoreFrames
  <2>6. stack' \in Seq(Frames(V, L)) /\ stack' # <<>>
    <3>. HIDE DEF Frames, g, L
    <3>1. stack' \in Seq(Frames(V, L)) /\ Len(stack') = n
      BY <2>1, <2>2, <2>3, <2>5
    <3>. QED  BY <3>1, <2>1, <2>2, <1>2
  <2>. HIDE DEF L
  <2>. QED  BY <1>1, <1>2, <2>1, <2>4, <2>6, ReaderMoves, Zenon
<1>13. CASE ParseColon
  BY <1>3, <1>13 DEF ParseColon, Opened
<1>14. CASE ParseComma
  BY <1>3, <1>14 DEF ParseComma, Opened
<1>15. CASE Throw
  BY <1>3, <1>15 DEF Throw, Opened
<1>. QED
  BY <1>4, <1>5, <1>6, <1>8, <1>9, <1>10, <1>11, <1>12, <1>13, <1>14, <1>15
     DEF ReadToken

-----------------------------------------------------------------------------
(* THE SETTINGS                                                            *)

NumberFields ==
    {"numCores", "numChiplets", "cacheSize", "cacheHitLatency",
     "cachePortLimit", "dtcmSize", "dtcmLatency", "numMemoryBanks",
     "bankServiceLatency", "bankPortLimit", "interconnectLatency",
     "interconnectLinkWidth", "remoteChipletPenalty", "frequencyGHz"}

(* A number is set by a number.                                            *)
LEMMA SetByNumbers ==
    ASSUME NEW s \in Settings, s.field \in NumberFields
    PROVE  s.kind \in NumberKinds
<1>1. \A section, key, field, kind :
         /\ Setting(section, key, field, kind).field = field
         /\ Setting(section, key, field, kind).kind = kind
  BY DEF Setting
<1>2. \E section, key, field, kind :
         /\ s = Setting(section, key, field, kind)
         /\ kind \notin NumberKinds =>
               field \in {"schedulingPolicy", "cacheEnabled", "dtcmEnabled",
                          "dtcmBase", "bankIndexFn", "bankConflictPolicy",
                          "interconnectTopology"}
  BY Zenon DEF Settings, NumberKinds
<1>. QED  BY <1>1, <1>2 DEF NumberFields

(* Only a number converts to a number, and of an integer number of tenths  *)
(* an integer is made.                                                     *)
LEMMA NumbersConvert ==
    ASSUME NEW kind \in NumberKinds, NEW v, Converts(kind, v),
           TypeOf(v) = "number" => Contents(v) \in Int
    PROVE  Converted(kind, v) \in Int
<1>1. kind \notin DOMAIN Names
  BY DEF Names, NumberKinds
<1>2. Contents(v) \in Int
  BY <1>1 DEF Converts, NumberKinds
<1>3. Truncated(Contents(v)) \in Int
  BY <1>2 DEF Truncated
<1>4. AddressSpace \in Nat \ {0}
  BY AddressBitsAssumption, PowersAssumption DEF AddressSpace
<1>5. Truncated(Contents(v)) % AddressSpace \in Int
  <2>. HIDE DEF AddressSpace
  <2>. QED  BY <1>3, <1>4
<1>. QED  BY <1>1, <1>2, <1>3, <1>5 DEF Converted, NumberKinds

(* The value of a setting that is there is one of those the reader made.   *)
LEMMA ValueIsRead ==
    ASSUME NEW V, Closed(V), NEW v \in V, NEW s \in SettingsIn(v)
    PROVE  s \in Settings /\ ValueOf(v, s) \in V
<1>. DEFINE section == SectionOf(v, s.section)
<1>1. s \in Settings /\ HasKey(section, s.key)
  BY DEF SettingsIn
<1>2. section \in V
  <2>1. CASE s.section = ""
    BY <2>1 DEF SectionOf
  <2>2. CASE s.section # "" /\ HasKey(v, s.section)
    BY <2>2 DEF SectionOf, HasKey, Closed
  <2>3. CASE s.section # "" /\ ~HasKey(v, s.section)
    <3>1. section = Null
      BY <2>3 DEF SectionOf
    <3>2. TypeOf(section) # "object"
      BY <3>1 DEF Null, TypeOf
    <3>. QED  BY <1>1, <3>2 DEF HasKey
  <2>. QED  BY <2>1, <2>2, <2>3
<1>. HIDE DEF section
<1>3. Get(section, s.key) \in V
  BY <1>1, <1>2 DEF Closed, HasKey
<1>. QED  BY <1>1, <1>3 DEF ValueOf, section

NumbersAreTyped ==
    \A f \in NumberFields : f \in DOMAIN config /\ config[f] \in Int

(* What the file sets are numbers where numbers are needed.                *)
LEMMA ReadKeeps ==
    ASSUME ValuesAreTyped, NumbersAreTyped, Read
    PROVE  NumbersAreTyped'
<1>. DEFINE read == SettingsIn(root)
            new(f) == LET s == CHOOSE s \in read : s.field = f
                      IN  Converted(s.kind, ValueOf(root, s))
<1>1. CASE UNCHANGED config
  BY <1>1 DEF NumbersAreTyped
<1>2. CASE /\ \A s \in read : Converts(s.kind, ValueOf(root, s))
           /\ config' = [f \in DOMAIN config |->
                            IF f \in FieldsSet(read) THEN new(f) ELSE config[f]]
  <2>. SUFFICES ASSUME NEW f \in NumberFields
                PROVE  f \in DOMAIN config' /\ config'[f] \in Int
    BY DEF NumbersAreTyped
  <2>1. f \in DOMAIN config /\ config[f] \in Int
    BY DEF NumbersAreTyped
  <2>2. CASE f \notin FieldsSet(read)
    BY <1>2, <2>1, <2>2
  <2>3. CASE f \in FieldsSet(read)
    <3>. DEFINE s == CHOOSE s \in read : s.field = f
    <3>1. s \in read /\ s.field = f
      BY <2>3 DEF FieldsSet
    <3>2. config'[f] = Converted(s.kind, ValueOf(root, s)) /\ f \in DOMAIN config'
      BY <1>2, <2>1, <2>3
    <3>. HIDE DEF s
    <3>3. PICK V, K : ReaderInv(V, K)
      BY DEF ValuesAreTyped
    <3>4. s \in Settings /\ ValueOf(root, s) \in V /\ Closed(V)
      BY <3>1, <3>3, ValueIsRead DEF ReaderInv
    <3>5. s.kind \in NumberKinds
      BY <3>1, <3>4, SetByNumbers
    <3>6. Converts(s.kind, ValueOf(root, s))
      BY <1>2, <3>1
    <3>7. Converted(s.kind, ValueOf(root, s)) \in Int
      BY <3>4, <3>5, <3>6, NumbersConvert DEF Closed
    <3>. QED  BY <3>2, <3>7
  <2>. QED  BY <2>2, <2>3
<1>. QED  BY <1>1, <1>2 DEF Read

-----------------------------------------------------------------------------
(* THE CONFIGURATION                                                       *)

ConfigInv ==
    /\ ValuesAreTyped
    /\ NumbersAreTyped
    /\ outcome = "accepted" => Valid(config)

(* Before a text is read there are only the constants of the code.         *)
LEMMA InitiallyConfig ==
    ASSUME Init
    PROVE  ConfigInv
<1>1. PICK t \in Texts : ReaderInit(t)
  BY DEF Init
<1>2. ReaderInv({Null}, {})
  <2>1. Closed({Null}) /\ root \in {Null}
    BY <1>1 DEF Closed, Null, TypeOf, Contents, ReaderInit
  <2>2. text \in Seq(Token)
    BY <1>1, TextsAssumption DEF ReaderInit
  <2>. QED  BY <1>1, <2>1, <2>2 DEF ReaderInit, ReaderInv, Opened
<1>3. NumbersAreTyped
  BY DEF Init, NumbersAreTyped, NumberFields, DefaultConfig
<1>4. outcome # "accepted"
  BY DEF Init
<1>. QED  BY <1>2, <1>3, <1>4 DEF ConfigInv, ValuesAreTyped

(* Every step of loadFromFile().                                           *)
LEMMA StepKeepsConfig ==
    ASSUME ConfigInv, [Next]_vars
    PROVE  ConfigInv'
<1>1. ASSUME UNCHANGED readerVars
      PROVE  ValuesAreTyped'
  <2>1. PICK V, K : ReaderInv(V, K)
    BY DEF ConfigInv, ValuesAreTyped
  <2>2. UNCHANGED <<text, pos, stack, mode, root>>
    BY <1>1 DEF readerVars
  <2>3. ReaderInv(V, K)'
    BY <2>1, <2>2 DEF ReaderInv, Closed, Frames, TypeOf, Contents, Get
  <2>. QED  BY <2>3 DEF ValuesAreTyped
<1>2. CASE ParseFile
  <2>1. ValuesAreTyped'
    BY <1>2, ReadTokenKeeps DEF ParseFile, ConfigInv
  <2>. QED  BY <1>2, <2>1 DEF ParseFile, ConfigInv, NumbersAreTyped
<1>3. CASE Read
  <2>1. outcome' # "accepted" /\ UNCHANGED readerVars
    BY <1>3 DEF Read
  <2>. QED  BY <1>1, <1>3, <2>1, ReadKeeps DEF ConfigInv
<1>4. CASE InitializeChipletMappings
  <2>1. outcome' # "accepted" /\ UNCHANGED readerVars
    BY <1>4 DEF InitializeChipletMappings
  <2>2. \/ config' = config
        \/ \E cores, banks :
              config' = [config EXCEPT !.coreToChiplet = cores,
                                       !.bankToChiplet = banks]
    BY <1>4 DEF InitializeChipletMappings
  <2>3. "coreToChiplet" \notin NumberFields /\ "bankToChiplet" \notin NumberFields
    BY DEF NumberFields
  <2>4. NumbersAreTyped'
    BY <2>2, <2>3 DEF ConfigInv, NumbersAreTyped
  <2>. QED  BY <1>1, <2>1, <2>4 DEF ConfigInv
<1>5. CASE Validate
  BY <1>1, <1>5 DEF Validate, ConfigInv, NumbersAreTyped
<1>6. CASE UNCHANGED vars
  BY <1>1, <1>6 DEF vars, ConfigInv, NumbersAreTyped
<1>. QED  BY <1>2, <1>3, <1>4, <1>5, <1>6 DEF Next, Ended

(* Validation is enough.                                                   *)
LEMMA ValidIsUsable ==
    ASSUME ConfigInv
    PROVE  AcceptedIsUsable
<1>. SUFFICES ASSUME outcome = "accepted"
              PROVE  /\ \A core \in 0 .. config.numCores - 1, a \in SomeAddresses :
                           /\ BankIndex(config, a) \in BankIds(config)
                           /\ PossibleLatencies(config, core, a) \subseteq Nat
                     /\ config.cacheEnabled => config.cacheSize > 0
  BY DEF AcceptedIsUsable
<1>1. Valid(config)
  BY DEF ConfigInv
<1>2. /\ config.numMemoryBanks \in Int /\ config.bankServiceLatency \in Int
      /\ config.interconnectLatency \in Int /\ config.interconnectLinkWidth \in Int
      /\ config.remoteChipletPenalty \in Int
      /\ config.cacheHitLatency \in Int /\ config.dtcmLatency \in Int
  BY DEF ConfigInv, NumbersAreTyped, NumberFields
<1>3. /\ config.numMemoryBanks > 0 /\ config.bankServiceLatency >= 0
      /\ config.interconnectLatency >= 0 /\ config.interconnectLinkWidth > 0
      /\ config.remoteChipletPenalty >= 0
      /\ config.cacheEnabled => config.cacheSize > 0 /\ config.cacheHitLatency >= 0
      /\ config.dtcmEnabled => config.dtcmLatency >= 0
  BY <1>1 DEF Valid
<1>4. SomeAddresses \subseteq Int
  BY SomeAddressesAssumption
<1>5. \A a \in SomeAddresses : BankIndex(config, a) \in BankIds(config)
  BY <1>2, <1>3, <1>4, BankExists
<1>6. \A src, dst : TransferLatency(config, src, dst) \in Nat
  <2>1. (LineBytes + config.interconnectLinkWidth - 1)
           \div config.interconnectLinkWidth \in Nat
    BY <1>2, <1>3 DEF LineBytes
  <2>. QED  BY <1>2, <1>3, <2>1 DEF TransferLatency
<1>7. \A core, a : BankLatency(config, core, a) \in Nat
  BY <1>2, <1>3, <1>6 DEF BankLatency
<1>8. \A core, a : PossibleLatencies(config, core, a) \subseteq Nat
  BY <1>2, <1>3, <1>7 DEF PossibleLatencies
<1>. QED  BY <1>3, <1>5, <1>8

(* Whatever the file, a configuration that is accepted is one the memory   *)
(* system can work with, for every core and every address.                 *)
THEOREM AcceptedConfigsWork == Spec => []AcceptedIsUsable
<1>1. Init => ConfigInv
  BY InitiallyConfig
<1>2. ConfigInv /\ [Next]_vars => ConfigInv'
  BY StepKeepsConfig
<1>3. ConfigInv => AcceptedIsUsable
  BY ValidIsUsable
<1>. QED  BY <1>1, <1>2, <1>3, PTL DEF Spec
=============================================================================
