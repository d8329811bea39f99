------------------------------- MODULE JSONReader -------------------------------
(***************************************************************************)
(* The JSON reader (JSONParser.hpp), with its recursion unfolded into a    *)
(* stack.  A text is a sequence of tokens, <<kind>> or <<"value", v>>: the *)
(* punctuation is one character, a string, number, true, false or null is  *)
(* one token, "space" is white space and "other" anything no case of the   *)
(* reader accepts.  A character of an unfinished string or number is one   *)
(* of those too.                                                           *)
(*                                                                         *)
(* A JSON value is a pair of its type and its contents: the contents of an *)
(* object are a function on its keys, those of an array a sequence.        *)
(***************************************************************************)
EXTENDS Integers, Sequences, SequencesExt

Null == <<"null", {}>>
Number(n) == <<"number", n>>
Boolean(b) == <<"boolean", b>>
String(s) == <<"string", s>>
EmptyObject == <<"object", <<>>>>
EmptyArray == <<"array", <<>>>>

(* The values that are one token, and the tokens.                          *)
ScalarValues ==
    {Null} \cup ({"string"} \X STRING) \cup ({"number"} \X Int)
           \cup ({"boolean"} \X BOOLEAN)

Token ==
    {<<kind>> : kind \in {"{", "}", "[", "]", ":", ",", "space", "other"}}
        \cup ({"value"} \X ScalarValues)

TypeOf(v) == v[1]
Contents(v) == v[2]

HasKey(v, key) == TypeOf(v) = "object" /\ key \in DOMAIN Contents(v)

Get(v, key) == Contents(v)[key]

-----------------------------------------------------------------------------
VARIABLES
    text,    \* what is read
    pos,     \* the next position in it
    stack,   \* the containers that are being read, the innermost last
    mode,    \* where in the functions of the reader it is
    root     \* the value of the whole text

readerVars == <<text, pos, stack, mode, root>>

(* parseValue() before the value; parseObject() and parseArray() after the *)
(* bracket, at the head of their loops, before a key, before the colon and *)
(* after a value; and the two ways to end.                                 *)
Modes == {"value", "opened", "loop", "key", "colon", "after", "done", "failed"}

ReaderInit(t) ==
    /\ text = t
    /\ pos = 1
    /\ stack = <<>>
    /\ mode = "value"
    /\ root = Null

AtEnd == pos > Len(text)

Here(kind) == ~AtEnd /\ text[pos][1] = kind

KeyHere == Here("value") /\ TypeOf(text[pos][2]) = "string"

InObject == TypeOf(Last(stack).value) = "object"

(* Mutant of CloseHere: any bracket closes any container.                  *)
AnyCloseHere == Here("}") \/ Here("]")

CloseHere == IF InObject THEN Here("}") ELSE Here("]")

(* Mutant of Put: the first value of a key is kept.                        *)
PutOnce(container, key, v) ==
    IF HasKey(container.value, key) THEN container
    ELSE [container EXCEPT !.value[2] =
             [k \in DOMAIN @ \cup {key} |-> IF k = key THEN v ELSE @[k]]]

(* A container with one more value in it: objectValue[key] = value, so the *)
(* last value of a key stays, or arrayValue.push_back(value).              *)
Put(container, key, v) ==
    IF TypeOf(container.value) = "array"
    THEN [container EXCEPT !.value[2] = Append(@, v)]
    ELSE [container EXCEPT !.value[2] =
             [k \in DOMAIN @ \cup {key} |-> IF k = key THEN v ELSE @[k]]]

(* A function returns v to its caller: parseFile(), which ignores what is  *)
(* left of the text, or the loop of the container around v.                *)
Return(v, callers) ==
    \/ /\ callers = <<>>
       /\ mode' = "done"
       /\ root' = v
       /\ stack' = callers
    \/ /\ callers # <<>>
       /\ mode' = "after"
       /\ stack' = [callers EXCEPT ![Len(callers)] = Put(@, @.key, v)]
       /\ UNCHANGED root

ReturnContainer == Return(Last(stack).value, Front(stack))

-----------------------------------------------------------------------------
SkipWhitespace ==
    /\ mode \in {"value", "opened", "key", "colon", "after"}
    /\ Here("space")
    /\ pos' = pos + 1
    /\ UNCHANGED <<stack, mode, root>>

ParseScalar ==
    /\ mode = "value"
    /\ Here("value")
    /\ pos' = pos + 1
    /\ Return(text[pos][2], stack)

OpenContainer ==
    /\ mode = "value"
    /\ \E empty \in {EmptyObject, EmptyArray} :
          /\ Here(IF TypeOf(empty) = "object" THEN "{" ELSE "[")
          /\ stack' = Append(stack, [value |-> empty, key |-> ""])
    /\ pos' = pos + 1
    /\ mode' = "opened"
    /\ UNCHANGED root

(* The bracket after the first, or after a value, that ends the container. *)
CloseContainer ==
    /\ mode \in {"opened", "after"}
    /\ CloseHere
    /\ pos' = pos + 1
    /\ ReturnContainer

EnterLoop ==
    /\ mode = "opened"
    /\ ~Here("space") /\ ~CloseHere
    /\ mode' = "loop"
    /\ UNCHANGED <<pos, stack, root>>

(* while (pos < str.length()): the loop is left at the end of the text,    *)
(* and the container returned as if it had been closed.                    *)
LeaveLoop ==
    /\ mode = "loop"
    /\ AtEnd
    /\ UNCHANGED pos
    /\ ReturnContainer

NextElement ==
    /\ mode = "loop"
    /\ ~AtEnd
    /\ mode' = IF InObject THEN "key" ELSE "value"
    /\ UNCHANGED <<pos, stack, root>>

ParseKey ==
    /\ mode = "key"
    /\ KeyHere
    /\ pos' = pos + 1
    /\ stack' = [stack EXCEPT ![Len(stack)].key = Contents(text[pos][2])]
    /\ mode' = "colon"
    /\ UNCHANGED root

ParseColon ==
    /\ mode = "colon"
    /\ Here(":")
    /\ pos' = pos + 1
    /\ mode' = "value"
    /\ UNCHANGED <<stack, root>>

ParseComma ==
    /\ mode = "after"
    /\ Here(",")
    /\ pos' = pos + 1
    /\ mode' = "loop"
    /\ UNCHANGED <<stack, root>>

Throw ==
    /\ ~Here("space")
    /\ \/ mode = "value" /\ ~Here("value") /\ ~Here("{") /\ ~Here("[")
       \/ mode = "key" /\ ~KeyHere
       \/ mode = "colon" /\ ~Here(":")
       \/ mode = "after" /\ ~Here(",") /\ ~CloseHere
    /\ mode' = "failed"
    /\ UNCHANGED <<pos, stack, root>>

ReadToken ==
    /\ \/ SkipWhitespace \/ ParseScalar \/ OpenContainer \/ CloseContainer
       \/ EnterLoop \/ LeaveLoop \/ NextElement
       \/ ParseKey \/ ParseColon \/ ParseComma \/ Throw
    /\ UNCHANGED text
=============================================================================
