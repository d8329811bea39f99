------------------------------ MODULE JSONGrammar ------------------------------
(***************************************************************************)
(* What a JSON text is, by the grammar of the format and independently of  *)
(* how JSONReader goes about it.                                           *)
(***************************************************************************)
EXTENDS JSONReader

Compact(t) == SelectSeq(t, LAMBDA token : token[1] # "space")

IsString(token) == token[1] = "value" /\ TypeOf(token[2]) = "string"

(* derives[<<part, i, j>>]: the tokens i to j of t, which has no space in  *)
(* it, form a value, the members of an object or the elements of an array. *)
WellFormed(text_) ==
    LET t == Compact(text_)
        kind(k) == t[k][1]
        derives[x \in {"value", "members", "elements"}
                          \X (1 .. Len(t)) \X (0 .. Len(t))] ==
            LET i == x[2]
                j == x[3]
                item(first, last) ==
                    IF x[1] = "elements" THEN derives[<<"value", first, last>>]
                    ELSE /\ first + 2 <= last
                         /\ IsString(t[first]) /\ kind(first + 1) = ":"
                         /\ derives[<<"value", first + 2, last>>]
            IN  /\ i <= j
                /\ IF x[1] = "value"
                   THEN \/ i = j /\ kind(i) = "value"
                        \/ /\ i < j
                           /\ <<kind(i), kind(j)>> \in {<<"{", "}">>, <<"[", "]">>}
                           /\ \/ j = i + 1
                              \/ derives[<<IF kind(i) = "{" THEN "members"
                                           ELSE "elements", i + 1, j - 1>>]
                   ELSE \/ item(i, j)
                        \/ \E k \in i + 1 .. j - 1 :
                              /\ kind(k) = ","
                              /\ item(i, k - 1)
                              /\ derives[<<x[1], k + 1, j>>]
    IN  t # <<>> /\ derives[<<"value", 1, Len(t)>>]

(* A text that was cut off inside its outermost container, before the      *)
(* first element of it or directly after a comma.                          *)
CutOff(t) ==
    \E close \in {<<"}">>, <<"]">>} :
        \/ Len(Compact(t)) = 1 /\ WellFormed(Append(t, close))
        \/ /\ Len(Compact(t)) > 2 /\ Last(t)[1] = ","
           /\ WellFormed(Append(Front(t), close))

-----------------------------------------------------------------------------
Opening == {"{", "["}
Closing == {"}", "]"}

(* How deep the token k of t lies.                                         *)
DepthOf(t, k) ==
    Cardinality({n \in 1 .. k - 1 : t[n][1] \in Opening})
    - Cardinality({n \in 1 .. k - 1 : t[n][1] \in Closing})

(* Where t, which has no space in it, has the value of a member of that    *)
(* name, at that depth, between two positions.                             *)
MemberValues(t, name, depth, first, last) ==
    {k + 2 : k \in {n \in first .. last :
                       /\ t[n] = <<"value", String(name)>>
                       /\ n < Len(t) /\ t[n + 1][1] = ":"
                       /\ DepthOf(t, n) = depth}}
=============================================================================
