-------------------------------- MODULE Selection --------------------------------
(***************************************************************************)
(* What it means that one queue receives a part of what goes through       *)
(* another.                                                                *)
(***************************************************************************)
EXTENDS Integers, Sequences, FiniteSets

(* t has the elements of s at the positions P, in the order of s: the one  *)
(* at position n comes after those at the positions of P before n.         *)
IsSelection(s, P, t) ==
    /\ Len(t) = Cardinality(P)
    /\ \A n \in P : t[Cardinality({m \in P : m <= n})] = s[n]
=============================================================================
