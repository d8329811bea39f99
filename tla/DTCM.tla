---------------------------------- MODULE DTCM ----------------------------------
(***************************************************************************)
(* The tightly coupled memory (DTCM.cpp): a range of addresses.  The end   *)
(* of the range is the sum of two unsigned numbers and wraps around.       *)
(***************************************************************************)
EXTENDS Address

(* Mutant of InRange: the first address is left out.                       *)
AfterBase(c, a) == a > c.dtcmBase /\ a < Plus(c.dtcmBase, c.dtcmSize)

InRange(c, a) == a >= c.dtcmBase /\ a < Plus(c.dtcmBase, c.dtcmSize)
=============================================================================
