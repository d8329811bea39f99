--------------------------------- MODULE Address --------------------------------
(***************************************************************************)
(* Arithmetic on addresses: unsigned integers of a fixed width.            *)
(***************************************************************************)
EXTENDS Integers, FiniteSetsExt

CONSTANT AddressBits   \* the width of an address, 64 in the code

ASSUME AddressBitsAssumption == AddressBits \in Nat \ {0}

(* (The provers do not know what a power is.)                              *)
ASSUME PowersAssumption == \A k \in 0 .. AddressBits : 2^k \in Nat \ {0}

AddressSpace == 2^AddressBits

(* The sum of two addresses wraps around.                                  *)
Plus(a, b) == (a + b) % AddressSpace

Bit(a, k) == (a \div 2^k) % 2

Xor(a, b) ==
    MapThenSumSet(LAMBDA k : ((Bit(a, k) + Bit(b, k)) % 2) * 2^k,
                  0 .. AddressBits - 1)
=============================================================================
