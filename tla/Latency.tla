--------------------------------- MODULE Latency --------------------------------
(***************************************************************************)
(* What a memory request costs under a configuration: the part of          *)
(* MemorySystem.cpp that does not depend on the state.                     *)
(***************************************************************************)
EXTENDS Config, DTCM, MemoryBank, Interconnect

BankIds(c) == 0 .. c.numMemoryBanks - 1

(* The latency of a request of core to the bank of address a.              *)
BankLatency(c, core, a) ==
    TransferLatency(c, CoreChiplet(c, core), BankChiplet(c, BankIndex(c, a)))
        + c.bankServiceLatency

PossibleLatencies(c, core, a) ==
    {BankLatency(c, core, a)}
        \cup (IF c.dtcmEnabled THEN {c.dtcmLatency} ELSE {})
        \cup (IF c.cacheEnabled THEN {c.cacheHitLatency} ELSE {})
=============================================================================
