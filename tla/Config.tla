--------------------------------- MODULE Config ---------------------------------
(***************************************************************************)
(* The configuration (Config.hpp): its fields, the two vectors of chiplets *)
(* that are computed from them, and what validate() accepts.  The vectors  *)
(* are sequences, so element i is at position i + 1.  The frequency, a     *)
(* double, is counted in tenths.                                           *)
(***************************************************************************)
EXTENDS Integers, Sequences

(* The constructor.                                                        *)
DefaultConfig ==
    [numCores |-> 1, numMemoryBanks |-> 1, numChiplets |-> 1,
     schedulingPolicy |-> "FIFO",
     cacheEnabled |-> FALSE, cacheSize |-> 0, cacheHitLatency |-> 0,
     cachePortLimit |-> 1,
     dtcmEnabled |-> FALSE, dtcmBase |-> 0, dtcmSize |-> 0, dtcmLatency |-> 0,
     bankServiceLatency |-> 0, bankIndexFn |-> "AddressModN",
     bankConflictPolicy |-> "Serialize", bankPortLimit |-> 1,
     interconnectTopology |-> "Bus", interconnectLatency |-> 0,
     interconnectLinkWidth |-> 8, remoteChipletPenalty |-> 0,
     frequencyGHz |-> 10,
     coreToChiplet |-> <<>>, bankToChiplet |-> <<>>]

Abs(n) == IF n < 0 THEN -n ELSE n

(* i % numChiplets for i >= 0: in C++ the sign of the divisor is ignored.  *)
ChipletOf(i, numChiplets) == i % Abs(numChiplets)

Mapping(count, numChiplets) ==
    [k \in 1 .. count |-> ChipletOf(k - 1, numChiplets)]

CoreChiplet(c, core) == c.coreToChiplet[core + 1]

BankChiplet(c, bank) == c.bankToChiplet[bank + 1]

ChipletsValid(map, count, numChiplets) ==
    /\ Len(map) = count
    /\ \A k \in DOMAIN map : map[k] \in 0 .. numChiplets - 1

(* Mutant of Valid: the checks of the two optional memories are gone.      *)
ValidBanks(c) ==
    /\ c.numCores > 0 /\ c.numMemoryBanks > 0 /\ c.numChiplets > 0
    /\ c.bankServiceLatency >= 0 /\ c.bankPortLimit > 0
    /\ c.interconnectLatency >= 0 /\ c.interconnectLinkWidth > 0
    /\ c.remoteChipletPenalty >= 0

(* validate() throws on everything else.                                   *)
Valid(c) ==
    /\ c.numCores > 0 /\ c.numMemoryBanks > 0 /\ c.numChiplets > 0
    /\ c.cacheEnabled =>
          c.cacheSize > 0 /\ c.cacheHitLatency >= 0 /\ c.cachePortLimit > 0
    /\ c.dtcmEnabled => c.dtcmSize # 0 /\ c.dtcmLatency >= 0
    /\ c.bankServiceLatency >= 0 /\ c.bankPortLimit > 0
    /\ c.interconnectLatency >= 0 /\ c.interconnectLinkWidth > 0
    /\ c.remoteChipletPenalty >= 0
    /\ c.frequencyGHz > 0
    /\ ChipletsValid(c.coreToChiplet, c.numCores, c.numChiplets)
    /\ ChipletsValid(c.bankToChiplet, c.numMemoryBanks, c.numChiplets)
=============================================================================
