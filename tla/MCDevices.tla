------------------------------- MODULE MCDevices -------------------------------
(***************************************************************************)
(* Instances of the memory devices for TLC: one configuration per policy.  *)
(***************************************************************************)
EXTENDS MemoryDevices

MCAddresses == {0, 64}

(* Two cores and two banks on two chiplets.                                *)
Devices(policy, ports, latency) ==
    [DefaultConfig EXCEPT
        !.numCores = 2, !.numMemoryBanks = 2, !.numChiplets = 2,
        !.bankServiceLatency = latency, !.bankConflictPolicy = policy,
        !.bankPortLimit = ports,
        !.interconnectLinkWidth = 64, !.remoteChipletPenalty = 1,
        !.coreToChiplet = Mapping(2, 2), !.bankToChiplet = Mapping(2, 2)]

MCConfigs ==
    {Devices("Serialize", 1, 2), Devices("Queue", 2, 2),
     Devices("ExtraDelay", 1, 12)}
=============================================================================
