-------------------------------- MODULE MCMemory --------------------------------
(***************************************************************************)
(* Instances of the simulator with its memory system, for TLC.             *)
(***************************************************************************)
EXTENDS CacheHistory

(* The README on the policy Serialize: "queue all conflicting requests,    *)
(* service one at a time".  So the answers of a bank, on requests of the   *)
(* same chiplet, are at least a service time apart.                        *)
OneAtATime ==
    \A e, f \in DOMAIN events :
        /\ e.type = "MemRespDone" /\ f.type = "MemRespDone" /\ e # f
        /\ BankIndex(config, e.address) = BankIndex(config, f.address)
        /\ CoreChiplet(config, e.core) = CoreChiplet(config, f.core)
        => e.time >= f.time + config.bankServiceLatency
              \/ f.time >= e.time + config.bankServiceLatency
-----------------------------------------------------------------------------
MCTaskIds == 1 .. 3
MCAddresses == {0, 64, 128, 65536, 65600}

C(n) == [type |-> "Compute", cycles |-> n, address |-> 0]
M(a) == [type |-> "Memory", cycles |-> 0, address |-> a]
Row(id, executions, deps) ==
    [id |-> id, executions |-> executions, deps |-> deps]

(* Two instances that go over the same lines, and a third with its own.    *)
Sharing ==
    [tasks |-> <<Row(1, 1, <<>>), Row(2, 2, <<1>>), Row(3, 1, <<1>>)>>,
     ops |-> <<<<C(1)>>, <<M(64), M(0), M(64)>>,
               <<M(128), M(65536), M(65600), M(64)>>>>]

Workloads1 == {Sharing}

(* Two cores and two banks on two chiplets.                                *)
Banks ==
    [DefaultConfig EXCEPT
        !.numCores = 2, !.numMemoryBanks = 2, !.numChiplets = 2,
        !.schedulingPolicy = Policy,
        !.bankServiceLatency = 2, !.interconnectLatency = 1,
        !.interconnectLinkWidth = 48, !.remoteChipletPenalty = 3,
        !.coreToChiplet = Mapping(2, 2), !.bankToChiplet = Mapping(2, 2)]

Cached ==
    [Banks EXCEPT !.cacheEnabled = TRUE, !.cacheSize = 2, !.cacheHitLatency = 1]

(* The same with line 0 of the second half of memory in the DTCM.          *)
CachedAndDTCM ==
    [Cached EXCEPT !.dtcmEnabled = TRUE, !.dtcmBase = 65536, !.dtcmSize = 64,
                   !.dtcmLatency = 1]

(* Three banks on one chiplet, hashed.                                     *)
Hashed ==
    [Banks EXCEPT
        !.numMemoryBanks = 3, !.numChiplets = 1, !.bankIndexFn = "XorFold",
        !.coreToChiplet = Mapping(2, 1), !.bankToChiplet = Mapping(3, 1)]

MCConfigs == {Cached, CachedAndDTCM, Hashed}

(* Two cores on one chiplet.                                               *)
JustHashed == {Hashed}
=============================================================================
