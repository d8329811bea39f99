------------------------------ MODULE MemorySystem ------------------------------
(***************************************************************************)
(* The simulator with its memory system (MemorySystem.cpp): the one place  *)
(* where Simulator leaves a choice, the latency of a memory request, is    *)
(* decided here by the configuration, the address and the cache.           *)
(*                                                                         *)
(* A request is answered at once: its MemRespDone is scheduled before      *)
(* issueRequest() returns.  On its way it is pushed on the queues of the   *)
(* interconnect and of a bank, which nothing ever empties.  Left out: the  *)
(* counters, the backing store, which is constructed and never accessed,   *)
(* and rw, which decides nothing.                                          *)
(***************************************************************************)
EXTENDS Simulator, Cache, Latency, Selection

CONSTANT Configs   \* the configurations a run may be given

(* Config::loadFromFile() returned them, and they are the ones that gave   *)
(* the scheduler its constants.                                            *)
ASSUME ConfigsAssumption ==
    \A c \in Configs :
        /\ Valid(c)
        /\ c.cacheSize \in Int /\ {c.dtcmBase, c.dtcmSize} \subseteq Nat
        /\ c.numCores = NumCores
        /\ c.schedulingPolicy = Policy

VARIABLES
    config,      \* MemorySystem::config
    cache,       \* MemorySystem::cache, unused unless enabled
    linkQueue,   \* Interconnect::requestQueue
    bankQueues   \* MemoryBank::requestQueue, per bank

memoryVars == <<config, cache, linkQueue, bankQueues>>
allVars == <<vars, memoryVars>>

(* The abstract choice of Simulator includes what the memory system does.  *)
ASSUME LatenciesAssumption ==
    \A c \in Configs, core \in Cores, a \in Addresses :
        PossibleLatencies(c, core, a) \subseteq MemLatencies

-----------------------------------------------------------------------------
MemoryInit ==
    /\ config \in Configs
    /\ cache = EmptyCache
    /\ linkQueue = <<>>
    /\ bankQueues = [b \in BankIds(config) |-> <<>>]

(* Mutant of CompleteRequest: the callback is not called.                  *)
LoseRequest(e, latency) == events' = Pop(events, e)

(* completeRequest(): the answer to the request e goes to the event queue. *)
CompleteRequest(e, latency) ==
    events' = Push(Pop(events, e),
        Event("MemRespDone", now' + latency, e.core, e.inst, e.address))

(* The counter of dtcm->access() aside, only the latency matters.          *)
HandleDTCMAccess(e) ==
    /\ CompleteRequest(e, config.dtcmLatency)
    /\ UNCHANGED <<cache, linkQueue, bankQueues>>

(* Mutant of HandleBankAccess: an access within the chiplet does without   *)
(* the interconnect.                                                       *)
HandleBankAccessDirectly(e) ==
    LET b == BankIndex(config, e.address)
        src == CoreChiplet(config, e.core)
        request == Request(e.address, e.core, e.inst, now', src)
    IN  /\ linkQueue' = IF src = BankChiplet(config, b) THEN linkQueue
                        ELSE Enqueue(linkQueue, request)
        /\ bankQueues' = [bankQueues EXCEPT ![b] = Enqueue(@, request)]
        /\ CompleteRequest(e, BankLatency(config, e.core, e.address))

(* The request goes over the interconnect to the bank of its address, and  *)
(* is answered after the latency of both, whatever waits there already.    *)
HandleBankAccess(e) ==
    LET b == BankIndex(config, e.address)
        request == Request(e.address, e.core, e.inst, now',
                           CoreChiplet(config, e.core))
    IN  /\ linkQueue' = Enqueue(linkQueue, request)
        /\ bankQueues' = [bankQueues EXCEPT ![b] = Enqueue(@, request)]
        /\ CompleteRequest(e, BankLatency(config, e.core, e.address))

(* A miss is entered into the cache at once, before the bank has answered. *)
HandleCacheAccess(e) ==
    /\ cache' = CacheAfter(cache, e.address, config.cacheSize)
    /\ \/ /\ Hit(cache, e.address)
          /\ CompleteRequest(e, config.cacheHitLatency)
          /\ UNCHANGED <<linkQueue, bankQueues>>
       \/ ~Hit(cache, e.address) /\ HandleBankAccess(e)

ServedByDTCM(a) == config.dtcmEnabled /\ InRange(config, a)

ServedByCache(a) == ~ServedByDTCM(a) /\ config.cacheEnabled

(* routeRequest(): the DTCM, else the cache, else a bank.                  *)
RouteRequest(e) ==
    \/ ServedByDTCM(e.address) /\ HandleDTCMAccess(e)
    \/ ServedByCache(e.address) /\ HandleCacheAccess(e)
    \/ /\ ~ServedByDTCM(e.address) /\ ~ServedByCache(e.address)
       /\ HandleBankAccess(e)
       /\ UNCHANGED cache

IssueRequest(e) ==
    /\ Popped(e, "MemReqIssued")
    /\ RouteRequest(e)
    /\ UNCHANGED <<phase, graphVars, schedulerVars, cores, config>>

(* What the loop of run() does besides handling a MemReqIssued.            *)
OtherStep ==
    \/ \E e \in DOMAIN events :
          \/ HandleTaskReady(e)
          \/ HandleTaskDispatched(e)
          \/ HandleComputeDone(e)
          \/ HandleMemRespDone(e)
          \/ HandleTaskDone(e)
    \/ Complete
    \/ Exited

SystemInit == Init /\ MemoryInit

SystemNext ==
    \/ \E e \in DOMAIN events : IssueRequest(e)
    \/ OtherStep /\ UNCHANGED memoryVars

SystemSpec == SystemInit /\ [][SystemNext]_allVars /\ WF_allVars(SystemNext)
-----------------------------------------------------------------------------
(* The memory system gives each request one answer, after a latency the    *)
(* simulator allows for: with it the simulator is still the simulator that *)
(* Simulator specifies, so what is proved of that holds of the whole.      *)
ImplementsSimulator == Spec

(* Its safety part, which leaves out that the loop goes on.                *)
SimulatorSafety == Init /\ [][Next]_vars

(* The queues of the banks are a partition of the interconnect's: what a   *)
(* core sends over the link arrives at one bank, in the order it was sent. *)
BanksPartitionLink ==
    \A b \in BankIds(config) :
        IsSelection(linkQueue,
                    {n \in DOMAIN linkQueue :
                        BankIndex(config, linkQueue[n].address) = b},
                    bankQueues[b])

(* An address of the DTCM is nowhere else: whatever its neighbours do, it  *)
(* takes no line of the cache, no place on the link and none at a bank.    *)
(* That is so if the sum of base and size, as numbers, fits an address: a  *)
(* range that ends with the last address is empty to DTCM::inRange().      *)
DTCMShieldsMemory ==
    LET end == config.dtcmBase + config.dtcmSize
        here == config.dtcmBase .. end - 1
    IN  config.dtcmEnabled /\ end < AddressSpace =>
            /\ here \cap (cache.cachedLines \cup Range(cache.lruList)) = {}
            /\ \A r \in Range(linkQueue) : r.address \notin here
            /\ \A b \in BankIds(config) :
                  \A r \in Range(bankQueues[b]) : r.address \notin here
=============================================================================
