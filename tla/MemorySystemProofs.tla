--------------------------- MODULE MemorySystemProofs ---------------------------
(***************************************************************************)
(* With its memory system, for any valid configurations, the simulator is  *)
(* still the one that Simulator specifies: every step of it is a step of   *)
(* that, and its invariants carry over.                                    *)
(*                                                                         *)
(* The only step that differs is the one that answers a request.  That its *)
(* latency is one of MemLatencies needs two facts of the state: that the   *)
(* core of a request is a core (CoreProtocol: an event without a core is a *)
(* TaskReady) and that the configuration is one of Configs.                *)
(***************************************************************************)
EXTENDS CacheHistory, SimulatorProofs

ConfigOK == config \in Configs

(* What a request costs is one of the latencies Simulator chooses from.    *)
LEMMA LatencyAllowed ==
    ASSUME ConfigOK, NEW core \in Cores, NEW a \in Addresses
    PROVE  /\ BankLatency(config, core, a) \in MemLatencies
           /\ config.dtcmEnabled => config.dtcmLatency \in MemLatencies
           /\ config.cacheEnabled => config.cacheHitLatency \in MemLatencies
<1>1. PossibleLatencies(config, core, a) \subseteq MemLatencies
  BY LatenciesAssumption DEF ConfigOK
<1>. QED  BY <1>1 DEF PossibleLatencies

(* Every way through routeRequest() ends in one completeRequest().         *)
LEMMA RequestIsAnswered ==
    ASSUME ConfigOK, NEW e, RouteRequest(e),
           e.core \in Cores, e.address \in Addresses
    PROVE  \E latency \in MemLatencies : CompleteRequest(e, latency)
<1>1. CASE ServedByDTCM(e.address) /\ HandleDTCMAccess(e)
  BY <1>1, LatencyAllowed DEF ServedByDTCM, HandleDTCMAccess
<1>2. ASSUME HandleBankAccess(e)
      PROVE  \E latency \in MemLatencies : CompleteRequest(e, latency)
  BY <1>2, LatencyAllowed DEF HandleBankAccess
<1>3. CASE ServedByCache(e.address) /\ HandleCacheAccess(e)
  <2>1. CASE CompleteRequest(e, config.cacheHitLatency)
    BY <1>3, <2>1, LatencyAllowed DEF ServedByCache
  <2>2. CASE HandleBankAccess(e)
    BY <1>2, <2>2
  <2>. QED  BY <1>3, <2>1, <2>2 DEF HandleCacheAccess
<1>. QED  BY <1>1, <1>2, <1>3 DEF RouteRequest

(* issueRequest() does what HandleMemReqIssued allows.                     *)
LEMMA IssueRequestImplements ==
    ASSUME IInv, ConfigOK, NEW e \in DOMAIN events, IssueRequest(e)
    PROVE  HandleMemReqIssued(e)
<1>1. Popped(e, "MemReqIssued") /\ RouteRequest(e)
      /\ UNCHANGED <<phase, graphVars, schedulerVars, cores>>
  BY DEF IssueRequest
<1>2. e \in [type : EventTypes, time : Int, core : Cores \cup {NoCore},
             inst : Instances(work), address : Addresses]
  BY DEF IInv, TypeOK
<1>3. e.core # NoCore
  BY <1>1 DEF IInv, CoreProtocol, Popped
<1>4. e.core \in Cores /\ e.address \in Addresses
  BY <1>2, <1>3
<1>5. PICK latency \in MemLatencies : CompleteRequest(e, latency)
  BY <1>1, <1>4, RequestIsAnswered
<1>. QED  BY <1>1, <1>5 DEF HandleMemReqIssued, CompleteRequest

(* A step of the whole is one of the simulator, or none.                   *)
LEMMA StepImplements ==
    ASSUME IInv, ConfigOK, [SystemNext]_allVars
    PROVE  [Next]_vars
<1>1. ASSUME NEW e \in DOMAIN events, IssueRequest(e) PROVE Next
  BY <1>1, IssueRequestImplements DEF Next
<1>2. CASE OtherStep
  BY <1>2 DEF OtherStep, Next
<1>3. CASE UNCHANGED allVars
  BY <1>3 DEF allVars
<1>. QED  BY <1>1, <1>2, <1>3 DEF SystemNext

(* Nothing changes the configuration.                                      *)
LEMMA ConfigStays ==
    ASSUME ConfigOK, [SystemNext]_allVars
    PROVE  ConfigOK'
<1>1. config' = config
  BY DEF SystemNext, IssueRequest, memoryVars, allVars
<1>. QED  BY <1>1 DEF ConfigOK

(* The whole keeps the inductive invariant of the simulator: its types,    *)
(* the core protocol, no exception, work conservation and the order of     *)
(* time hold whatever tier answers which request.                          *)
THEOREM SystemInvariance == SystemSpec => [](IInv /\ ConfigOK)
<1>1. SystemInit => IInv /\ ConfigOK
  BY InitiallyIInv DEF SystemInit, MemoryInit, ConfigOK
<1>2. IInv /\ ConfigOK /\ [SystemNext]_allVars => (IInv /\ ConfigOK)'
  BY StepImplements, StepKeepsIInv, ConfigStays
<1>. QED  BY <1>1, <1>2, PTL DEF SystemSpec

(* With the memory system no handler throws either.                        *)
THEOREM SystemNoException == SystemSpec => []NoException
<1>1. IInv => NoException
  BY DEF IInv
<1>. QED  BY <1>1, SystemInvariance, PTL

(* MemorySystem.cpp answers each request exactly once and at one of the    *)
(* latencies Simulator leaves open: the detailed system is a refinement of *)
(* the simulator, as far as safety goes.                                   *)
THEOREM SystemImplementsSimulator == SystemSpec => SimulatorSafety
<1>1. SystemInit => Init
  BY DEF SystemInit
<1>2. IInv /\ ConfigOK /\ [SystemNext]_allVars => [Next]_vars
  BY StepImplements
<1>. QED
  BY <1>1, <1>2, SystemInvariance, PTL DEF SystemSpec, SimulatorSafety
-----------------------------------------------------------------------------
(* The invariant of well-behaved workloads carries over as well.           *)
LEMMA SystemWellBehaved ==
    SystemSpec /\ WellBehaved(work) => [](IInv /\ ConfigOK /\ WInv)
<1>1. SystemInit /\ WellBehaved(work) => IInv /\ ConfigOK /\ WInv
  BY InitiallyIInv, InitiallyWInv DEF SystemInit, MemoryInit, ConfigOK
<1>2. IInv /\ ConfigOK /\ WInv /\ [SystemNext]_allVars
         => (IInv /\ ConfigOK /\ WInv)'
  BY StepImplements, StepKeepsIInv, StepKeepsWInv, ConfigStays
<1>. QED  BY <1>1, <1>2, PTL DEF SystemSpec

(* Simulator::run() with the whole memory system behind it executes a      *)
(* well-behaved task graph: every instance once, on a core of its own,     *)
(* after the instances it depends on, whichever tier answers its requests. *)
THEOREM SystemExecutesGraph ==
    SystemSpec /\ WellBehaved(work) => Abstract!Safety
<1>1. SystemInit /\ WellBehaved(work) => Abstract!Init
  BY InitiallySimulates DEF SystemInit
<1>2. /\ IInv /\ ConfigOK /\ WInv /\ (IInv /\ ConfigOK /\ WInv)'
      /\ [SystemNext]_allVars
      => [Abstract!Next]_(Abstract!abstractVars)
  BY StepImplements, StepSimulates
<1>. QED
  BY <1>1, <1>2, SystemWellBehaved, PTL DEF SystemSpec, Abstract!Safety
-----------------------------------------------------------------------------
(* WHAT THE QUEUES AND THE CACHE HOLD                                      *)

(* What is known of one cache of Cache.tla, whatever its size.             *)
Caching ==
    INSTANCE LruInclusionProofs
        WITH Lines <- Addresses, SmallSize <- 1, LargeSize <- 1,
             small <- cache, large <- cache

(* A request, as handleBankAccess() passes it on.                          *)
Sent ==
    [address : Addresses, core : Cores, inst : Instances(work), time : Int,
     src : {CoreChiplet(c, core) : c \in Configs, core \in Cores}]

QueuesOK ==
    /\ linkQueue \in Seq(Sent)
    /\ bankQueues \in [BankIds(config) -> Seq(Sent)]
    /\ BanksPartitionLink

(* The cache is a cache of the size the configuration gives it, and is not *)
(* touched when it is not enabled.                                         *)
CacheOK ==
    IF config.cacheEnabled THEN Caching!WellFormed(cache, config.cacheSize)
    ELSE cache = EmptyCache

(* Nothing that the DTCM serves is anywhere else.                          *)
Shielded ==
    /\ \A a \in cache.cachedLines : ~ServedByDTCM(a)
    /\ \A n \in DOMAIN linkQueue : ~ServedByDTCM(linkQueue[n].address)
    /\ \A b \in BankIds(config) : \A n \in DOMAIN bankQueues[b] :
          ~ServedByDTCM(bankQueues[b][n].address)

MemoryInv == QueuesOK /\ CacheOK /\ Shielded

(* The cache of a valid configuration has room for a line.                 *)
LEMMA CacheSizes ==
    ASSUME NEW c \in Configs, c.cacheEnabled
    PROVE  c.cacheSize \in Nat \ {0}
BY ConfigsAssumption DEF Valid

(* The operations of Cache.tla are the same under both names.              *)
LEMMA SameCache ==
    ASSUME NEW state, NEW a, NEW size
    PROVE  Caching!CacheAfter(state, a, size) = CacheAfter(state, a, size)
BY DEF Caching!CacheAfter, CacheAfter, Caching!Hit, Hit, Caching!Touch, Touch,
       Caching!Insert, Insert, Caching!Full, Full, Caching!Evict, Evict,
       Caching!Place, Place, Caching!RemoveAt, RemoveAt,
       Caching!Cardinality, Cardinality

(* An access leaves a cache, which has no other new line than its own.     *)
LEMMA AccessKeepsCache ==
    ASSUME ConfigOK, CacheOK, config.cacheEnabled, NEW a \in Addresses
    PROVE  LET after == CacheAfter(cache, a, config.cacheSize)
           IN  /\ Caching!WellFormed(after, config.cacheSize)
               /\ after.cachedLines \subseteq cache.cachedLines \cup {a}
<1>. DEFINE after == CacheAfter(cache, a, config.cacheSize)
<1>1. config.cacheSize \in Nat \ {0}
  BY CacheSizes DEF ConfigOK
<1>2. Caching!WellFormed(cache, config.cacheSize)
  BY DEF CacheOK
<1>3. Caching!WellFormed(Caching!CacheAfter(cache, a, config.cacheSize),
                         config.cacheSize)
  BY <1>1, <1>2, Caching!StaysWellFormed
<1>4. Caching!WellFormed(after, config.cacheSize)
  BY <1>3, SameCache
<1>5. cache \in [lruList : Seq(Addresses), cachedLines : SUBSET Addresses]
  BY <1>2 DEF Caching!WellFormed
<1>6. CASE Hit(cache, a)
  <2>1. after.cachedLines = cache.cachedLines
    BY <1>5, <1>6 DEF CacheAfter, Touch
  <2>. QED  BY <1>4, <2>1
<1>7. CASE ~Hit(cache, a)
  <2>1. after.cachedLines \subseteq cache.cachedLines \cup {a}
    BY <1>5, <1>7 DEF CacheAfter, Insert, Evict
  <2>. QED  BY <1>4, <2>1
<1>. QED  BY <1>6, <1>7

(* Nothing but the service of a request touches the memory system, and the *)
(* requests of a run are of one type throughout.                           *)
LEMMA SentStays ==
    ASSUME IInv, [Next]_vars
    PROVE  Sent' = Sent
<1>1. work' = work
  BY DEF Next, vars, HandleTaskReady, HandleTaskDispatched, HandleComputeDone,
         HandleMemReqIssued, HandleMemRespDone, HandleTaskDone, Complete,
         Exited, Popped
<1>. QED  BY <1>1 DEF Sent

(* handleBankAccess() appends one request to the link and to its bank.     *)
LEMMA BankAccessKeepsQueues ==
    ASSUME QueuesOK, config' = config, Sent' = Sent, NEW e, NEW request \in Sent,
           request.address = e.address,
           linkQueue' = Enqueue(linkQueue, request),
           bankQueues' = [bankQueues EXCEPT
               ![BankIndex(config, e.address)] = Enqueue(@, request)]
    PROVE  QueuesOK'
<1>. DEFINE at == BankIndex(config, e.address)
            P(b) == {n \in DOMAIN linkQueue :
                        BankIndex(config, linkQueue[n].address) = b}
            Q(b) == {n \in DOMAIN Append(linkQueue, request) :
                        BankIndex(config,
                            Append(linkQueue, request)[n].address) = b}
            last == Len(linkQueue) + 1
<1>1. /\ linkQueue \in Seq(Sent)
      /\ bankQueues \in [BankIds(config) -> Seq(Sent)]
      /\ linkQueue' = Append(linkQueue, request)
      /\ BankIndex(config, request.address) = at
  BY DEF QueuesOK, Enqueue
<1>2. /\ DOMAIN linkQueue = 1 .. Len(linkQueue) /\ Len(linkQueue) \in Nat
      /\ Append(linkQueue, request) \in Seq(Sent)
      /\ DOMAIN Append(linkQueue, request) = 1 .. last
      /\ \A n \in 1 .. Len(linkQueue) :
            Append(linkQueue, request)[n] = linkQueue[n]
      /\ Append(linkQueue, request)[last] = request
  BY <1>1
<1>3. bankQueues' \in [BankIds(config) -> Seq(Sent)]
  <2>1. \A b \in BankIds(config) : Append(bankQueues[b], request) \in Seq(Sent)
    BY <1>1
  <2>. QED  BY <1>1, <2>1 DEF Enqueue
<1>4. ASSUME NEW b \in BankIds(config)
      PROVE  IsSelection(Append(linkQueue, request), Q(b), bankQueues'[b])
  <2>1. IsSelection(linkQueue, P(b), bankQueues[b])
    BY DEF QueuesOK, BanksPartitionLink
  <2>2. P(b) \in SUBSET (1 .. Len(linkQueue)) /\ bankQueues[b] \in Seq(Sent)
    BY <1>1, <1>2
  <2>3. CASE b = at
    <3>1. Q(b) = P(b) \cup {last}
      BY <1>1, <1>2, <2>3
    <3>2. bankQueues'[b] = Append(bankQueues[b], request)
      BY <1>1, <2>3 DEF Enqueue
    <3>. HIDE DEF P, Q, at
    <3>3. /\ linkQueue \in Seq(Sent) /\ request \in Sent
          /\ bankQueues[b] \in Seq(Sent) /\ P(b) \in SUBSET (1 .. Len(linkQueue))
          /\ IsSelection(linkQueue, P(b), bankQueues[b])
      BY <1>1, <2>1, <2>2
    <3>4. IsSelection(Append(linkQueue, request), P(b) \cup {Len(linkQueue) + 1},
                      Append(bankQueues[b], request))
      BY ONLY <3>3, SelectionGrows
    <3>. QED  BY <3>1, <3>2, <3>4
  <2>4. CASE b # at
    <3>1. Q(b) = P(b)
      BY <1>1, <1>2, <2>4
    <3>2. bankQueues'[b] = bankQueues[b]
      BY <1>1, <2>4
    <3>. HIDE DEF P, Q, at
    <3>. QED  BY <1>1, <2>1, <2>2, <3>1, <3>2, SelectionStays
  <2>. QED  BY <2>3, <2>4
<1>5. BanksPartitionLink'
  BY <1>1, <1>4 DEF BanksPartitionLink
<1>. QED  BY <1>1, <1>2, <1>3, <1>5 DEF QueuesOK

(* What it passes on is of the type of a request.                          *)
LEMMA RequestIsSent ==
    ASSUME ConfigOK, NEW e, e.core \in Cores, e.address \in Addresses,
           e.inst \in Instances(work), now' \in Int
    PROVE  Request(e.address, e.core, e.inst, now', CoreChiplet(config, e.core))
               \in Sent
BY DEF ConfigOK, Sent, Request

(* A request that is not for the DTCM may join the queues.                 *)
LEMMA BankAccessKeepsShield ==
    ASSUME QueuesOK, Shielded, config' = config, NEW e, ~ServedByDTCM(e.address),
           NEW request \in Sent, request.address = e.address,
           linkQueue' = Enqueue(linkQueue, request),
           bankQueues' = [bankQueues EXCEPT
               ![BankIndex(config, e.address)] = Enqueue(@, request)]
    PROVE  /\ \A n \in DOMAIN linkQueue' :
                 ~ServedByDTCM(linkQueue'[n].address)
           /\ \A b \in BankIds(config) : \A n \in DOMAIN bankQueues'[b] :
                 ~ServedByDTCM(bankQueues'[b][n].address)
<1>1. ASSUME NEW q \in Seq(Sent), NEW n \in DOMAIN Append(q, request),
             \A m \in DOMAIN q : ~ServedByDTCM(q[m].address)
      PROVE  ~ServedByDTCM(Append(q, request)[n].address)
  <2>1. \/ n \in DOMAIN q /\ Append(q, request)[n] = q[n]
        \/ Append(q, request)[n] = request
    OBVIOUS
  <2>. QED  BY <1>1, <2>1
<1>2. linkQueue \in Seq(Sent) /\ bankQueues \in [BankIds(config) -> Seq(Sent)]
  BY DEF QueuesOK
<1>3. ASSUME NEW b \in BankIds(config)
      PROVE  bankQueues'[b] \in {bankQueues[b], Append(bankQueues[b], request)}
  BY <1>2 DEF Enqueue
<1>4. ASSUME NEW b \in BankIds(config), NEW n \in DOMAIN bankQueues'[b]
      PROVE  ~ServedByDTCM(bankQueues'[b][n].address)
  <2>1. bankQueues[b] \in Seq(Sent)
    BY <1>2
  <2>2. \A m \in DOMAIN bankQueues[b] : ~ServedByDTCM(bankQueues[b][m].address)
    BY DEF Shielded
  <2>3. CASE bankQueues'[b] = bankQueues[b]
    BY <1>4, <2>2, <2>3
  <2>4. CASE bankQueues'[b] = Append(bankQueues[b], request)
    BY <1>1, <1>4, <2>1, <2>2, <2>4
  <2>. QED  BY <1>3, <2>3, <2>4
<1>5. \A n \in DOMAIN linkQueue' : ~ServedByDTCM(linkQueue'[n].address)
  BY <1>1, <1>2 DEF Enqueue, Shielded
<1>. QED  BY <1>4, <1>5

(* A request that a bank serves, with or without a cache.                  *)
LEMMA BankAccessKeeps ==
    ASSUME ConfigOK, QueuesOK, Shielded, config' = config, Sent' = Sent,
           NEW e, HandleBankAccess(e), ~ServedByDTCM(e.address),
           e.core \in Cores, e.address \in Addresses,
           e.inst \in Instances(work), now' \in Int,
           \A a \in cache'.cachedLines : ~ServedByDTCM(a)
    PROVE  QueuesOK' /\ Shielded'
<1>. DEFINE request == Request(e.address, e.core, e.inst, now',
                               CoreChiplet(config, e.core))
<1>1. request \in Sent /\ request.address = e.address
  BY RequestIsSent DEF Request
<1>2. /\ linkQueue' = Enqueue(linkQueue, request)
      /\ bankQueues' = [bankQueues EXCEPT
             ![BankIndex(config, e.address)] = Enqueue(@, request)]
  BY DEF HandleBankAccess
<1>. HIDE DEF request
<1>3. QueuesOK'
  BY <1>1, <1>2, BankAccessKeepsQueues
<1>4. /\ \A n \in DOMAIN linkQueue' : ~ServedByDTCM(linkQueue'[n].address)
      /\ \A b \in BankIds(config) : \A n \in DOMAIN bankQueues'[b] :
            ~ServedByDTCM(bankQueues'[b][n].address)
  BY <1>1, <1>2, BankAccessKeepsShield
<1>. QED  BY <1>3, <1>4 DEF Shielded, ServedByDTCM

(* issueRequest() keeps the queues, the cache and the shield.              *)
LEMMA IssueRequestKeeps ==
    ASSUME IInv, ConfigOK, MemoryInv, IInv', Sent' = Sent,
           NEW e \in DOMAIN events, IssueRequest(e)
    PROVE  MemoryInv'
<1>1. /\ Popped(e, "MemReqIssued") /\ RouteRequest(e) /\ config' = config
      /\ QueuesOK /\ CacheOK /\ Shielded
  BY DEF IssueRequest, MemoryInv
<1>2. now' \in Int
  BY DEF IInv, TypeOK
<1>3. e.core \in Cores /\ e.address \in Addresses /\ e.inst \in Instances(work)
  <2>1. e \in [type : EventTypes, time : Int, core : Cores \cup {NoCore},
               inst : Instances(work), address : Addresses]
    BY DEF IInv, TypeOK
  <2>2. e.core # NoCore
    BY <1>1 DEF IInv, CoreProtocol, Popped
  <2>. QED  BY <2>1, <2>2
<1>4. ASSUME UNCHANGED <<linkQueue, bankQueues>>,
             \A a \in cache'.cachedLines : ~ServedByDTCM(a)
      PROVE  QueuesOK' /\ Shielded'
  BY <1>1, <1>4 DEF QueuesOK, BanksPartitionLink, Shielded, ServedByDTCM
<1>5. CASE ServedByDTCM(e.address) /\ HandleDTCMAccess(e)
  <2>1. UNCHANGED <<cache, linkQueue, bankQueues>>
    BY <1>5 DEF HandleDTCMAccess
  <2>2. CacheOK'
    BY <1>1, <2>1 DEF CacheOK, Caching!WellFormed
  <2>. QED  BY <1>1, <1>4, <2>1, <2>2 DEF MemoryInv, Shielded
<1>6. CASE ServedByCache(e.address) /\ HandleCacheAccess(e)
  <2>1. /\ config.cacheEnabled /\ ~ServedByDTCM(e.address)
        /\ cache' = CacheAfter(cache, e.address, config.cacheSize)
    BY <1>6 DEF ServedByCache, HandleCacheAccess
  <2>2. /\ Caching!WellFormed(cache', config.cacheSize)
        /\ cache'.cachedLines \subseteq cache.cachedLines \cup {e.address}
    BY <1>1, <1>3, <2>1, AccessKeepsCache
  <2>3. CacheOK'
    BY <1>1, <2>1, <2>2 DEF CacheOK, Caching!WellFormed
  <2>4. \A a \in cache'.cachedLines : ~ServedByDTCM(a)
    BY <1>1, <2>1, <2>2 DEF Shielded
  <2>5. CASE UNCHANGED <<linkQueue, bankQueues>>
    BY <1>4, <2>3, <2>4, <2>5 DEF MemoryInv
  <2>6. CASE HandleBankAccess(e)
    BY <1>1, <1>2, <1>3, <2>1, <2>3, <2>4, <2>6, BankAccessKeeps DEF MemoryInv
  <2>. QED  BY <1>6, <2>5, <2>6 DEF HandleCacheAccess
<1>7. CASE ~ServedByDTCM(e.address) /\ HandleBankAccess(e) /\ UNCHANGED cache
  <2>1. CacheOK'
    BY <1>1, <1>7 DEF CacheOK, Caching!WellFormed
  <2>2. \A a \in cache'.cachedLines : ~ServedByDTCM(a)
    BY <1>1, <1>7 DEF Shielded
  <2>. QED  BY <1>1, <1>2, <1>3, <1>7, <2>1, <2>2, BankAccessKeeps DEF MemoryInv
<1>. QED  BY <1>1, <1>5, <1>6, <1>7 DEF RouteRequest

(* Every other step leaves the memory system as it is.                     *)
LEMMA StepKeepsMemory ==
    ASSUME IInv, ConfigOK, MemoryInv, IInv', [SystemNext]_allVars
    PROVE  MemoryInv'
<1>1. Sent' = Sent
  BY StepImplements, SentStays
<1>2. CASE UNCHANGED memoryVars
  BY <1>1, <1>2 DEF memoryVars, MemoryInv, QueuesOK, BanksPartitionLink, CacheOK,
     Caching!WellFormed, Shielded, ServedByDTCM
<1>. QED  BY <1>1, <1>2, IssueRequestKeeps DEF SystemNext, allVars

(* Before run() the queues and the cache are empty.                        *)
LEMMA InitiallyMemory == SystemInit => MemoryInv
<1>. SUFFICES ASSUME SystemInit PROVE MemoryInv
  OBVIOUS
<1>1. /\ config \in Configs /\ cache = EmptyCache /\ linkQueue = <<>>
      /\ bankQueues = [b \in BankIds(config) |-> <<>>]
  BY DEF SystemInit, MemoryInit
<1>2. BanksPartitionLink
  <2>1. IsSelection(<<>>, {}, <<>>)
    BY FS_EmptySet DEF IsSelection
  <2>2. ASSUME NEW b \in BankIds(config)
        PROVE  {n \in DOMAIN linkQueue :
                   BankIndex(config, linkQueue[n].address) = b} = {}
    BY <1>1
  <2>. QED  BY <1>1, <2>1, <2>2 DEF BanksPartitionLink
<1>3. CacheOK
  <2>1. CASE config.cacheEnabled
    <3>1. config.cacheSize \in Nat \ {0}
      BY <1>1, <2>1, CacheSizes
    <3>2. Caching!WellFormed(EmptyCache, config.cacheSize)
      BY <3>1 DEF Caching!WellFormed, EmptyCache
    <3>. QED  BY <1>1, <2>1, <3>2 DEF CacheOK
  <2>. QED  BY <1>1, <2>1 DEF CacheOK
<1>. QED  BY <1>1, <1>2, <1>3 DEF MemoryInv, QueuesOK, Shielded, EmptyCache

(* The three parts of the invariant hold in the whole system.              *)
LEMMA MemoryInvariance == SystemSpec => [](IInv /\ ConfigOK /\ MemoryInv)
<1>1. SystemInit => IInv /\ ConfigOK /\ MemoryInv
  BY InitiallyIInv, InitiallyMemory DEF SystemInit, MemoryInit, ConfigOK
<1>2. IInv /\ ConfigOK /\ MemoryInv /\ [SystemNext]_allVars
         => (IInv /\ ConfigOK /\ MemoryInv)'
  BY StepImplements, StepKeepsIInv, ConfigStays, StepKeepsMemory
<1>. QED  BY <1>1, <1>2, PTL DEF SystemSpec

(* What handleBankAccess() sends over the interconnect arrives at one      *)
(* bank, in the order it was sent, for any configuration and workload.     *)
THEOREM BanksGetTheLinksRequests == SystemSpec => []BanksPartitionLink
<1>1. MemoryInv => BanksPartitionLink
  BY DEF MemoryInv, QueuesOK
<1>. QED  BY <1>1, MemoryInvariance, PTL

(* An address inside a DTCM whose range does not reach the end of the      *)
(* address space takes no line of the cache and no place in a queue:       *)
(* routeRequest() asks the DTCM first, and DTCM::inRange() does not wrap.  *)
THEOREM DTCMIsAShield == SystemSpec => []DTCMShieldsMemory
<1>. DEFINE end == config.dtcmBase + config.dtcmSize
            here == config.dtcmBase .. end - 1
<1>1. ConfigOK /\ MemoryInv => DTCMShieldsMemory
  <2>. SUFFICES ASSUME ConfigOK, MemoryInv, config.dtcmEnabled,
                       end < AddressSpace
                PROVE  /\ here \cap (cache.cachedLines \cup Range(cache.lruList))
                             = {}
                       /\ \A r \in Range(linkQueue) : r.address \notin here
                       /\ \A b \in BankIds(config) :
                             \A r \in Range(bankQueues[b]) : r.address \notin here
    BY DEF DTCMShieldsMemory
  <2>1. config.dtcmBase \in Nat /\ config.dtcmSize \in Nat
    BY ConfigsAssumption DEF ConfigOK
  <2>2. ASSUME NEW a \in here PROVE ServedByDTCM(a)
    <3>1. Plus(config.dtcmBase, config.dtcmSize) = end
      BY <2>1, AddressBitsAssumption DEF Plus, AddressSpace
    <3>. QED  BY <2>1, <3>1 DEF ServedByDTCM, InRange
  <2>3. Range(cache.lruList) \subseteq cache.cachedLines
    <3>1. CASE config.cacheEnabled
      BY <3>1 DEF MemoryInv, CacheOK, Caching!WellFormed, Range
    <3>2. CASE ~config.cacheEnabled
      BY <3>2 DEF MemoryInv, CacheOK, EmptyCache, Range
    <3>. QED  BY <3>1, <3>2
  <2>. HIDE DEF here
  <2>. QED  BY <2>2, <2>3 DEF MemoryInv, Shielded, Range
<1>. QED  BY <1>1, MemoryInvariance, PTL
-----------------------------------------------------------------------------
(* THE LEAST RECENTLY USED                                                 *)

(* When each of the addresses that were asked for was asked for last.      *)
Uses(q, a) == {k \in DOMAIN q : q[k] = a}
LastUses(q) == [a \in ToSet(q) |-> Max(Uses(q, a))]

(* The last use is one of the uses.                                        *)
LEMMA LastIsUse ==
    ASSUME NEW q \in Seq(Addresses), NEW a \in ToSet(q)
    PROVE  /\ Max(Uses(q, a)) \in Uses(q, a)
           /\ \A k \in Uses(q, a) : k <= Max(Uses(q, a))
<1>. DEFINE n == Len(q)
            before == {n - k : k \in Uses(q, a)}
<1>1. DOMAIN q = 1 .. n /\ n \in Nat
  BY LenProperties
<1>2. Uses(q, a) \subseteq 1 .. n /\ Uses(q, a) # {}
  BY <1>1 DEF Uses, ToSet
<1>3. before \in SUBSET Nat /\ before # {}
  BY <1>1, <1>2
<1>4. PICK least \in before : \A m \in before : least <= m
  BY <1>3, LeastNatural
<1>5. PICK k \in Uses(q, a) : least = n - k
  BY <1>4
<1>6. ASSUME NEW m \in Uses(q, a) PROVE k >= m
  <2>1. n - m \in before
    OBVIOUS
  <2>2. n - k <= n - m
    BY <2>1, <1>4, <1>5
  <2>. QED  BY <2>2, <1>1, <1>2, <1>5
<1>7. /\ Max(Uses(q, a)) \in Uses(q, a)
      /\ \A m \in Uses(q, a) : Max(Uses(q, a)) >= m
  <2>. HIDE DEF Uses
  <2>. QED  BY <1>5, <1>6 DEF Max
<1>. QED  BY <1>1, <1>2, <1>7

(* The last use of an address is a position in what was asked.             *)
LEMMA LastUsesType ==
    ASSUME NEW q \in Seq(Addresses)
    PROVE  /\ LastUses(q) \in [ToSet(q) -> 1 .. Len(q)]
           /\ ToSet(q) \in SUBSET Addresses
           /\ IsFiniteSet(ToSet(q))
<1>1. DOMAIN q = 1 .. Len(q) /\ Len(q) \in Nat
  BY LenProperties
<1>2. LastUses(q) \in [ToSet(q) -> 1 .. Len(q)]
  BY <1>1, LastIsUse DEF LastUses, Uses
<1>3. q \in Surjection(1 .. Len(q), ToSet(q))
  BY <1>1 DEF Surjection, ToSet
<1>4. IsFiniteSet(ToSet(q))
  BY <1>1, <1>3, FS_Interval, FS_Surjection
<1>. QED  BY <1>2, <1>4 DEF ToSet

(* One more use of a is its last, and the others have the one they had.    *)
LEMMA LastUsesAppend ==
    ASSUME NEW q \in Seq(Addresses), NEW a \in Addresses
    PROVE  LastUses(Append(q, a)) =
               [b \in ToSet(q) \cup {a} |->
                   IF b = a THEN Len(q) + 1 ELSE LastUses(q)[b]]
<1>. DEFINE p == Append(q, a)
            n == Len(q)
<1>1. /\ DOMAIN q = 1 .. n /\ n \in Nat
      /\ p \in Seq(Addresses) /\ DOMAIN p = 1 .. n + 1
      /\ \A k \in 1 .. n : p[k] = q[k]
      /\ p[n + 1] = a
  BY AppendProperties, LenProperties
<1>. HIDE DEF p, n
<1>2. ToSet(p) = ToSet(q) \cup {a}
  BY <1>1 DEF ToSet
<1>3. Max(Uses(p, a)) = n + 1
  <2>1. n + 1 \in Uses(p, a) /\ Uses(p, a) \subseteq 1 .. n + 1
    BY <1>1 DEF Uses
  <2>2. a \in ToSet(p)
    BY <1>2
  <2>3. Max(Uses(p, a)) \in 1 .. n + 1 /\ n + 1 <= Max(Uses(p, a))
    BY <1>1, <2>1, <2>2, LastIsUse
  <2>. QED  BY <1>1, <2>3
<1>4. ASSUME NEW b \in ToSet(q), b # a
      PROVE  Uses(p, b) = Uses(q, b)
  BY <1>1, <1>4 DEF Uses
<1>5. ASSUME NEW b \in ToSet(q) \cup {a}
      PROVE  Max(Uses(p, b)) = IF b = a THEN n + 1 ELSE LastUses(q)[b]
  BY <1>3, <1>4 DEF LastUses
<1>6. LastUses(p) = [b \in ToSet(q) \cup {a} |-> Max(Uses(p, b))]
  BY <1>2 DEF LastUses
<1>. QED  BY <1>5, <1>6 DEF p, n

(* Counting is the same under both names, too.                             *)
LEMMA SameCardinality ==
    ASSUME NEW S
    PROVE  /\ Caching!Cardinality(S) = Cardinality(S)
           /\ Caching!IsFiniteSet(S) <=> IsFiniteSet(S)
BY DEF Caching!Cardinality, Cardinality, Caching!IsFiniteSet, IsFiniteSet

(* The cache is in the order of the last uses, if there is a cache.        *)
HistoryInv ==
    /\ asked \in Seq(Addresses)
    /\ IF config.cacheEnabled
       THEN Caching!InOrder(cache, config.cacheSize, LastUses(asked))
       ELSE asked = <<>>

(* Nothing was asked of the cache, and nothing is in it.                   *)
LEMMA InitiallyHistory == AskedInit => HistoryInv
<1>. SUFFICES ASSUME AskedInit PROVE HistoryInv
  OBVIOUS
<1>1. /\ config \in Configs /\ cache = EmptyCache /\ asked = <<>>
      /\ asked \in Seq(Addresses)
  BY DEF AskedInit, SystemInit, MemoryInit
<1>2. CASE config.cacheEnabled
  <2>1. config.cacheSize \in Nat \ {0}
    BY <1>1, <1>2, CacheSizes
  <2>2. Caching!WellFormed(EmptyCache, config.cacheSize)
    BY <2>1 DEF Caching!WellFormed, EmptyCache
  <2>3. DOMAIN LastUses(<<>>) = {}
    BY DEF LastUses, ToSet
  <2>4. EmptyCache.cachedLines = {} /\ Len(EmptyCache.lruList) = 0
    BY DEF EmptyCache
  <2>5. Caching!InOrder(EmptyCache, config.cacheSize, LastUses(<<>>))
    BY <2>2, <2>3, <2>4 DEF Caching!InOrder
  <2>. QED  BY <1>1, <1>2, <2>5 DEF HistoryInv
<1>. QED  BY <1>1, <1>2 DEF HistoryInv

(* What the history notes is what a step of the memory system does.        *)
LEMMA AskedIsSystem == [AskedNext]_<<allVars, asked>> => [SystemNext]_allVars
BY DEF AskedNext, SystemNext

(* Every step keeps the cache in the order of the last uses.               *)
LEMMA StepKeepsHistory ==
    ASSUME IInv, ConfigOK, HistoryInv, [AskedNext]_<<allVars, asked>>
    PROVE  HistoryInv'
<1>1. ASSUME NEW e \in DOMAIN events, IssueRequest(e), ServedByCache(e.address),
             asked' = Append(asked, e.address)
      PROVE  HistoryInv'
  <2>1. /\ e.address \in Addresses /\ config' = config /\ config.cacheEnabled
        /\ cache' = CacheAfter(cache, e.address, config.cacheSize)
    <3>1. e.address \in Addresses
      BY DEF IInv, TypeOK
    <3>2. config' = config /\ config.cacheEnabled /\ ~ServedByDTCM(e.address)
      BY <1>1 DEF IssueRequest, ServedByCache
    <3>3. HandleCacheAccess(e)
      BY <1>1, <3>2 DEF IssueRequest, RouteRequest
    <3>. QED  BY <3>1, <3>2, <3>3 DEF HandleCacheAccess
  <2>2. /\ asked \in Seq(Addresses) /\ config.cacheSize \in Nat \ {0}
        /\ Caching!InOrder(cache, config.cacheSize, LastUses(asked))
    BY <2>1, CacheSizes DEF HistoryInv, ConfigOK
  <2>3. /\ LastUses(asked) \in [ToSet(asked) -> 1 .. Len(asked)]
        /\ ToSet(asked) \in SUBSET Addresses /\ Len(asked) \in Nat
    BY <2>2, LastUsesType, LenProperties
  <2>4. LastUses(asked') =
            [b \in ToSet(asked) \cup {e.address} |->
                IF b = e.address THEN Len(asked) + 1 ELSE LastUses(asked)[b]]
    BY <1>1, <2>1, <2>2, LastUsesAppend
  <2>5. Caching!InOrder(
            Caching!CacheAfter(cache, e.address, config.cacheSize),
            config.cacheSize, LastUses(asked'))
    <3>. DEFINE D == ToSet(asked)
                last == LastUses(asked)
                size == config.cacheSize
                a == e.address
                n == Len(asked)
    <3>1. /\ size \in Nat \ {0} /\ a \in Addresses
          /\ D \in SUBSET Addresses /\ n \in Nat /\ last \in [D -> 1 .. n]
          /\ Caching!InOrder(cache, size, last)
      BY <2>1, <2>2, <2>3
    <3>. HIDE DEF D, last, size, a, n
    <3>2. Caching!InOrder(
              Caching!CacheAfter(cache, a, size), size,
              [b \in D \cup {a} |-> IF b = a THEN n + 1 ELSE last[b]])
      BY ONLY SMTT(30), <3>1, Caching!StaysInOrder
    <3>. QED  BY <3>2, <2>4 DEF D, last, size, a, n
  <2>6. Caching!InOrder(cache', config.cacheSize, LastUses(asked'))
    BY <2>1, <2>5, SameCache
  <2>7. asked' \in Seq(Addresses)
    BY <1>1, <2>1, <2>2
  <2>. QED  BY <2>1, <2>6, <2>7 DEF HistoryInv, Caching!InOrder,
                Caching!WellFormed, LastUses, Uses, ToSet
<1>2. ASSUME UNCHANGED <<config, cache, asked>>
      PROVE  HistoryInv'
  <2>1. LastUses(asked)' = LastUses(asked)
    BY <1>2 DEF LastUses, Uses, ToSet, Max
  <2>2. (Caching!InOrder(cache, config.cacheSize, LastUses(asked)))'
            = Caching!InOrder(cache, config.cacheSize, LastUses(asked))
    BY <1>2, <2>1 DEF Caching!InOrder, Caching!WellFormed
  <2>. QED  BY <1>2, <2>2 DEF HistoryInv
<1>3. ASSUME NEW e \in DOMAIN events, IssueRequest(e),
             ~ServedByCache(e.address), asked' = asked
      PROVE  HistoryInv'
  <2>1. UNCHANGED <<config, cache>>
    BY <1>3 DEF IssueRequest, RouteRequest, HandleDTCMAccess
  <2>. QED  BY <1>2, <1>3, <2>1
<1>4. CASE OtherStep /\ UNCHANGED <<memoryVars, asked>>
  BY <1>2, <1>4 DEF memoryVars
<1>5. CASE UNCHANGED <<allVars, asked>>
  BY <1>2, <1>5 DEF allVars, memoryVars
<1>. QED  BY <1>1, <1>3, <1>4, <1>5 DEF AskedNext

(* The cache is in the order of the last uses all along.                   *)
LEMMA HistoryInvariance ==
    AskedSpec => [](IInv /\ ConfigOK /\ MemoryInv /\ HistoryInv)
<1>1. AskedInit => IInv /\ ConfigOK /\ MemoryInv /\ HistoryInv
  BY InitiallyIInv, InitiallyMemory, InitiallyHistory
     DEF AskedInit, SystemInit, MemoryInit, ConfigOK
<1>2. /\ IInv /\ ConfigOK /\ MemoryInv /\ HistoryInv
      /\ [AskedNext]_<<allVars, asked>>
      => (IInv /\ ConfigOK /\ MemoryInv /\ HistoryInv)'
  BY AskedIsSystem, StepImplements, StepKeepsIInv, ConfigStays,
     StepKeepsMemory, StepKeepsHistory
<1>. QED  BY <1>1, <1>2, PTL DEF AskedSpec

(* handleCacheAccess() keeps exactly the addresses that were used last, in *)
(* the order of their last use, whatever the order in which the cores ask. *)
THEOREM CacheIsExact == AskedSpec => []LruExact
<1>1. ConfigOK /\ MemoryInv /\ HistoryInv => LruExact
  <2>. SUFFICES ASSUME ConfigOK, MemoryInv, HistoryInv PROVE LruExact
    OBVIOUS
  <2>. DEFINE used == ToSet(asked)
              last == LastUses(asked)
  <2>1. /\ asked \in Seq(Addresses)
        /\ last \in [used -> 1 .. Len(asked)] /\ used \in SUBSET Addresses
        /\ IsFiniteSet(used)
    BY LastUsesType DEF HistoryInv
  <2>2. \A a \in used : LastUse(a) = last[a]
    BY DEF LastUse, LastUses, Uses
  <2>3. CASE config.cacheEnabled
    <3>. DEFINE size == config.cacheSize
                more(a) == Caching!More(used, last, a)
                kept == Caching!Kept(used, last, size)
    <3>1. config.cacheSize \in Nat \ {0} /\ last \in [used -> Nat]
      BY <2>1, <2>3, CacheSizes DEF ConfigOK
    <3>2. Caching!InOrder(cache, config.cacheSize, last)
      BY <2>3 DEF HistoryInv
    <3>3. /\ cache.cachedLines = kept
          /\ Len(cache.lruList) = Cardinality(kept)
          /\ \A a \in kept : cache.lruList[more(a) + 1] = a
      <4>1. /\ size \in Nat \ {0} /\ last \in [used -> Nat]
            /\ Caching!InOrder(cache, size, last)
            /\ used \in SUBSET Addresses /\ Caching!IsFiniteSet(used)
        BY <2>1, <3>1, <3>2, SameCardinality
      <4>. HIDE DEF used, last, size
      <4>2. /\ cache.cachedLines = kept
            /\ Len(cache.lruList) = Caching!Cardinality(kept)
            /\ \A a \in kept : cache.lruList[more(a) + 1] = a
        BY ONLY <4>1, Caching!OrderIsExact
      <4>. QED  BY ONLY <4>2, SameCardinality
    <3>4. ASSUME NEW a \in used
          PROVE  Cardinality({b \in used : LastUse(b) > LastUse(a)}) = more(a)
      <4>. HIDE DEF used, last
      <4>1. {b \in used : LastUse(b) > LastUse(a)} = Caching!Above(used, last, a)
        BY <2>2 DEF Caching!Above
      <4>. QED  BY ONLY <4>1, SameCardinality DEF Caching!More
    <3>. HIDE DEF used, last, more
    <3>5. {a \in used : Cardinality({b \in used : LastUse(b) > LastUse(a)})
                            < size} = kept
      BY <3>4 DEF Caching!Kept, more
    <3>6. \A a \in kept : a \in used
      BY DEF Caching!Kept
    <3>. QED  BY <3>3, <3>4, <3>5, <3>6 DEF LruExact, used
  <2>4. CASE ~config.cacheEnabled
    <3>1. used = {} /\ cache = EmptyCache
      BY <2>4 DEF HistoryInv, MemoryInv, CacheOK, ToSet
    <3>. QED  BY <3>1, FS_EmptySet DEF LruExact, EmptyCache
  <2>. QED  BY <2>3, <2>4
<1>. QED  BY <1>1, HistoryInvariance, PTL
=============================================================================
