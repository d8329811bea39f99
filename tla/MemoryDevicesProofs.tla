--------------------------- MODULE MemoryDevicesProofs ---------------------------
(***************************************************************************)
(* What holds of a memory bank however it is called: no more services are  *)
(* in progress than the policy allows, and they end in the order in which  *)
(* they began.  Both follow from what one bank is like between two calls   *)
(* (BankInv), which no other bank can disturb.                             *)
(***************************************************************************)
EXTENDS MemoryDevices, SequenceProofs

Asked ==
    [address : Addresses, core : DeviceCores, inst : Nat, time : Nat,
     src : {CoreChiplet(c, core) : c \in Configs, core \in DeviceCores}]

Bank ==
    [queue : Seq(Asked), busy : BOOLEAN, busyUntil : Nat, ports : Nat,
     requests : Nat, conflicts : Nat, portConflicts : Nat]

Service == [request : Asked, start : Nat, end : Nat]

(* The longest a service takes that begins now.                            *)
Longest(c) ==
    c.bankServiceLatency
        + IF c.bankConflictPolicy = "ExtraDelay" THEN ConflictPenalty ELSE 0

(* What marks a bank as taken are its services: busy says whether there    *)
(* was one, and under the policy Queue ports says how many.                *)
Taken(c, bank, services) ==
    /\ bank.busy <=> services # <<>>
    /\ c.bankConflictPolicy = "Serialize" => Len(services) <= 1
    /\ c.bankConflictPolicy = "Queue" =>
          bank.ports = Len(services) /\ bank.ports <= c.bankPortLimit

(* The services end in order, busyUntil is the end of the last and not too *)
(* far away: a service that begins now does not end before it.             *)
Ordered(c, bank, services, t) ==
    /\ \A j, k \in 1 .. Len(services) :
          j < k => services[j].end <= services[k].end
    /\ services # <<>> => bank.busyUntil = services[Len(services)].end
    /\ services = <<>> => bank.busyUntil = 0
    /\ bank.busyUntil <= t + Longest(c)

BankInv(c, bank, services, refusals, t) ==
    /\ bank \in Bank
    /\ services \in Seq(Service)
    /\ refusals \in Nat
    /\ Taken(c, bank, services)
    /\ Ordered(c, bank, services, t)

DevicesInv ==
    /\ config \in Configs
    /\ clock \in Nat
    /\ received \in Seq(Asked)
    /\ DOMAIN banks = BankIds(config)
    /\ DOMAIN served = BankIds(config)
    /\ DOMAIN refused = BankIds(config)
    /\ \A b \in BankIds(config) :
          BankInv(config, banks[b], served[b], refused[b], clock)
-----------------------------------------------------------------------------
(* What validate() has established of the parameters of a bank.            *)
LEMMA ConfigTypes ==
    ASSUME NEW c \in Configs
    PROVE  /\ c.bankServiceLatency \in Nat
           /\ c.bankPortLimit \in Nat \ {0}
           /\ c.bankConflictPolicy \in {"Serialize", "Queue", "ExtraDelay"}
           /\ Longest(c) \in Nat
<1>1. Valid(c) /\ c.bankServiceLatency \in Int /\ c.bankPortLimit \in Int
      /\ c.bankConflictPolicy \in {"Serialize", "Queue", "ExtraDelay"}
  BY DevicesAssumption
<1>2. c.bankServiceLatency \in Nat /\ c.bankPortLimit \in Nat \ {0}
  BY <1>1 DEF Valid
<1>. QED  BY <1>1, <1>2 DEF Longest, ConflictPenalty

(* A bank that receives a request is taken as before.                      *)
LEMMA ReceivingKeeps ==
    ASSUME NEW c, NEW bank, NEW services, NEW refusals, NEW t,
           NEW request \in Asked, BankInv(c, bank, services, refusals, t)
    PROVE  BankInv(c, ReceiveRequest(bank, request), services, refusals, t)
<1>. DEFINE new == ReceiveRequest(bank, request)
<1>1. /\ bank \in Bank
      /\ Append(bank.queue, request) \in Seq(Asked)
      /\ bank.requests + 1 \in Nat
  BY DEF BankInv, Bank
<1>2. /\ new \in Bank
      /\ new.busy = bank.busy /\ new.ports = bank.ports
      /\ new.busyUntil = bank.busyUntil
  BY <1>1 DEF Bank, ReceiveRequest
<1>. QED  BY <1>2 DEF BankInv, Taken, Ordered, Accepts, PortAvailable

(* So is one that refuses a call.                                          *)
LEMMA RefusingKeeps ==
    ASSUME NEW c, NEW bank, NEW services, NEW refusals, NEW t,
           BankInv(c, bank, services, refusals, t)
    PROVE  BankInv(c, Refuse(c, bank), services, refusals + 1, t)
<1>. DEFINE new == Refuse(c, bank)
<1>1. /\ bank \in Bank
      /\ bank.conflicts + 1 \in Nat
      /\ (IF c.bankConflictPolicy = "Queue" THEN bank.portConflicts + 1
          ELSE bank.portConflicts) \in Nat
  BY DEF BankInv, Bank
<1>2. /\ new \in Bank
      /\ new.busy = bank.busy /\ new.ports = bank.ports
      /\ new.busyUntil = bank.busyUntil
  BY <1>1 DEF Bank, Refuse
<1>. QED  BY <1>2 DEF BankInv, Taken, Ordered

(* Time brings the end of the services only nearer.                        *)
LEMMA WaitingKeeps ==
    ASSUME NEW c \in Configs, NEW bank, NEW services, NEW refusals,
           NEW t \in Nat, NEW u \in Nat, t <= u,
           BankInv(c, bank, services, refusals, t)
    PROVE  BankInv(c, bank, services, refusals, u)
<1>1. bank.busyUntil \in Nat /\ Longest(c) \in Nat
  BY ConfigTypes DEF BankInv, Bank
<1>2. bank.busyUntil <= u + Longest(c)
  BY <1>1 DEF BankInv, Ordered
<1>. QED  BY <1>2 DEF BankInv, Ordered

(* A service that begins now ends no earlier than those before it, and the *)
(* bank is taken by one service more.                                      *)
LEMMA CompletionBounds ==
    ASSUME NEW c \in Configs, NEW bank, NEW services, NEW refusals,
           NEW t \in Nat, BankInv(c, bank, services, refusals, t)
    PROVE  /\ Completion(c, bank, t) \in Nat
           /\ bank.busyUntil <= Completion(c, bank, t)
           /\ Completion(c, bank, t) <= t + Longest(c)
<1>. DEFINE latency == c.bankServiceLatency
<1>1. /\ latency \in Nat /\ bank.busyUntil \in Nat
      /\ bank.busyUntil <= t + Longest(c)
      /\ ~bank.busy => bank.busyUntil = 0
  BY ConfigTypes DEF BankInv, Bank, Taken, Ordered
<1>2. CASE c.bankConflictPolicy # "ExtraDelay"
  BY <1>1, <1>2 DEF Completion, ExtraDelay, Longest
<1>3. CASE c.bankConflictPolicy = "ExtraDelay"
  <2>1. Longest(c) = latency + 10
    BY <1>3 DEF Longest, ConflictPenalty
  <2>2. CASE bank.busy /\ t < bank.busyUntil
    <3>1. Completion(c, bank, t) = t + latency + 10
      BY <1>3, <2>2 DEF Completion, ExtraDelay, ConflictPenalty
    <3>. QED  BY <1>1, <2>1, <3>1
  <2>3. CASE ~(bank.busy /\ t < bank.busyUntil)
    <3>1. Completion(c, bank, t) = t + latency + 0
      BY <1>3, <2>3 DEF Completion, ExtraDelay
    <3>. QED  BY <1>1, <2>1, <2>3, <3>1
  <2>. QED  BY <2>2, <2>3
<1>. QED  BY <1>2, <1>3

(* One service more, begun when the bank accepts, keeps its invariant.     *)
LEMMA ServingKeeps ==
    ASSUME NEW c \in Configs, NEW bank, NEW services, NEW refusals,
           NEW t \in Nat, BankInv(c, bank, services, refusals, t),
           bank.queue # <<>>, Accepts(c, bank),
           NEW done, done = [request |-> Head(bank.queue), start |-> t,
                             end |-> Completion(c, bank, t)]
    PROVE  BankInv(c, Serve(c, bank, t), Append(services, done), refusals, t)
<1>. DEFINE end == Completion(c, bank, t)
            new == Serve(c, bank, t)
            longer == Append(services, done)
<1>1. end \in Nat /\ bank.busyUntil <= end /\ end <= t + Longest(c)
  BY CompletionBounds
<1>2. /\ bank \in Bank /\ services \in Seq(Service)
      /\ Taken(c, bank, services) /\ Ordered(c, bank, services, t)
  BY DEF BankInv
<1>3. Head(bank.queue) \in Asked /\ Tail(bank.queue) \in Seq(Asked)
  BY <1>2 DEF Bank
<1>4. done \in Service /\ done.end = end
  BY <1>1, <1>3 DEF Service
<1>5. /\ longer \in Seq(Service) /\ longer # <<>>
      /\ Len(longer) = Len(services) + 1 /\ Len(services) \in Nat
      /\ longer[Len(longer)] = done
      /\ \A k \in 1 .. Len(services) : longer[k] = services[k]
  BY <1>2, <1>4
<1>6. /\ new \in Bank /\ new.busy /\ new.busyUntil = end
      /\ new.ports =
            IF c.bankConflictPolicy = "Queue" THEN bank.ports + 1 ELSE 1
  <2>1. /\ (IF c.bankConflictPolicy = "Queue" /\ end <= bank.busyUntil
            THEN bank.busyUntil ELSE end) = end
        /\ (IF c.bankConflictPolicy = "Queue" THEN bank.ports + 1 ELSE 1) \in Nat
        /\ (IF ExtraDelay(c, bank, t) > 0 THEN bank.conflicts + 1
            ELSE bank.conflicts) \in Nat
    BY <1>1, <1>2 DEF Bank
  <2>2. new = [bank EXCEPT
                 !.queue = Tail(bank.queue), !.busy = TRUE, !.busyUntil = end,
                 !.ports = IF c.bankConflictPolicy = "Queue"
                           THEN bank.ports + 1 ELSE 1,
                 !.conflicts = IF ExtraDelay(c, bank, t) > 0
                               THEN bank.conflicts + 1 ELSE bank.conflicts]
    BY <2>1 DEF Serve
  <2>. HIDE DEF end, new
  <2>. QED  BY <1>1, <1>2, <1>3, <2>1, <2>2 DEF Bank
<1>7. Taken(c, new, longer)
  <2>1. CASE c.bankConflictPolicy = "Serialize"
    BY <1>2, <1>5, <1>6, <2>1 DEF Taken, Accepts
  <2>2. CASE c.bankConflictPolicy = "Queue"
    <3>1. bank.ports < c.bankPortLimit
      BY <2>2, ConfigTypes DEF Accepts, PortAvailable
    <3>2. bank.ports \in Nat /\ c.bankPortLimit \in Nat
      BY <1>2, ConfigTypes DEF Bank
    <3>. QED  BY <1>2, <1>5, <1>6, <2>2, <3>1, <3>2 DEF Taken
  <2>. QED  BY <1>5, <1>6, <2>1, <2>2 DEF Taken
<1>8. Ordered(c, new, longer, t)
  <2>1. ASSUME NEW k \in 1 .. Len(services)
        PROVE  services[k].end \in Nat
    <3>1. services[k] \in Service
      BY <1>2
    <3>. QED  BY <3>1 DEF Service
  <2>2. \A k \in 1 .. Len(services) : services[k].end <= end
    BY <1>1, <1>2, <1>5, <2>1 DEF Ordered
  <2>3. ASSUME NEW j \in 1 .. Len(longer), NEW k \in 1 .. Len(longer), j < k
        PROVE  longer[j].end <= longer[k].end
    <3>1. j \in 1 .. Len(services) /\ (k \in 1 .. Len(services) \/ k = Len(longer))
      BY <1>5, <2>3
    <3>2. longer[j] = services[j]
      BY <1>5, <3>1
    <3>3. CASE k \in 1 .. Len(services)
      <4>1. longer[k] = services[k]
        BY <1>5, <3>3
      <4>. QED  BY <1>2, <2>3, <3>1, <3>2, <3>3, <4>1 DEF Ordered
    <3>4. CASE k = Len(longer)
      <4>1. longer[k].end = end
        BY <1>4, <1>5, <3>4
      <4>. QED  BY <2>2, <3>1, <3>2, <4>1
    <3>. QED  BY <3>1, <3>3, <3>4
  <2>. QED  BY <1>1, <1>4, <1>5, <1>6, <2>3 DEF Ordered
<1>. QED  BY <1>2, <1>5, <1>6, <1>7, <1>8 DEF BankInv
-----------------------------------------------------------------------------
(* Before any call the banks are free and no service has begun.            *)
LEMMA InitiallyDevicesInv == Init => DevicesInv
<1>. SUFFICES ASSUME Init PROVE DevicesInv
  OBVIOUS
<1>1. /\ config \in Configs /\ clock \in Nat /\ received \in Seq(Asked)
      /\ DOMAIN banks = BankIds(config) /\ DOMAIN served = BankIds(config)
      /\ DOMAIN refused = BankIds(config)
  BY DEF Init
<1>2. ASSUME NEW b \in BankIds(config)
      PROVE  BankInv(config, banks[b], served[b], refused[b], clock)
  <2>1. banks[b] = EmptyBank /\ served[b] = <<>> /\ refused[b] = 0 /\ clock = 0
    BY DEF Init
  <2>2. EmptyBank \in Bank
    BY DEF EmptyBank, Bank
  <2>3. config.bankPortLimit \in Nat /\ Longest(config) \in Nat
    BY <1>1, ConfigTypes
  <2>4. Taken(config, EmptyBank, <<>>)
    BY <2>3 DEF Taken, EmptyBank
  <2>5. Ordered(config, EmptyBank, <<>>, 0)
    BY <2>3 DEF Ordered, EmptyBank
  <2>. QED  BY <2>1, <2>2, <2>4, <2>5 DEF BankInv
<1>. QED  BY <1>1, <1>2 DEF DevicesInv

(* A request handed over begins no service.                                *)
LEMMA HandOverKeeps ==
    ASSUME DevicesInv, NEW core \in DeviceCores, NEW a \in Addresses,
           HandOver(core, a)
    PROVE  DevicesInv'
<1>. DEFINE request == Request(a, core, Len(received) + 1, clock,
                               CoreChiplet(config, core))
            at == BankOf(request)
<1>1. request \in Asked
  BY DEF DevicesInv, Asked, Request
<1>2. /\ banks' = [banks EXCEPT ![at] = ReceiveRequest(@, request)]
      /\ received' = Append(received, request)
      /\ UNCHANGED <<config, clock, served, refused>>
  BY DEF HandOver
<1>. HIDE DEF request, at
<1>3. ASSUME NEW b \in BankIds(config)
      PROVE  BankInv(config, banks'[b], served[b], refused[b], clock)
  <2>1. BankInv(config, banks[b], served[b], refused[b], clock)
    BY DEF DevicesInv
  <2>2. CASE b = at
    <3>1. banks'[b] = ReceiveRequest(banks[b], request)
      BY <1>2, <2>2 DEF DevicesInv
    <3>. QED  BY <1>1, <2>1, <3>1, ReceivingKeeps
  <2>3. CASE b # at
    BY <1>2, <2>1, <2>3 DEF DevicesInv
  <2>. QED  BY <2>2, <2>3
<1>. QED  BY <1>1, <1>2, <1>3 DEF DevicesInv

(* A call of serviceRequest() changes one bank, which accepts or refuses.  *)
LEMMA ServiceRequestKeeps ==
    ASSUME DevicesInv, NEW at \in BankIds(config), ServiceRequest(at)
    PROVE  DevicesInv'
<1>. DEFINE done == Done(Head(banks[at].queue),
                         Completion(config, banks[at], clock))
<1>1. /\ banks[at].queue # <<>>
      /\ UNCHANGED <<config, clock, received>>
      /\ BankInv(config, banks[at], served[at], refused[at], clock)
      /\ config \in Configs /\ clock \in Nat
  BY DEF ServiceRequest, DevicesInv
<1>2. CASE /\ Accepts(config, banks[at])
           /\ banks' = [banks EXCEPT ![at] = Serve(config, @, clock)]
           /\ served' = [served EXCEPT ![at] = Append(@, done)]
           /\ UNCHANGED refused
  <2>1. BankInv(config, Serve(config, banks[at], clock),
                Append(served[at], done), refused[at], clock)
    BY <1>1, <1>2, ServingKeeps DEF Done
  <2>. HIDE DEF done
  <2>2. ASSUME NEW b \in BankIds(config)
        PROVE  BankInv(config, banks'[b], served'[b], refused[b], clock)
    BY <1>2, <2>1 DEF DevicesInv
  <2>. QED  BY <1>1, <1>2, <2>2 DEF DevicesInv
<1>3. CASE /\ ~Accepts(config, banks[at])
           /\ banks' = [banks EXCEPT ![at] = Refuse(config, @)]
           /\ refused' = [refused EXCEPT ![at] = @ + 1]
           /\ UNCHANGED served
  <2>1. BankInv(config, Refuse(config, banks[at]), served[at],
                refused[at] + 1, clock)
    BY <1>1, <1>3, RefusingKeeps
  <2>2. ASSUME NEW b \in BankIds(config)
        PROVE  BankInv(config, banks'[b], served[b], refused'[b], clock)
    BY <1>3, <2>1 DEF DevicesInv
  <2>. QED  BY <1>1, <1>3, <2>2 DEF DevicesInv
<1>. QED  BY <1>2, <1>3 DEF ServiceRequest

(* A step changes one bank by one of its operations, or the time alone.    *)
LEMMA StepKeeps == DevicesInv /\ [Next]_vars => DevicesInv'
<1>. SUFFICES ASSUME DevicesInv, [Next]_vars PROVE DevicesInv'
  OBVIOUS
<1>1. ASSUME NEW core \in DeviceCores, NEW a \in Addresses, HandOver(core, a)
      PROVE  DevicesInv'
  BY <1>1, HandOverKeeps
<1>2. CASE Arbitrate \/ UNCHANGED vars
  <2>1. UNCHANGED <<config, banks, clock, received, served, refused>>
    BY <1>2 DEF Arbitrate, vars, deviceVars, histories
  <2>. QED  BY <2>1 DEF DevicesInv
<1>3. ASSUME NEW b \in BankIds(config), ServiceRequest(b)
      PROVE  DevicesInv'
  BY <1>3, ServiceRequestKeeps
<1>4. CASE TimePasses
  <2>1. /\ clock' \in Nat /\ clock <= clock'
        /\ UNCHANGED <<config, banks, received, served, refused>>
    BY <1>4, DevicesAssumption DEF TimePasses, DevicesInv, deviceVars, histories
  <2>2. ASSUME NEW b \in BankIds(config)
        PROVE  BankInv(config, banks[b], served[b], refused[b], clock')
    BY <2>1, WaitingKeeps DEF DevicesInv
  <2>. QED  BY <2>1, <2>2 DEF DevicesInv
<1>. QED  BY <1>1, <1>2, <1>3, <1>4 DEF Next

(* Each bank keeps its invariant, whatever is called and when.             *)
LEMMA DevicesInvariant == Spec => []DevicesInv
BY InitiallyDevicesInv, StepKeeps, PTL DEF Spec
-----------------------------------------------------------------------------
(* A bank has no more services in progress at any cycle than its policy    *)
(* allows, whatever is called and when: the limit holds for want of        *)
(* services, of which there are never more than the limit in all.          *)
THEOREM Capacity == Spec => []WithinCapacity
<1>1. DevicesInv => WithinCapacity
  <2>. DEFINE capacity == IF config.bankConflictPolicy = "Queue"
                          THEN config.bankPortLimit ELSE 1
              inProgress(b, t) == {k \in DOMAIN served[b] :
                                      served[b][k].start <= t
                                      /\ t < served[b][k].end}
  <2>. SUFFICES ASSUME DevicesInv, config.bankConflictPolicy # "ExtraDelay",
                       NEW b \in BankIds(config), NEW t \in Times
                PROVE  Cardinality(inProgress(b, t)) <= capacity
    BY DEF WithinCapacity
  <2>1. /\ config \in Configs
        /\ served[b] \in Seq(Service)
        /\ Taken(config, banks[b], served[b])
    BY DEF DevicesInv, BankInv
  <2>2. Len(served[b]) <= capacity /\ capacity \in Nat
    BY <2>1, ConfigTypes DEF Taken
  <2>3. Len(served[b]) \in Nat /\ DOMAIN served[b] = 1 .. Len(served[b])
    BY <2>1
  <2>4. /\ IsFiniteSet(1 .. Len(served[b]))
        /\ Cardinality(1 .. Len(served[b])) = Len(served[b])
    BY <2>3, FS_Interval
  <2>5. inProgress(b, t) \in SUBSET (1 .. Len(served[b]))
    BY <2>3
  <2>. HIDE DEF inProgress, capacity
  <2>6. Cardinality(inProgress(b, t)) <= Len(served[b])
    BY <2>4, <2>5, FS_Subset
  <2>7. Cardinality(inProgress(b, t)) \in Nat
    BY <2>4, <2>5, FS_Subset, FS_CardinalityType
  <2>. QED  BY <2>2, <2>3, <2>6, <2>7
<1>. QED  BY <1>1, DevicesInvariant, PTL

(* The services of a bank end in the order in which they began, and        *)
(* getBusyUntil() is the end of the last, although a service that waits    *)
(* for no other is shorter than one that pays the penalty.                 *)
THEOREM EndsInOrder == Spec => []EndInOrder
<1>1. DevicesInv => EndInOrder
  <2>. SUFFICES ASSUME DevicesInv, NEW b \in BankIds(config)
                PROVE  /\ \A j, k \in DOMAIN served[b] :
                              j < k => served[b][j].end <= served[b][k].end
                       /\ served[b] # <<>> =>
                              banks[b].busyUntil = Last(served[b]).end
    BY DEF EndInOrder
  <2>1. served[b] \in Seq(Service) /\ Ordered(config, banks[b], served[b], clock)
    BY DEF DevicesInv, BankInv
  <2>2. DOMAIN served[b] = 1 .. Len(served[b])
    BY <2>1
  <2>. QED  BY <2>1, <2>2 DEF Ordered, Last
<1>. QED  BY <1>1, DevicesInvariant, PTL
-----------------------------------------------------------------------------
(* ORDER AND COUNTS                                                        *)

Link ==
    [queue : Seq(Asked), busy : BOOLEAN, busyUntil : Nat, transfers : Nat,
     busyCycles : Int]

(* A transfer takes a number of cycles that is not negative.               *)
LEMMA TransferTakesTime ==
    ASSUME NEW c \in Configs, NEW src, NEW dst
    PROVE  TransferLatency(c, src, dst) \in Nat
<1>. DEFINE width == c.interconnectLinkWidth
<1>1. /\ c.interconnectLatency \in Nat /\ width \in Nat \ {0}
      /\ c.remoteChipletPenalty \in Nat
  BY DevicesAssumption DEF Valid
<1>2. (LineBytes + width - 1) \div width \in Nat
  BY <1>1 DEF LineBytes
<1>. QED  BY <1>1, <1>2 DEF TransferLatency

(* The requests of a history, and what one entry more adds to them.        *)
LEMMA RequestsTyped ==
    ASSUME NEW h \in Seq(Service)
    PROVE  Requests(h) \in Seq(Asked) /\ Len(Requests(h)) = Len(h)
<1>1. \A k \in 1 .. Len(h) : h[k].request \in Asked
  <2>1. \A k \in 1 .. Len(h) : h[k] \in Service
    OBVIOUS
  <2>. QED  BY <2>1 DEF Service
<1>. QED  BY <1>1 DEF Requests

(* One service more, one request more.                                     *)
LEMMA RequestsGrow ==
    ASSUME NEW h \in Seq(Service), NEW d \in Service
    PROVE  Requests(Append(h, d)) = Append(Requests(h), d.request)
<1>1. /\ Len(h) \in Nat /\ DOMAIN h = 1 .. Len(h)
      /\ \A k \in 1 .. Len(h) : h[k].request \in Asked
      /\ d.request \in Asked
  <2>1. \A k \in 1 .. Len(h) : h[k] \in Service
    OBVIOUS
  <2>. QED  BY <2>1 DEF Service
<1>2. Requests(h) \in Seq(Asked) /\ Len(Requests(h)) = Len(h)
  BY RequestsTyped
<1>. DEFINE longer == Append(h, d)
<1>3. /\ longer \in Seq(Service) /\ Len(longer) = Len(h) + 1
      /\ DOMAIN longer = 1 .. Len(h) + 1
      /\ \A k \in 1 .. Len(h) : longer[k] = h[k]
      /\ longer[Len(h) + 1] = d
  BY <1>1
<1>. HIDE DEF longer
<1>4. /\ Requests(longer) \in Seq(Asked) /\ Len(Requests(longer)) = Len(h) + 1
      /\ \A k \in 1 .. Len(h) + 1 : Requests(longer)[k] = longer[k].request
  <2>1. \A k \in 1 .. Len(h) + 1 : longer[k].request \in Asked
    BY <1>1, <1>3
  <2>. QED  BY <1>1, <1>3, <2>1 DEF Requests
<1>5. /\ Append(Requests(h), d.request) \in Seq(Asked)
      /\ Len(Append(Requests(h), d.request)) = Len(h) + 1
      /\ \A k \in 1 .. Len(h) :
            Append(Requests(h), d.request)[k] = h[k].request
      /\ Append(Requests(h), d.request)[Len(h) + 1] = d.request
  <2>1. \A k \in 1 .. Len(h) : Requests(h)[k] = h[k].request
    BY <1>1 DEF Requests
  <2>. HIDE DEF Requests
  <2>. QED  BY <1>1, <1>2, <2>1, AppendProperties
<1>6. \A k \in 1 .. Len(h) + 1 :
         Requests(longer)[k] = Append(Requests(h), d.request)[k]
  BY <1>1, <1>3, <1>4, <1>5
<1>7. Requests(longer) = Append(Requests(h), d.request)
  BY <1>4, <1>5, <1>6, SeqEqual
<1>. QED  BY <1>7 DEF longer

(* The recursion of TotalTime(), written as the steps it takes.            *)
Spending(h) ==
    [k \in 1 .. Len(h) |-> [n \in Int |-> n + h[k].end - h[k].start]]

(* TotalTime() written as the steps it takes along the history.            *)
LEMMA TotalTimeLeads ==
    ASSUME NEW h \in Seq(Service)
    PROVE  \E f \in [0 .. Len(h) -> Int] :
              Leads(f, Len(h), 0, Spending(h)) /\ TotalTime(h) = f[Len(h)]
<1>1. /\ Len(h) \in Nat
      /\ \A k \in 1 .. Len(h) : h[k].end \in Nat /\ h[k].start \in Nat
  <2>1. \A k \in 1 .. Len(h) : h[k] \in Service
    OBVIOUS
  <2>. QED  BY <2>1 DEF Service
<1>2. Spending(h) \in [1 .. Len(h) -> [Int -> Int]]
  BY <1>1 DEF Spending
<1>3. PICK f \in [0 .. Len(h) -> Int] : Leads(f, Len(h), 0, Spending(h))
  <2>1. Len(h) \in Nat /\ 0 \in Int
    BY <1>1
  <2>. QED  BY <1>2, <2>1, LeadsExists, Zenon
<1>. DEFINE n == Len(h)
            spent == CHOOSE F : F = [k \in 0 .. n |->
                        IF k = 0 THEN 0 ELSE F[k - 1] + h[k].end - h[k].start]
<1>. HIDE DEF spent
<1>4. f = [k \in 0 .. n |-> IF k = 0 THEN 0 ELSE f[k - 1] + h[k].end - h[k].start]
  <2>1. f[0] = 0 /\ \A k \in 1 .. n : f[k] = Spending(h)[k][f[k - 1]]
    BY <1>3 DEF Leads
  <2>2. ASSUME NEW k \in 1 .. n
        PROVE  f[k] = f[k - 1] + h[k].end - h[k].start
    <3>1. f[k - 1] \in Int
      BY <1>1
    <3>2. Spending(h)[k] = [m \in Int |-> m + h[k].end - h[k].start]
      BY DEF Spending
    <3>. QED  BY <2>1, <3>1, <3>2
  <2>3. \A k \in 0 .. n : f[k] = IF k = 0 THEN 0
                                 ELSE f[k - 1] + h[k].end - h[k].start
    BY <1>1, <2>1, <2>2
  <2>. QED  BY <2>3
<1>5. spent = [k \in 0 .. n |->
                  IF k = 0 THEN 0 ELSE spent[k - 1] + h[k].end - h[k].start]
  BY <1>4 DEF spent
<1>6. TotalTime(h) = spent[n]
  BY DEF TotalTime, spent
<1>7. \A k \in 0 .. n : spent[k] = f[k]
  <2>. DEFINE T == {k \in 0 .. n : spent[k] = f[k]}
  <2>1. 0 \in T
    BY <1>1, <1>4, <1>5
  <2>2. \A m \in 1 .. n : m - 1 \in T => m \in T
    BY <1>1, <1>4, <1>5
  <2>. HIDE DEF T
  <2>3. \A m \in 0 .. n : m \in T
    BY <1>1, <2>1, <2>2, Induction
  <2>. QED  BY <2>3 DEF T
<1>. QED  BY <1>1, <1>3, <1>6, <1>7

(* One service more adds its time to the total.                            *)
LEMMA TotalTimeOf ==
    ASSUME NEW h \in Seq(Service), NEW d \in Service
    PROVE  /\ TotalTime(h) \in Int
           /\ TotalTime(Append(h, d)) = TotalTime(h) + d.end - d.start
<1>. DEFINE n == Len(h)
            longer == Append(h, d)
<1>1. /\ n \in Nat /\ longer \in Seq(Service) /\ Len(longer) = n + 1
      /\ \A k \in 1 .. n : longer[k] = h[k]
      /\ longer[n + 1] = d
  OBVIOUS
<1>2. PICK f \in [0 .. n -> Int] :
         Leads(f, n, 0, Spending(h)) /\ TotalTime(h) = f[n]
  BY TotalTimeLeads
<1>. HIDE DEF longer
<1>3. PICK g \in [0 .. n + 1 -> Int] :
         Leads(g, n + 1, 0, Spending(longer)) /\ TotalTime(longer) = g[n + 1]
  BY <1>1, TotalTimeLeads
<1>4. Leads(g, n, 0, Spending(longer))
  BY <1>1, <1>3 DEF Leads
<1>5. \A m \in 1 .. n : Spending(h)[m][f[m - 1]] = Spending(longer)[m][f[m - 1]]
  BY <1>1 DEF Spending
<1>6. \A m \in 0 .. n : f[m] = g[m]
  <2>. DEFINE T == {m \in 0 .. n : f[m] = g[m]}
  <2>1. 0 \in T
    BY <1>1, <1>2, <1>4 DEF Leads
  <2>2. ASSUME NEW m \in 1 .. n, m - 1 \in T PROVE m \in T
    <3>1. f[m - 1] = g[m - 1] /\ m \in 0 .. n
      BY <2>2
    <3>2. f[m] = Spending(h)[m][f[m - 1]]
      BY <1>2 DEF Leads
    <3>3. g[m] = Spending(longer)[m][g[m - 1]]
      BY <1>4 DEF Leads
    <3>4. f[m] = g[m]
      BY <1>5, <3>1, <3>2, <3>3
    <3>. QED  BY <3>1, <3>4
  <2>. HIDE DEF T
  <2>3. \A m \in 0 .. n : m \in T
    BY <1>1, <2>1, <2>2, Induction
  <2>. QED  BY <2>3 DEF T
<1>7. f[n] \in Int /\ g[n] = f[n]
  BY <1>1, <1>6
<1>8. g[n + 1] = Spending(longer)[n + 1][g[n]]
  BY <1>1, <1>3 DEF Leads
<1>9. Spending(longer)[n + 1][g[n]] = g[n] + d.end - d.start
  BY <1>1, <1>7 DEF Spending
<1>. QED  BY <1>2, <1>3, <1>7, <1>8, <1>9 DEF longer

(* No service takes no time.                                               *)
LEMMA NoTimeSpent == TotalTime(<<>>) = 0
<1>1. <<>> \in Seq(Service) /\ Len(<<>>) = 0
  OBVIOUS
<1>2. PICK f \in [0 .. 0 -> Int] : Leads(f, 0, 0, Spending(<<>>))
                                   /\ TotalTime(<<>>) = f[0]
  BY <1>1, TotalTimeLeads
<1>. QED  BY <1>2 DEF Leads

(* A service overlaps if one before it ends after it starts; a service     *)
(* that is added changes nothing for those before it.                      *)
LEMMA OverlapsOf ==
    ASSUME NEW h \in Seq(Service), NEW d \in Service
    PROVE  /\ Cardinality(Overlaps(h)) \in Nat
           /\ Cardinality(Overlaps(Append(h, d))) =
                 IF \E j \in 1 .. Len(h) : h[j].end > d.start
                 THEN Cardinality(Overlaps(h)) + 1 ELSE Cardinality(Overlaps(h))
<1>. DEFINE n == Len(h)
            longer == Append(h, d)
<1>1. /\ n \in Nat /\ DOMAIN h = 1 .. n /\ DOMAIN longer = 1 .. n + 1
      /\ \A k \in 1 .. n : longer[k] = h[k]
      /\ longer[n + 1] = d
  OBVIOUS
<1>2. IsFiniteSet(1 .. n)
  BY <1>1, FS_Interval
<1>3. Overlaps(h) \in SUBSET (1 .. n)
  BY <1>1 DEF Overlaps
<1>4. IsFiniteSet(Overlaps(h)) /\ Cardinality(Overlaps(h)) \in Nat
  BY <1>2, <1>3, FS_Subset, FS_CardinalityType
<1>5. n + 1 \notin Overlaps(h)
  BY <1>1, <1>3
<1>6. CASE \E j \in 1 .. n : h[j].end > d.start
  <2>1. Overlaps(longer) = Overlaps(h) \cup {n + 1}
    BY <1>1, <1>6 DEF Overlaps
  <2>2. Cardinality(Overlaps(h) \cup {n + 1}) = Cardinality(Overlaps(h)) + 1
    BY <1>4, <1>5, FS_AddElement
  <2>. QED  BY <1>4, <1>6, <2>1, <2>2
<1>7. CASE ~\E j \in 1 .. n : h[j].end > d.start
  <2>1. Overlaps(longer) = Overlaps(h)
    BY <1>1, <1>7 DEF Overlaps
  <2>. QED  BY <1>4, <1>7, <2>1
<1>. QED  BY <1>6, <1>7

(* On its way to a bank: sent before now, and from the chiplet of its core.*)
Posted(c, request, t) ==
    request.time <= t /\ request.src = CoreChiplet(c, request.core)

(* A transfer starts after its request was sent, and takes the latency     *)
(* handleBankAccess() has reckoned with.                                   *)
Transferred(c, transfer) ==
    LET request == transfer.request
    IN  /\ request.time <= transfer.start
        /\ transfer.end =
              transfer.start
                + TransferLatency(c, CoreChiplet(c, request.core),
                      BankChiplet(c, BankIndex(c, request.address)))

LinkInv ==
    /\ link \in Link
    /\ carried \in Seq(Service)
    /\ link.transfers = Len(carried)
    /\ link.busyCycles = TotalTime(carried)
    /\ Requests(carried) \o link.queue = received
    /\ \A n \in 1 .. Len(link.queue) : Posted(config, link.queue[n], clock)
    /\ \A k \in 1 .. Len(carried) : Transferred(config, carried[k])

(* What a bank counts, and how long at least its services take.            *)
Counted(c, bank, services, refusals) ==
    /\ bank.requests = Len(services) + Len(bank.queue)
    /\ bank.conflicts = IF c.bankConflictPolicy = "ExtraDelay"
                        THEN Cardinality(Overlaps(services)) ELSE refusals
    /\ bank.portConflicts =
          IF c.bankConflictPolicy = "Queue" THEN refusals ELSE 0
    /\ \A k \in 1 .. Len(services) :
          services[k].end >= services[k].start + c.bankServiceLatency

(* The requests of bank b among those received.                            *)
For(b) == {n \in DOMAIN received : BankOf(received[n]) = b}

InOrder(b) ==
    IsSelection(received, For(b), Requests(served[b]) \o banks[b].queue)

OrderInv ==
    /\ DevicesInv
    /\ LinkInv
    /\ \A b \in BankIds(config) :
          InOrder(b) /\ Counted(config, banks[b], served[b], refused[b])

(* Nothing has been sent, carried or served, in order.                     *)
LEMMA InitiallyOrderInv == Init => OrderInv
<1>. SUFFICES ASSUME Init PROVE OrderInv
  OBVIOUS
<1>1. DevicesInv
  BY InitiallyDevicesInv
<1>2. /\ link = IdleLink /\ carried = <<>> /\ received = <<>>
      /\ \A b \in BankIds(config) :
            banks[b] = EmptyBank /\ served[b] = <<>> /\ refused[b] = 0
  BY DEF Init
<1>3. Requests(<<>>) = <<>> /\ <<>> \o <<>> = <<>>
  BY DEF Requests
<1>4. LinkInv
  <2>1. IdleLink \in Link
    BY DEF IdleLink, Link
  <2>. QED  BY <1>2, <1>3, <2>1, NoTimeSpent DEF LinkInv, IdleLink
<1>5. Cardinality(Overlaps(<<>>)) = 0
  <2>1. Overlaps(<<>>) = {}
    BY DEF Overlaps
  <2>. QED  BY <2>1, FS_EmptySet
<1>6. ASSUME NEW b \in BankIds(config)
      PROVE  InOrder(b) /\ Counted(config, banks[b], served[b], refused[b])
  <2>1. For(b) = {}
    BY <1>2 DEF For
  <2>2. InOrder(b)
    <3>1. IsSelection(<<>>, {}, <<>>)
      BY FS_EmptySet DEF IsSelection
    <3>2. Requests(served[b]) \o banks[b].queue = <<>>
      BY <1>2, <1>3 DEF EmptyBank
    <3>. QED  BY <1>2, <2>1, <3>1, <3>2 DEF InOrder
  <2>3. Counted(config, EmptyBank, <<>>, 0)
    BY <1>5 DEF Counted, EmptyBank
  <2>. QED  BY <1>2, <2>2, <2>3
<1>. QED  BY <1>1, <1>4, <1>6 DEF OrderInv

(* The link after one more request.                                        *)
LEMMA EnqueueKeepsLink ==
    ASSUME LinkInv, config \in Configs, clock \in Nat,
           UNCHANGED <<config, clock, carried>>,
           NEW request \in Asked, Posted(config, request, clock),
           link' = [link EXCEPT !.queue = Append(@, request)],
           received' = Append(received, request)
    PROVE  LinkInv'
<1>1. /\ link \in Link /\ link.queue \in Seq(Asked) /\ carried \in Seq(Service)
      /\ Append(link.queue, request) \in Seq(Asked)
  BY DEF LinkInv, Link
<1>2. link' \in Link /\ link'.queue = Append(link.queue, request)
      /\ link'.transfers = link.transfers /\ link'.busyCycles = link.busyCycles
  BY <1>1 DEF Link
<1>3. Requests(carried) \in Seq(Asked)
  BY <1>1, RequestsTyped
<1>4. Requests(carried) \o Append(link.queue, request) = received'
  <2>1. Requests(carried) \o Append(link.queue, request)
           = Append(Requests(carried) \o link.queue, request)
    BY ONLY <1>1, <1>3, request \in Asked, AppendMoves
  <2>. QED  BY <2>1 DEF LinkInv
<1>5. \A n \in 1 .. Len(Append(link.queue, request)) :
         Posted(config, Append(link.queue, request)[n], clock)
  BY <1>1 DEF LinkInv
<1>. QED  BY <1>1, <1>2, <1>4, <1>5 DEF LinkInv

(* The first request of the queue moves to the end of what was carried.    *)
LEMMA CarryingKeepsLink ==
    ASSUME DevicesInv, LinkInv, Arbitrate, link.queue # <<>>
    PROVE  LinkInv'
<1>. DEFINE request == Head(link.queue)
            latency == TransferLatency(config, request.src,
                           BankChiplet(config, BankOf(request)))
            d == Done(request, clock + latency)
<1>1. /\ link' = Carry(link, clock, latency)
      /\ carried' = Append(carried, d)
      /\ UNCHANGED <<config, clock, received>>
  BY DEF Arbitrate
<1>2. /\ config \in Configs /\ clock \in Nat
      /\ link \in Link /\ link.queue \in Seq(Asked) /\ carried \in Seq(Service)
      /\ link.transfers \in Nat /\ link.busyCycles \in Int
  BY DEF DevicesInv, LinkInv, Link
<1>3. /\ request \in Asked /\ Tail(link.queue) \in Seq(Asked)
      /\ request = link.queue[1] /\ Len(link.queue) \in Nat \ {0}
      /\ Len(Tail(link.queue)) = Len(link.queue) - 1
      /\ \A n \in 1 .. Len(link.queue) - 1 :
            Tail(link.queue)[n] = link.queue[n + 1]
  BY <1>2
<1>4. latency \in Nat
  BY <1>2, TransferTakesTime
<1>5. Posted(config, request, clock)
  BY <1>3 DEF LinkInv
<1>6. Transferred(config, d)
  BY <1>5 DEF Posted, Transferred, Done, BankOf
<1>7. d \in Service /\ d.request = request /\ d.start = clock
      /\ d.end = clock + latency
  <2>. HIDE DEF latency, request
  <2>. QED  BY <1>2, <1>3, <1>4 DEF Done, Service
<1>8. /\ link' \in Link /\ link'.queue = Tail(link.queue)
      /\ link'.transfers = link.transfers + 1
      /\ link'.busyCycles = link.busyCycles + latency
  <2>. HIDE DEF latency, request
  <2>1. link' = [queue |-> Tail(link.queue), busy |-> TRUE,
                 busyUntil |-> clock + latency,
                 transfers |-> link.transfers + 1,
                 busyCycles |-> link.busyCycles + latency]
    BY <1>1, <1>2 DEF Carry, Link
  <2>2. clock + latency \in Nat /\ link.transfers + 1 \in Nat
        /\ link.busyCycles + latency \in Int
    BY <1>2, <1>4
  <2>. QED  BY <1>3, <2>1, <2>2 DEF Link
<1>. HIDE DEF request, latency, d
<1>9. Requests(Append(carried, d)) \o Tail(link.queue) = received
  <2>1. Requests(Append(carried, d)) = Append(Requests(carried), Head(link.queue))
    BY <1>2, <1>7, RequestsGrow DEF request
  <2>2. Requests(carried) \in Seq(Asked)
    BY <1>2, RequestsTyped
  <2>3. Append(Requests(carried), Head(link.queue)) \o Tail(link.queue)
           = Requests(carried) \o link.queue
    BY ONLY <1>2, link.queue # <<>>, <2>2, HeadMoves
  <2>. QED  BY <2>1, <2>3 DEF LinkInv
<1>10. TotalTime(Append(carried, d)) = link.busyCycles + latency
  <2>1. TotalTime(Append(carried, d)) = TotalTime(carried) + d.end - d.start
    BY <1>2, <1>7, TotalTimeOf
  <2>2. link.busyCycles = TotalTime(carried)
    BY DEF LinkInv
  <2>. QED  BY <1>2, <1>4, <1>7, <2>1, <2>2
<1>11. /\ Append(carried, d) \in Seq(Service)
       /\ Len(Append(carried, d)) = link.transfers + 1
       /\ \A k \in 1 .. Len(Append(carried, d)) :
             Transferred(config, Append(carried, d)[k])
  BY <1>2, <1>6, <1>7 DEF LinkInv
<1>12. \A n \in 1 .. Len(Tail(link.queue)) :
          Posted(config, Tail(link.queue)[n], clock)
  BY <1>3 DEF LinkInv
<1>. QED  BY <1>1, <1>8, <1>9, <1>10, <1>11, <1>12 DEF LinkInv

(* arbitrate() moves the head of the queue to what was carried.            *)
LEMMA ArbitrateKeepsLink ==
    ASSUME DevicesInv, LinkInv, Arbitrate
    PROVE  LinkInv'
<1>1. CASE link.queue = <<>>
  <2>1. link' = ReleaseLink(link) /\ UNCHANGED <<config, clock, received, carried>>
    BY <1>1 DEF Arbitrate
  <2>2. link \in Link
    BY DEF LinkInv
  <2>3. link' \in Link /\ link'.queue = link.queue
        /\ link'.transfers = link.transfers /\ link'.busyCycles = link.busyCycles
    <3>1. link' = [queue |-> link.queue, busy |-> FALSE, busyUntil |-> 0,
                   transfers |-> link.transfers, busyCycles |-> link.busyCycles]
      BY <2>1, <2>2 DEF ReleaseLink, Link
    <3>. QED  BY <2>2, <3>1 DEF Link
  <2>. QED  BY <2>1, <2>3 DEF LinkInv
<1>. QED  BY <1>1, CarryingKeepsLink

(* A bank counts what it receives, and nothing else changes.               *)
LEMMA ReceivingCounts ==
    ASSUME NEW c, NEW bank \in Bank, NEW services \in Seq(Service), NEW refusals,
           NEW request \in Asked, Counted(c, bank, services, refusals)
    PROVE  /\ ReceiveRequest(bank, request).queue = Append(bank.queue, request)
           /\ Counted(c, ReceiveRequest(bank, request), services, refusals)
<1>. DEFINE new == ReceiveRequest(bank, request)
<1>1. /\ bank.queue \in Seq(Asked)
      /\ new.queue = Append(bank.queue, request)
      /\ new.requests = bank.requests + 1
      /\ new.conflicts = bank.conflicts
      /\ new.portConflicts = bank.portConflicts
  BY DEF ReceiveRequest, Bank
<1>2. Len(new.queue) = Len(bank.queue) + 1 /\ Len(bank.queue) \in Nat
  BY <1>1
<1>3. bank.requests = Len(services) + Len(bank.queue) /\ Len(services) \in Nat
  BY DEF Counted
<1>. HIDE DEF new
<1>4. new.requests = Len(services) + Len(new.queue)
  BY <1>1, <1>2, <1>3
<1>5. Counted(c, new, services, refusals)
  BY <1>1, <1>4 DEF Counted
<1>. QED  BY <1>1, <1>5 DEF new

(* One more request for bank at and for no other.                          *)
LEMMA HandOverKeepsOrder ==
    ASSUME OrderInv, NEW core \in DeviceCores, NEW a \in Addresses,
           HandOver(core, a)
    PROVE  OrderInv'
<1>. DEFINE request == Request(a, core, Len(received) + 1, clock,
                               CoreChiplet(config, core))
            at == BankOf(request)
            last == Len(received) + 1
<1>1. DevicesInv /\ LinkInv /\ DevicesInv'
  BY HandOverKeeps DEF OrderInv
<1>2. /\ config \in Configs /\ clock \in Nat /\ received \in Seq(Asked)
      /\ DOMAIN banks = BankIds(config)
  BY <1>1 DEF DevicesInv
<1>3. request \in Asked /\ Posted(config, request, clock)
  BY <1>2 DEF Asked, Request, Posted
<1>4. /\ link' = [link EXCEPT !.queue = Append(@, request)]
      /\ banks' = [banks EXCEPT ![at] = ReceiveRequest(@, request)]
      /\ received' = Append(received, request)
      /\ UNCHANGED <<config, clock, carried, served, refused>>
  BY DEF HandOver, Enqueue
<1>5. BankOf(request) = at /\ \A r \in Asked : BankOf(r)' = BankOf(r)
  BY <1>4 DEF BankOf
<1>. HIDE DEF request, at
<1>6. LinkInv'
  BY <1>1, <1>2, <1>3, <1>4, EnqueueKeepsLink
<1>7. /\ Len(received) \in Nat /\ DOMAIN received = 1 .. Len(received)
      /\ received' \in Seq(Asked) /\ DOMAIN received' = 1 .. last
      /\ \A n \in 1 .. Len(received) : received'[n] = received[n]
      /\ received'[last] = request
  BY <1>2, <1>3, <1>4
<1>8. ASSUME NEW b \in BankIds(config)
      PROVE  /\ IsSelection(received', For(b)', Requests(served[b]) \o banks'[b].queue)
             /\ Counted(config, banks'[b], served[b], refused[b])
  <2>1. /\ IsSelection(received, For(b), Requests(served[b]) \o banks[b].queue)
        /\ Counted(config, banks[b], served[b], refused[b])
        /\ banks[b] \in Bank /\ served[b] \in Seq(Service)
    BY <1>1 DEF OrderInv, InOrder, DevicesInv, BankInv
  <2>2. /\ banks[b].queue \in Seq(Asked) /\ Requests(served[b]) \in Seq(Asked)
        /\ For(b) \in SUBSET (1 .. Len(received))
    BY <1>7, <2>1, RequestsTyped DEF Bank, For
  <2>3. Requests(served[b]) \o banks[b].queue \in Seq(Asked)
    BY <2>2, ConcatProperties
  <2>4. CASE b = at
    <3>1. For(b)' = For(b) \cup {last}
      BY <1>2, <1>3, <1>5, <1>7, <2>4 DEF For
    <3>2. banks'[b] = ReceiveRequest(banks[b], request)
      BY <1>2, <1>4, <2>4
    <3>3. /\ banks'[b].queue = Append(banks[b].queue, request)
          /\ Counted(config, banks'[b], served[b], refused[b])
      <4>1. Counted(config, banks[b], served[b], refused[b])
        BY <2>1
      <4>2. /\ ReceiveRequest(banks[b], request).queue
                  = Append(banks[b].queue, request)
            /\ Counted(config, ReceiveRequest(banks[b], request), served[b],
                       refused[b])
        BY <1>3, <2>1, <4>1, ReceivingCounts, Zenon
      <4>. QED  BY <3>2, <4>2
    <3>4. Requests(served[b]) \o banks'[b].queue
             = Append(Requests(served[b]) \o banks[b].queue, request)
      <4>1. \A s, t \in Seq(Asked) :
               s \o Append(t, request) = Append(s \o t, request)
        BY <1>3, AppendMoves
      <4>. QED  BY <2>2, <3>3, <4>1
    <3>5. IsSelection(Append(received, request), For(b) \cup {last},
                      Append(Requests(served[b]) \o banks[b].queue, request))
      BY <1>2, <1>3, <2>1, <2>2, <2>3, SelectionGrows
    <3>. QED  BY <1>4, <3>1, <3>3, <3>4, <3>5
  <2>5. CASE b # at
    <3>1. For(b)' = For(b)
      BY <1>2, <1>3, <1>5, <1>7, <2>5 DEF For
    <3>2. banks'[b] = banks[b]
      BY <1>2, <1>4, <2>5
    <3>3. IsSelection(Append(received, request), For(b),
                      Requests(served[b]) \o banks[b].queue)
      BY <1>2, <1>3, <2>1, <2>2, SelectionStays
    <3>. QED  BY <1>4, <2>1, <3>1, <3>2, <3>3
  <2>. QED  BY <2>4, <2>5
<1>. QED  BY <1>1, <1>4, <1>6, <1>8 DEF OrderInv, InOrder

(* A call that is refused is counted, and leaves the queue alone.          *)
LEMMA RefusingCounts ==
    ASSUME NEW c \in Configs, NEW bank \in Bank, NEW services \in Seq(Service),
           NEW refusals \in Nat, Counted(c, bank, services, refusals),
           ~Accepts(c, bank)
    PROVE  /\ Refuse(c, bank).queue = bank.queue
           /\ Counted(c, Refuse(c, bank), services, refusals + 1)
<1>. DEFINE new == Refuse(c, bank)
<1>1. /\ new.queue = bank.queue /\ new.requests = bank.requests
      /\ new.conflicts = bank.conflicts + 1
      /\ new.portConflicts = IF c.bankConflictPolicy = "Queue"
                             THEN bank.portConflicts + 1 ELSE bank.portConflicts
  BY DEF Refuse, Bank
<1>2. c.bankConflictPolicy \in {"Serialize", "Queue"}
  BY ConfigTypes DEF Accepts
<1>3. /\ bank.conflicts = refusals
      /\ bank.portConflicts =
            IF c.bankConflictPolicy = "Queue" THEN refusals ELSE 0
  BY <1>2 DEF Counted
<1>. HIDE DEF new
<1>4. Counted(c, new, services, refusals + 1)
  BY <1>1, <1>2, <1>3 DEF Counted
<1>. QED  BY <1>1, <1>4 DEF new

(* The penalty is paid exactly by the services that begin before an        *)
(* earlier one is over: busyUntil is the latest end of them all.           *)
LEMMA PenaltyIsOverlap ==
    ASSUME NEW c \in Configs, NEW bank, NEW services, NEW refusals,
           NEW t \in Nat, BankInv(c, bank, services, refusals, t),
           c.bankConflictPolicy = "ExtraDelay"
    PROVE  ExtraDelay(c, bank, t) > 0
              <=> \E j \in 1 .. Len(services) : services[j].end > t
<1>1. /\ services \in Seq(Service) /\ bank.busyUntil \in Nat
      /\ bank.busy <=> services # <<>>
      /\ Ordered(c, bank, services, t)
  BY DEF BankInv, Bank, Taken
<1>2. \A j \in 1 .. Len(services) : services[j].end \in Nat
  <2>1. \A j \in 1 .. Len(services) : services[j] \in Service
    BY <1>1
  <2>. QED  BY <2>1 DEF Service
<1>3. ExtraDelay(c, bank, t) > 0 <=> bank.busy /\ t < bank.busyUntil
  BY DEF ExtraDelay, ConflictPenalty
<1>4. CASE services = <<>>
  BY <1>1, <1>3, <1>4
<1>5. CASE services # <<>>
  <2>1. Len(services) \in 1 .. Len(services)
    BY <1>1, <1>5
  <2>2. bank.busyUntil = services[Len(services)].end
    BY <1>1, <1>5 DEF Ordered
  <2>3. \A j \in 1 .. Len(services) : services[j].end <= bank.busyUntil
    <3>1. ASSUME NEW j \in 1 .. Len(services)
          PROVE  services[j].end <= services[Len(services)].end
      <4>1. CASE j = Len(services)
        BY <1>2, <4>1
      <4>2. CASE j < Len(services)
        BY <1>1, <2>1, <4>2 DEF Ordered
      <4>. QED  BY <2>1, <4>1, <4>2
    <3>. QED  BY <2>2, <3>1
  <2>. QED  BY <1>1, <1>2, <1>3, <1>5, <2>1, <2>2, <2>3
<1>. QED  BY <1>4, <1>5

(* A service takes a request off the queue, and is counted as a conflict   *)
(* when it overlaps.                                                       *)
LEMMA ServingCounts ==
    ASSUME NEW c \in Configs, NEW bank, NEW services, NEW refusals,
           NEW t \in Nat, BankInv(c, bank, services, refusals, t),
           Counted(c, bank, services, refusals), bank.queue # <<>>,
           NEW done \in Service, done.start = t,
           done.end = Completion(c, bank, t)
    PROVE  /\ Serve(c, bank, t).queue = Tail(bank.queue)
           /\ Counted(c, Serve(c, bank, t), Append(services, done), refusals)
<1>. DEFINE new == Serve(c, bank, t)
            longer == Append(services, done)
            paid == ExtraDelay(c, bank, t) > 0
<1>1. bank \in Bank /\ services \in Seq(Service)
  BY DEF BankInv
<1>2. /\ new.queue = Tail(bank.queue) /\ new.requests = bank.requests
      /\ new.conflicts = IF paid THEN bank.conflicts + 1 ELSE bank.conflicts
      /\ new.portConflicts = bank.portConflicts
  BY <1>1 DEF Serve, Bank
<1>. HIDE DEF new
<1>3. /\ Len(Tail(bank.queue)) = Len(bank.queue) - 1 /\ Len(bank.queue) \in Nat
      /\ Len(longer) = Len(services) + 1 /\ Len(services) \in Nat
  <2>1. bank.queue \in Seq(Asked)
    BY <1>1 DEF Bank
  <2>. QED  BY <1>1, <2>1
<1>4. new.requests = Len(longer) + Len(new.queue)
  <2>1. bank.requests = Len(services) + Len(bank.queue)
    BY DEF Counted
  <2>2. Len(new.queue) = Len(bank.queue) - 1 /\ Len(bank.queue) \in Nat
    BY <1>2, <1>3
  <2>3. Len(longer) = Len(services) + 1 /\ Len(services) \in Nat
    BY <1>3
  <2>4. new.requests = bank.requests
    BY <1>2
  <2>5. bank.requests = (Len(services) + 1) + (Len(bank.queue) - 1)
    <3>1. bank.requests \in Nat
      BY <1>1 DEF Bank
    <3>2. \A m, n \in Nat : m + n = (m + 1) + (n - 1)
      OBVIOUS
    <3>. QED  BY <2>1, <2>2, <2>3, <3>1, <3>2
  <2>. HIDE DEF longer
  <2>. QED  BY <2>2, <2>3, <2>4, <2>5, Zenon
<1>5. new.conflicts = IF c.bankConflictPolicy = "ExtraDelay"
                      THEN Cardinality(Overlaps(longer)) ELSE refusals
  <2>1. CASE c.bankConflictPolicy = "ExtraDelay"
    <3>1. paid <=> \E j \in 1 .. Len(services) : services[j].end > done.start
      BY <2>1, PenaltyIsOverlap
    <3>2. Cardinality(Overlaps(longer)) =
             IF \E j \in 1 .. Len(services) : services[j].end > done.start
             THEN Cardinality(Overlaps(services)) + 1
             ELSE Cardinality(Overlaps(services))
      BY <1>1, OverlapsOf
    <3>3. bank.conflicts = Cardinality(Overlaps(services))
      BY <2>1 DEF Counted
    <3>. HIDE DEF paid, longer
    <3>. QED  BY <1>2, <2>1, <3>1, <3>2, <3>3
  <2>2. CASE c.bankConflictPolicy # "ExtraDelay"
    <3>1. ~paid
      BY <2>2 DEF ExtraDelay
    <3>. QED  BY <1>2, <2>2, <3>1 DEF Counted
  <2>. QED  BY <2>1, <2>2
<1>6. new.portConflicts = IF c.bankConflictPolicy = "Queue" THEN refusals ELSE 0
  BY <1>2 DEF Counted
<1>7. done.end >= done.start + c.bankServiceLatency
  <2>1. c.bankServiceLatency \in Nat
    BY ConfigTypes
  <2>2. ExtraDelay(c, bank, t) \in {0, 10}
    BY DEF ExtraDelay, ConflictPenalty
  <2>. QED  BY <2>1, <2>2 DEF Completion
<1>8. \A k \in 1 .. Len(longer) :
         longer[k].end >= longer[k].start + c.bankServiceLatency
  <2>1. \A k \in 1 .. Len(longer) :
           longer[k] = done \/ (k \in 1 .. Len(services) /\ longer[k] = services[k])
    BY <1>1
  <2>2. \A k \in 1 .. Len(services) :
           services[k].end >= services[k].start + c.bankServiceLatency
    BY DEF Counted
  <2>. HIDE DEF longer
  <2>. QED  BY <1>7, <2>1, <2>2
<1>. HIDE DEF longer
<1>9. Counted(c, new, longer, refusals)
  BY <1>4, <1>5, <1>6, <1>8 DEF Counted
<1>. QED  BY <1>2, <1>9 DEF new, longer

(* serviceRequest() moves the head of a queue to what was served.          *)
LEMMA ServiceRequestKeepsOrder ==
    ASSUME OrderInv, NEW at \in BankIds(config), ServiceRequest(at)
    PROVE  OrderInv'
<1>. DEFINE bank == banks[at]
            services == served[at]
            done == Done(Head(bank.queue), Completion(config, bank, clock))
<1>1. DevicesInv /\ LinkInv /\ DevicesInv'
  BY ServiceRequestKeeps DEF OrderInv
<1>2. /\ bank.queue # <<>>
      /\ UNCHANGED <<config, link, clock, received, carried>>
      /\ config \in Configs /\ clock \in Nat
      /\ DOMAIN banks = BankIds(config) /\ DOMAIN served = BankIds(config)
      /\ DOMAIN refused = BankIds(config)
      /\ BankInv(config, bank, services, refused[at], clock)
      /\ bank \in Bank /\ services \in Seq(Service) /\ refused[at] \in Nat
  BY <1>1 DEF ServiceRequest, DevicesInv, BankInv
<1>3. LinkInv' /\ \A b \in BankIds(config) : For(b)' = For(b)
  <2>1. LinkInv'
    BY <1>1, <1>2 DEF LinkInv
  <2>. QED  BY <1>2, <2>1 DEF For, BankOf
<1>4. \A b \in BankIds(config) :
         /\ IsSelection(received, For(b), Requests(served[b]) \o banks[b].queue)
         /\ Counted(config, banks[b], served[b], refused[b])
  BY DEF OrderInv, InOrder
<1>5. SUFFICES
         /\ Counted(config, banks'[at], served'[at], refused'[at])
         /\ Requests(served'[at]) \o banks'[at].queue
               = Requests(services) \o bank.queue
         /\ \A b \in BankIds(config) : b # at =>
               /\ banks'[b] = banks[b] /\ served'[b] = served[b]
               /\ refused'[b] = refused[b]
  <2>1. ASSUME /\ Counted(config, banks'[at], served'[at], refused'[at])
               /\ Requests(served'[at]) \o banks'[at].queue
                     = Requests(services) \o bank.queue
               /\ \A b \in BankIds(config) : b # at =>
                     /\ banks'[b] = banks[b] /\ served'[b] = served[b]
                     /\ refused'[b] = refused[b],
               NEW b \in BankIds(config)
        PROVE  /\ IsSelection(received, For(b),
                              Requests(served'[b]) \o banks'[b].queue)
               /\ Counted(config, banks'[b], served'[b], refused'[b])
    <3>1. CASE b = at
      BY <1>4, <2>1, <3>1
    <3>2. CASE b # at
      BY <1>4, <2>1, <3>2
    <3>. QED  BY <3>1, <3>2
  <2>. QED  BY <1>1, <1>2, <1>3, <2>1 DEF OrderInv, InOrder
<1>6. CASE /\ Accepts(config, bank)
           /\ banks' = [banks EXCEPT ![at] = Serve(config, @, clock)]
           /\ served' = [served EXCEPT ![at] = Append(@, done)]
           /\ UNCHANGED refused
  <2>1. /\ Head(bank.queue) \in Asked /\ bank.queue \in Seq(Asked)
    BY <1>2 DEF Bank
  <2>2. Completion(config, bank, clock) \in Nat
    BY <1>2, CompletionBounds
  <2>3. /\ done \in Service /\ done.start = clock
        /\ done.end = Completion(config, bank, clock)
        /\ done.request = Head(bank.queue)
    BY <1>2, <2>1, <2>2 DEF Done, Service
  <2>. HIDE DEF done
  <2>4. /\ banks'[at] = Serve(config, bank, clock)
        /\ served'[at] = Append(services, done)
        /\ refused' = refused
    BY <1>2, <1>6
  <2>5. /\ Serve(config, bank, clock).queue = Tail(bank.queue)
        /\ Counted(config, Serve(config, bank, clock), Append(services, done),
                   refused[at])
    <3>1. Counted(config, bank, services, refused[at])
      BY <1>4
    <3>. HIDE DEF bank, services
    <3>. QED  BY <1>2, <2>3, <3>1, ServingCounts
  <2>6. Requests(Append(services, done)) \o Tail(bank.queue)
           = Requests(services) \o bank.queue
    <3>1. Requests(Append(services, done))
             = Append(Requests(services), Head(bank.queue))
      BY <1>2, <2>3, RequestsGrow
    <3>2. Requests(services) \in Seq(Asked)
      BY <1>2, RequestsTyped
    <3>3. Append(Requests(services), Head(bank.queue)) \o Tail(bank.queue)
             = Requests(services) \o bank.queue
      BY <1>2, <2>1, <3>2, HeadMoves
    <3>. QED  BY <3>1, <3>3
  <2>7. ASSUME NEW b \in BankIds(config), b # at
        PROVE  banks'[b] = banks[b] /\ served'[b] = served[b]
    BY <1>2, <1>6, <2>7
  <2>. QED  BY <2>4, <2>5, <2>6, <2>7
<1>7. CASE /\ ~Accepts(config, bank)
           /\ banks' = [banks EXCEPT ![at] = Refuse(config, @)]
           /\ refused' = [refused EXCEPT ![at] = @ + 1]
           /\ UNCHANGED served
  <2>1. /\ banks'[at] = Refuse(config, bank) /\ refused'[at] = refused[at] + 1
        /\ served' = served
    BY <1>2, <1>7
  <2>2. /\ Refuse(config, bank).queue = bank.queue
        /\ Counted(config, Refuse(config, bank), services, refused[at] + 1)
    <3>1. Counted(config, bank, services, refused[at])
      BY <1>4
    <3>. QED  BY <1>2, <1>7, <3>1, RefusingCounts
  <2>3. ASSUME NEW b \in BankIds(config), b # at
        PROVE  banks'[b] = banks[b] /\ refused'[b] = refused[b]
    BY <1>2, <1>7, <2>3
  <2>. QED  BY <2>1, <2>2, <2>3
<1>. QED  BY <1>6, <1>7 DEF ServiceRequest

(* Every call keeps the order.                                             *)
LEMMA StepKeepsOrder == OrderInv /\ [Next]_vars => OrderInv'
<1>. SUFFICES ASSUME OrderInv, [Next]_vars PROVE OrderInv'
  OBVIOUS
<1>1. DevicesInv /\ LinkInv /\ DevicesInv'
  BY StepKeeps DEF OrderInv
<1>2. ASSUME UNCHANGED <<config, banks, received, served, refused>>, LinkInv'
      PROVE  OrderInv'
  BY <1>1, <1>2 DEF OrderInv, InOrder, For, BankOf
<1>3. ASSUME NEW core \in DeviceCores, NEW a \in Addresses, HandOver(core, a)
      PROVE  OrderInv'
  BY <1>3, HandOverKeepsOrder
<1>4. CASE Arbitrate
  <2>1. LinkInv'
    BY <1>1, <1>4, ArbitrateKeepsLink
  <2>. QED  BY <1>2, <1>4, <2>1 DEF Arbitrate
<1>5. ASSUME NEW b \in BankIds(config), ServiceRequest(b)
      PROVE  OrderInv'
  BY <1>5, ServiceRequestKeepsOrder
<1>6. CASE TimePasses \/ UNCHANGED vars
  <2>1. /\ UNCHANGED <<config, link, banks, received, carried, served, refused>>
        /\ clock \in Nat /\ clock' \in Nat /\ clock <= clock'
    BY <1>1, <1>6, DevicesAssumption
    DEF TimePasses, DevicesInv, vars, deviceVars, histories
  <2>2. ASSUME NEW n \in 1 .. Len(link.queue)
        PROVE  Posted(config, link.queue[n], clock')
    <3>1. link.queue[n] \in Asked
      BY <1>1 DEF LinkInv, Link
    <3>2. link.queue[n].time \in Nat
      BY <3>1 DEF Asked
    <3>. QED  BY <1>1, <2>1, <3>2 DEF LinkInv, Posted
  <2>3. LinkInv'
    BY <1>1, <2>1, <2>2 DEF LinkInv
  <2>. QED  BY <1>2, <2>1, <2>3
<1>. QED  BY <1>3, <1>4, <1>5, <1>6 DEF Next

(* What was carried or served, and then what waits, is what was sent.      *)
LEMMA OrderInvariant == Spec => []OrderInv
BY InitiallyOrderInv, StepKeepsOrder, PTL DEF Spec

(* serviceRequest() and arbitrate() neither lose a request nor serve one   *)
(* twice or before its turn, however often a call is refused in between.   *)
THEOREM FirstComesFirst == Spec => []FirstComeFirstServed
<1>1. OrderInv => FirstComeFirstServed
  BY DEF OrderInv, LinkInv, InOrder, For, FirstComeFirstServed
<1>. QED  BY <1>1, OrderInvariant, PTL

(* The counters of Interconnect and MemoryBank are those of what happened, *)
(* under each of the three policies.                                       *)
THEOREM CountersAreRight == Spec => []CountersAddUp
<1>1. OrderInv => CountersAddUp
  BY DEF OrderInv, LinkInv, Counted, CountersAddUp
<1>. QED  BY <1>1, OrderInvariant, PTL

(* A request that is served after it was carried is done no earlier than   *)
(* handleBankAccess() has said, whatever else the devices were asked.      *)
THEOREM NotBeforeAnswer == Spec => []NeverBeforeAnswered
<1>1. OrderInv => NeverBeforeAnswered
  <2>. SUFFICES ASSUME OrderInv, NEW b \in BankIds(config),
                       NEW j \in DOMAIN served[b], NEW k \in DOMAIN carried,
                       served[b][j].request = carried[k].request,
                       carried[k].end <= served[b][j].start
                PROVE  served[b][j].end >=
                          carried[k].request.time
                            + BankLatency(config, carried[k].request.core,
                                          carried[k].request.address)
    BY DEF NeverBeforeAnswered, ToSet
  <2>. DEFINE s == served[b][j]
              d == carried[k]
              transfer == TransferLatency(config,
                              CoreChiplet(config, d.request.core),
                              BankChiplet(config,
                                  BankIndex(config, d.request.address)))
  <2>1. /\ served[b] \in Seq(Service) /\ carried \in Seq(Service)
        /\ config \in Configs
    BY DEF OrderInv, DevicesInv, BankInv, LinkInv
  <2>2. s \in Service /\ d \in Service
    BY <2>1
  <2>3. /\ s.start \in Nat /\ s.end \in Nat /\ d.start \in Nat /\ d.end \in Nat
        /\ d.request.time \in Nat
    BY <2>2 DEF Service, Asked
  <2>4. transfer \in Nat /\ config.bankServiceLatency \in Nat
    BY <2>1, TransferTakesTime, ConfigTypes
  <2>5. s.end >= s.start + config.bankServiceLatency
    <3>1. Counted(config, banks[b], served[b], refused[b])
      BY DEF OrderInv
    <3>2. j \in 1 .. Len(served[b])
      BY <2>1
    <3>. QED  BY <3>1, <3>2 DEF Counted
  <2>6. d.request.time <= d.start /\ d.end = d.start + transfer
    BY <2>1 DEF OrderInv, LinkInv, Transferred
  <2>7. BankLatency(config, d.request.core, d.request.address)
           = transfer + config.bankServiceLatency
    BY DEF BankLatency
  <2>8. d.end <= s.start
    OBVIOUS
  <2>. HIDE DEF s, d, transfer
  <2>9. s.end >= d.request.time
                   + BankLatency(config, d.request.core, d.request.address)
    BY <2>3, <2>4, <2>5, <2>6, <2>7, <2>8
  <2>. QED  BY <2>9 DEF s, d
<1>. QED  BY <1>1, OrderInvariant, PTL
=============================================================================
