------------------------------ MODULE MemoryDevices ------------------------------
(***************************************************************************)
(* The interconnect and the banks as their interface lets a caller use     *)
(* them.  handleBankAccess() hands each request to both; then arbitrate()  *)
(* carries a request over the link and serviceRequest() has a bank serve   *)
(* one.  Nothing in the simulator calls these two, so here they are called *)
(* at any time and in any order, with a clock that does not go back.       *)
(*                                                                         *)
(* received, carried, served and refused are history variables: what the   *)
(* devices were asked and what they answered.                              *)
(***************************************************************************)
EXTENDS Latency, SequencesExt, Selection

CONSTANTS
    Configs,        \* the configurations
    DeviceCores,    \* the cores that send requests
    Addresses,      \* the addresses they ask for
    MaxRequests,    \* bound: requests sent
    MaxRefusals,    \* bound: calls a bank refuses
    Times           \* bound: the cycles at which the devices are called

ASSUME DevicesAssumption ==
    /\ \A c \in Configs :
          /\ Valid(c)
          /\ {c.numMemoryBanks, c.bankServiceLatency, c.bankPortLimit,
              c.interconnectLatency, c.interconnectLinkWidth,
              c.remoteChipletPenalty} \subseteq Int
          /\ c.bankConflictPolicy \in {"Serialize", "Queue", "ExtraDelay"}
          /\ DeviceCores \subseteq 0 .. c.numCores - 1
    /\ Addresses \subseteq Nat
    /\ MaxRequests \in Nat /\ MaxRefusals \in Nat
    /\ Times \subseteq Nat /\ 0 \in Times

VARIABLES
    config,     \* MemorySystem::config
    link,       \* MemorySystem::interconnect
    banks,      \* MemorySystem::banks
    clock,      \* the currentTime of the next call
    received,   \* the requests handed to the devices, in order
    carried,    \* the transfers of the link: request, start and end
    served,     \* the services of each bank: request, start and end
    refused     \* the calls each bank refused

deviceVars == <<link, banks>>
histories == <<received, carried, served, refused>>
vars == <<config, deviceVars, clock, histories>>

BankOf(request) == BankIndex(config, request.address)

Done(request, end) == [request |-> request, start |-> clock, end |-> end]

Init ==
    /\ config \in Configs
    /\ link = IdleLink
    /\ banks = [b \in BankIds(config) |-> EmptyBank]
    /\ clock = 0
    /\ received = <<>>
    /\ carried = <<>>
    /\ served = [b \in BankIds(config) |-> <<>>]
    /\ refused = [b \in BankIds(config) |-> 0]

(* What handleBankAccess() does to the devices.  The instance that asks is *)
(* a different one each time.                                              *)
HandOver(core, a) ==
    LET request == Request(a, core, Len(received) + 1, clock,
                           CoreChiplet(config, core))
        b == BankOf(request)
    IN  /\ Len(received) < MaxRequests
        /\ link' = [link EXCEPT !.queue = Enqueue(@, request)]
        /\ banks' = [banks EXCEPT ![b] = ReceiveRequest(@, request)]
        /\ received' = Append(received, request)
        /\ UNCHANGED <<config, clock, carried, served, refused>>

Arbitrate ==
    /\ \/ /\ link.queue = <<>>
          /\ link' = ReleaseLink(link)
          /\ UNCHANGED carried
       \/ /\ link.queue # <<>>
          /\ LET request == Head(link.queue)
                 latency == TransferLatency(config, request.src,
                                BankChiplet(config, BankOf(request)))
             IN  /\ link' = Carry(link, clock, latency)
                 /\ carried' = Append(carried, Done(request, clock + latency))
    /\ UNCHANGED <<config, banks, clock, received, served, refused>>

(* serviceRequest() of bank b; with no request it does nothing.            *)
ServiceRequest(b) ==
    LET bank == banks[b]
        done == Done(Head(bank.queue), Completion(config, bank, clock))
    IN  /\ bank.queue # <<>>
        /\ \/ /\ Accepts(config, bank)
              /\ banks' = [banks EXCEPT ![b] = Serve(config, @, clock)]
              /\ served' = [served EXCEPT ![b] = Append(@, done)]
              /\ UNCHANGED refused
           \/ /\ ~Accepts(config, bank)
              /\ refused[b] < MaxRefusals
              /\ banks' = [banks EXCEPT ![b] = Refuse(config, @)]
              /\ refused' = [refused EXCEPT ![b] = @ + 1]
              /\ UNCHANGED served
        /\ UNCHANGED <<config, link, clock, received, carried>>

TimePasses ==
    /\ \E t \in Times : t > clock /\ clock' = t
    /\ UNCHANGED <<config, deviceVars, histories>>

Next ==
    \/ \E core \in DeviceCores, a \in Addresses : HandOver(core, a)
    \/ Arbitrate
    \/ \E b \in BankIds(config) : ServiceRequest(b)
    \/ TimePasses

Spec == Init /\ [][Next]_vars
-----------------------------------------------------------------------------
Requests(history) == [k \in DOMAIN history |-> history[k].request]

(* How long it all took, one after the other.                              *)
TotalTime(history) ==
    LET spent[k \in 0 .. Len(history)] ==
            IF k = 0 THEN 0
            ELSE spent[k - 1] + history[k].end - history[k].start
    IN  spent[Len(history)]

(* The services that began before an earlier one was over.                 *)
Overlaps(history) ==
    {k \in DOMAIN history :
        \E j \in 1 .. k - 1 : history[j].end > history[k].start}

(* The link carries each request once, in the order in which they came,    *)
(* and so does every bank serve those of its addresses: a call that is     *)
(* refused neither loses its request nor lets a later one overtake it.     *)
FirstComeFirstServed ==
    /\ Requests(carried) \o link.queue = received
    /\ \A b \in BankIds(config) :
          IsSelection(received, {n \in DOMAIN received : BankOf(received[n]) = b},
                      Requests(served[b]) \o banks[b].queue)

(* What the devices count is what happened: a bank its requests, the calls *)
(* it refused and the services that began before an earlier one was over,  *)
(* the link its transfers and the cycles they took.                        *)
CountersAddUp ==
    /\ link.transfers = Len(carried)
    /\ link.busyCycles = TotalTime(carried)
    /\ \A b \in BankIds(config) :
          LET policy == config.bankConflictPolicy
          IN  /\ banks[b].requests = Len(served[b]) + Len(banks[b].queue)
              /\ banks[b].conflicts =
                    IF policy = "ExtraDelay" THEN Cardinality(Overlaps(served[b]))
                    ELSE refused[b]
              /\ banks[b].portConflicts =
                    IF policy = "Queue" THEN refused[b] ELSE 0

(* "Serialize: queue all conflicting requests, service one at a time",     *)
(* "Queue: allow parallel service up to port limit" (README): at no cycle  *)
(* are more services of a bank in progress.                                *)
WithinCapacity ==
    LET capacity == IF config.bankConflictPolicy = "Queue"
                    THEN config.bankPortLimit ELSE 1
        inProgress(b, t) == {k \in DOMAIN served[b] :
                                served[b][k].start <= t /\ t < served[b][k].end}
    IN  config.bankConflictPolicy # "ExtraDelay" =>
            \A b \in BankIds(config), t \in Times :
                Cardinality(inProgress(b, t)) <= capacity

(* The services of a bank end in the order in which they began, under      *)
(* every policy, and getBusyUntil() is the end of the last.                *)
EndInOrder ==
    \A b \in BankIds(config) :
        /\ \A j, k \in DOMAIN served[b] :
              j < k => served[b][j].end <= served[b][k].end
        /\ served[b] # <<>> => banks[b].busyUntil = Last(served[b]).end

(* The memory system answers a request at once, with the latency of an     *)
(* idle link and an idle bank.  That is the least the devices would take:  *)
(* a request they serve after it was carried is not done earlier.          *)
NeverBeforeAnswered ==
    \A b \in BankIds(config) :
        \A s \in ToSet(served[b]), d \in ToSet(carried) :
            s.request = d.request /\ d.end <= s.start =>
                s.end >= s.request.time
                            + BankLatency(config, s.request.core,
                                          s.request.address)
=============================================================================
