------------------------------- MODULE MemoryBank -------------------------------
(***************************************************************************)
(* The memory banks (MemoryBank.cpp): which bank serves an address, and    *)
(* what a bank does with the requests it receives.  A bank is a record,    *)
(* whose counters are requestCount, conflictCount and portConflictCount.   *)
(***************************************************************************)
EXTENDS Address, Sequences

(* getBankIndex(): numMemoryBanks is positive in a valid configuration.    *)
BankIndex(c, a) ==
    IF c.bankIndexFn = "XorFold"
    THEN Xor(a, a \div 2^16) % c.numMemoryBanks
    ELSE (a \div 64) % c.numMemoryBanks

-----------------------------------------------------------------------------
(* The constructor.                                                        *)
EmptyBank ==
    [queue |-> <<>>, busy |-> FALSE, busyUntil |-> 0, ports |-> 0,
     requests |-> 0, conflicts |-> 0, portConflicts |-> 0]

ReceiveRequest(bank, request) ==
    [bank EXCEPT !.queue = Append(@, request), !.requests = @ + 1]

(* Mutant of PortAvailable: one port too many.                             *)
PortAvailableAtLimit(c, bank) ==
    c.bankPortLimit = 0 \/ bank.ports <= c.bankPortLimit

PortAvailable(c, bank) == c.bankPortLimit = 0 \/ bank.ports < c.bankPortLimit

(* Whether serviceRequest() takes a request off the queue.                 *)
Accepts(c, bank) ==
    /\ c.bankConflictPolicy = "Serialize" => ~bank.busy
    /\ c.bankConflictPolicy = "Queue" => PortAvailable(c, bank)

ConflictPenalty == 10

(* Mutant of ExtraDelay: the penalty when the bank is not busy.            *)
ExtraDelayIfFree(c, bank, t) ==
    IF c.bankConflictPolicy = "ExtraDelay" /\ t >= bank.busyUntil
    THEN ConflictPenalty ELSE 0

ExtraDelay(c, bank, t) ==
    IF c.bankConflictPolicy = "ExtraDelay" /\ bank.busy /\ t < bank.busyUntil
    THEN ConflictPenalty ELSE 0

(* Mutant of Completion: the penalty replaces the service latency.         *)
CompletionOrPenalty(c, bank, t) ==
    IF ExtraDelay(c, bank, t) > 0 THEN t + ExtraDelay(c, bank, t)
    ELSE t + c.bankServiceLatency

(* What serviceRequest() returns when it takes a request.                  *)
Completion(c, bank, t) == t + c.bankServiceLatency + ExtraDelay(c, bank, t)

(* Mutant of Serve: the conflict is not counted.                           *)
ServeUncounted(c, bank, t) ==
    [bank EXCEPT
        !.queue = Tail(@), !.busy = TRUE, !.busyUntil = Completion(c, bank, t),
        !.ports = IF c.bankConflictPolicy = "Queue" THEN @ + 1 ELSE 1]

(* serviceRequest() takes a request.  busy is never reset and ports never  *)
(* decremented.                                                            *)
Serve(c, bank, t) ==
    LET completion == Completion(c, bank, t)
        parallel == c.bankConflictPolicy = "Queue"
    IN  [bank EXCEPT
            !.queue = Tail(@),
            !.busy = TRUE,
            !.busyUntil =
                IF parallel /\ completion <= @ THEN @ ELSE completion,
            !.ports = IF parallel THEN @ + 1 ELSE 1,
            !.conflicts = IF ExtraDelay(c, bank, t) > 0 THEN @ + 1 ELSE @]

(* Mutant of Refuse: the request is popped all the same.                   *)
RefuseAndPop(c, bank) ==
    [bank EXCEPT !.queue = Tail(@), !.conflicts = @ + 1]

(* serviceRequest() leaves the request in the queue and returns 0.         *)
Refuse(c, bank) ==
    [bank EXCEPT
        !.conflicts = @ + 1,
        !.portConflicts =
            IF c.bankConflictPolicy = "Queue" THEN @ + 1 ELSE @]
=============================================================================
