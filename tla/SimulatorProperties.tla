-------------------------- MODULE SimulatorProperties --------------------------
(***************************************************************************)
(* What is claimed of the simulator: first for every workload, then for    *)
(* the workloads on which its bookkeeping of ready instances is sound,     *)
(* then for each scheduling policy.                                        *)
(***************************************************************************)
EXTENDS Simulator

OpCount(i) == Len(OpsOf(work, i))

EventsFor(i, types) == {e \in DOMAIN events : e.inst = i /\ e.type \in types}

(* i executed its last operation and its TaskDone has been handled.        *)
Completed(i) == opIndex[i] >= OpCount(i) /\ EventsFor(i, {"TaskDone"}) = {}

(* i occupies a core between handleTaskDispatched and handleTaskDone.      *)
OnCore(i) ==
    \/ \E c \in Cores : cores[c].busy /\ cores[c].current = i
    \/ EventsFor(i, {"TaskDone"}) # {}

Predecessors(i) == {d \in Instances(work) : Multiplicity(work, d, i) > 0}

-----------------------------------------------------------------------------
(* FOR EVERY WORKLOAD                                                      *)

(* An event in flight for core c is its only one, and tells what c does: a *)
(* TaskDispatched or TaskDone finds it reserved but not executing, the end *)
(* or the issue of an operation finds it executing that event's instance.  *)
CoreEvents == {e \in DOMAIN events : e.core # NoCore}

CoreStateFits(e) ==
    /\ ~coreIdle[e.core]
    /\ e.type # "TaskReady"
    /\ cores[e.core] = IF e.type \in {"TaskDispatched", "TaskDone"}
                       THEN IdleCore ELSE BusyWith(e.inst)

(* The token of a core: the scheduler's coreIdle flags, the cores' busy    *)
(* flags and the events in flight are three records of the same fact, kept *)
(* by three classes, and they never disagree.                              *)
CoreProtocol ==
    /\ \A e \in DOMAIN events : e.core = NoCore => e.type = "TaskReady"
    /\ \A e \in CoreEvents : events[e] = 1 /\ CoreStateFits(e)
    /\ \A e, f \in CoreEvents : e.core = f.core => e = f
    /\ \A c \in Cores : cores[c].busy => \E e \in CoreEvents : e.core = c
    /\ \A c \in Cores : ~cores[c].busy => cores[c] = IdleCore

(* executeOp() and completeOp() throw on a core in the wrong state: that   *)
(* never happens, whatever order events of the same time are popped in.    *)
NoException == phase # "aborted"

(* No instance waits in the ready queue while the scheduler has an idle    *)
(* core: each of the two dispatch sites covers what the other leaves.      *)
WorkConserving == readyQueue # <<>> => \A c \in Cores : ~coreIdle[c]

(* No event lies in the past, unless an operation takes a negative number  *)
(* of cycles: whatever a handler schedules at "now + something" is still   *)
(* to come when the loop gets to it.                                       *)
NoPastEvent ==
    NonNegativeDurations(work) => \A e \in DOMAIN events : ~Before(e.time, now)

(* Simulated time never goes back, on the same condition.                  *)
TimeMonotone == [][NonNegativeDurations(work) => ~Before(now', now)]_vars

(* The loop of run() is to "pop next event and advance time to event.time" *)
(* (Simulator.cpp:70): whatever the workload, time advances.               *)
TimeAdvances == [][~Before(now', now)]_vars

(* An instance that has been announced, queued or given a core has no      *)
(* unsatisfied dependency left, as its inDegree tells it.                  *)
ActiveOnlyWhenSatisfied ==
    /\ \A e \in DOMAIN events : inDegree[e.inst] <= 0
    /\ \A k \in DOMAIN readyQueue : inDegree[readyQueue[k]] <= 0
    /\ \A c \in Cores : cores[c].busy => inDegree[cores[c].current] <= 0

(* An idle core is passed over at most NumCores - 1 times before it gets   *)
(* work: each dispatch to another core, wherever it is made, brings the    *)
(* next search of selectIdleCore() nearer to it.  (README.md:325 promises  *)
(* more: "Tasks are distributed evenly across cores in a round-robin       *)
(* fashion".  That the shares are even is not so and is not claimed.)      *)
Dispatches ==
    \E e \in DOMAIN events' \ DOMAIN events : e.type = "TaskDispatched"

TurnTaken ==
    \A c \in Cores :
        coreIdle[c] /\ coreIdle'[c] => Distance(nextCore', c) < Distance(nextCore, c)

IdleCoresTakeTurns == [][Dispatches => TurnTaken]_vars

(* The loop of run() comes to its end, also when cores have been lost.     *)
Terminates == <>(phase # "running")

-----------------------------------------------------------------------------
(* FOR WELL-BEHAVED WORKLOADS                                              *)
(*                                                                         *)
(* initialize() leaves the readyTime of the roots 0, so a root that has not *)
(* executed an operation is announced again by the next TaskDone, and by   *)
(* the next again until one past cycle 0 stamps it; an instance that       *)
(* becomes ready at cycle 0 is in the same position.  With a single root   *)
(* that takes time neither can happen, because no TaskDone comes before    *)
(* the root's own; and no duration is negative, so that no cycle comes     *)
(* twice.                                                                  *)

UniqueIds(w) ==
    \A r, s \in Rows(w) : w.tasks[r].id = w.tasks[s].id => r = s

TakesTime(op) ==
    IF op.type = "Compute" THEN op.cycles > 0 ELSE 0 \notin MemLatencies

WellBehaved(w) ==
    /\ ~HasCycle(w)
    /\ UniqueIds(w)
    /\ NonNegativeDurations(w)
    /\ \A i \in Instances(w) : OpsOf(w, i) # <<>>
    /\ \E root \in Instances(w) :
          /\ \A i \in Instances(w) : InitialInDegree(w, i) = 0 <=> i = root
          /\ \E n \in DOMAIN OpsOf(w, root) : TakesTime(OpsOf(w, root)[n])

(* The places where i stands to be run or is being run: its events in the  *)
(* queue, copies included, and its entries in the ready queue.             *)
Activations(i) ==
    Cardinality({x \in EventsFor(i, EventTypes) \X (1 .. 2) :
                    x[2] <= events[x[1]]})
    + Cardinality({k \in DOMAIN readyQueue : readyQueue[k] = i})

(* "Only schedule if this instance just became ready": an instance is      *)
(* announced once, is in one place at a time, and never comes back.        *)
ScheduledOnce ==
    \A i \in Instances(work) :
        Activations(i) <= IF Completed(i) THEN 0 ELSE 1

(* An instance is given a core only after every instance of every task it  *)
(* depends on has completed.                                               *)
DependencyOrder ==
    \A i \in Instances(work) :
        (opIndex[i] > 0 \/ EventsFor(i, EventTypes \ {"TaskReady"}) # {})
        => \A d \in Predecessors(i) : Completed(d)

(* inDegree is the "number of unsatisfied dependencies": repeated entries  *)
(* of a deps list and all executions of a dependency are counted alike by  *)
(* buildDAG() and by markInstanceComplete().                               *)
InDegreeCountsUnsatisfied ==
    \A i \in Instances(work) :
        inDegree[i] =
            Cardinality({x \in DependenciesOf(work, i) : ~Completed(x[2])})

(* handleMemReqIssued() reads ops[currentOpIndex] again, one event after   *)
(* executeOp() chose the operation: it still is that memory operation.     *)
(* (If a second core ran the instance the index could have passed the end  *)
(* of ops.)                                                                *)
RequestMatchesOp ==
    \A e \in {f \in DOMAIN events : f.type = "MemReqIssued"} :
        LET n == opIndex[e.inst] + 1
        IN  /\ n \in DOMAIN OpsOf(work, e.inst)
            /\ OpsOf(work, e.inst)[n].type = "Memory"
            /\ OpsOf(work, e.inst)[n].address = e.address

(* A core the scheduler counts as taken has an event that will free it.    *)
NoCoreLost ==
    \A c \in Cores : coreIdle[c] \/ \E e \in CoreEvents : e.core = c

(* When the loop ends every instance has executed each operation once.     *)
AllExecuted ==
    phase = "complete" =>
        \A i \in Instances(work) : opIndex[i] = OpCount(i)

(* The simulator implements the abstract execution of the task graph.      *)
StatusOf(i) ==
    IF Completed(i) THEN "done" ELSE IF OnCore(i) THEN "running" ELSE "waiting"

Abstract == INSTANCE TaskExecution WITH
    MaxRunning <- NumCores,
    deps <- [i \in Instances(work) |-> Predecessors(i)],
    status <- [i \in Instances(work) |-> StatusOf(i)]

ImplementsTaskExecution == Abstract!Spec

-----------------------------------------------------------------------------
(* SCHEDULING POLICIES                                                     *)

(* i is taken from the ready queue by this step and j is left in it.       *)
Overtakes(i, j) ==
    /\ i \in ToSet(readyQueue) \ ToSet(readyQueue')
    /\ j \in ToSet(readyQueue')

(* FIFO: "tasks are dispatched in the order they become ready", that is by *)
(* the cycle at which they did.                                            *)
FifoByReadyTime ==
    [][\A i, j \in Instances(work) :
          Overtakes(i, j) => readyTime[i] <= readyTime[j]]_vars

(* ShortestOpsFirst: no instance left waiting has fewer operations than    *)
(* the one that is taken, and of those with equally many none is older:    *)
(* the scan prefers the front, and the queue is in the order of readyTime. *)
(* (Where a root is announced twice they are not: its first entry keeps    *)
(* its place and has the readyTime of the second.)                         *)
ShortestThenOldest ==
    [][\A i, j \in Instances(work) :
          Overtakes(i, j) /\ WellBehaved(work) =>
              \/ Remaining[i] < Remaining[j]
              \/ Remaining[i] = Remaining[j] /\ readyTime[i] <= readyTime[j]]_vars
=============================================================================
