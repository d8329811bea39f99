------------------------------- MODULE Simulator -------------------------------
(***************************************************************************)
(* The discrete-event simulator (Simulator.cpp) with its task graph,       *)
(* scheduler, cores and event queue.  Each step of the loop in run() pops  *)
(* one event and runs its handler to the end: one action per handler.      *)
(*                                                                         *)
(* The memory system appears here by its contract alone: every request is  *)
(* answered by exactly one MemRespDone for the core and instance that made *)
(* it, after one of the latencies in MemLatencies (MemorySystem.cpp calls  *)
(* completeRequest() once on each of its paths, before it returns).        *)
(*                                                                         *)
(* Left out: statistics, which observe and never decide; and the fields    *)
(* dispatchTime and doneTime of an instance, which are only ever written.  *)
(***************************************************************************)
EXTENDS TaskGraph, Scheduler, Core

CONSTANTS
    Workloads,     \* the workloads a run may be given
    MemLatencies   \* the cycles a memory request may take

ASSUME SimulatorAssumption ==
    /\ Workloads \subseteq Workload
    /\ MemLatencies \subseteq Nat
    /\ NoAddress \in Addresses

VARIABLES
    work,        \* the workload, fixed by initialize()
    phase,       \* how far the program has come
    now,         \* Simulator::now
    events,      \* Simulator::eventQueue
    inDegree,    \* TaskInstance::inDegree, per instance
    opIndex,     \* TaskInstance::currentOpIndex, per instance
    readyTime,   \* TaskInstance::readyTime, per instance
    readyQueue,  \* Scheduler::readyQueue
    coreIdle,    \* Scheduler::coreIdle
    nextCore,    \* Scheduler::nextCoreRoundRobin
    cores        \* Simulator::cores

graphVars == <<inDegree, opIndex, readyTime>>
schedulerVars == <<readyQueue, coreIdle, nextCore>>
vars == <<work, phase, now, events, graphVars, schedulerVars, cores>>

(* "rejected": a cycle made initialize() throw; "aborted": a handler threw *)
Phases == {"running", "complete", "rejected", "aborted"}

Remaining == [i \in Instances(work) |-> Len(OpsOf(work, i)) - opIndex[i]]

TaskReady(i, t) == Event("TaskReady", t, NoCore, i, NoAddress)

-----------------------------------------------------------------------------
(* initialize(): every instance that is ready at once gets a TaskReady.    *)
Init ==
    /\ work \in Workloads
    /\ now = 0
    /\ inDegree = [i \in Instances(work) |-> InitialInDegree(work, i)]
    /\ opIndex = [i \in Instances(work) |-> 0]
    /\ readyTime = [i \in Instances(work) |-> 0]
    /\ readyQueue = <<>>
    /\ coreIdle = [c \in Cores |-> TRUE]
    /\ nextCore = 0
    /\ cores = [c \in Cores |-> IdleCore]
    /\ \/ /\ HasCycle(work)
          /\ phase = "rejected"
          /\ events = EmptyQueue
       \/ /\ ~HasCycle(work)
          /\ phase = "running"
          /\ events = PushAll(EmptyQueue,
                 {TaskReady(i, 0) :
                     i \in ReadyInstances(work, inDegree, opIndex, readyTime)})

(* The loop of run() pops e, one of the earliest events, and advances now. *)
Popped(e, type) ==
    /\ phase = "running"
    /\ e \in Earliest(events)
    /\ e.type = type
    /\ now' = e.time
    /\ UNCHANGED work

(* selectNextInstance() and dispatch(): an instance of queue goes to core  *)
(* c, and queued is the event queue the TaskDispatched event is pushed on. *)
(* dispatch() throws when c is busy; the program then ends, and what it    *)
(* has done by then is not looked at again.                                *)
Dispatch(queue, idle, c, queued) ==
    \E k \in DOMAIN queue :
        /\ SelectsInstance(queue, Remaining, k)
        /\ phase' = IF idle[c] THEN phase ELSE "aborted"
        /\ readyQueue' = RemoveAt(queue, k)
        /\ coreIdle' = DispatchTo(idle, c)
        /\ events' = Push(queued,
               Event("TaskDispatched", now', c, queue[k], NoAddress))

(* Mutant of HandleTaskReady: without an idle core the event is put back,  *)
(* to be tried again.                                                      *)
HandleTaskReadyAgain(e) ==
    /\ Popped(e, "TaskReady")
    /\ LET queue == AddReady(readyQueue, e.inst)
       IN  \/ /\ \A c \in Cores : ~coreIdle[c]
              /\ UNCHANGED <<events, phase, schedulerVars>>
           \/ \E c \in Cores :
                 /\ SelectsCore(coreIdle, nextCore, c)
                 /\ nextCore' = CoreAfter(c)
                 /\ Dispatch(queue, coreIdle, c, Pop(events, e))
    /\ UNCHANGED <<graphVars, cores>>

HandleTaskReady(e) ==
    /\ Popped(e, "TaskReady")
    /\ LET queue == AddReady(readyQueue, e.inst)
       IN  \/ /\ \A c \in Cores : ~coreIdle[c]
              /\ readyQueue' = queue
              /\ events' = Pop(events, e)
              /\ UNCHANGED <<phase, coreIdle, nextCore>>
           \/ \E c \in Cores :
                 /\ SelectsCore(coreIdle, nextCore, c)
                 /\ nextCore' = CoreAfter(c)
                 /\ Dispatch(queue, coreIdle, c, Pop(events, e))
    /\ UNCHANGED <<graphVars, cores>>

(* The runtime_error leaves run() and main() returns 1.                    *)
Abort(e) ==
    /\ phase' = "aborted"
    /\ events' = Pop(events, e)
    /\ UNCHANGED <<graphVars, schedulerVars, cores>>

(* Core::executeOp() on core c, which is idle: operation n of instance i   *)
(* (numbered from 0, like currentOpIndex).                                 *)
ExecuteOp(c, i, n, queued) ==
    /\ cores' = [cores EXCEPT ![c] = BusyWith(i)]
    /\ events' = Push(queued, OpEvent(OpsOf(work, i)[n + 1], c, i, now'))

(* A dispatched instance that has no operation left starts nothing, and    *)
(* nothing will release its core.                                          *)
HandleTaskDispatched(e) ==
    /\ Popped(e, "TaskDispatched")
    /\ \/ /\ opIndex[e.inst] < Len(OpsOf(work, e.inst))
          /\ cores[e.core].busy
          /\ Abort(e)
       \/ /\ opIndex[e.inst] < Len(OpsOf(work, e.inst))
          /\ ~cores[e.core].busy
          /\ ExecuteOp(e.core, e.inst, opIndex[e.inst], Pop(events, e))
          /\ UNCHANGED <<phase, graphVars, schedulerVars>>
       \/ /\ opIndex[e.inst] >= Len(OpsOf(work, e.inst))
          /\ events' = Pop(events, e)
          /\ UNCHANGED <<phase, graphVars, schedulerVars, cores>>

(* Mutant of CompleteOp: the core is not reset when its instance is done.  *)
CompleteOpStayingBusy(e) ==
    LET c == e.core
        i == cores[c].current
    IN  \/ ~CanComplete(cores[c]) /\ Abort(e)
        \/ /\ CanComplete(cores[c])
           /\ opIndex' = [opIndex EXCEPT ![i] = @ + 1]
           /\ \/ /\ opIndex'[i] >= Len(OpsOf(work, i))
                 /\ events' = Push(Pop(events, e),
                        Event("TaskDone", now', c, i, NoAddress))
                 /\ UNCHANGED cores
              \/ /\ opIndex'[i] < Len(OpsOf(work, i))
                 /\ ExecuteOp(c, i, opIndex'[i], Pop(events, e))
           /\ UNCHANGED <<phase, inDegree, readyTime, schedulerVars>>

(* Core::completeOp() of the core of e: the next operation of the core's   *)
(* instance starts, or the instance is done and the core idle again.       *)
CompleteOp(e) ==
    LET c == e.core
        i == cores[c].current
    IN  \/ ~CanComplete(cores[c]) /\ Abort(e)
        \/ /\ CanComplete(cores[c])
           /\ opIndex' = [opIndex EXCEPT ![i] = @ + 1]
           /\ \/ /\ opIndex'[i] >= Len(OpsOf(work, i))
                 /\ cores' = [cores EXCEPT ![c] = IdleCore]
                 /\ events' = Push(Pop(events, e),
                        Event("TaskDone", now', c, i, NoAddress))
              \/ /\ opIndex'[i] < Len(OpsOf(work, i))
                 /\ ExecuteOp(c, i, opIndex'[i], Pop(events, e))
           /\ UNCHANGED <<phase, inDegree, readyTime, schedulerVars>>

HandleComputeDone(e) == Popped(e, "ComputeDone") /\ CompleteOp(e)

HandleMemRespDone(e) == Popped(e, "MemRespDone") /\ CompleteOp(e)

(* The handler reads ops[currentOpIndex] for its rw field, which decides   *)
(* nothing; the request is answered after one of MemLatencies.             *)
HandleMemReqIssued(e) ==
    /\ Popped(e, "MemReqIssued")
    /\ \E latency \in MemLatencies :
          events' = Push(Pop(events, e),
              Event("MemRespDone", now' + latency, e.core, e.inst, e.address))
    /\ UNCHANGED <<phase, graphVars, schedulerVars, cores>>

(* Mutant of HandleTaskDone: the dispatch at its end is missing.           *)
HandleTaskDoneOnly(e) ==
    /\ Popped(e, "TaskDone")
    /\ inDegree' = MarkInstanceComplete(work, inDegree, e.inst)
    /\ LET ready == ReadyInstances(work, inDegree', opIndex, readyTime)
       IN  /\ readyTime' = [i \in Instances(work) |->
                               IF i \in ready THEN now' ELSE readyTime[i]]
           /\ events' = PushAll(Pop(events, e),
                                {TaskReady(i, now') : i \in ready})
    /\ coreIdle' = ReleaseCore(coreIdle, e.core)
    /\ UNCHANGED <<phase, opIndex, readyQueue, nextCore, cores>>

(* The in-degrees of the successors drop, the core is released, every      *)
(* instance that getReadyInstances() returns is stamped and announced, and *)
(* the released core takes an instance that was waiting already.           *)
HandleTaskDone(e) ==
    /\ Popped(e, "TaskDone")
    /\ inDegree' = MarkInstanceComplete(work, inDegree, e.inst)
    /\ LET ready == ReadyInstances(work, inDegree', opIndex, readyTime)
           idle == ReleaseCore(coreIdle, e.core)
           queued == PushAll(Pop(events, e), {TaskReady(i, now') : i \in ready})
       IN  /\ readyTime' = [i \in Instances(work) |->
                               IF i \in ready THEN now' ELSE readyTime[i]]
           /\ \/ /\ readyQueue = <<>>
                 /\ coreIdle' = idle
                 /\ events' = queued
                 /\ UNCHANGED <<phase, readyQueue>>
              \/ Dispatch(readyQueue, idle, e.core, queued)
    /\ UNCHANGED <<opIndex, nextCore, cores>>

(* The loop of run() ends when the queue is empty.                         *)
Complete ==
    /\ phase = "running"
    /\ events = EmptyQueue
    /\ phase' = "complete"
    /\ UNCHANGED <<work, now, events, graphVars, schedulerVars, cores>>

(* The program has exited: not a deadlock.                                 *)
Exited == phase # "running" /\ UNCHANGED vars

Next ==
    \/ \E e \in DOMAIN events :
          \/ HandleTaskReady(e)
          \/ HandleTaskDispatched(e)
          \/ HandleComputeDone(e)
          \/ HandleMemReqIssued(e)
          \/ HandleMemRespDone(e)
          \/ HandleTaskDone(e)
    \/ Complete
    \/ Exited

(* The program is one thread that keeps going round its loop.              *)
Spec == Init /\ [][Next]_vars /\ WF_vars(Next)
-----------------------------------------------------------------------------
EventTypes == {"TaskReady", "TaskDispatched", "ComputeDone", "MemReqIssued",
               "MemRespDone", "TaskDone"}

(* Every variable has its type.  The in-degree is an Int: nothing in the   *)
(* code keeps it from going below zero.                                    *)
TypeOK ==
    /\ work \in Workloads
    /\ phase \in Phases
    /\ now \in Int
    /\ IsABag(events)
    /\ DOMAIN events \subseteq
          [type : EventTypes, time : Int, core : Cores \cup {NoCore},
           inst : Instances(work), address : Addresses]
    /\ inDegree \in [Instances(work) -> Int]
    /\ opIndex \in [Instances(work) -> Nat]
    /\ readyTime \in [Instances(work) -> Int]
    /\ readyQueue \in Seq(Instances(work))
    /\ coreIdle \in [Cores -> BOOLEAN]
    /\ nextCore \in Cores
    /\ cores \in [Cores -> [busy : BOOLEAN,
                            current : Instances(work) \cup {NoInstance}]]

=============================================================================
