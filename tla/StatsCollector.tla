----------------------------- MODULE StatsCollector -----------------------------
(***************************************************************************)
(* The simulator with its statistics (StatsCollector.cpp).  The collector  *)
(* is told of a task event twice: by the handler (recordTask...) and by    *)
(* the loop of run() after the handler (onEvent()).                        *)
(*                                                                         *)
(* Beside the collector's own state the module has the two fields of a     *)
(* task instance that Simulator leaves out, the times of its dispatch and  *)
(* of its end.  Left out are the counters of accesses and conflicts, of    *)
(* busy cores and of the interconnect, which only the tests update.        *)
(***************************************************************************)
EXTENDS SimulatorProperties

VARIABLES
    dispatchTime,     \* TaskInstance::dispatchTime, per instance
    doneTime,         \* TaskInstance::doneTime, per instance
    taskReadyTimes,   \* StatsCollector::taskReadyTimes, a map
    taskWaitTimes,    \* StatsCollector::taskWaitTimes
    taskLatencies,    \* StatsCollector::taskLatencies
    totalCycles       \* StatsCollector::totalCycles

instanceVars == <<dispatchTime, doneTime>>
statsVars == <<taskReadyTimes, taskWaitTimes, taskLatencies, totalCycles>>
measuredVars == <<vars, instanceVars, statsVars>>

MeasuredInit ==
    /\ Init
    /\ dispatchTime = [i \in Instances(work) |-> 0]
    /\ doneTime = [i \in Instances(work) |-> 0]
    /\ taskReadyTimes = <<>>
    /\ taskWaitTimes = <<>>
    /\ taskLatencies = <<>>
    /\ totalCycles = 0

(* This step schedules an event of the type for instance i.                *)
Schedules(type, i) ==
    \E e \in DOMAIN events' :
        e.type = type /\ e.inst = i /\ Copies(e, events') > Copies(e, events)

(* dispatch() and completeOp() stamp the instance, in the step in which    *)
(* its TaskDispatched or TaskDone event is scheduled.                      *)
StampInstances ==
    /\ dispatchTime' = [i \in Instances(work) |->
           IF Schedules("TaskDispatched", i) THEN now' ELSE dispatchTime[i]]
    /\ doneTime' = [i \in Instances(work) |->
           IF Schedules("TaskDone", i) THEN now' ELSE doneTime[i]]

(* Mutant of RecordTaskReady: only the first announcement counts.          *)
RecordFirstReady(i, t) ==
    taskReadyTimes' =
        [j \in DOMAIN taskReadyTimes \cup {i} |->
            IF j \in DOMAIN taskReadyTimes THEN taskReadyTimes[j] ELSE t]

RecordTaskReady(i, t) ==
    taskReadyTimes' =
        [j \in DOMAIN taskReadyTimes \cup {i} |->
            IF j = i THEN t ELSE taskReadyTimes[j]]

(* What a call adds to taskWaitTimes or taskLatencies: the time since the  *)
(* instance became ready, if it is known.                                  *)
Sample(i, t) ==
    IF i \in DOMAIN taskReadyTimes THEN <<t - taskReadyTimes[i]>> ELSE <<>>

(* Mutant of Twice: the second call comes only from onEvent(), which the   *)
(* last event of a run does not reach.                                     *)
TwiceUnlessLast(samples, i, t) ==
    samples \o Sample(i, t)
            \o (IF events' = EmptyQueue THEN <<>> ELSE Sample(i, t))

(* The calls of the handler and of onEvent().  (After an exception the     *)
(* second is not made, but then nothing is reported.)                      *)
Twice(samples, i, t) == samples \o Sample(i, t) \o Sample(i, t)

MeasuredTaskReady(e) ==
    /\ HandleTaskReady(e)
    /\ RecordTaskReady(e.inst, now')
    /\ UNCHANGED <<taskWaitTimes, taskLatencies, totalCycles>>

MeasuredTaskDispatched(e) ==
    /\ HandleTaskDispatched(e)
    /\ taskWaitTimes' = Twice(taskWaitTimes, e.inst, now')
    /\ UNCHANGED <<taskReadyTimes, taskLatencies, totalCycles>>

MeasuredTaskDone(e) ==
    /\ HandleTaskDone(e)
    /\ taskLatencies' = Twice(taskLatencies, e.inst, now')
    /\ UNCHANGED <<taskReadyTimes, taskWaitTimes, totalCycles>>

(* onEvent() does nothing for the other events.                            *)
MeasuredOther ==
    /\ \/ \E e \in DOMAIN events :
             HandleComputeDone(e) \/ HandleMemReqIssued(e) \/ HandleMemRespDone(e)
       \/ Exited
    /\ UNCHANGED <<taskReadyTimes, taskWaitTimes, taskLatencies, totalCycles>>

(* After the loop: setTotalCycles().                                       *)
MeasuredComplete ==
    /\ Complete
    /\ totalCycles' = now
    /\ UNCHANGED <<taskReadyTimes, taskWaitTimes, taskLatencies>>

MeasuredNext ==
    /\ \/ \E e \in DOMAIN events :
             MeasuredTaskReady(e) \/ MeasuredTaskDispatched(e)
                \/ MeasuredTaskDone(e)
       \/ MeasuredOther
       \/ MeasuredComplete
    /\ StampInstances

MeasuredSpec ==
    MeasuredInit /\ [][MeasuredNext]_measuredVars /\ WF_measuredVars(MeasuredNext)
-----------------------------------------------------------------------------
Total(samples) == FoldSeq(LAMBDA x, sum : x + sum, 0, samples)

SumOf(f) == MapThenSumSet(LAMBDA i : f[i], Instances(work))

(* The two records of when an instance became ready, the field that        *)
(* handleTaskDone() stamps and the collector's map, agree from the moment  *)
(* its TaskReady has been handled, even if it is announced several times.  *)
ReadyTimesAgree ==
    \A i \in DOMAIN taskReadyTimes :
        \/ taskReadyTimes[i] = readyTime[i]
        \/ TaskReady(i, readyTime[i]) \in DOMAIN events

(* Every sample is taken twice, so the averages of the report are those of *)
(* the instances: between becoming ready and the end, and between becoming *)
(* ready and being dispatched.  (On other workloads an instance may be     *)
(* announced, dispatched and measured more than once.)                     *)
AveragesExact ==
    phase = "complete" /\ WellBehaved(work) =>
        /\ Len(taskLatencies) = Len(taskWaitTimes)
        /\ Total(taskLatencies) * Cardinality(Instances(work)) =
               (SumOf(doneTime) - SumOf(readyTime)) * Len(taskLatencies)
        /\ Total(taskWaitTimes) * Cardinality(Instances(work)) =
               (SumOf(dispatchTime) - SumOf(readyTime)) * Len(taskWaitTimes)

(* The report prints the number of latencies as "Total Tasks Completed".   *)
TasksCounted ==
    phase = "complete" =>
        Len(taskLatencies) = Cardinality({i \in Instances(work) : Completed(i)})

=============================================================================
