------------------------------ MODULE ReportProofs ------------------------------
(***************************************************************************)
(* The numbers the program reports are right: the times at which instances *)
(* became ready, the two averages and the cycle at which the simulation is *)
(* complete.                                                               *)
(*                                                                         *)
(* The times of becoming ready are right on every workload, also on those  *)
(* that announce an instance several times or let time go back: each       *)
(* announcement is for the time its instance is stamped with, because only *)
(* an instance stamped 0 is stamped again, and nothing but events of cycle *)
(* 0 is handled while its announcement for cycle 0 waits.                  *)
(*                                                                         *)
(* The averages are the quotients of sums over the instances: each         *)
(* instance adds its sample twice, when it is dispatched and when it is    *)
(* done, and nothing is stamped again afterwards.                          *)
(*                                                                         *)
(* The length of a simulation has two lower bounds and an upper one.  The  *)
(* work done never exceeds the cycles all cores have had, and an instance  *)
(* is not ready before the chain that leads to it has been executed.  As   *)
(* for the upper bound, in each cycle all cores work, or no instance       *)
(* waits for a core and every chain that is left gets shorter.             *)
(***************************************************************************)
EXTENDS Makespan, StatsCollector, SimulatorProofs

(* A TaskReady is for the time its instance is stamped with.               *)
AnnouncedAsStamped ==
    \A e \in DOMAIN events :
        e.type = "TaskReady" => e = TaskReady(e.inst, readyTime[e.inst])

StatsInv ==
    /\ IInv
    /\ AnnouncedAsStamped
    /\ DOMAIN taskReadyTimes \subseteq Instances(work)
    /\ ReadyTimesAgree
-----------------------------------------------------------------------------
(* THE EVENTS A HANDLER LEAVES IN THE QUEUE                                *)

LEMMA EventReplaced ==
    ASSUME IInv, NEW e \in DOMAIN events, NEW f
    PROVE  DOMAIN events \ {e} \subseteq DOMAIN Push(Pop(events, e), f)
<1>. DEFINE p == Pop(events, e)
<1>1. IsABag(p) /\ DOMAIN events \ {e} \subseteq DOMAIN p
  BY PoppedEvent
<1>. HIDE DEF p
<1>2. DOMAIN Push(p, f) = (DOMAIN p) \cup {f}
  BY <1>1, PushBag
<1>. QED  BY <1>1, <1>2 DEF p

(* No handler takes any other event off the queue.                         *)
LEMMA OthersStay ==
    ASSUME IInv, NEW e \in DOMAIN events,
           \/ HandleTaskDispatched(e) \/ HandleMemReqIssued(e)
           \/ HandleComputeDone(e) \/ HandleMemRespDone(e)
    PROVE  DOMAIN events \ {e} \subseteq DOMAIN events'
<1>1. CASE events' = Pop(events, e)
  BY <1>1, PoppedEvent
<1>2. CASE \E f : events' = Push(Pop(events, e), f)
  BY <1>2, EventReplaced
<1>. QED
  BY <1>1, <1>2 DEF HandleTaskDispatched, HandleComputeDone, HandleMemReqIssued,
     HandleMemRespDone, CompleteOp, ExecuteOp, Abort

(* handleTaskReady() announces nothing.                                    *)
LEMMA ReadyLeaves ==
    ASSUME IInv, NEW e \in DOMAIN events, HandleTaskReady(e)
    PROVE  /\ readyTime' = readyTime
           /\ DOMAIN events \ {e} \subseteq DOMAIN events'
           /\ \A g \in DOMAIN events' :
                 g.type = "TaskReady" => g \in DOMAIN events
<1>1. readyTime' = readyTime
  BY DEF HandleTaskReady, graphVars
<1>2. CASE events' = Pop(events, e)
  BY <1>1, <1>2, PoppedEvent
<1>3. CASE \E f : f.type = "TaskDispatched" /\ events' = Push(Pop(events, e), f)
  BY <1>1, <1>3, EventReplaced, OneMoreEvent
<1>. QED
  BY <1>2, <1>3 DEF HandleTaskReady, Dispatch, Event

(* handleTaskDone() announces the instances that are ready now, besides.   *)
LEMMA DoneLeaves ==
    ASSUME IInv, NEW e \in DOMAIN events, HandleTaskDone(e)
    PROVE  LET ready == ReadyInstances(work, inDegree', opIndex, readyTime)
               new == {TaskReady(i, now') : i \in ready}
           IN  /\ (DOMAIN events \ {e}) \cup new \subseteq DOMAIN events'
               /\ \A g \in DOMAIN events' :
                     g.type = "TaskReady" => g \in DOMAIN events \/ g \in new
<1>. DEFINE new == {TaskReady(i, now') :
                       i \in ReadyInstances(work, inDegree', opIndex, readyTime)}
            p == Pop(events, e)
            q == PushAll(p, new)
<1>1. /\ IsABag(p) /\ DOMAIN events \ {e} \subseteq DOMAIN p
      /\ DOMAIN p \subseteq DOMAIN events
  BY PoppedEvent
<1>. HIDE DEF p, new
<1>2. IsABag(q) /\ DOMAIN q = (DOMAIN p) \cup new
  BY ONLY <1>1, PushAllBag
<1>. HIDE DEF q
<1>3. CASE events' = q
  BY <1>1, <1>2, <1>3 DEF new
<1>4. CASE \E f : f.type = "TaskDispatched" /\ events' = Push(q, f)
  <2>1. PICK f : f.type = "TaskDispatched" /\ events' = Push(q, f)
    BY <1>4
  <2>2. DOMAIN Push(q, f) = (DOMAIN q) \cup {f}
    BY ONLY <1>2, PushBag
  <2>. QED  BY <1>1, <1>2, <2>1, <2>2 DEF new
<1>. QED
  BY <1>3, <1>4 DEF HandleTaskDone, Dispatch, Event, p, q, new
-----------------------------------------------------------------------------
(* THE STEPS                                                               *)

(* While an event for cycle 0 waits no other cycle comes: 0 is the first   *)
(* of all times.                                                           *)
LEMMA ZeroIsFirst ==
    ASSUME IInv, NEW e \in DOMAIN events, NEW type, Popped(e, type),
           NEW g \in DOMAIN events, g.time = 0
    PROVE  now' = 0
<1>1. e.time \in Int /\ now' = e.time /\ ~Before(g.time, e.time)
  BY PoppedEvent DEF Popped, Earliest, Events
<1>. QED  BY <1>1 DEF Before

(* A handler that announces nothing and is told of nothing ready.          *)
LEMMA NothingReady ==
    ASSUME StatsInv, IInv', NEW e \in DOMAIN events, NEW type, Popped(e, type),
           type # "TaskReady", UNCHANGED <<readyTime, taskReadyTimes>>,
           DOMAIN events \ {e} \subseteq DOMAIN events',
           \A g \in DOMAIN events' : g.type = "TaskReady" => g \in DOMAIN events
    PROVE  StatsInv'
<1>1. AnnouncedAsStamped'
  BY DEF StatsInv, AnnouncedAsStamped, TaskReady
<1>2. work' = work /\ e.type # "TaskReady"
  BY DEF Popped
<1>3. \A i : TaskReady(i, readyTime[i]) # e
  BY <1>2 DEF TaskReady, Event
<1>4. ReadyTimesAgree'
  BY <1>3 DEF StatsInv, ReadyTimesAgree, TaskReady
<1>. QED  BY <1>1, <1>2, <1>4 DEF StatsInv

(* The collector is told the time the instance is stamped with.            *)
LEMMA ReadyIsRecorded ==
    ASSUME StatsInv, IInv', NEW e \in DOMAIN events, MeasuredTaskReady(e)
    PROVE  StatsInv'
<1>1. /\ Popped(e, "TaskReady") /\ HandleTaskReady(e)
      /\ RecordTaskReady(e.inst, now') /\ IInv /\ AnnouncedAsStamped
  BY DEF MeasuredTaskReady, HandleTaskReady, StatsInv
<1>2. /\ readyTime' = readyTime
      /\ DOMAIN events \ {e} \subseteq DOMAIN events'
      /\ \A g \in DOMAIN events' : g.type = "TaskReady" => g \in DOMAIN events
  BY <1>1, ReadyLeaves
<1>3. e.type = "TaskReady" /\ work' = work /\ e.inst \in Instances(work)
  BY <1>1, PoppedBy
<1>4. AnnouncedAsStamped'
  BY <1>1, <1>2 DEF AnnouncedAsStamped, TaskReady
<1>5. now' = readyTime[e.inst]
  BY <1>1, <1>3 DEF AnnouncedAsStamped, Popped, TaskReady, Event
<1>6. ReadyTimesAgree'
  <2>1. ASSUME NEW i \in DOMAIN taskReadyTimes'
        PROVE  \/ taskReadyTimes'[i] = readyTime[i]
               \/ TaskReady(i, readyTime[i]) \in DOMAIN events'
    <3>1. CASE i = e.inst
      BY <1>1, <1>5, <3>1 DEF RecordTaskReady
    <3>2. CASE i # e.inst
      <4>1. i \in DOMAIN taskReadyTimes /\ taskReadyTimes'[i] = taskReadyTimes[i]
        BY <1>1, <2>1, <3>2 DEF RecordTaskReady
      <4>2. TaskReady(i, readyTime[i]) # e
        BY <3>2 DEF TaskReady, Event
      <4>. QED  BY <1>2, <4>1, <4>2 DEF StatsInv, ReadyTimesAgree
    <3>. QED  BY <3>1, <3>2
  <2>. QED  BY <1>2, <2>1 DEF ReadyTimesAgree, TaskReady
<1>7. DOMAIN taskReadyTimes' \subseteq Instances(work)
  BY <1>1, <1>3 DEF RecordTaskReady, StatsInv
<1>. QED  BY <1>3, <1>4, <1>6, <1>7 DEF StatsInv

(* What is stamped anew is announced anew.                                 *)
LEMMA DoneIsAnnounced ==
    ASSUME StatsInv, IInv', NEW e \in DOMAIN events, MeasuredTaskDone(e)
    PROVE  StatsInv'
<1>. DEFINE ready == ReadyInstances(work, inDegree', opIndex, readyTime)
            new == {TaskReady(i, now') : i \in ready}
<1>1. /\ Popped(e, "TaskDone") /\ HandleTaskDone(e) /\ IInv
      /\ AnnouncedAsStamped
      /\ taskReadyTimes' = taskReadyTimes
      /\ readyTime' = [i \in Instances(work) |->
                          IF i \in ready THEN now' ELSE readyTime[i]]
  BY DEF MeasuredTaskDone, HandleTaskDone, StatsInv
<1>2. /\ (DOMAIN events \ {e}) \cup new \subseteq DOMAIN events'
      /\ \A g \in DOMAIN events' :
            g.type = "TaskReady" => g \in DOMAIN events \/ g \in new
  BY <1>1, DoneLeaves
<1>3. e.type = "TaskDone" /\ work' = work
  BY <1>1, PoppedBy
<1>4. ready \subseteq Instances(work)
  BY DEF ReadyInstances
<1>. HIDE DEF ready
<1>5. AnnouncedAsStamped'
  <2>1. ASSUME NEW g \in DOMAIN events', g.type = "TaskReady"
        PROVE  g = TaskReady(g.inst, readyTime'[g.inst])
    <3>1. CASE g \in new
      <4>1. PICK i \in ready : g = TaskReady(i, now')
        BY <3>1
      <4>2. g.inst = i
        BY <4>1 DEF TaskReady, Event
      <4>. QED  BY <1>1, <1>4, <4>1, <4>2
    <3>2. CASE g \in DOMAIN events
      <4>1. /\ g = TaskReady(g.inst, readyTime[g.inst])
            /\ g.inst \in Instances(work)
        BY <1>1, <2>1, <3>2 DEF AnnouncedAsStamped, IInv, TypeOK
      <4>2. ASSUME g.inst \in ready PROVE now' = readyTime[g.inst]
        <5>1. readyTime[g.inst] = 0
          BY <4>2 DEF ready, ReadyInstances
        <5>2. g.time = 0
          BY <4>1, <5>1 DEF TaskReady, Event
        <5>. QED  BY <1>1, <3>2, <5>1, <5>2, ZeroIsFirst
      <4>3. readyTime'[g.inst] = readyTime[g.inst]
        BY <1>1, <4>1, <4>2
      <4>. QED  BY <4>1, <4>3
    <3>. QED  BY <1>2, <2>1, <3>1, <3>2
  <2>. QED  BY <2>1 DEF AnnouncedAsStamped
<1>6. ReadyTimesAgree'
  <2>1. ASSUME NEW i \in DOMAIN taskReadyTimes
        PROVE  \/ taskReadyTimes[i] = readyTime'[i]
               \/ TaskReady(i, readyTime'[i]) \in DOMAIN events'
    <3>0. i \in Instances(work)
      BY <2>1 DEF StatsInv
    <3>1. CASE i \in ready
      BY <1>1, <1>2, <3>0, <3>1
    <3>2. CASE i \notin ready
      <4>1. readyTime'[i] = readyTime[i]
        BY <1>1, <3>0, <3>2
      <4>2. TaskReady(i, readyTime[i]) # e
        BY <1>3 DEF TaskReady, Event
      <4>. QED  BY <1>2, <2>1, <4>1, <4>2 DEF StatsInv, ReadyTimesAgree
    <3>. QED  BY <3>1, <3>2
  <2>. QED  BY <1>1, <2>1 DEF ReadyTimesAgree, TaskReady
<1>. QED  BY <1>1, <1>3, <1>5, <1>6 DEF StatsInv

(* With its calls of the collector, a step is one of the simulator.        *)
LEMMA MeasuredStepIsStep ==
    ASSUME [MeasuredNext]_measuredVars
    PROVE  [Next]_vars
BY DEF MeasuredNext, MeasuredTaskReady, MeasuredTaskDispatched,
   MeasuredTaskDone, MeasuredOther, MeasuredComplete, Next, measuredVars

(* Every step keeps the announcements and the records in order.            *)
LEMMA StepKeepsStats ==
    ASSUME StatsInv, [MeasuredNext]_measuredVars
    PROVE  StatsInv'
<1>1. IInv /\ IInv'
  BY MeasuredStepIsStep, StepKeepsIInv DEF StatsInv
<1>2. ASSUME NEW e \in DOMAIN events, MeasuredTaskReady(e) PROVE StatsInv'
  BY <1>1, <1>2, ReadyIsRecorded
<1>3. ASSUME NEW e \in DOMAIN events, MeasuredTaskDone(e) PROVE StatsInv'
  BY <1>1, <1>3, DoneIsAnnounced
<1>4. ASSUME NEW e \in DOMAIN events, UNCHANGED taskReadyTimes,
             \/ HandleTaskDispatched(e) \/ HandleMemReqIssued(e)
             \/ HandleComputeDone(e) \/ HandleMemRespDone(e)
      PROVE  StatsInv'
  <2>1. /\ readyTime' = readyTime
        /\ \A g \in DOMAIN events' : g.type = "TaskReady" => g \in DOMAIN events
    BY <1>1, <1>4, OtherHandlers
  <2>2. DOMAIN events \ {e} \subseteq DOMAIN events'
    BY <1>1, <1>4, OthersStay
  <2>3. PICK type : Popped(e, type) /\ type # "TaskReady"
    BY <1>4 DEF HandleTaskDispatched, HandleComputeDone, HandleMemReqIssued,
       HandleMemRespDone
  <2>. QED  BY <1>1, <1>4, <2>1, <2>2, <2>3, NothingReady
<1>5. CASE UNCHANGED <<work, now, events, readyTime, taskReadyTimes>>
  <2>1. UNCHANGED <<AnnouncedAsStamped, ReadyTimesAgree>>
    BY <1>5 DEF AnnouncedAsStamped, ReadyTimesAgree, TaskReady
  <2>. QED  BY <1>1, <1>5, <2>1 DEF StatsInv
<1>6. (\E e \in DOMAIN events : MeasuredTaskDispatched(e)) \/ MeasuredOther
         => \/ \E e \in DOMAIN events :
                  /\ UNCHANGED taskReadyTimes
                  /\ \/ HandleTaskDispatched(e) \/ HandleMemReqIssued(e)
                     \/ HandleComputeDone(e) \/ HandleMemRespDone(e)
            \/ UNCHANGED <<work, now, events, readyTime, taskReadyTimes>>
  BY DEF MeasuredTaskDispatched, MeasuredOther, Exited, vars, graphVars
<1>7. MeasuredComplete \/ UNCHANGED measuredVars
         => UNCHANGED <<work, now, events, readyTime, taskReadyTimes>>
  BY DEF MeasuredComplete, Complete, measuredVars, statsVars, vars, graphVars
<1>. QED  BY <1>2, <1>3, <1>4, <1>5, <1>6, <1>7 DEF MeasuredNext

(* Before run() all announcements and stamps are for cycle 0.              *)
LEMMA InitiallyStats == MeasuredInit => StatsInv
<1>. SUFFICES ASSUME MeasuredInit PROVE StatsInv
  OBVIOUS
<1>1. Init /\ taskReadyTimes = <<>> /\ IInv
  BY InitiallyIInv DEF MeasuredInit
<1>2. AnnouncedAsStamped
  <2>. DEFINE ready == ReadyInstances(work, inDegree, opIndex, readyTime)
              new == {TaskReady(i, 0) : i \in ready}
  <2>1. events = EmptyQueue \/ events = PushAll(EmptyQueue, new)
    BY <1>1 DEF Init
  <2>2. \A g \in new : g = TaskReady(g.inst, 0) /\ g.inst \in Instances(work)
    BY DEF TaskReady, Event, ReadyInstances
  <2>. HIDE DEF new
  <2>3. DOMAIN PushAll(EmptyQueue, new) = (DOMAIN EmptyQueue) \cup new
    BY ONLY EmptyQueueIsBag, PushAllBag
  <2>4. DOMAIN events \subseteq new
    BY <2>1, <2>3, EmptyQueueIsBag
  <2>5. \A i \in Instances(work) : readyTime[i] = 0
    BY <1>1 DEF Init
  <2>. QED  BY <2>2, <2>4, <2>5 DEF AnnouncedAsStamped
<1>3. DOMAIN taskReadyTimes = {}
  BY <1>1
<1>. QED  BY <1>1, <1>2, <1>3 DEF StatsInv, ReadyTimesAgree

(* StatsCollector::recordTaskReady() and the field handleTaskDone() stamps *)
(* never disagree about an instance whose TaskReady has been handled.      *)
THEOREM ReadyTimes == MeasuredSpec => []ReadyTimesAgree
<1>1. StatsInv => ReadyTimesAgree
  BY DEF StatsInv
<1>. QED
  BY <1>1, InitiallyStats, StepKeepsStats, PTL DEF MeasuredSpec
-----------------------------------------------------------------------------
(* THE AVERAGES                                                            *)
(*                                                                         *)
(* Each instance that has been dispatched or is done has added its sample  *)
(* twice: what a list adds up to is a sum over these instances.            *)

Spans(from, to, R, S) ==
    [i \in S |-> IF i \in R THEN 2 * (to[i] - from[i]) ELSE 0]

(* The list holds two samples, of the time between from and to, for each   *)
(* element of R, a part of S.                                              *)
Sampled(samples, from, to, R, S) ==
    /\ samples \in Seq(Int)
    /\ Len(samples) = 2 * Cardinality(R)
    /\ Total(samples) = SumOver(Spans(from, to, R, S), S)

Started == {i \in Instances(work) : StatusOf(i) # "waiting"}
Finished == {i \in Instances(work) : StatusOf(i) = "done"}

StampTypes ==
    /\ dispatchTime \in [Instances(work) -> Nat]
    /\ doneTime \in [Instances(work) -> Nat]

(* An event of a dispatch or an end is for the time its instance is        *)
(* stamped with.                                                           *)
StampsFit ==
    \A e \in DOMAIN events :
        /\ e.type = "TaskDispatched" => e.time = dispatchTime[e.inst]
        /\ e.type = "TaskDone" => e.time = doneTime[e.inst]

(* The collector has been told of every instance that is past its          *)
(* TaskReady.                                                              *)
ReadyKnown ==
    \A i \in Instances(work) :
        inDegree[i] <= 0 /\ EventsFor(i, {"TaskReady"}) = {} =>
            i \in DOMAIN taskReadyTimes

AveragesInv ==
    /\ StampTypes
    /\ StampsFit
    /\ ReadyKnown
    /\ Sampled(taskWaitTimes, readyTime, dispatchTime, Started, Instances(work))
    /\ Sampled(taskLatencies, readyTime, doneTime, Finished, Instances(work))
-----------------------------------------------------------------------------
(* What a list adds up to is the sum over its positions.                   *)
LEMMA TotalIsSum ==
    ASSUME NEW s
    PROVE  Total(s) = SumOver(s, DOMAIN s)
BY DEF Total, SumOver, FoldSeq, FoldFunction, FoldFunctionOnSet, MapThenSumSet,
       MapThenFoldSet

(* A number that is appended twice counts twice.                           *)
LEMMA TotalOfTwice ==
    ASSUME NEW s \in Seq(Int), NEW a \in Int
    PROVE  /\ s \o <<a>> \o <<a>> \in Seq(Int)
           /\ Len(s \o <<a>> \o <<a>>) = Len(s) + 2
           /\ Total(s \o <<a>> \o <<a>>) = Total(s) + 2 * a
<1>. DEFINE t == Append(s, a)
            u == Append(t, a)
<1>1. s \o <<a>> = t
  OBVIOUS
<1>2. t \in Seq(Int) /\ Len(t) = Len(s) + 1
  OBVIOUS
<1>3. Total(t) = Total(s) + a /\ Total(s) \in Int
  BY SumOfAppended, TotalIsSum
<1>. HIDE DEF t
<1>4. t \o <<a>> = u /\ u \in Seq(Int) /\ Len(u) = Len(t) + 1
  BY <1>2
<1>5. Total(u) = Total(t) + a
  BY <1>2, SumOfAppended, TotalIsSum
<1>. HIDE DEF u
<1>6. s \o <<a>> \o <<a>> = u
  BY <1>1, <1>4
<1>7. Len(u) = Len(s) + 2
  <2>1. Len(s) \in Nat
    OBVIOUS
  <2>. QED  BY <2>1, <1>2, <1>4
<1>8. Total(u) = Total(s) + 2 * a
  BY <1>3, <1>5
<1>. QED  BY <1>4, <1>6, <1>7, <1>8

(* Times that are not sampled may change.                                  *)
LEMMA SampledKept ==
    ASSUME NEW S, NEW R \in SUBSET S, NEW s, NEW from, NEW to, Sampled(s, from, to, R, S),
           NEW from2, NEW to2, \A i \in R : from2[i] = from[i] /\ to2[i] = to[i]
    PROVE  Sampled(s, from2, to2, R, S)
<1>1. Spans(from2, to2, R, S) = Spans(from, to, R, S)
  BY DEF Spans
<1>. QED  BY <1>1 DEF Sampled

(* A sample that is added twice is that of one more element.               *)
LEMMA SampledMore ==
    ASSUME NEW S, IsFiniteSet(S), NEW R \in SUBSET S, NEW j \in S \ R,
           NEW from \in [S -> Int], NEW to \in [S -> Int],
           NEW from2 \in [S -> Int], NEW to2 \in [S -> Int],
           \A i \in R : from2[i] = from[i] /\ to2[i] = to[i],
           NEW s, Sampled(s, from, to, R, S),
           NEW a, a = to2[j] - from2[j]
    PROVE  Sampled(s \o <<a>> \o <<a>>, from2, to2, R \cup {j}, S)
<1>. DEFINE f == Spans(from, to, R, S)
            g == Spans(from2, to2, R \cup {j}, S)
<1>1. f \in [S -> Int] /\ g \in [S -> Int]
  BY DEF Spans
<1>2. /\ \A i \in S \ {j} : g[i] = f[i]
      /\ f[j] = 0 /\ g[j] = 2 * a
  BY DEF Spans
<1>3. a \in Int /\ s \in Seq(Int)
  BY DEF Sampled
<1>. HIDE DEF f, g
<1>4. SumOver(g, S) = SumOver(f, S) + (g[j] - f[j])
  <2>1. IsFiniteSet(S) /\ j \in S
    OBVIOUS
  <2>. QED  BY ONLY <1>1, <1>2, <2>1, SumChanges
<1>5. Cardinality(R \cup {j}) = Cardinality(R) + 1 /\ Cardinality(R) \in Nat
  BY FS_Subset, FS_AddElement, FS_CardinalityType
<1>6. SumOver(f, S) \in Int
  BY <1>1, SumType
<1>7. /\ Len(s) = 2 * Cardinality(R) /\ Total(s) = SumOver(f, S)
  BY DEF Sampled, f
<1>8. /\ s \o <<a>> \o <<a>> \in Seq(Int)
      /\ Len(s \o <<a>> \o <<a>>) = Len(s) + 2
      /\ Total(s \o <<a>> \o <<a>>) = Total(s) + 2 * a
  BY <1>3, TotalOfTwice
<1>9. Total(s \o <<a>> \o <<a>>) = SumOver(g, S)
  BY <1>2, <1>3, <1>4, <1>6, <1>7, <1>8
<1>10. Len(s \o <<a>> \o <<a>>) = 2 * Cardinality(R \cup {j})
  BY <1>5, <1>7, <1>8
<1>. QED  BY <1>8, <1>9, <1>10 DEF Sampled, g
-----------------------------------------------------------------------------
(* What is stamped in a step is not dispatched, or not done, after it.     *)
LEMMA Stamped ==
    ASSUME IInv, WInv, IInv', WInv', StampTypes, StampsFit, StampInstances,
           work' = work, now' \in Nat,
           \A e \in DOMAIN events' : e.type \in {"TaskDispatched", "TaskDone"} =>
               e \in DOMAIN events \/ e.time = now'
    PROVE  /\ StampTypes' /\ StampsFit'
           /\ \A i \in Started' : dispatchTime'[i] = dispatchTime[i]
           /\ \A i \in Finished' : doneTime'[i] = doneTime[i]
<1>1. StampTypes'
  BY DEF StampTypes, StampInstances
<1>2. ASSUME NEW e \in DOMAIN events', NEW type,
             type \in {"TaskDispatched", "TaskDone"}, e.type = type
      PROVE  IF e \in DOMAIN events THEN ~Schedules(type, e.inst)
             ELSE Schedules(type, e.inst) /\ e.time = now'
  <2>1. events'[e] = 1 /\ \A f \in DOMAIN events' : f.inst = e.inst => f = e
    BY <1>2 DEF WInv, OnePlace
  <2>2. e \in DOMAIN events => events[e] = 1
    BY DEF WInv, OnePlace
  <2>3. Copies(e, events') = 1
    BY <2>1 DEF Copies
  <2>4. Copies(e, events) = IF e \in DOMAIN events THEN 1 ELSE 0
    BY <2>2 DEF Copies
  <2>. QED  BY <1>2, <2>1, <2>3, <2>4 DEF Schedules
<1>3. StampsFit'
  <2>1. ASSUME NEW e \in DOMAIN events', e.type = "TaskDispatched"
        PROVE  e.time = dispatchTime'[e.inst]
    <3>1. e.inst \in Instances(work)
      BY DEF IInv, TypeOK
    <3>. QED  BY <1>2, <2>1, <3>1 DEF StampInstances, StampsFit
  <2>2. ASSUME NEW e \in DOMAIN events', e.type = "TaskDone"
        PROVE  e.time = doneTime'[e.inst]
    <3>1. e.inst \in Instances(work)
      BY DEF IInv, TypeOK
    <3>. QED  BY <1>2, <2>2, <3>1 DEF StampInstances, StampsFit
  <2>. QED  BY <2>1, <2>2 DEF StampsFit
<1>4. StatusFits'
  BY StatusByEventsNext
<1>5. ASSUME NEW i \in Instances(work), Schedules("TaskDispatched", i)
      PROVE  i \notin Started'
  <2>1. PICK e \in DOMAIN events' : e.type = "TaskDispatched" /\ e.inst = i
    BY <1>5 DEF Schedules
  <2>2. ~InFlight(i)'
    BY <2>1 DEF InFlight, EventsFor, CoreTypes, WInv, OnePlace
  <2>3. ~Completed(i)'
    <3>1. opIndex'[i] = 0 /\ OpCount(i)' \in Nat \ {0}
      <4>1. EventFits(e)'
        BY <2>1 DEF WInv, Progress
      <4>2. OpCount(i)' = OpCount(i)
        BY DEF OpCount
      <4>. QED  BY <2>1, <4>1, <4>2, WellBehavedTypes DEF EventFits
    <3>. QED  BY <3>1 DEF Completed
  <2>. QED  BY <1>4, <2>2, <2>3 DEF StatusFits, Started
<1>6. ASSUME NEW i \in Instances(work), Schedules("TaskDone", i)
      PROVE  i \notin Finished'
  <2>1. PICK e \in DOMAIN events' : e.type = "TaskDone" /\ e.inst = i
    BY <1>6 DEF Schedules
  <2>2. ~Completed(i)'
    BY <2>1 DEF Completed, EventsFor
  <2>. QED  BY <1>4, <2>2 DEF StatusFits, Finished
<1>7. Started' \subseteq Instances(work) /\ Finished' \subseteq Instances(work)
  BY DEF Started, Finished
<1>. QED  BY <1>1, <1>3, <1>5, <1>6, <1>7 DEF StampInstances
-----------------------------------------------------------------------------
(* An instance keeps its status when the abstract execution stutters.      *)
LEMMA StatusKept ==
    ASSUME work' = work, UNCHANGED Abstract!abstractVars
    PROVE  \A i \in Instances(work) : StatusOf(i)' = StatusOf(i)
<1>. DEFINE status == [i \in Instances(work) |-> StatusOf(i)]
<1>1. status' = status
  BY DEF Abstract!abstractVars
<1>2. \A i \in Instances(work) : status[i] = StatusOf(i) /\ status'[i] = StatusOf(i)'
  OBVIOUS
<1>. QED  BY <1>1, <1>2

(* What has been dispatched had no dependency left.                        *)
LEMMA StartedSatisfied ==
    ASSUME IInv, WInv
    PROVE  /\ Finished \subseteq Started /\ Started \subseteq Instances(work)
           /\ \A i \in Started : inDegree[i] <= 0
<1>1. StatusFits
  BY StatusByEvents
<1>2. ASSUME NEW i \in Started PROVE inDegree[i] <= 0
  <2>1. i \in Instances(work) /\ (Completed(i) \/ InFlight(i))
    BY <1>1 DEF Started, StatusFits
  <2>2. CASE Completed(i)
    <3>1. opIndex[i] # 0 /\ inDegree[i] \in Int
      BY <2>1, <2>2, WellBehavedTypes DEF Completed
    <3>. QED  BY <2>1, <3>1 DEF WInv, Progress
  <2>3. CASE InFlight(i)
    <3>1. PICK e \in DOMAIN events : e.inst = i
      BY <2>3 DEF InFlight, EventsFor
    <3>. QED  BY <3>1 DEF IInv, ActiveOnlyWhenSatisfied
  <2>. QED  BY <2>1, <2>2, <2>3
<1>. QED  BY <1>2 DEF Started, Finished

(* A step that dispatches and ends nothing.                                *)
LEMMA AveragesKept ==
    ASSUME IInv, WInv, IInv', WInv', AveragesInv, StampInstances,
           work' = work, now' \in Nat,
           \A e \in DOMAIN events' : e.type \in {"TaskDispatched", "TaskDone"} =>
               e \in DOMAIN events \/ e.time = now',
           ReadyKnown', UNCHANGED <<taskWaitTimes, taskLatencies, readyTime>>,
           \A i \in Instances(work) : StatusOf(i)' = StatusOf(i)
    PROVE  AveragesInv'
<1>1. /\ StampTypes' /\ StampsFit'
      /\ \A i \in Started' : dispatchTime'[i] = dispatchTime[i]
      /\ \A i \in Finished' : doneTime'[i] = doneTime[i]
  BY Stamped DEF AveragesInv
<1>2. Started' = Started /\ Finished' = Finished
  BY DEF Started, Finished
<1>3. Started \in SUBSET Instances(work) /\ Finished \in SUBSET Instances(work)
  BY DEF Started, Finished
<1>4. Sampled(taskWaitTimes, readyTime, dispatchTime', Started, Instances(work))
  <2>1. Sampled(taskWaitTimes, readyTime, dispatchTime, Started, Instances(work))
    BY DEF AveragesInv
  <2>2. \A i \in Started :
           readyTime[i] = readyTime[i] /\ dispatchTime'[i] = dispatchTime[i]
    BY <1>1, <1>2
  <2>. QED  BY ONLY <1>3, <2>1, <2>2, SampledKept
<1>5. Sampled(taskLatencies, readyTime, doneTime', Finished, Instances(work))
  <2>1. Sampled(taskLatencies, readyTime, doneTime, Finished, Instances(work))
    BY DEF AveragesInv
  <2>2. \A i \in Finished :
           readyTime[i] = readyTime[i] /\ doneTime'[i] = doneTime[i]
    BY <1>1, <1>2
  <2>. QED  BY ONLY <1>3, <2>1, <2>2, SampledKept
<1>. QED  BY <1>1, <1>2, <1>4, <1>5 DEF AveragesInv

(* The collector knows when an instance became ready that now has another  *)
(* event, and takes the time of that event for the sample.                 *)
LEMMA SampleOfEvent ==
    ASSUME IInv, WInv, StatsInv, AveragesInv, NEW e \in DOMAIN events,
           e.type # "TaskReady"
    PROVE  \A t : Sample(e.inst, t) = <<t - readyTime[e.inst]>>
<1>1. e.inst \in Instances(work) /\ inDegree[e.inst] <= 0
  BY DEF IInv, TypeOK, ActiveOnlyWhenSatisfied
<1>2. \A f \in DOMAIN events : f.inst = e.inst => f.type # "TaskReady"
  BY DEF WInv, OnePlace
<1>3. e.inst \in DOMAIN taskReadyTimes
  BY <1>1, <1>2 DEF AveragesInv, ReadyKnown, EventsFor
<1>4. TaskReady(e.inst, readyTime[e.inst]) \notin DOMAIN events
  BY <1>2 DEF TaskReady, Event
<1>5. taskReadyTimes[e.inst] = readyTime[e.inst]
  BY <1>3, <1>4 DEF StatsInv, ReadyTimesAgree
<1>. QED  BY <1>3, <1>5 DEF Sample

(* handleTaskDispatched() adds the waiting time of its instance twice.     *)
LEMMA DispatchIsSampled ==
    ASSUME IInv, WInv, IInv', WInv', StatsInv, AveragesInv, StampInstances,
           NEW e \in DOMAIN events, MeasuredTaskDispatched(e), ReadyKnown'
    PROVE  AveragesInv'
<1>1. /\ HandleTaskDispatched(e) /\ Popped(e, "TaskDispatched")
      /\ UNCHANGED <<taskReadyTimes, taskLatencies>>
      /\ taskWaitTimes' = Twice(taskWaitTimes, e.inst, now')
  BY DEF MeasuredTaskDispatched, HandleTaskDispatched
<1>2. /\ e.type = "TaskDispatched" /\ e.inst \in Instances(work)
      /\ now' = e.time /\ work' = work /\ now' \in Nat
  BY <1>1, WPoppedBy
<1>3. readyTime' = readyTime
  BY <1>1, OtherHandlers
<1>4. Abstract!Start(e.inst)
  BY <1>1, DispatchedStarts
<1>. DEFINE status == [i \in Instances(work) |-> StatusOf(i)]
<1>5. status[e.inst] = "waiting" /\ status' = [status EXCEPT ![e.inst] = "running"]
  BY <1>4 DEF Abstract!Start
<1>6. /\ StatusOf(e.inst) = "waiting"
      /\ \A i \in Instances(work) :
            StatusOf(i)' = IF i = e.inst THEN "running" ELSE StatusOf(i)
  <2>1. \A i \in Instances(work) : status[i] = StatusOf(i) /\ status'[i] = StatusOf(i)'
    BY <1>2
  <2>. HIDE DEF status
  <2>2. DOMAIN status = Instances(work)
    BY DEF status
  <2>. QED  BY <1>2, <1>5, <2>1, <2>2
<1>7. /\ Started' = Started \cup {e.inst} /\ Finished' = Finished
      /\ e.inst \in Instances(work) \ Started
      /\ Started \in SUBSET Instances(work) /\ Finished \in SUBSET Instances(work)
  BY <1>2, <1>6 DEF Started, Finished
<1>8. /\ StampTypes' /\ StampsFit'
      /\ \A i \in Started' : dispatchTime'[i] = dispatchTime[i]
      /\ \A i \in Finished' : doneTime'[i] = doneTime[i]
  BY <1>1, <1>2, NewEventsNow, Stamped DEF AveragesInv
<1>. DEFINE a == dispatchTime'[e.inst] - readyTime[e.inst]
<1>9. taskWaitTimes' = taskWaitTimes \o <<a>> \o <<a>>
  <2>1. now' = dispatchTime'[e.inst]
    BY <1>2, <1>7, <1>8 DEF AveragesInv, StampsFit
  <2>2. Sample(e.inst, now') = <<a>>
    BY <1>2, <2>1, SampleOfEvent
  <2>. QED  BY <1>1, <2>2 DEF Twice
<1>10. /\ readyTime \in [Instances(work) -> Int]
       /\ dispatchTime \in [Instances(work) -> Int]
       /\ dispatchTime' \in [Instances(work) -> Int]
       /\ IsFiniteSet(Instances(work))
  <2>1. readyTime \in [Instances(work) -> Int] /\ IsFiniteSet(Instances(work))
    BY WellBehavedTypes DEF IInv, TypeOK
  <2>2. dispatchTime \in [Instances(work) -> Int]
    BY DEF AveragesInv, StampTypes
  <2>3. dispatchTime' \in [Instances(work) -> Int]
    BY <1>2, <1>8 DEF StampTypes
  <2>. QED  BY <2>1, <2>2, <2>3
<1>11. Sampled(taskWaitTimes', readyTime, dispatchTime', Started', Instances(work))
  <2>1. Sampled(taskWaitTimes, readyTime, dispatchTime, Started, Instances(work))
    BY DEF AveragesInv
  <2>2. \A i \in Started :
           readyTime[i] = readyTime[i] /\ dispatchTime'[i] = dispatchTime[i]
    BY <1>7, <1>8
  <2>3. a = dispatchTime'[e.inst] - readyTime[e.inst]
    OBVIOUS
  <2>. HIDE DEF a
  <2>4. Sampled(taskWaitTimes \o <<a>> \o <<a>>, readyTime, dispatchTime',
                Started \cup {e.inst}, Instances(work))
    BY ONLY <1>7, <1>10, <2>1, <2>2, <2>3, SampledMore
  <2>. QED  BY <1>7, <1>9, <2>4
<1>12. Sampled(taskLatencies, readyTime, doneTime', Finished, Instances(work))
  <2>1. Sampled(taskLatencies, readyTime, doneTime, Finished, Instances(work))
    BY DEF AveragesInv
  <2>2. \A i \in Finished :
           readyTime[i] = readyTime[i] /\ doneTime'[i] = doneTime[i]
    BY <1>7, <1>8
  <2>. QED  BY ONLY <1>7, <2>1, <2>2, SampledKept
<1>. QED  BY <1>1, <1>2, <1>3, <1>7, <1>8, <1>11, <1>12 DEF AveragesInv

(* handleTaskDone() adds the latency of its instance twice.                *)
LEMMA EndIsSampled ==
    ASSUME IInv, WInv, IInv', WInv', StatsInv, AveragesInv, StampInstances,
           NEW e \in DOMAIN events, MeasuredTaskDone(e), ReadyKnown'
    PROVE  AveragesInv'
<1>1. /\ HandleTaskDone(e) /\ Popped(e, "TaskDone")
      /\ UNCHANGED <<taskReadyTimes, taskWaitTimes>>
      /\ taskLatencies' = Twice(taskLatencies, e.inst, now')
  BY DEF MeasuredTaskDone, HandleTaskDone
<1>2. /\ e.type = "TaskDone" /\ e.inst \in Instances(work)
      /\ now' = e.time /\ work' = work /\ now' \in Nat
  BY <1>1, WPoppedBy
<1>3. \A i \in Instances(work) : inDegree[i] <= 0 => readyTime'[i] = readyTime[i]
  <2>. DEFINE ready == ReadyInstances(work, inDegree', opIndex, readyTime)
  <2>1. \A i \in ready : inDegree[i] > 0
    BY <1>1, TaskDoneGraph
  <2>2. readyTime' = [i \in Instances(work) |->
                          IF i \in ready THEN now' ELSE readyTime[i]]
    BY <1>1 DEF HandleTaskDone
  <2>. HIDE DEF ready
  <2>. QED  BY <2>1, <2>2, WellBehavedTypes
<1>4. Abstract!Finish(e.inst)
  BY <1>1, DoneFinishes
<1>. DEFINE status == [i \in Instances(work) |-> StatusOf(i)]
<1>5. status[e.inst] = "running" /\ status' = [status EXCEPT ![e.inst] = "done"]
  BY <1>4 DEF Abstract!Finish
<1>6. /\ StatusOf(e.inst) = "running"
      /\ \A i \in Instances(work) :
            StatusOf(i)' = IF i = e.inst THEN "done" ELSE StatusOf(i)
  <2>1. \A i \in Instances(work) : status[i] = StatusOf(i) /\ status'[i] = StatusOf(i)'
    BY <1>2
  <2>. HIDE DEF status
  <2>2. DOMAIN status = Instances(work)
    BY DEF status
  <2>. QED  BY <1>2, <1>5, <2>1, <2>2
<1>7. /\ Started' = Started /\ Finished' = Finished \cup {e.inst}
      /\ e.inst \in Instances(work) \ Finished
      /\ Started \in SUBSET Instances(work) /\ Finished \in SUBSET Instances(work)
  BY <1>2, <1>6 DEF Started, Finished
<1>8. /\ StampTypes' /\ StampsFit'
      /\ \A i \in Started' : dispatchTime'[i] = dispatchTime[i]
      /\ \A i \in Finished' : doneTime'[i] = doneTime[i]
  BY <1>1, <1>2, NewEventsNow, Stamped DEF AveragesInv
<1>9. \A i \in Started : readyTime'[i] = readyTime[i]
  BY <1>3, StartedSatisfied
<1>10. Finished \subseteq Started /\ e.inst \in Started
  BY <1>2, <1>6, StartedSatisfied DEF Started
<1>. DEFINE a == doneTime'[e.inst] - readyTime'[e.inst]
<1>11. taskLatencies' = taskLatencies \o <<a>> \o <<a>>
  <2>1. now' = doneTime'[e.inst]
    BY <1>2, <1>7, <1>8 DEF AveragesInv, StampsFit
  <2>2. Sample(e.inst, now') = <<a>>
    BY <1>2, <1>9, <1>10, <2>1, SampleOfEvent
  <2>. QED  BY <1>1, <2>2 DEF Twice
<1>12. /\ readyTime \in [Instances(work) -> Int]
       /\ readyTime' \in [Instances(work) -> Int]
       /\ doneTime \in [Instances(work) -> Int]
       /\ doneTime' \in [Instances(work) -> Int]
       /\ IsFiniteSet(Instances(work))
  <2>1. doneTime \in [Instances(work) -> Nat] /\ doneTime' \in [Instances(work) -> Nat]
    BY <1>2, <1>8 DEF AveragesInv, StampTypes
  <2>2. readyTime \in [Instances(work) -> Int] /\ readyTime' \in [Instances(work) -> Int]
    BY <1>2 DEF IInv, TypeOK
  <2>. QED  BY <2>1, <2>2, WellBehavedTypes
<1>13. Sampled(taskLatencies', readyTime', doneTime', Finished', Instances(work))
  <2>1. Sampled(taskLatencies, readyTime, doneTime, Finished, Instances(work))
    BY DEF AveragesInv
  <2>2. \A i \in Finished :
           readyTime'[i] = readyTime[i] /\ doneTime'[i] = doneTime[i]
    BY <1>7, <1>8, <1>9, <1>10
  <2>3. a = doneTime'[e.inst] - readyTime'[e.inst]
    OBVIOUS
  <2>. HIDE DEF a
  <2>4. Sampled(taskLatencies \o <<a>> \o <<a>>, readyTime', doneTime',
                Finished \cup {e.inst}, Instances(work))
    BY ONLY <1>7, <1>12, <2>1, <2>2, <2>3, SampledMore
  <2>. QED  BY <1>7, <1>11, <2>4
<1>14. Sampled(taskWaitTimes, readyTime', dispatchTime', Started, Instances(work))
  <2>1. Sampled(taskWaitTimes, readyTime, dispatchTime, Started, Instances(work))
    BY DEF AveragesInv
  <2>2. \A i \in Started :
           readyTime'[i] = readyTime[i] /\ dispatchTime'[i] = dispatchTime[i]
    BY <1>7, <1>8, <1>9
  <2>. QED  BY ONLY <1>7, <2>1, <2>2, SampledKept
<1>. QED  BY <1>1, <1>2, <1>7, <1>8, <1>13, <1>14 DEF AveragesInv
-----------------------------------------------------------------------------
(* The collector stays informed when only an event it records is handled.  *)
LEMMA KnownStep ==
    ASSUME ReadyKnown, NEW e, work' = work,
           DOMAIN taskReadyTimes \subseteq DOMAIN taskReadyTimes',
           DOMAIN events \ {e} \subseteq DOMAIN events',
           e.type = "TaskReady" => e.inst \in DOMAIN taskReadyTimes',
           \A i \in Instances(work) : inDegree'[i] <= 0 =>
              inDegree[i] <= 0 \/ EventsFor(i, {"TaskReady"})' # {}
    PROVE  ReadyKnown'
<1>. SUFFICES ASSUME NEW i \in Instances(work), inDegree'[i] <= 0,
                     EventsFor(i, {"TaskReady"})' = {}
              PROVE  i \in DOMAIN taskReadyTimes'
  BY DEF ReadyKnown
<1>1. inDegree[i] <= 0
  OBVIOUS
<1>2. CASE EventsFor(i, {"TaskReady"}) = {}
  BY <1>1, <1>2 DEF ReadyKnown
<1>3. CASE EventsFor(i, {"TaskReady"}) # {}
  <2>1. PICK g \in DOMAIN events : g.inst = i /\ g.type = "TaskReady"
    BY <1>3 DEF EventsFor
  <2>2. g \notin DOMAIN events'
    BY <2>1 DEF EventsFor
  <2>. QED  BY <2>1, <2>2
<1>. QED  BY <1>2, <1>3

(* What handleTaskDone() makes ready is announced.                         *)
LEMMA DoneKnown ==
    ASSUME IInv, WInv, IInv', WInv', AveragesInv,
           NEW e \in DOMAIN events, MeasuredTaskDone(e)
    PROVE  ReadyKnown'
<1>. DEFINE ready == ReadyInstances(work, inDegree', opIndex, readyTime)
            new == {TaskReady(i, now') : i \in ready}
<1>1. /\ HandleTaskDone(e) /\ Popped(e, "TaskDone")
      /\ taskReadyTimes' = taskReadyTimes
  BY DEF MeasuredTaskDone, HandleTaskDone
<1>2. /\ (DOMAIN events \ {e}) \cup new \subseteq DOMAIN events'
      /\ e.type = "TaskDone" /\ work' = work
  BY <1>1, DoneLeaves, WPoppedBy
<1>3. ASSUME NEW i \in Instances(work), inDegree'[i] <= 0, inDegree[i] > 0
      PROVE  EventsFor(i, {"TaskReady"})' # {}
  <2>1. inDegree'[i] \in Nat
    BY <1>1, TaskDoneGraph
  <2>2. opIndex[i] = 0 /\ readyTime[i] = 0
    BY <1>3 DEF WInv, Progress, RootFirst
  <2>3. i \in ready
    BY <1>3, <2>1, <2>2 DEF ReadyInstances
  <2>4. TaskReady(i, now') \in DOMAIN events'
    BY <1>2, <2>3
  <2>. QED  BY <2>4 DEF EventsFor, TaskReady, Event
<1>4. \A i \in Instances(work) : inDegree'[i] <= 0 =>
         inDegree[i] <= 0 \/ EventsFor(i, {"TaskReady"})' # {}
  BY <1>3, WellBehavedTypes
<1>. QED  BY <1>1, <1>2, <1>4, KnownStep DEF AveragesInv

(* The handlers of operations and dispatches make nothing ready.           *)
LEMMA OthersKnown ==
    ASSUME IInv, WInv, AveragesInv, NEW e \in DOMAIN events,
           UNCHANGED taskReadyTimes,
           \/ HandleTaskDispatched(e) \/ HandleMemReqIssued(e)
           \/ HandleComputeDone(e) \/ HandleMemRespDone(e)
    PROVE  ReadyKnown'
<1>1. DOMAIN events \ {e} \subseteq DOMAIN events'
  BY OthersStay
<1>2. work' = work /\ inDegree' = inDegree /\ e.type # "TaskReady"
  BY DEF HandleTaskDispatched, HandleComputeDone, HandleMemRespDone,
     HandleMemReqIssued, CompleteOp, Abort, graphVars, Popped
<1>. QED  BY <1>1, <1>2, KnownStep DEF AveragesInv

(* handleTaskReady() tells the collector.                                  *)
LEMMA ReadyStepKnown ==
    ASSUME IInv, WInv, AveragesInv, NEW e \in DOMAIN events, MeasuredTaskReady(e)
    PROVE  ReadyKnown'
<1>1. DOMAIN events \ {e} \subseteq DOMAIN events'
  BY ReadyLeaves DEF MeasuredTaskReady
<1>2. work' = work /\ inDegree' = inDegree
  BY DEF MeasuredTaskReady, HandleTaskReady, Popped, graphVars
<1>3. DOMAIN taskReadyTimes' = DOMAIN taskReadyTimes \cup {e.inst}
  BY DEF MeasuredTaskReady, RecordTaskReady
<1>. QED  BY <1>1, <1>2, <1>3, KnownStep DEF AveragesInv

(* Every step, with the calls of the collector in it, keeps the invariant. *)
LEMMA StepKeepsAverages ==
    ASSUME IInv, WInv, IInv', WInv', StatsInv, AveragesInv,
           [MeasuredNext]_measuredVars
    PROVE  AveragesInv'
<1>1. CASE UNCHANGED measuredVars
  <2>1. UNCHANGED <<StampTypes, StampsFit, ReadyKnown, Started, Finished>>
    <3>1. \A i : EventsFor(i, {"TaskReady"})' = EventsFor(i, {"TaskReady"})
      BY <1>1 DEF measuredVars, vars, EventsFor
    <3>2. \A i \in Instances(work) : StatusOf(i)' = StatusOf(i)
      <4>1. work' = work /\ opIndex' = opIndex /\ events' = events
        BY <1>1 DEF measuredVars, vars, graphVars
      <4>2. \A i : EventsFor(i, CoreTypes)' = EventsFor(i, CoreTypes)
        BY <4>1 DEF EventsFor
      <4>. QED  BY <4>1, <4>2, SameStatus
    <3>3. /\ work' = work /\ inDegree' = inDegree /\ events' = events
          /\ UNCHANGED <<dispatchTime, doneTime, taskReadyTimes>>
      BY <1>1 DEF measuredVars, vars, graphVars, instanceVars, statsVars
    <3>4. UNCHANGED <<StampTypes, StampsFit>>
      BY <3>3 DEF StampTypes, StampsFit
    <3>5. UNCHANGED ReadyKnown
      BY <3>1, <3>3 DEF ReadyKnown
    <3>6. UNCHANGED <<Started, Finished>>
      BY <3>2, <3>3 DEF Started, Finished
    <3>. QED  BY <3>4, <3>5, <3>6
  <2>2. UNCHANGED <<taskWaitTimes, taskLatencies, readyTime, dispatchTime, doneTime,
                    work>>
    BY <1>1 DEF measuredVars, vars, graphVars, instanceVars, statsVars
  <2>. QED  BY <2>1, <2>2 DEF AveragesInv
<1>2. ASSUME NEW e \in DOMAIN events, MeasuredTaskDispatched(e), StampInstances
      PROVE  AveragesInv'
  <2>1. ReadyKnown'
    BY <1>2, OthersKnown DEF MeasuredTaskDispatched
  <2>. QED  BY <1>2, <2>1, DispatchIsSampled
<1>3. ASSUME NEW e \in DOMAIN events, MeasuredTaskDone(e), StampInstances
      PROVE  AveragesInv'
  <2>1. ReadyKnown'
    BY <1>3, DoneKnown
  <2>. QED  BY <1>3, <2>1, EndIsSampled
<1>4. ASSUME NEW e \in DOMAIN events, MeasuredTaskReady(e), StampInstances
      PROVE  AveragesInv'
  <2>1. /\ HandleTaskReady(e) /\ Popped(e, "TaskReady")
        /\ UNCHANGED <<taskWaitTimes, taskLatencies>>
    BY <1>4 DEF MeasuredTaskReady, HandleTaskReady
  <2>2. work' = work /\ now' \in Nat
    BY <2>1, WPoppedBy
  <2>3. readyTime' = readyTime
    BY <2>1, ReadyLeaves
  <2>4. \A i \in Instances(work) : StatusOf(i)' = StatusOf(i)
    BY <2>1, <2>2, ReadyStutters, StatusKept
  <2>5. ReadyKnown'
    BY <1>4, ReadyStepKnown
  <2>6. \A g \in DOMAIN events' : g.type \in {"TaskDispatched", "TaskDone"} =>
           g \in DOMAIN events \/ g.time = now'
    BY <2>1, NewEventsNow
  <2>. QED  BY <1>4, <2>1, <2>2, <2>3, <2>4, <2>5, <2>6, AveragesKept
<1>5. ASSUME NEW e \in DOMAIN events, StampInstances,
             HandleComputeDone(e) \/ HandleMemReqIssued(e) \/ HandleMemRespDone(e),
             UNCHANGED <<taskReadyTimes, taskWaitTimes, taskLatencies>>
      PROVE  AveragesInv'
  <2>1. \E type : Popped(e, type)
    BY <1>5 DEF HandleComputeDone, HandleMemReqIssued, HandleMemRespDone
  <2>2. work' = work /\ now' \in Nat
    BY <2>1, WPoppedBy
  <2>3. readyTime' = readyTime
    BY <1>5, OtherHandlers
  <2>4. UNCHANGED Abstract!abstractVars
    <3>1. CASE HandleMemReqIssued(e)
      BY <3>1, IssuedStutters
    <3>2. CASE HandleComputeDone(e) \/ HandleMemRespDone(e)
      <4>1. /\ e.type \in {"ComputeDone", "MemRespDone"}
            /\ Popped(e, e.type) /\ CompleteOp(e)
        BY <3>2 DEF HandleComputeDone, HandleMemRespDone, Popped
      <4>. QED  BY <4>1, CompletedOpStutters
    <3>. QED  BY <1>5, <3>1, <3>2
  <2>5. \A i \in Instances(work) : StatusOf(i)' = StatusOf(i)
    BY <2>2, <2>4, StatusKept
  <2>6. ReadyKnown'
    BY <1>5, OthersKnown
  <2>7. \A g \in DOMAIN events' : g.type \in {"TaskDispatched", "TaskDone"} =>
           g \in DOMAIN events \/ g.time = now'
    BY <1>5, NewEventsNow
  <2>. QED  BY <1>5, <2>2, <2>3, <2>5, <2>6, <2>7, AveragesKept
<1>6. ASSUME StampInstances, Exited \/ Complete,
             UNCHANGED <<taskReadyTimes, taskWaitTimes, taskLatencies>>
      PROVE  AveragesInv'
  <2>1. /\ work' = work /\ now' = now /\ events' = events
        /\ UNCHANGED <<inDegree, opIndex, readyTime>>
    BY <1>6 DEF Exited, Complete, vars, graphVars
  <2>2. \A i : EventsFor(i, CoreTypes)' = EventsFor(i, CoreTypes)
    BY <2>1 DEF EventsFor
  <2>3. \A i \in Instances(work) : StatusOf(i)' = StatusOf(i)
    BY <2>1, <2>2, SameStatus
  <2>4. ReadyKnown'
    <3>1. \A i : EventsFor(i, {"TaskReady"})' = EventsFor(i, {"TaskReady"})
      BY <2>1 DEF EventsFor
    <3>. QED  BY <1>6, <2>1, <3>1 DEF AveragesInv, ReadyKnown
  <2>5. now' \in Nat
    BY <2>1, WellBehavedTypes
  <2>. QED  BY <1>6, <2>1, <2>3, <2>4, <2>5, AveragesKept
<1>. QED
  BY <1>1, <1>2, <1>3, <1>4, <1>5, <1>6
     DEF MeasuredNext, MeasuredOther, MeasuredComplete

(* No samples, of no element.                                              *)
LEMMA SampledNone ==
    ASSUME NEW S, IsFiniteSet(S), NEW from, NEW to
    PROVE  Sampled(<<>>, from, to, {}, S)
<1>. DEFINE f == [x \in S |-> IF x \in {} THEN 0 ELSE 0]
            g == Spans(from, to, {}, S)
<1>1. Cardinality({}) = 0 /\ IsFiniteSet({})
  BY FS_EmptySet
<1>2. g = f
  BY DEF Spans
<1>3. SumOver(f, S) = 0 * Cardinality({})
  BY SumOfPart
<1>4. Total(<<>>) = 0
  <2>. PICK E : E = {}
    OBVIOUS
  <2>1. IsFiniteSet(E) /\ <<>> \in [E -> Int] /\ DOMAIN <<>> = E
    BY <1>1
  <2>2. PICK k : Sums(k, <<>>, E) /\ SumOver(<<>>, E) = k[E]
    BY <2>1, SumOverSums
  <2>. QED  BY <2>1, <2>2, TotalIsSum DEF Sums
<1>. HIDE DEF f, g
<1>. QED  BY <1>1, <1>2, <1>3, <1>4 DEF Sampled, g

(* Before run() nothing is dispatched or done.                             *)
LEMMA InitiallyAverages ==
    ASSUME MeasuredInit, WellBehaved(work)
    PROVE  AveragesInv
<1>1. Init /\ IInv /\ WInv
  BY InitiallyIInv, InitiallyWInv DEF MeasuredInit
<1>2. \A e \in DOMAIN events : e.type = "TaskReady"
  BY <1>1, InitialEvents
<1>3. Started = {} /\ Finished = {}
  <2>1. Abstract!Init
    BY <1>1, InitiallySimulates
  <2>. DEFINE status == [i \in Instances(work) |-> StatusOf(i)]
              deps == [i \in Instances(work) |-> Predecessors(i)]
  <2>2. status = [i \in DOMAIN deps |-> "waiting"]
    BY <2>1 DEF Abstract!Init
  <2>3. \A i \in Instances(work) : status[i] = StatusOf(i) /\ status[i] = "waiting"
    BY <2>2
  <2>. QED  BY <2>3 DEF Started, Finished
<1>4. ReadyKnown
  <2>1. ASSUME NEW i \in Instances(work), inDegree[i] <= 0
        PROVE  EventsFor(i, {"TaskReady"}) # {}
    <3>1. Placed(i)
      <4>1. ~Completed(i)
        <5>1. opIndex[i] = 0 /\ OpCount(i) \in Nat \ {0}
          BY <1>1, WellBehavedTypes DEF Init
        <5>. QED  BY <5>1 DEF Completed
      <4>. QED  BY <1>1, <2>1, <4>1, SatisfiedIsPlaced
    <3>2. \A k \in DOMAIN readyQueue : FALSE
      BY <1>1 DEF Init
    <3>. QED  BY <1>2, <3>1, <3>2 DEF Placed, EventsFor
  <2>. QED  BY <2>1 DEF ReadyKnown
<1>5. StampTypes /\ StampsFit
  BY <1>2 DEF MeasuredInit, StampTypes, StampsFit
<1>6. IsFiniteSet(Instances(work))
  BY <1>1, WellBehavedTypes
<1>7. taskWaitTimes = <<>> /\ taskLatencies = <<>>
  BY DEF MeasuredInit
<1>. QED  BY <1>3, <1>4, <1>5, <1>6, <1>7, SampledNone DEF AveragesInv

(* What the two lists add up to when every instance is in them.            *)
LEMMA AllSampled ==
    ASSUME NEW S, IsFiniteSet(S), NEW from \in [S -> Int], NEW to \in [S -> Int],
           NEW s, Sampled(s, from, to, S, S)
    PROVE  /\ Len(s) = 2 * Cardinality(S)
           /\ Total(s) = 2 * (SumOver(to, S) - SumOver(from, S))
<1>. DEFINE f == Spans(from, to, S, S)
            froms == [x \in S |-> from[x] + from[x]]
            tos == [x \in S |-> to[x] + to[x]]
            both == [x \in S |-> f[x] + froms[x]]
<1>1. f \in [S -> Int] /\ froms \in [S -> Int]
  BY DEF Spans
<1>2. both = tos
  <2>1. \A x \in S : f[x] + froms[x] = to[x] + to[x]
    BY DEF Spans
  <2>. QED  BY <2>1
<1>3. /\ SumOver(froms, S) = SumOver(from, S) + SumOver(from, S)
      /\ SumOver(tos, S) = SumOver(to, S) + SumOver(to, S)
  BY SumOfSums
<1>. HIDE DEF f, froms, tos
<1>4. SumOver(both, S) = SumOver(f, S) + SumOver(froms, S)
  BY <1>1, SumOfSums
<1>5. SumOver(f, S) \in Int /\ SumOver(from, S) \in Int /\ SumOver(to, S) \in Int
  BY <1>1, SumType
<1>6. SumOver(f, S) = 2 * (SumOver(to, S) - SumOver(from, S))
  <2>. HIDE DEF both
  <2>1. SumOver(f, S) + SumOver(froms, S) = SumOver(tos, S)
    BY <1>2, <1>4
  <2>. QED  BY ONLY <1>3, <1>5, <2>1
<1>. QED  BY <1>6 DEF Sampled, f

(* The factor 2 may stand on either side.                                  *)
LEMMA CrossMultiplied ==
    ASSUME NEW a \in Int, NEW n \in Int
    PROVE  (2 * a) * n = a * (2 * n)
OBVIOUS

(* When all instances are done, the invariant is what the report needs.    *)
LEMMA AveragesAtTheEnd ==
    ASSUME IInv, WInv, AveragesInv, CompleteIsEmpty
    PROVE  AveragesExact
<1>. SUFFICES ASSUME DOMAIN events = {}
              PROVE  /\ Len(taskLatencies) = Len(taskWaitTimes)
                     /\ Total(taskLatencies) * Cardinality(Instances(work)) =
                           (SumOf(doneTime) - SumOf(readyTime)) * Len(taskLatencies)
                     /\ Total(taskWaitTimes) * Cardinality(Instances(work)) =
                           (SumOf(dispatchTime) - SumOf(readyTime))
                              * Len(taskWaitTimes)
  BY DEF AveragesExact, CompleteIsEmpty
<1>. DEFINE S == Instances(work)
            n == Cardinality(S)
            done == SumOver(doneTime, S)
            dispatched == SumOver(dispatchTime, S)
            ready == SumOver(readyTime, S)
<1>1. Started = S /\ Finished = S
  <2>1. \A i \in S : StatusOf(i) = "done"
    BY AllCompleted DEF StatusOf
  <2>. QED  BY <2>1 DEF Started, Finished
<1>2. /\ IsFiniteSet(S) /\ readyTime \in [S -> Int]
      /\ doneTime \in [S -> Int] /\ dispatchTime \in [S -> Int]
  BY WellBehavedTypes DEF IInv, TypeOK, AveragesInv, StampTypes
<1>3. /\ Sampled(taskWaitTimes, readyTime, dispatchTime, S, S)
      /\ Sampled(taskLatencies, readyTime, doneTime, S, S)
  BY <1>1 DEF AveragesInv
<1>4. /\ SumOf(doneTime) = done /\ SumOf(dispatchTime) = dispatched
      /\ SumOf(readyTime) = ready
  BY DEF SumOf, SumOver
<1>5. n \in Int
  BY <1>2, FS_CardinalityType
<1>. HIDE DEF S
<1>6. Len(taskLatencies) = 2 * n /\ Total(taskLatencies) = 2 * (done - ready)
  BY <1>2, <1>3, AllSampled
<1>7. Len(taskWaitTimes) = 2 * n /\ Total(taskWaitTimes) = 2 * (dispatched - ready)
  BY <1>2, <1>3, AllSampled
<1>8. done - ready \in Int /\ dispatched - ready \in Int
  <2>1. done \in Int
    BY <1>2, SumType
  <2>2. dispatched \in Int
    BY <1>2, SumType
  <2>3. ready \in Int
    BY <1>2, SumType
  <2>. QED  BY <2>1, <2>2, <2>3
<1>. HIDE DEF n, done, dispatched, ready
<1>9. /\ (2 * (done - ready)) * n = (done - ready) * (2 * n)
      /\ (2 * (dispatched - ready)) * n = (dispatched - ready) * (2 * n)
  BY ONLY <1>5, <1>8, CrossMultiplied
<1>. QED  BY <1>4, <1>6, <1>7, <1>9 DEF S, n

(* The averages the report prints are those of the instances, although     *)
(* every sample is in its list twice.                                      *)
THEOREM AveragesAreExact == MeasuredSpec => []AveragesExact
<1>. DEFINE Inv == IInv /\ WInv /\ StatsInv /\ AveragesInv /\ CompleteIsEmpty
<1>1. MeasuredInit /\ WellBehaved(work) => Inv
  BY InitiallyIInv, InitiallyWInv, InitiallyStats, InitiallyAverages
     DEF MeasuredInit, Init, CompleteIsEmpty
<1>2. Inv /\ [MeasuredNext]_measuredVars => Inv'
  <2>. SUFFICES ASSUME Inv, [MeasuredNext]_measuredVars PROVE Inv'
    OBVIOUS
  <2>1. [Next]_vars
    BY MeasuredStepIsStep
  <2>2. IInv' /\ WInv' /\ CompleteIsEmpty'
    BY <2>1, StepKeepsIInv, StepKeepsWInv, StepKeepsCompleteIsEmpty
  <2>3. StatsInv' /\ AveragesInv'
    BY <2>2, StepKeepsStats, StepKeepsAverages
  <2>. QED  BY <2>2, <2>3
<1>3. Inv => AveragesExact
  BY AveragesAtTheEnd
<1>4. ~WellBehaved(work) => AveragesExact
  BY DEF AveragesExact
<1>5. ~WellBehaved(work) /\ [MeasuredNext]_measuredVars => ~WellBehaved(work)'
  <2>. SUFFICES ASSUME [MeasuredNext]_measuredVars PROVE work' = work
    BY DEF WellBehaved, TakesTime
  <2>1. [Next]_vars
    BY MeasuredStepIsStep
  <2>. QED
    BY <2>1 DEF Next, HandleTaskReady, HandleTaskDispatched, HandleComputeDone,
       HandleMemReqIssued, HandleMemRespDone, HandleTaskDone, Popped, Complete,
       Exited, vars
<1>. HIDE DEF Inv
<1>. QED  BY <1>1, <1>2, <1>3, <1>4, <1>5, PTL DEF MeasuredSpec
-----------------------------------------------------------------------------
(* DURATIONS                                                               *)

Cost(op, latency) == IF op.type = "Compute" THEN op.cycles ELSE latency

Costs(w, i, n, latency) == [k \in 1 .. n |-> Cost(OpsOf(w, i)[k], latency)]

(* The cycles the first n operations of instance i need.                   *)
Elapsed(w, i, n, latency) == SumOver(Costs(w, i, n, latency), 1 .. n)

(* The costs of the first n operations are a sequence of n numbers.        *)
LEMMA CostsType ==
    ASSUME NEW w \in ForwardWorkload, NEW i \in Instances(w), NEW latency \in Nat,
           NEW n \in 0 .. Len(OpsOf(w, i))
    PROVE  /\ Costs(w, i, n, latency) \in [1 .. n -> Nat]
           /\ Costs(w, i, n, latency) \in Seq(Nat) /\ Costs(w, i, n, latency) \in Seq(Int)
           /\ DOMAIN Costs(w, i, n, latency) = 1 .. n
<1>1. OpsOf(w, i) \in Seq(Op)
  BY InstanceTypes DEF ForwardWorkload
<1>2. \A k \in 1 .. n :
         /\ OpsOf(w, i)[k] \in Op
         /\ OpsOf(w, i)[k].type = "Compute" => OpsOf(w, i)[k].cycles >= 0
  BY <1>1 DEF ForwardWorkload, NonNegativeDurations
<1>3. \A k \in 1 .. n : Cost(OpsOf(w, i)[k], latency) \in Nat
  BY <1>2 DEF Cost, Op
<1>4. Costs(w, i, n, latency) \in [1 .. n -> Nat]
  BY <1>3 DEF Costs
<1>5. n \in Nat
  BY <1>1
<1>. QED  BY <1>4, <1>5

(* Each operation adds its cost.                                           *)
LEMMA ElapsedSteps ==
    ASSUME NEW w \in ForwardWorkload, NEW i \in Instances(w), NEW latency \in Nat
    PROVE  /\ Elapsed(w, i, 0, latency) = 0
           /\ \A n \in 0 .. Len(OpsOf(w, i)) : Elapsed(w, i, n, latency) \in Nat
           /\ \A n \in 1 .. Len(OpsOf(w, i)) :
                 Elapsed(w, i, n, latency)
                    = Elapsed(w, i, n - 1, latency) + Cost(OpsOf(w, i)[n], latency)
<1>. PICK ops \in Seq(Op) : ops = OpsOf(w, i)
  BY InstanceTypes DEF ForwardWorkload
<1>1. \A n \in 0 .. Len(ops) : Elapsed(w, i, n, latency) \in Nat
  <2>. SUFFICES ASSUME NEW n \in 0 .. Len(ops)
                PROVE  Elapsed(w, i, n, latency) \in Nat
    OBVIOUS
  <2>1. n \in Nat /\ Costs(w, i, n, latency) \in [1 .. n -> Nat]
    <3>1. n \in 0 .. Len(OpsOf(w, i))
      OBVIOUS
    <3>2. Costs(w, i, n, latency) \in [1 .. n -> Nat]
      BY <3>1, CostsType
    <3>. QED  BY <3>2
  <2>2. IsFiniteSet(1 .. n)
    BY <2>1, FS_Interval
  <2>3. Costs(w, i, n, latency) \in [1 .. n -> Int]
    BY <2>1
  <2>. QED  BY <2>1, <2>2, <2>3, SumType DEF Elapsed
<1>2. ASSUME NEW n \in 1 .. Len(ops)
      PROVE  Elapsed(w, i, n, latency)
                = Elapsed(w, i, n - 1, latency) + Cost(ops[n], latency)
  <2>. DEFINE s == Costs(w, i, n - 1, latency)
              t == Costs(w, i, n, latency)
              a == Cost(ops[n], latency)
  <2>1. n - 1 \in 0 .. Len(ops) /\ n \in 0 .. Len(ops) /\ n \in Nat
    OBVIOUS
  <2>2. s \in Seq(Int) /\ DOMAIN s = 1 .. n - 1
    <3>1. n - 1 \in 0 .. Len(OpsOf(w, i))
      BY <2>1
    <3>2. \A m \in 0 .. Len(OpsOf(w, i)) :
             /\ Costs(w, i, m, latency) \in Seq(Int)
             /\ DOMAIN Costs(w, i, m, latency) = 1 .. m
      BY ONLY w \in ForwardWorkload, i \in Instances(w), latency \in Nat, CostsType
    <3>. QED  BY <3>1, <3>2
  <2>3. a \in Int
    <3>1. ops[n] \in Op
      OBVIOUS
    <3>. QED  BY <3>1 DEF Cost, Op
  <2>4. /\ \A k \in 1 .. n - 1 : t[k] = s[k]
        /\ t[n] = a
    BY <2>1 DEF Costs
  <2>5. t \in Seq(Int) /\ DOMAIN t = 1 .. n
    BY <2>1, CostsType
  <2>. HIDE DEF s, t, a
  <2>6. Len(s) = n - 1 /\ Len(t) = n
    BY <2>1, <2>2, <2>5
  <2>7. t = Append(s, a)
    BY <2>1, <2>2, <2>3, <2>4, <2>5, <2>6
  <2>8. SumOver(Append(s, a), DOMAIN Append(s, a)) = SumOver(s, DOMAIN s) + a
    BY <2>2, <2>3, SumOfAppended
  <2>. QED  BY <2>2, <2>5, <2>7, <2>8 DEF Elapsed, s, t, a
<1>3. Elapsed(w, i, 0, latency) = 0
  <2>. PICK E : E = 1 .. 0
    OBVIOUS
  <2>. DEFINE f == Costs(w, i, 0, latency)
  <2>1. f \in [E -> Nat] /\ E = {}
    <3>1. 0 \in 0 .. Len(OpsOf(w, i))
      OBVIOUS
    <3>. QED  BY <3>1, CostsType
  <2>2. IsFiniteSet(E) /\ f \in [E -> Int]
    BY <2>1, FS_EmptySet
  <2>. HIDE DEF f
  <2>3. PICK k : Sums(k, f, E) /\ SumOver(f, E) = k[E]
    BY <2>2, SumOverSums
  <2>. QED  BY <2>1, <2>3 DEF Sums, Elapsed, f
<1>. QED  BY <1>1, <1>2, <1>3

(* The fold of a duration is the sum of the costs.                         *)
LEMMA DurationIsElapsed ==
    ASSUME work \in ForwardWorkload, NEW i \in Instances(work), NEW latency \in Nat
    PROVE  Duration(i, latency) = Elapsed(work, i, Len(OpsOf(work, i)), latency)
<1>. PICK ops \in Seq(Op) : ops = OpsOf(work, i)
  BY InstanceTypes DEF ForwardWorkload
<1>. DEFINE S == DOMAIN ops
            f == Costs(work, i, Len(ops), latency)
            Body(g) == [s \in SUBSET S |->
                           IF s = {} THEN 0
                           ELSE g[s \ {Max(s)}]
                                + IF ops[Max(s)].type = "Compute"
                                  THEN ops[Max(s)].cycles ELSE latency]
            h == CHOOSE g : g = Body(g)
            pick == [s \in SUBSET S |-> Max(s)]
<1>1. /\ S = 1 .. Len(ops) /\ IsFiniteSet(S)
      /\ f \in [S -> Int] /\ f \in [S -> Nat]
      /\ \A k \in S : f[k] = IF ops[k].type = "Compute" THEN ops[k].cycles ELSE latency
  <2>1. Len(ops) \in Nat /\ S = 1 .. Len(ops)
    OBVIOUS
  <2>2. f \in [1 .. Len(ops) -> Nat]
    <3>1. Len(ops) \in 0 .. Len(OpsOf(work, i))
      BY <2>1
    <3>. HIDE DEF S, Body, h, pick
    <3>. QED  BY <3>1, CostsType
  <2>3. \A k \in S : f[k] = IF ops[k].type = "Compute" THEN ops[k].cycles ELSE latency
    BY <2>1 DEF Costs, Cost
  <2>4. IsFiniteSet(S)
    BY <2>1, FS_Interval
  <2>. QED  BY <2>1, <2>2, <2>3, <2>4
<1>2. Duration(i, latency) = h[S]
  BY DEF Duration, FoldLeft, MapThenFoldSet
<1>3. \A s \in SUBSET S : s # {} => Max(s) \in s
  <2>. SUFFICES ASSUME NEW s \in SUBSET S, s # {} PROVE Max(s) \in s
    OBVIOUS
  <2>1. IsFiniteSet(s) /\ s \subseteq Int
    BY <1>1, FS_Subset
  <2>. QED  BY <2>1, MaxOf
<1>4. Picks(pick, S)
  BY <1>3 DEF Picks
<1>. HIDE DEF f
<1>5. \E g : g = Body(g)
  <2>. HIDE DEF S, pick
  <2>0. IsFiniteSet(S) /\ f \in [S -> Int]
    BY <1>1
  <2>1. PICK g \in [SUBSET S -> Int] : g = Folded(g, f, S, pick)
    BY ONLY <2>0, <1>4, FoldExists
  <2>2. \A s \in SUBSET S : g[s] = Body(g)[s]
    <3>. SUFFICES ASSUME NEW s \in SUBSET S PROVE g[s] = Body(g)[s]
      OBVIOUS
    <3>1. CASE s = {}
      BY <2>1, <3>1 DEF Folded
    <3>2. CASE s # {}
      <4>1. pick[s] = Max(s) /\ Max(s) \in S
        BY <1>3, <3>2 DEF pick
      <4>2. g[s] = f[Max(s)] + g[s \ {Max(s)}]
        BY <2>1, <3>2, <4>1 DEF Folded
      <4>3. f[Max(s)] \in Int /\ g[s \ {Max(s)}] \in Int
        BY <1>1, <4>1
      <4>4. Body(g)[s] = g[s \ {Max(s)}]
                            + IF ops[Max(s)].type = "Compute"
                              THEN ops[Max(s)].cycles ELSE latency
        BY <3>2
      <4>5. Body(g)[s] = g[s \ {Max(s)}] + f[Max(s)]
        BY <1>1, <4>1, <4>4
      <4>. HIDE DEF Body
      <4>. QED  BY <4>2, <4>3, <4>5
    <3>. QED  BY <3>1, <3>2
  <2>3. g = Body(g)
    BY <2>2, <2>1 DEF Folded
  <2>. QED  BY <2>3
<1>6. h = Body(h)
  BY <1>5
<1>. HIDE DEF h
<1>7. \A s \in SUBSET S : h[s] = IF s = {} THEN 0 ELSE h[s \ {Max(s)}] + f[Max(s)]
  <2>1. \A s \in SUBSET S : h[s] = Body(h)[s]
    BY <1>6
  <2>. SUFFICES ASSUME NEW s \in SUBSET S, s # {}
                PROVE  Body(h)[s] = h[s \ {Max(s)}] + f[Max(s)]
    BY <2>1
  <2>2. Max(s) \in S
    BY <1>3
  <2>. QED  BY <1>1, <2>2
<1>. HIDE DEF S
<1>8. \A s \in SUBSET S : h[s] \in Int
  <2>. DEFINE T == {s \in SUBSET S : h[s] \in Int}
  <2>1. {} \in T
    <3>1. h[{}] = 0
      BY <1>7
    <3>. QED  BY <3>1
  <2>2. ASSUME NEW s \in SUBSET S, s # {}, \A x \in s : s \ {x} \in T
        PROVE  s \in T
    <3>1. Max(s) \in s
      BY <1>3, <2>2
    <3>2. h[s \ {Max(s)}] \in Int /\ f[Max(s)] \in Int
      BY <1>1, <2>2, <3>1
    <3>3. h[s] = h[s \ {Max(s)}] + f[Max(s)]
      BY <1>7, <2>2
    <3>. QED  BY <3>2, <3>3
  <2>3. IsFiniteSet(S)
    BY <1>1
  <2>. HIDE DEF T
  <2>4. SUBSET S \subseteq T
    BY ONLY <2>1, <2>2, <2>3, SubsetInduction
  <2>. QED  BY <2>4 DEF T
<1>9. h = Folded(h, f, S, pick)
  <2>1. h = [s \in SUBSET S |-> h[s]]
    BY <1>6
  <2>2. \A s \in SUBSET S :
           h[s] = IF s = {} THEN 0 ELSE f[pick[s]] + h[s \ {pick[s]}]
    <3>. SUFFICES ASSUME NEW s \in SUBSET S
                  PROVE  h[s] = IF s = {} THEN 0
                                ELSE f[pick[s]] + h[s \ {pick[s]}]
      OBVIOUS
    <3>1. CASE s = {}
      BY <1>7, <3>1
    <3>2. CASE s # {}
      <4>1. Max(s) \in s /\ pick[s] = Max(s)
        BY <1>3, <3>2
      <4>2. h[s \ {Max(s)}] \in Int /\ f[Max(s)] \in Int
        BY <1>1, <1>8, <4>1
      <4>3. h[s] = h[s \ {Max(s)}] + f[Max(s)]
        BY <1>7, <3>2
      <4>. HIDE DEF pick
      <4>. QED  BY <3>2, <4>1, <4>2, <4>3
    <3>. QED  BY <3>1, <3>2
  <2>. QED  BY <2>1, <2>2 DEF Folded
<1>10. Sums(h, f, S)
  <2>. HIDE DEF S, pick
  <2>. QED  BY <1>1, <1>4, <1>9, FoldedSums
<1>11. SumOver(f, S) = h[S]
  <2>. HIDE DEF S
  <2>. QED  BY <1>1, <1>10, SumIs
<1>. QED  BY <1>1, <1>2, <1>11 DEF Elapsed, f

(* The largest of 0 and the values of p over a finite set.                 *)
LEMMA LargestValue ==
    ASSUME NEW D, IsFiniteSet(D), NEW p, \A d \in D : p[d] \in Nat
    PROVE  LET m == Max({0} \cup {p[d] : d \in D})
           IN  /\ m \in Nat
               /\ \A d \in D : p[d] <= m
               /\ m = 0 \/ \E d \in D : m = p[d]
<1>. DEFINE values == {p[d] : d \in D}
            f == [d \in D |-> p[d]]
            all == {0} \cup values
<1>1. f \in Surjection(D, values)
  BY DEF Surjection
<1>. HIDE DEF f, values
<1>2. IsFiniteSet(values)
  BY <1>1, FS_Surjection
<1>3. IsFiniteSet({0} \cup values)
  BY <1>2, FS_Singleton, FS_Union
<1>4. all \subseteq Int /\ all # {} /\ 0 \in all /\ all \subseteq Nat
  BY DEF values
<1>. HIDE DEF all
<1>5. Max(all) \in all /\ \A x \in all : x <= Max(all)
  BY <1>3, <1>4, MaxOf DEF all
<1>6. Max(all) = 0 \/ \E d \in D : Max(all) = p[d]
  BY <1>5 DEF all, values
<1>7. \A d \in D : p[d] <= Max(all)
  BY <1>5 DEF all, values
<1>. QED  BY <1>4, <1>5, <1>6, <1>7 DEF all, values

(* A duration is a number of cycles.                                       *)
LEMMA DurationType ==
    ASSUME work \in ForwardWorkload, NEW latency \in Nat
    PROVE  \A i \in Instances(work) : Duration(i, latency) \in Nat
<1>. SUFFICES ASSUME NEW i \in Instances(work)
              PROVE  Duration(i, latency) \in Nat
  OBVIOUS
<1>1. Len(OpsOf(work, i)) \in 0 .. Len(OpsOf(work, i))
  <2>1. OpsOf(work, i) \in Seq(Op)
    BY InstanceTypes DEF ForwardWorkload
  <2>. QED  BY <2>1
<1>. QED  BY <1>1, DurationIsElapsed, ElapsedSteps

(* What holds of an instance if it holds of its predecessors holds of all. *)
LEMMA GraphInduction ==
    ASSUME work \in ForwardWorkload, ~HasCycle(work), NEW T,
           \A i \in Instances(work) : Predecessors(i) \subseteq T => i \in T
    PROVE  Instances(work) \subseteq T
<1>. DEFINE U == Instances(work) \ T
<1>. SUFFICES ASSUME U # {} PROVE FALSE
  OBVIOUS
<1>1. U \in SUBSET Instances(work)
  OBVIOUS
<1>2. PICK i \in U : \A d \in U : Multiplicity(work, d, i) = 0
  <2>. HIDE DEF U
  <2>. QED  BY <1>1, AcyclicInstances DEF ForwardWorkload
<1>3. Predecessors(i) \subseteq T
  BY <1>2 DEF Predecessors
<1>. QED  BY <1>3

(* The longest chain that ends in each instance.                           *)
IsPath(p, latency) ==
    /\ p \in [Instances(work) -> Nat]
    /\ \A i \in Instances(work) :
          p[i] = Duration(i, latency)
                 + Max({0} \cup {p[d] : d \in Predecessors(i)})

(* In a graph without a cycle these chains are defined.                    *)
LEMMA PathExists ==
    ASSUME work \in ForwardWorkload, ~HasCycle(work), NEW latency \in Nat
    PROVE  \E p : IsPath(p, latency)
<1>. PICK I : I = Instances(work)
  OBVIOUS
<1>1. IsFiniteSet(I) /\ Cardinality(I) \in Nat
  BY InstancesFinite, FS_CardinalityType DEF ForwardWorkload
<1>. DEFINE N == Cardinality(I)
            Longest(p, i) == Duration(i, latency)
                             + Max({0} \cup {p[d] : d \in Predecessors(i)})
            Solved(D) == /\ \A i \in D : Predecessors(i) \subseteq D
                         /\ \E p \in [I -> Nat] : \A i \in D : p[i] = Longest(p, i)
            T == {m \in 0 .. N : \E D \in SUBSET I : Cardinality(D) = m /\ Solved(D)}
<1>2. 0 \in T
  <2>1. [i \in I |-> 0] \in [I -> Nat]
    OBVIOUS
  <2>2. Solved({})
    BY <2>1
  <2>3. Cardinality({}) = 0
    BY FS_EmptySet
  <2>4. 0 \in 0 .. N
    BY <1>1
  <2>. QED  BY <2>2, <2>3, <2>4
<1>3. ASSUME NEW p \in [I -> Nat], NEW i \in I
      PROVE  Longest(p, i) \in Nat
  <2>. DEFINE D == Predecessors(i)
              m == Max({0} \cup {p[d] : d \in D})
  <2>1. D \in SUBSET I
    BY DEF Predecessors
  <2>. HIDE DEF D
  <2>2. IsFiniteSet(D) /\ \A d \in D : p[d] \in Nat
    BY <1>1, <2>1, FS_Subset
  <2>3. m \in Nat
    BY ONLY <2>2, LargestValue
  <2>. HIDE DEF m
  <2>4. Duration(i, latency) \in Nat
    BY DurationType
  <2>. QED  BY <2>3, <2>4 DEF m, D
<1>4. ASSUME NEW m \in 1 .. N, m - 1 \in T PROVE m \in T
  <2>1. PICK D \in SUBSET I : Cardinality(D) = m - 1 /\ Solved(D)
    BY <1>4
  <2>2. PICK p \in [I -> Nat] : \A i \in D : p[i] = Longest(p, i)
    BY <2>1
  <2>3. \A i \in D : Predecessors(i) \subseteq D
    BY <2>1
  <2>. HIDE DEF Solved, Longest
  <2>4. I \ D # {}
    BY <1>1, <2>1
  <2>5. PICK i \in I \ D : \A d \in I \ D : Multiplicity(work, d, i) = 0
    <3>. DEFINE U == I \ D
    <3>1. U \in SUBSET Instances(work) /\ U # {}
      BY <2>4
    <3>. HIDE DEF U
    <3>2. \E i \in U : \A d \in U : Multiplicity(work, d, i) = 0
      BY <3>1, AcyclicInstances DEF ForwardWorkload
    <3>. QED  BY <3>2 DEF U
  <2>6. Predecessors(i) \subseteq D
    BY <2>5 DEF Predecessors
  <2>. DEFINE E == D \cup {i}
              q == [p EXCEPT ![i] = Longest(p, i)]
  <2>7. Cardinality(E) = m
    <3>1. IsFiniteSet(D)
      BY <1>1, FS_Subset
    <3>2. Cardinality(E) = Cardinality(D) + 1
      BY <3>1, <2>5, FS_AddElement
    <3>. QED  BY <3>2, <2>1, <1>1
  <2>8. q \in [I -> Nat]
    BY <1>3, <2>5
  <2>9. \A d \in D : q[d] = p[d]
    BY <2>5
  <2>10. \A j \in E : Predecessors(j) \subseteq D
    BY <2>3, <2>6
  <2>11. ASSUME NEW j \in E PROVE Longest(q, j) = Longest(p, j)
    <3>1. {q[d] : d \in Predecessors(j)} = {p[d] : d \in Predecessors(j)}
      BY <2>9, <2>10
    <3>. QED  BY <3>1 DEF Longest
  <2>12. ASSUME NEW j \in E PROVE q[j] = Longest(q, j)
    <3>1. CASE j = i
      BY <3>1, <2>5, <2>11
    <3>2. CASE j \in D
      BY <3>2, <2>2, <2>9, <2>11
    <3>. QED  BY <3>1, <3>2
  <2>13. \A j \in E : Predecessors(j) \subseteq E
    BY <2>10
  <2>14. E \in SUBSET I
    BY <2>5
  <2>. HIDE DEF q, E
  <2>15. Solved(E)
    BY <2>8, <2>12, <2>13 DEF Solved
  <2>16. m \in 0 .. N
    BY <1>1
  <2>. QED  BY <2>7, <2>14, <2>15, <2>16
<1>. HIDE DEF T, Solved
<1>5. N \in T
  <2>. HIDE DEF N
  <2>0. N \in Nat
    BY <1>1 DEF N
  <2>1. \A m \in 0 .. N : m \in T
    BY <2>0, <1>2, <1>4, Induction
  <2>. QED  BY <2>0, <2>1
<1>6. PICK D \in SUBSET I : Cardinality(D) = Cardinality(I) /\ Solved(D)
  BY <1>5 DEF T
<1>7. D = I
  BY <1>1, <1>6, FS_Subset
<1>8. PICK p \in [I -> Nat] : \A i \in I : p[i] = Longest(p, i)
  BY <1>6, <1>7 DEF Solved
<1>. QED  BY <1>8 DEF IsPath

(* The critical path is the longest of all these chains, and each of them  *)
(* is as long as the durations on it.                                      *)
LEMMA CriticalPathIs ==
    ASSUME work \in ForwardWorkload, ~HasCycle(work), NEW latency \in Nat
    PROVE  \E p : /\ IsPath(p, latency)
                  /\ CriticalPath(latency)
                        = Max({0} \cup {p[i] : i \in Instances(work)})
<1>. DEFINE Body(g) == [i \in Instances(work) |->
                           Duration(i, latency)
                           + Max({0} \cup {g[d] : d \in Predecessors(i)})]
            h == CHOOSE g : g = Body(g)
<1>1. CriticalPath(latency) = Max({0} \cup {h[i] : i \in Instances(work)})
  BY DEF CriticalPath
<1>2. PICK p : IsPath(p, latency)
  BY PathExists
<1>3. p = Body(p)
  BY <1>2 DEF IsPath
<1>4. h = Body(h)
  BY <1>3
<1>. HIDE DEF h
<1>5. \A i \in Instances(work) :
         h[i] = Duration(i, latency)
                + Max({0} \cup {h[d] : d \in Predecessors(i)})
  BY <1>4
<1>. DEFINE T == {i \in Instances(work) : h[i] \in Nat}
<1>6. ASSUME NEW i \in Instances(work), Predecessors(i) \subseteq T
      PROVE  i \in T
  <2>. DEFINE D == Predecessors(i)
              m == Max({0} \cup {h[d] : d \in D})
  <2>1. IsFiniteSet(D)
    BY InstancesFinite, FS_Subset DEF Predecessors, ForwardWorkload
  <2>2. \A d \in D : h[d] \in Nat
    BY <1>6
  <2>. HIDE DEF D
  <2>3. m \in Nat
    BY ONLY <2>1, <2>2, LargestValue
  <2>. HIDE DEF m
  <2>4. Duration(i, latency) \in Nat
    BY DurationType
  <2>5. h[i] = Duration(i, latency) + m
    BY <1>5 DEF m, D
  <2>. QED  BY <2>3, <2>4, <2>5
<1>. HIDE DEF T
<1>7. Instances(work) \subseteq T
  BY <1>6, GraphInduction
<1>8. h \in [Instances(work) -> Nat]
  <2>1. h = [i \in Instances(work) |-> h[i]]
    BY <1>4
  <2>2. \A i \in Instances(work) : h[i] \in Nat
    BY <1>7 DEF T
  <2>. QED  BY <2>1, <2>2
<1>9. IsPath(h, latency)
  BY <1>5, <1>8 DEF IsPath
<1>. QED  BY <1>1, <1>9

(* The chain of an instance is longer than those of its predecessors, and  *)
(* no longer than one of them requires.                                    *)
LEMMA PathLengths ==
    ASSUME work \in ForwardWorkload, NEW latency \in Nat, NEW p, IsPath(p, latency),
           NEW i \in Instances(work)
    PROVE  /\ p[i] \in Nat /\ Duration(i, latency) \in Nat
           /\ p[i] >= Duration(i, latency)
           /\ \A d \in Predecessors(i) : p[i] >= Duration(i, latency) + p[d]
           /\ \/ p[i] = Duration(i, latency)
              \/ \E d \in Predecessors(i) : p[i] = Duration(i, latency) + p[d]
<1>. DEFINE D == Predecessors(i)
            m == Max({0} \cup {p[d] : d \in D})
            l == Duration(i, latency)
<1>1. IsFiniteSet(D) /\ D \subseteq Instances(work)
  BY InstancesFinite, FS_Subset DEF Predecessors, ForwardWorkload
<1>2. \A d \in D : p[d] \in Nat
  BY <1>1 DEF IsPath
<1>3. p[i] = l + m /\ p[i] \in Nat
  BY DEF IsPath
<1>4. l \in Nat
  BY DurationType
<1>. HIDE DEF D, l
<1>5. m \in Nat /\ (\A d \in D : p[d] <= m) /\ (m = 0 \/ \E d \in D : m = p[d])
  BY ONLY <1>1, <1>2, LargestValue
<1>. HIDE DEF m
<1>6. p[i] >= l /\ \A d \in D : p[i] >= l + p[d]
  BY <1>2, <1>3, <1>4, <1>5
<1>7. p[i] = l \/ \E d \in D : p[i] = l + p[d]
  BY <1>3, <1>4, <1>5
<1>. QED  BY <1>3, <1>4, <1>6, <1>7 DEF D, l

(* The operations executed so far need no more than all of them.           *)
LEMMA ElapsedGrows ==
    ASSUME NEW w \in ForwardWorkload, NEW i \in Instances(w), NEW latency \in Nat,
           NEW n \in 0 .. Len(OpsOf(w, i))
    PROVE  /\ Elapsed(w, i, n, latency) \in Nat
           /\ Elapsed(w, i, n, latency) <= Elapsed(w, i, Len(OpsOf(w, i)), latency)
<1>. PICK ops \in Seq(Op) : ops = OpsOf(w, i)
  BY InstanceTypes DEF ForwardWorkload
<1>. PICK N \in Nat : N = Len(ops)
  OBVIOUS
<1>. DEFINE S == {k \in 0 .. N : Elapsed(w, i, N - k, latency)
                                    <= Elapsed(w, i, N, latency)}
<1>1. \A k \in 0 .. N : Elapsed(w, i, k, latency) \in Nat
  BY ElapsedSteps
<1>2. 0 \in S
  BY <1>1
<1>3. ASSUME NEW m \in 1 .. N, m - 1 \in S PROVE m \in S
  <2>1. N - m + 1 \in 1 .. N /\ N - m \in 0 .. N /\ N - m + 1 \in 0 .. N
    OBVIOUS
  <2>2. \A k \in 1 .. N : Elapsed(w, i, k, latency)
                    = Elapsed(w, i, k - 1, latency) + Cost(ops[k], latency)
    BY ElapsedSteps
  <2>3. Cost(ops[N - m + 1], latency) \in Nat
    <3>1. /\ ops[N - m + 1] \in Op
          /\ ops[N - m + 1].type = "Compute" => ops[N - m + 1].cycles >= 0
      BY <2>1 DEF ForwardWorkload, NonNegativeDurations
    <3>. QED  BY <3>1 DEF Cost, Op
  <2>. DEFINE before == Elapsed(w, i, N - m, latency)
              after == Elapsed(w, i, N - m + 1, latency)
              cost == Cost(ops[N - m + 1], latency)
  <2>4. before \in Nat /\ after \in Nat
    BY <1>1, <2>1
  <2>5. N - m + 1 - 1 = N - m /\ N - (m - 1) = N - m + 1
    OBVIOUS
  <2>6. after = before + cost
    <3>. HIDE DEF cost
    <3>1. Elapsed(w, i, N - m + 1, latency)
             = Elapsed(w, i, N - m + 1 - 1, latency) + cost
      BY <2>1, <2>2 DEF cost
    <3>. QED  BY <3>1, <2>5
  <2>7. after <= Elapsed(w, i, N, latency)
    BY <1>3, <2>5
  <2>8. Elapsed(w, i, N, latency) \in Nat
    BY <1>1
  <2>. HIDE DEF before, after, cost
  <2>9. before <= Elapsed(w, i, N, latency)
    BY <2>3, <2>4, <2>6, <2>7, <2>8 DEF cost
  <2>. QED  BY <2>9 DEF before
<1>. HIDE DEF S
<1>4. \A m \in 0 .. N : m \in S
  BY <1>2, <1>3, Induction
<1>5. N - n \in 0 .. N /\ N - (N - n) = n
  OBVIOUS
<1>. QED  BY <1>1, <1>4, <1>5 DEF S
-----------------------------------------------------------------------------
(* THE WORK THAT IS DONE                                                   *)

Timed == {"ComputeDone", "MemRespDone"}

(* The cycles spent at time t on an instance that has executed n of its    *)
(* operations, and whose next one ends with the event in ends, if it has   *)
(* begun.                                                                  *)
Worked(w, i, n, ends, t, latency) ==
    IF ends = {} THEN Elapsed(w, i, n, latency)
    ELSE Elapsed(w, i, n + 1, latency) - ((CHOOSE e \in ends : TRUE).time - t)

Done(i, latency) ==
    Worked(work, i, opIndex[i], EventsFor(i, Timed), now, latency)

Running == {i \in Instances(work) : EventsFor(i, Timed) # {}}

(* What a step adds to the work done on i.                                 *)
Advance(i) == IF i \in Running THEN now' - now ELSE 0

(* Between two operations.                                                 *)
LEMMA WorkedWhole ==
    ASSUME NEW w, NEW i, NEW n, NEW t, NEW latency
    PROVE  Worked(w, i, n, {}, t, latency) = Elapsed(w, i, n, latency)
BY DEF Worked

(* The choice among one event.                                             *)
LEMMA OneEnd ==
    ASSUME NEW f
    PROVE  (CHOOSE e \in {f} : TRUE) = f
OBVIOUS

(* A running instance has one event at which its operation ends.           *)
LEMMA EndOfOne ==
    ASSUME IInv, WInv, NEW f \in DOMAIN events, f.type \in Timed
    PROVE  /\ EventsFor(f.inst, Timed) = {f}
           /\ f.inst \in Instances(work) /\ f.inst \in Running
           /\ opIndex[f.inst] < OpCount(f.inst)
           /\ f.time \in Nat
<1>1. f \in Events /\ f.time \in Nat
  BY WellBehavedTypes
<1>2. EventsFor(f.inst, Timed) = {f}
  BY DEF WInv, OnePlace, EventsFor
<1>3. opIndex[f.inst] < OpCount(f.inst)
  BY DEF WInv, Progress, EventFits, Timed
<1>. QED  BY <1>1, <1>2, <1>3 DEF Events, Running

(* An instance whose operation goes on gets as much older as the clock.    *)
LEMMA WorkGoesOn ==
    ASSUME IInv, WInv, NEW i \in Instances(work), NEW latency \in Nat,
           work' = work, now' \in Nat, opIndex'[i] = opIndex[i],
           EventsFor(i, Timed)' = EventsFor(i, Timed)
    PROVE  /\ Done(i, latency)' = Done(i, latency) + Advance(i)
           /\ Done(i, latency) \in Int
<1>0. /\ now \in Nat /\ opIndex[i] \in Nat /\ work \in ForwardWorkload
      /\ OpsOf(work, i) \in Seq(Op) /\ Len(OpsOf(work, i)) \in Nat
      /\ OpCount(i) = Len(OpsOf(work, i)) /\ opIndex[i] <= OpCount(i)
  BY WellBehavedTypes DEF OpCount, WInv, Progress
<1>1. CASE EventsFor(i, Timed) = {}
  <2>1. Done(i, latency) = Elapsed(work, i, opIndex[i], latency)
    BY <1>1, WorkedWhole DEF Done
  <2>2. Done(i, latency)' = Elapsed(work, i, opIndex[i], latency)
    BY <1>1, WorkedWhole DEF Done
  <2>3. Elapsed(work, i, opIndex[i], latency) \in Nat
    <3>1. opIndex[i] \in 0 .. Len(OpsOf(work, i))
      BY <1>0
    <3>. QED  BY <1>0, <3>1, ElapsedGrows
  <2>4. Advance(i) = 0
    BY <1>1 DEF Advance, Running
  <2>. QED  BY <2>1, <2>2, <2>3, <2>4
<1>2. CASE EventsFor(i, Timed) # {}
  <2>1. PICK f \in DOMAIN events : f.inst = i /\ f.type \in Timed
    BY <1>2 DEF EventsFor
  <2>2. EventsFor(i, Timed) = {f} /\ f.time \in Nat /\ opIndex[i] < OpCount(i)
    BY <2>1, EndOfOne
  <2>. DEFINE next == Elapsed(work, i, opIndex[i] + 1, latency)
  <2>3. /\ Done(i, latency) = Worked(work, i, opIndex[i], {f}, now, latency)
        /\ Done(i, latency)' = Worked(work, i, opIndex[i], {f}, now', latency)
    BY <2>2 DEF Done
  <2>4. /\ Done(i, latency) = next - (f.time - now)
        /\ Done(i, latency)' = next - (f.time - now')
    <3>1. Worked(work, i, opIndex[i], {f}, now, latency) = next - (f.time - now)
      BY OneEnd DEF Worked
    <3>2. Worked(work, i, opIndex[i], {f}, now', latency) = next - (f.time - now')
      BY OneEnd DEF Worked
    <3>. HIDE DEF next
    <3>. QED  BY <2>3, <3>1, <3>2
  <2>5. Elapsed(work, i, opIndex[i] + 1, latency) \in Nat
    <3>1. opIndex[i] + 1 \in 0 .. Len(OpsOf(work, i))
      BY <1>0, <2>2
    <3>. QED  BY <1>0, <3>1, ElapsedGrows
  <2>6. Advance(i) = now' - now
    BY <1>2 DEF Advance, Running
  <2>. PICK from, to, step, before, after, all, at :
          /\ from = now /\ to = now' /\ step = Advance(i) /\ all = next
          /\ before = Done(i, latency) /\ after = Done(i, latency)' /\ at = f.time
    OBVIOUS
  <2>7. /\ from \in Nat /\ to \in Nat /\ at \in Nat /\ all \in Nat
        /\ before = all - (at - from) /\ after = all - (at - to)
        /\ step = to - from
    BY <1>0, <2>2, <2>4, <2>5, <2>6
  <2>8. after = before + step /\ before \in Int
    BY ONLY <2>7
  <2>. QED  BY <2>8
<1>. QED  BY <1>1, <1>2

(* A handler that puts f in the place of e.                                *)
LEMMA EndReplaced ==
    ASSUME IInv, WInv, NEW e \in DOMAIN events, NEW f, f.inst = e.inst,
           events' = Push(Pop(events, e), f)
    PROVE  /\ \A i : i # e.inst => EventsFor(i, Timed)' = EventsFor(i, Timed)
           /\ EventsFor(e.inst, Timed) = IF e.type \in Timed THEN {e} ELSE {}
           /\ EventsFor(e.inst, Timed)' = IF f.type \in Timed THEN {f} ELSE {}
<1>. DEFINE q == Push(Pop(events, e), f)
<1>1. DOMAIN q = (DOMAIN events \ {e}) \cup {f}
  BY PushedOnce
<1>2. DOMAIN events' = (DOMAIN events \ {e}) \cup {f}
  BY <1>1
<1>3. \A g \in DOMAIN events : g.inst = e.inst => g = e
  BY DEF WInv, OnePlace
<1>. HIDE DEF q
<1>4. \A i : i # e.inst => EventsFor(i, Timed)' = EventsFor(i, Timed)
  BY <1>2 DEF EventsFor
<1>5. EventsFor(e.inst, Timed) = IF e.type \in Timed THEN {e} ELSE {}
  BY <1>3 DEF EventsFor
<1>6. EventsFor(e.inst, Timed)' = IF f.type \in Timed THEN {f} ELSE {}
  BY <1>2, <1>3 DEF EventsFor
<1>. QED  BY <1>4, <1>5, <1>6

(* Handlers that neither begin nor end an operation.                       *)
LEMMA EndsStay ==
    ASSUME IInv, NEW e \in DOMAIN events, HandleTaskReady(e) \/ HandleTaskDone(e)
    PROVE  \A i : EventsFor(i, Timed)' = EventsFor(i, Timed)
<1>1. e.type \notin Timed
  BY DEF HandleTaskReady, HandleTaskDone, Popped, Timed
<1>2. DOMAIN events \ {e} \subseteq DOMAIN events'
  BY ReadyLeaves, DoneLeaves
<1>. DEFINE new == {TaskReady(i, now') :
                       i \in ReadyInstances(work, inDegree', opIndex, readyTime)}
            p == Pop(events, e)
            q == PushAll(p, new)
<1>3. IsABag(p) /\ DOMAIN p \subseteq DOMAIN events
  BY PoppedEvent
<1>4. \A g \in new : g.type \notin Timed
  BY DEF TaskReady, Event, Timed
<1>. HIDE DEF p, new
<1>5. IsABag(q) /\ DOMAIN q = (DOMAIN p) \cup new
  BY ONLY <1>3, PushAllBag
<1>. HIDE DEF q
<1>6. \/ events' = p \/ events' = q
      \/ \E f : f.type \notin Timed /\ (events' = Push(p, f) \/ events' = Push(q, f))
  BY DEF HandleTaskReady, HandleTaskDone, Dispatch, Event, Timed, p, q, new
<1>7. \A f : DOMAIN Push(p, f) = (DOMAIN p) \cup {f}
  BY <1>3, PushBag
<1>8. \A f : DOMAIN Push(q, f) = (DOMAIN q) \cup {f}
  BY <1>5, PushBag
<1>9. \A g \in DOMAIN events' : g \in DOMAIN events \/ g.type \notin Timed
  <2>. SUFFICES ASSUME NEW g \in DOMAIN events', g.type \in Timed
                PROVE  g \in DOMAIN events
    OBVIOUS
  <2>1. CASE events' = p \/ events' = q
    BY <1>3, <1>4, <1>5, <2>1
  <2>2. CASE \E f : f.type \notin Timed /\ events' = Push(p, f)
    BY <1>3, <1>7, <2>2
  <2>3. CASE \E f : f.type \notin Timed /\ events' = Push(q, f)
    <3>1. PICK f : f.type \notin Timed /\ events' = Push(q, f)
      BY <2>3
    <3>2. DOMAIN events' = (DOMAIN q) \cup {f}
      BY ONLY <1>8, <3>1
    <3>3. g \in DOMAIN q \/ g = f
      BY <3>2
    <3>. QED  BY <1>3, <1>4, <1>5, <3>1, <3>3
  <2>. QED  BY <1>6, <2>1, <2>2, <2>3
<1>. QED  BY <1>1, <1>2, <1>9 DEF EventsFor

(* How the work done on i changes in a step: as the time that passes, but  *)
(* that a memory request may take longer than the shortest time and less   *)
(* than the longest.                                                       *)
WorkFits(i, latency) ==
    /\ Done(i, latency) \in Int /\ Done(i, latency)' \in Int
    /\ (\A m \in MemLatencies : latency <= m) =>
          Done(i, latency)' <= Done(i, latency) + Advance(i)
    /\ (\A m \in MemLatencies : m <= latency) =>
          Done(i, latency)' >= Done(i, latency) + Advance(i)

(* Simulated time does not go back.                                        *)
LEMMA AdvanceType ==
    ASSUME now \in Nat, now' \in Nat, now' >= now
    PROVE  \A i : Advance(i) \in Nat
<1>. PICK a, b : a = now /\ b = now'
  OBVIOUS
<1>1. b - a \in Nat
  <2>1. a \in Nat /\ b \in Nat /\ b >= a
    OBVIOUS
  <2>. QED  BY ONLY <2>1
<1>. QED  BY <1>1 DEF Advance

(* What is scheduled at t for the end of the n-th operation of instance i, *)
(* when it begins.                                                         *)
EndsAtStart(w, i, n, c, t) ==
    LET f == OpEvent(OpsOf(w, i)[n + 1], c, i, t)
    IN  IF f.type \in Timed THEN {f} ELSE {}

(* An operation that has just begun has not been worked on.                *)
LEMMA BegunWork ==
    ASSUME work \in ForwardWorkload, NEW i \in Instances(work), NEW latency \in Nat,
           NEW n, n \in Nat, n < Len(OpsOf(work, i)), NEW c, NEW t, t \in Nat
    PROVE  Worked(work, i, n, EndsAtStart(work, i, n, c, t), t, latency)
              = Elapsed(work, i, n, latency)
<1>. PICK f, ends : /\ f = OpEvent(OpsOf(work, i)[n + 1], c, i, t)
                    /\ ends = IF f.type \in Timed THEN {f} ELSE {}
  OBVIOUS
<1>. SUFFICES Worked(work, i, n, ends, t, latency) = Elapsed(work, i, n, latency)
  BY DEF EndsAtStart
<1>. PICK ops \in Seq(Op) : ops = OpsOf(work, i)
  BY InstanceTypes DEF ForwardWorkload
<1>1. n + 1 \in 1 .. Len(ops) /\ ops[n + 1] \in Op
  OBVIOUS
<1>. DEFINE op == ops[n + 1]
            before == Elapsed(work, i, n, latency)
            after == Elapsed(work, i, n + 1, latency)
<1>2. /\ f.type = IF op.type = "Compute" THEN "ComputeDone" ELSE "MemReqIssued"
      /\ op.type = "Compute" => f.time = t + op.cycles
  BY DEF OpEvent, Event
<1>3. after = before + Cost(op, latency) /\ before \in Nat
  <2>1. n \in 0 .. Len(OpsOf(work, i)) /\ n + 1 - 1 = n
    BY <1>1
  <2>2. before \in Nat
    BY <2>1, ElapsedGrows
  <2>3. Elapsed(work, i, n + 1, latency)
           = Elapsed(work, i, n + 1 - 1, latency) + Cost(OpsOf(work, i)[n + 1], latency)
    <3>1. \A k \in 1 .. Len(OpsOf(work, i)) :
             Elapsed(work, i, k, latency)
                = Elapsed(work, i, k - 1, latency)
                     + Cost(OpsOf(work, i)[k], latency)
      BY ElapsedSteps
    <3>. QED  BY <1>1, <3>1
  <2>. QED  BY <2>1, <2>2, <2>3
<1>4. CASE op.type = "Compute"
  <2>1. ends = {f}
    BY <1>2, <1>4 DEF Timed
  <2>2. Worked(work, i, n, {f}, t, latency) = after - (f.time - t)
    BY OneEnd DEF Worked
  <2>3. op.cycles \in Int /\ Cost(op, latency) = op.cycles
    BY <1>1, <1>4 DEF Op, Cost
  <2>4. f.time - t = op.cycles
    BY <1>2, <1>4, <2>3
  <2>5. after - (f.time - t) = before
    <3>. HIDE DEF before, after, op
    <3>. QED  BY <1>3, <2>3, <2>4
  <2>. QED  BY <2>1, <2>2, <2>5
<1>5. CASE op.type # "Compute"
  <2>1. ends = {}
    BY <1>2, <1>5 DEF Timed
  <2>. QED  BY <2>1, WorkedWhole
<1>. QED  BY <1>4, <1>5

(* The number of operations executed is one of those a sum is known for.   *)
LEMMA IndexInRange ==
    ASSUME IInv, WInv, NEW i \in Instances(work), NEW n \in 0 .. OpCount(i),
           NEW latency \in Nat
    PROVE  Elapsed(work, i, n, latency) \in Nat
<1>1. work \in ForwardWorkload /\ OpCount(i) = Len(OpsOf(work, i))
  BY WellBehavedTypes DEF OpCount
<1>. QED  BY <1>1, ElapsedGrows

(* All instances but the one of the event keep their operations.           *)
LEMMA OthersGoOn ==
    ASSUME IInv, WInv, NEW latency \in Nat, work' = work,
           now' \in Nat, now' >= now, NEW j,
           \A i \in Instances(work) \ {j} :
              opIndex'[i] = opIndex[i] /\ EventsFor(i, Timed)' = EventsFor(i, Timed)
    PROVE  \A i \in Instances(work) \ {j} : WorkFits(i, latency)
<1>. SUFFICES ASSUME NEW i \in Instances(work) \ {j}
              PROVE  WorkFits(i, latency)
  OBVIOUS
<1>1. now \in Nat
  BY WellBehavedTypes
<1>2. Advance(i) \in Nat
  BY <1>1, AdvanceType
<1>3. /\ Done(i, latency)' = Done(i, latency) + Advance(i)
      /\ Done(i, latency) \in Int
  BY WorkGoesOn
<1>. QED  BY <1>2, <1>3 DEF WorkFits

(* A dispatch begins the first operation of its instance.                  *)
LEMMA DispatchedWork ==
    ASSUME IInv, WInv, NEW e \in DOMAIN events, HandleTaskDispatched(e),
           NEW latency \in Nat
    PROVE  \A i \in Instances(work) : WorkFits(i, latency)
<1>. PICK j, n : j = e.inst /\ n = opIndex[j]
  OBVIOUS
<1>1. /\ e.type = "TaskDispatched" /\ j \in Instances(work)
      /\ work' = work /\ now' \in Nat /\ now' >= now
      /\ e.core # NoCore /\ cores[e.core] = IdleCore
      /\ opIndex[j] = 0
  BY WPoppedBy DEF HandleTaskDispatched, CoreStateFits, EventFits
<1>2. opIndex \in [Instances(work) -> Nat] /\ 0 < OpCount(j)
      /\ work \in ForwardWorkload
  BY <1>1, WellBehavedTypes DEF IInv, TypeOK
<1>3. /\ ExecuteOp(e.core, j, n, Pop(events, e)) /\ opIndex' = opIndex
  BY <1>1, <1>2 DEF HandleTaskDispatched, OpCount, IdleCore, graphVars
<1>. PICK f : f = OpEvent(OpsOf(work, j)[n + 1], e.core, j, now')
  OBVIOUS
<1>4. events' = Push(Pop(events, e), f) /\ f.inst = j
  BY <1>3 DEF ExecuteOp, OpEvent, Event
<1>5. /\ \A i : i # j => EventsFor(i, Timed)' = EventsFor(i, Timed)
      /\ EventsFor(j, Timed) = IF e.type \in Timed THEN {e} ELSE {}
      /\ EventsFor(j, Timed)' = IF f.type \in Timed THEN {f} ELSE {}
  BY <1>4, EndReplaced
<1>6. Done(j, latency) = Elapsed(work, j, n, latency) /\ Advance(j) = 0
  <2>1. EventsFor(j, Timed) = {}
    BY <1>1, <1>5 DEF Timed
  <2>. QED  BY <2>1, WorkedWhole DEF Done, Advance, Running
<1>7. Done(j, latency)' = Elapsed(work, j, n, latency)
  <2>1. n \in Nat /\ n < Len(OpsOf(work, j))
    BY <1>1, <1>2 DEF OpCount
  <2>2. PICK t, c : t = now' /\ c = e.core
    OBVIOUS
  <2>. PICK ends : ends = EndsAtStart(work, j, n, c, t)
    OBVIOUS
  <2>3. EventsFor(j, Timed)' = ends
    BY <1>5, <2>2 DEF EndsAtStart
  <2>4. work \in ForwardWorkload /\ j \in Instances(work) /\ t \in Nat /\ latency \in Nat
    BY <1>1, <1>2, <2>2
  <2>5. Worked(work, j, n, ends, t, latency) = Elapsed(work, j, n, latency)
    BY ONLY <2>1, <2>4, ends = EndsAtStart(work, j, n, c, t), BegunWork
  <2>. QED  BY <1>1, <1>3, <2>2, <2>3, <2>5 DEF Done
<1>8. Elapsed(work, j, n, latency) \in Nat
  <2>1. n \in 0 .. OpCount(j)
    BY <1>1, <1>2, WellBehavedTypes DEF OpCount
  <2>. QED  BY <1>1, <2>1, IndexInRange
<1>9. WorkFits(j, latency)
  BY <1>6, <1>7, <1>8 DEF WorkFits
<1>10. \A i \in Instances(work) \ {j} : WorkFits(i, latency)
  BY <1>1, <1>3, <1>5, OthersGoOn
<1>. QED  BY <1>9, <1>10

(* An operation that ends has been worked on to its end.                   *)
LEMMA CompletedWork ==
    ASSUME IInv, WInv, NEW e \in DOMAIN events,
           e.type \in Timed, Popped(e, e.type), CompleteOp(e), NEW latency \in Nat
    PROVE  \A i \in Instances(work) : WorkFits(i, latency)
<1>. PICK j, n : j = e.inst /\ n = opIndex[j]
  OBVIOUS
<1>1. /\ j \in Instances(work)
      /\ now' = e.time /\ work' = work /\ now' \in Nat /\ now' >= now
      /\ e.core # NoCore /\ cores[e.core] = BusyWith(j)
      /\ n < OpCount(j)
  BY WPoppedBy DEF CoreStateFits, EventFits, Timed
<1>2. /\ cores[e.core].current = j /\ CanComplete(cores[e.core])
      /\ opIndex \in [Instances(work) -> Nat] /\ n \in Nat
      /\ OpCount(j) \in Nat /\ now \in Nat /\ work \in ForwardWorkload
      /\ OpCount(j) = Len(OpsOf(work, j))
  <2>1. j # NoInstance
    BY <1>1, WellBehavedTypes, InstanceTypes DEF NoInstance
  <2>. QED
    BY <2>1, <1>1, WellBehavedTypes DEF BusyWith, CanComplete, IInv, TypeOK, OpCount
<1>3. /\ opIndex' = [opIndex EXCEPT ![j] = @ + 1]
      /\ \/ events' = Push(Pop(events, e),
                  Event("TaskDone", now', e.core, j, NoAddress))
         \/ /\ opIndex'[j] < OpCount(j)
            /\ ExecuteOp(e.core, j, opIndex'[j], Pop(events, e))
  BY <1>2 DEF CompleteOp, OpCount
<1>4. /\ \A i \in Instances(work) \ {j} : opIndex'[i] = opIndex[i]
      /\ opIndex'[j] = n + 1
  BY <1>1, <1>2, <1>3
<1>. DEFINE next == Elapsed(work, j, n + 1, latency)
<1>5. next \in Nat
  <2>1. n + 1 \in 0 .. OpCount(j)
    BY <1>1, <1>2
  <2>. QED  BY <1>1, <2>1, IndexInRange
<1>6. EventsFor(j, Timed) = {e} /\ Advance(j) = now' - now
  <2>1. EventsFor(j, Timed) = {e} /\ j \in Running
    BY EndOfOne
  <2>. QED  BY <2>1 DEF Advance
<1>7. Done(j, latency) = next - (now' - now)
  <2>1. Done(j, latency) = Worked(work, j, n, {e}, now, latency)
    BY <1>6 DEF Done
  <2>2. Worked(work, j, n, {e}, now, latency) = next - (e.time - now)
    BY OneEnd DEF Worked
  <2>. QED  BY <1>1, <2>1, <2>2
<1>8. ASSUME NEW f, f.inst = j, events' = Push(Pop(events, e), f),
             Worked(work, j, n + 1, IF f.type \in Timed THEN {f} ELSE {}, now',
                    latency) = next
      PROVE  \A i \in Instances(work) : WorkFits(i, latency)
  <2>1. /\ \A i : i # j => EventsFor(i, Timed)' = EventsFor(i, Timed)
        /\ EventsFor(j, Timed)' = IF f.type \in Timed THEN {f} ELSE {}
    BY <1>8, EndReplaced
  <2>2. Done(j, latency)' = next
    BY <1>1, <1>4, <1>8, <2>1 DEF Done
  <2>. HIDE DEF next
  <2>3. WorkFits(j, latency)
    <3>. PICK from, to : from = now /\ to = now'
      OBVIOUS
    <3>1. /\ from \in Nat /\ to \in Nat /\ next \in Nat
      BY <1>1, <1>2, <1>5
    <3>2. next <= next - (to - from) + (to - from) /\ next - (to - from) \in Int
      BY ONLY <3>1
    <3>. QED  BY <1>5, <1>6, <1>7, <2>2, <3>1, <3>2 DEF WorkFits
  <2>4. \A i \in Instances(work) \ {j} : WorkFits(i, latency)
    BY <1>1, <1>4, <2>1, OthersGoOn
  <2>. QED  BY <2>3, <2>4
<1>9. CASE events' = Push(Pop(events, e),
                          Event("TaskDone", now', e.core, j, NoAddress))
  <2>. PICK f : f = Event("TaskDone", now', e.core, j, NoAddress)
    OBVIOUS
  <2>1. f.inst = j /\ f.type \notin Timed /\ events' = Push(Pop(events, e), f)
    BY <1>9 DEF Event, Timed
  <2>2. Worked(work, j, n + 1, {}, now', latency) = next
    BY WorkedWhole
  <2>. QED  BY <1>8, <2>1, <2>2
<1>10. CASE /\ opIndex'[j] < OpCount(j)
            /\ ExecuteOp(e.core, j, opIndex'[j], Pop(events, e))
  <2>. PICK f : f = OpEvent(OpsOf(work, j)[n + 1 + 1], e.core, j, now')
    OBVIOUS
  <2>1. events' = Push(Pop(events, e), f) /\ f.inst = j
    BY <1>4, <1>10 DEF ExecuteOp, OpEvent, Event
  <2>2. n + 1 \in Nat /\ n + 1 < Len(OpsOf(work, j))
    BY <1>2, <1>4, <1>10
  <2>3. Worked(work, j, n + 1, IF f.type \in Timed THEN {f} ELSE {}, now', latency)
           = next
    <3>. PICK k, t, c : k = n + 1 /\ t = now' /\ c = e.core
      OBVIOUS
    <3>. PICK ends : ends = EndsAtStart(work, j, k, c, t)
      OBVIOUS
    <3>1. k \in Nat /\ k < Len(OpsOf(work, j)) /\ latency \in Nat
      BY <2>2
    <3>2. work \in ForwardWorkload /\ j \in Instances(work) /\ t \in Nat
      BY <1>1, <1>2
    <3>3. ends = IF f.type \in Timed THEN {f} ELSE {}
      BY DEF EndsAtStart
    <3>4. Worked(work, j, k, ends, t, latency) = Elapsed(work, j, k, latency)
      BY ONLY <3>1, <3>2, ends = EndsAtStart(work, j, k, c, t), BegunWork
    <3>. QED  BY <3>3, <3>4
  <2>. QED  BY <1>8, <2>1, <2>3
<1>. QED  BY <1>3, <1>9, <1>10

(* A request that is issued has just begun: its latency is one of those the*)
(* memory may answer with.                                                 *)
LEMMA IssuedWork ==
    ASSUME IInv, WInv, NEW e \in DOMAIN events, HandleMemReqIssued(e),
           NEW latency \in Nat
    PROVE  \A i \in Instances(work) : WorkFits(i, latency)
<1>. PICK j, n : j = e.inst /\ n = opIndex[j]
  OBVIOUS
<1>. DEFINE before == Elapsed(work, j, n, latency)
            after == Elapsed(work, j, n + 1, latency)
<1>1. /\ e.type = "MemReqIssued" /\ j \in Instances(work)
      /\ work' = work /\ now' \in Nat /\ now' >= now
      /\ n < OpCount(j) /\ NextOp(e).type = "Memory"
  BY WPoppedBy DEF HandleMemReqIssued, EventFits
<1>2. opIndex' = opIndex /\ n \in Nat /\ OpCount(j) = Len(OpsOf(work, j))
      /\ OpCount(j) \in Nat /\ work \in ForwardWorkload
  BY <1>1, WellBehavedTypes DEF HandleMemReqIssued, graphVars, OpCount
<1>3. PICK m \in MemLatencies :
         events' = Push(Pop(events, e),
            Event("MemRespDone", now' + m, e.core, j, e.address))
  BY DEF HandleMemReqIssued
<1>. PICK f : f = Event("MemRespDone", now' + m, e.core, j, e.address)
  OBVIOUS
<1>4. /\ f.inst = j /\ f.type \in Timed /\ f.time = now' + m /\ m \in Nat
      /\ events' = Push(Pop(events, e), f)
  BY <1>3, SimulatorAssumption DEF Event, Timed
<1>5. /\ \A i : i # j => EventsFor(i, Timed)' = EventsFor(i, Timed)
      /\ EventsFor(j, Timed) = {} /\ EventsFor(j, Timed)' = {f}
  <2>1. /\ \A i : i # j => EventsFor(i, Timed)' = EventsFor(i, Timed)
        /\ EventsFor(j, Timed) = IF e.type \in Timed THEN {e} ELSE {}
        /\ EventsFor(j, Timed)' = IF f.type \in Timed THEN {f} ELSE {}
    BY <1>4, EndReplaced
  <2>. QED  BY <1>1, <1>4, <2>1 DEF Timed
<1>6. before \in Nat /\ after = before + latency
  <2>1. n \in 0 .. OpCount(j) /\ n + 1 \in 1 .. Len(OpsOf(work, j)) /\ n + 1 - 1 = n
    BY <1>1, <1>2
  <2>2. before \in Nat
    BY <1>1, <2>1, IndexInRange
  <2>3. Cost(OpsOf(work, j)[n + 1], latency) = latency
    BY <1>1 DEF Cost, NextOp
  <2>4. Elapsed(work, j, n + 1, latency)
           = Elapsed(work, j, n + 1 - 1, latency)
                + Cost(OpsOf(work, j)[n + 1], latency)
    <3>1. \A k \in 1 .. Len(OpsOf(work, j)) :
             Elapsed(work, j, k, latency)
                = Elapsed(work, j, k - 1, latency)
                     + Cost(OpsOf(work, j)[k], latency)
      BY <1>1, <1>2, ElapsedSteps
    <3>. QED  BY <2>1, <3>1
  <2>. QED  BY <2>1, <2>2, <2>3, <2>4
<1>7. Done(j, latency) = before /\ Advance(j) = 0
  BY <1>5, WorkedWhole DEF Done, Advance, Running
<1>8. Done(j, latency)' = after - m
  <2>1. Done(j, latency)' = Worked(work, j, n, {f}, now', latency)
    BY <1>1, <1>2, <1>5 DEF Done
  <2>2. Worked(work, j, n, {f}, now', latency) = after - (f.time - now')
    BY OneEnd DEF Worked
  <2>. HIDE DEF after
  <2>3. f.time - now' = m
    BY <1>1, <1>4
  <2>. QED  BY <2>1, <2>2, <2>3
<1>. HIDE DEF before, after
<1>9. WorkFits(j, latency)
  <2>1. Done(j, latency) \in Int /\ Done(j, latency)' \in Int
    BY <1>4, <1>6, <1>7, <1>8
  <2>2. (\A k \in MemLatencies : latency <= k) =>
            Done(j, latency)' <= Done(j, latency) + Advance(j)
    BY <1>4, <1>6, <1>7, <1>8
  <2>3. (\A k \in MemLatencies : k <= latency) =>
            Done(j, latency)' >= Done(j, latency) + Advance(j)
    BY <1>4, <1>6, <1>7, <1>8
  <2>. QED  BY <2>1, <2>2, <2>3 DEF WorkFits
<1>10. \A i \in Instances(work) \ {j} : WorkFits(i, latency)
  BY <1>1, <1>2, <1>5, OthersGoOn
<1>. QED  BY <1>9, <1>10

(* In every step of the simulator.                                         *)
LEMMA WorkOfStep ==
    ASSUME IInv, WInv, NEW e \in DOMAIN events,
           \/ HandleTaskReady(e) \/ HandleTaskDispatched(e)
           \/ HandleComputeDone(e) \/ HandleMemReqIssued(e)
           \/ HandleMemRespDone(e) \/ HandleTaskDone(e),
           NEW latency \in Nat
    PROVE  \A i \in Instances(work) : WorkFits(i, latency)
<1>1. CASE HandleTaskReady(e) \/ HandleTaskDone(e)
  <2>1. \E type : Popped(e, type)
    BY <1>1 DEF HandleTaskReady, HandleTaskDone
  <2>2. work' = work /\ now' \in Nat /\ now' >= now
    BY <2>1, WPoppedBy
  <2>3. opIndex' = opIndex
    BY <1>1 DEF HandleTaskReady, HandleTaskDone, graphVars
  <2>4. \A i : EventsFor(i, Timed)' = EventsFor(i, Timed)
    BY <1>1, EndsStay
  <2>5. PICK j : j \notin Instances(work)
    <3>1. <<0, 0>> \notin Instances(work)
      BY WellBehavedTypes, InstanceTypes
    <3>. QED  BY <3>1
  <2>6. \A i \in Instances(work) \ {j} : WorkFits(i, latency)
    BY <2>2, <2>3, <2>4, OthersGoOn
  <2>. QED  BY <2>5, <2>6
<1>2. CASE HandleTaskDispatched(e)
  BY <1>2, DispatchedWork
<1>3. CASE HandleMemReqIssued(e)
  BY <1>3, IssuedWork
<1>4. CASE HandleComputeDone(e) \/ HandleMemRespDone(e)
  <2>1. e.type \in Timed /\ Popped(e, e.type) /\ CompleteOp(e)
    BY <1>4 DEF HandleComputeDone, HandleMemRespDone, Popped, Timed
  <2>. QED  BY <2>1, CompletedWork
<1>. QED  BY <1>1, <1>2, <1>3, <1>4

(* THE CLOCK                                                               *)

(* Everything but the end of an operation is due at once.                  *)
ImmediateNow == \A g \in DOMAIN events : g.type \notin Timed => g.time = now

Handles(e) ==
    \/ HandleTaskReady(e) \/ HandleTaskDispatched(e)
    \/ HandleComputeDone(e) \/ HandleMemReqIssued(e)
    \/ HandleMemRespDone(e) \/ HandleTaskDone(e)

(* Time passes to the earliest event, which is the one that is handled.    *)
LEMMA HandledEvent ==
    ASSUME IInv, WInv, NEW e \in DOMAIN events, Handles(e)
    PROVE  /\ e \in Earliest(events) /\ e \in Events
           /\ e.inst \in Instances(work)
           /\ now' = e.time /\ work' = work
           /\ now \in Nat /\ now' \in Nat /\ now' >= now
           /\ \A g \in DOMAIN events : g.time \in Nat /\ now' <= g.time
<1>1. \E type : Popped(e, type)
  BY DEF Handles, HandleTaskReady, HandleTaskDispatched, HandleComputeDone,
     HandleMemReqIssued, HandleMemRespDone, HandleTaskDone
<1>2. /\ e \in Earliest(events) /\ e \in Events /\ e.inst \in Instances(work)
      /\ now' = e.time /\ work' = work /\ now' \in Nat /\ now' >= now
  BY <1>1, PoppedBy, WPoppedBy
<1>3. now \in Nat /\ \A g \in DOMAIN events : g.time \in Nat
  BY WellBehavedTypes
<1>4. \A g \in DOMAIN events : e.time <= g.time
  BY <1>2, <1>3 DEF Earliest, Before
<1>. QED  BY <1>2, <1>3, <1>4

(* A handler schedules its events for the current cycle, or the end of an  *)
(* operation.                                                              *)
LEMMA ImmediateStep ==
    ASSUME IInv, WInv, ImmediateNow, NEW e \in DOMAIN events, Handles(e)
    PROVE  ImmediateNow'
<1>. SUFFICES ASSUME NEW g \in DOMAIN events', g.type \notin Timed
              PROVE  g.time = now'
  BY DEF ImmediateNow, Timed
<1>1. g \in DOMAIN events \/ g.time = now'
  BY NewEventsNow DEF Handles, Timed
<1>2. CASE g \in DOMAIN events
  <2>1. g.time = now /\ g.time \in Nat /\ now' \in Nat
        /\ now' <= g.time /\ now' >= now
    BY <1>2, HandledEvent DEF ImmediateNow
  <2>. QED  BY <2>1
<1>. QED  BY <1>1, <1>2

(* When time passes, all that goes on is operations.                       *)
LEMMA TimePasses ==
    ASSUME IInv, WInv, ImmediateNow, NEW e \in DOMAIN events, Handles(e),
           now' # now
    PROVE  \A g \in DOMAIN events : g.type \in Timed
<1>. SUFFICES ASSUME NEW g \in DOMAIN events, g.type \notin Timed
              PROVE  FALSE
  OBVIOUS
<1>1. g.time = now /\ g.time \in Nat /\ now' \in Nat
      /\ now' <= g.time /\ now' >= now
  BY HandledEvent DEF ImmediateNow
<1>. QED  BY <1>1
-----------------------------------------------------------------------------
(* Each running instance has a core of its own.                            *)
EndOf(i) == CHOOSE f \in EventsFor(i, Timed) : TRUE

(* A running instance has its event on the core it occupies.               *)
LEMMA RunningEnds ==
    ASSUME IInv, NEW i \in Running
    PROVE  /\ EndOf(i) \in DOMAIN events /\ EndOf(i).inst = i
           /\ EndOf(i).type \in Timed
           /\ EndOf(i) \in CoreEvents /\ EndOf(i).core \in Cores
<1>1. EndOf(i) \in EventsFor(i, Timed)
  BY DEF Running, EndOf
<1>2. EndOf(i) \in DOMAIN events /\ EndOf(i).inst = i /\ EndOf(i).type \in Timed
  BY <1>1 DEF EventsFor
<1>3. EndOf(i).core # NoCore
  BY <1>2 DEF IInv, CoreProtocol, Timed
<1>4. EndOf(i) \in Events
  BY <1>2 DEF IInv, TypeOK, Events
<1>. QED  BY <1>2, <1>3, <1>4 DEF CoreEvents, Events

(* There are NumCores cores.                                               *)
LEMMA CoresCount == IsFiniteSet(Cores) /\ Cardinality(Cores) = NumCores
<1>1. NumCores \in Nat \ {0} /\ NumCores - 1 \in Int
  BY SchedulerAssumption
<1>2. IsFiniteSet(0 .. NumCores - 1)
      /\ Cardinality(0 .. NumCores - 1)
            = IF 0 > NumCores - 1 THEN 0 ELSE NumCores - 1 - 0 + 1
  BY <1>1, FS_Interval
<1>3. ~(0 > NumCores - 1) /\ NumCores - 1 - 0 + 1 = NumCores
  BY <1>1
<1>. QED  BY <1>2, <1>3 DEF Cores

(* No more instances run than there are cores.                             *)
LEMMA RunningFits ==
    ASSUME IInv, WInv
    PROVE  /\ Running \in SUBSET Instances(work)
           /\ IsFiniteSet(Running) /\ Cardinality(Running) \in Nat
           /\ Cardinality(Running) <= NumCores
<1>. PICK f : f = [i \in Running |-> EndOf(i).core]
  OBVIOUS
<1>1. f \in [Running -> Cores]
  BY RunningEnds
<1>2. ASSUME NEW i \in Running, NEW j \in Running, f[i] = f[j] PROVE i = j
  <2>1. EndOf(i) = EndOf(j)
    BY <1>2, RunningEnds DEF IInv, CoreProtocol
  <2>. QED  BY <2>1, RunningEnds
<1>3. f \in Injection(Running, Cores)
  BY <1>1, <1>2 DEF Injection, IsInjective
<1>4. IsFiniteSet(Cores) /\ Cardinality(Cores) = NumCores
  BY CoresCount
<1>5. Running \in SUBSET Instances(work)
  BY DEF Running
<1>6. IsFiniteSet(Running) /\ Cardinality(Running) <= Cardinality(Cores)
  BY <1>3, <1>4, FS_Injection
<1>7. Cardinality(Running) \in Nat
  BY <1>6, FS_CardinalityType
<1>. QED  BY <1>4, <1>5, <1>6, <1>7

(* All cores run when each has an event and all events are ends.           *)
LEMMA AllCoresRun ==
    ASSUME IInv, WInv, \A g \in DOMAIN events : g.type \in Timed,
           \A c \in Cores : \E g \in CoreEvents : g.core = c
    PROVE  Cardinality(Running) = NumCores
<1>. PICK f : f = [c \in Cores |-> (CHOOSE g \in CoreEvents : g.core = c).inst]
  OBVIOUS
<1>. DEFINE ev(c) == CHOOSE g \in CoreEvents : g.core = c
<1>1. ASSUME NEW c \in Cores
      PROVE  ev(c) \in CoreEvents /\ ev(c).core = c /\ f[c] = ev(c).inst
  BY <1>1
<1>. HIDE DEF ev
<1>2. \A c \in Cores : ev(c) \in DOMAIN events /\ ev(c).type \in Timed
  BY <1>1 DEF CoreEvents
<1>3. f \in [Cores -> Running]
  <2>1. \A c \in Cores : f[c] \in Running
    BY <1>1, <1>2, EndOfOne
  <2>. QED  BY <2>1
<1>4. ASSUME NEW c \in Cores, NEW d \in Cores, f[c] = f[d] PROVE c = d
  <2>1. ev(c) = ev(d)
    BY <1>1, <1>2, <1>4 DEF WInv, OnePlace
  <2>. QED  BY <2>1, <1>1
<1>5. f \in Injection(Cores, Running)
  BY <1>3, <1>4 DEF Injection, IsInjective
<1>6. Cardinality(Cores) = NumCores
  BY CoresCount
<1>7. Cardinality(Cores) <= Cardinality(Running)
  BY <1>5, RunningFits, FS_Injection
<1>8. Cardinality(Running) \in Nat /\ Cardinality(Running) <= NumCores
  BY RunningFits
<1>9. NumCores \in Nat
  BY SchedulerAssumption
<1>. QED  BY <1>6, <1>7, <1>8, <1>9

(* Products of integers, which the provers need spelled out.               *)
LEMMA Products ==
    ASSUME NEW a \in Int, NEW b \in Int, NEW n \in Int
    PROVE  /\ n * (a + b) = n * a + n * b /\ n * (a - b) = n * a - n * b
           /\ n * a \in Int /\ n * b \in Int /\ n * a = a * n
OBVIOUS

(* A product grows with its factor.                                        *)
LEMMA LargerProduct ==
    ASSUME NEW a \in Nat, NEW b \in Nat, NEW n \in Nat, a <= b
    PROVE  n * a <= n * b
<1>1. b - a \in Nat /\ n * (b - a) \in Nat
  OBVIOUS
<1>2. n * (b - a) = n * b - n * a
  BY <1>1, Products
<1>3. n * a \in Int /\ n * b \in Int
  OBVIOUS
<1>. QED  BY <1>1, <1>2, <1>3

(* Terms that grow by at most d, or at least d, where x is in R.           *)
LEMMA SumAdvances ==
    ASSUME NEW S, IsFiniteSet(S), NEW R \in SUBSET S, NEW d \in Int,
           NEW f \in [S -> Int], NEW h \in [S -> Int]
    PROVE  /\ (\A x \in S : h[x] <= f[x] + (IF x \in R THEN d ELSE 0)) =>
                 SumOver(h, S) <= SumOver(f, S) + d * Cardinality(R)
           /\ (\A x \in S : h[x] >= f[x] + (IF x \in R THEN d ELSE 0)) =>
                 SumOver(h, S) >= SumOver(f, S) + d * Cardinality(R)
<1>. DEFINE g == [x \in S |-> f[x] + (IF x \in R THEN d ELSE 0)]
<1>1. g \in [S -> Int]
  OBVIOUS
<1>2. (\A x \in R : g[x] = f[x] + d) /\ \A x \in S \ R : g[x] = f[x]
  OBVIOUS
<1>3. \A x \in S : g[x] = f[x] + (IF x \in R THEN d ELSE 0)
  OBVIOUS
<1>. HIDE DEF g
<1>4. SumOver(g, S) = SumOver(f, S) + d * Cardinality(R)
  BY <1>1, <1>2, SumGrows
<1>5. /\ SumOver(g, S) \in Int /\ SumOver(h, S) \in Int
  BY <1>1, SumType
<1>6. ASSUME \A x \in S : h[x] <= g[x]
      PROVE  SumOver(h, S) <= SumOver(g, S)
  BY <1>1, <1>6, SumMonotone
<1>7. ASSUME \A x \in S : g[x] <= h[x]
      PROVE  SumOver(h, S) >= SumOver(g, S)
  <2>1. SumOver(g, S) <= SumOver(h, S)
    BY <1>1, <1>7, SumMonotone
  <2>. QED  BY <2>1, <1>5
<1>8. (\A x \in S : h[x] >= g[x]) => \A x \in S : g[x] <= h[x]
  BY <1>1
<1>. QED  BY <1>3, <1>4, <1>6, <1>7, <1>8

(* A sum of zeros.                                                         *)
LEMMA SumOfNone ==
    ASSUME NEW S, IsFiniteSet(S), NEW f \in [S -> Int], \A x \in S : f[x] = 0
    PROVE  SumOver(f, S) = 0
<1>. PICK E : E = {}
  OBVIOUS
<1>1. f = [x \in S |-> IF x \in E THEN 0 ELSE 0]
  OBVIOUS
<1>2. E \in SUBSET S /\ Cardinality(E) = 0
  BY FS_EmptySet
<1>3. SumOver([x \in S |-> IF x \in E THEN 0 ELSE 0], S) = 0 * Cardinality(E)
  BY <1>2, SumOfPart
<1>. QED  BY <1>1, <1>2, <1>3

(* The fold of the durations is their sum.                                 *)
LEMMA TotalWorkIsSum ==
    ASSUME NEW latency
    PROVE  TotalWork(latency)
              = SumOver([i \in Instances(work) |-> Duration(i, latency)],
                        Instances(work))
<1>. DEFINE S == Instances(work)
            f == [i \in S |-> Duration(i, latency)]
            Body(g) == [s \in SUBSET S |->
                           IF s = {} THEN 0
                           ELSE Duration(CHOOSE x \in s : TRUE, latency)
                                + g[s \ {CHOOSE x \in s : TRUE}]]
            Sum(g) == [s \in SUBSET S |->
                           IF s = {} THEN 0
                           ELSE f[CHOOSE x \in s : TRUE]
                                + g[s \ {CHOOSE x \in s : TRUE}]]
<1>1. TotalWork(latency) = (CHOOSE g : g = Body(g))[S]
  BY DEF TotalWork, MapThenSumSet, MapThenFoldSet
<1>2. SumOver(f, S) = (CHOOSE g : g = Sum(g))[S]
  BY DEF SumOver, MapThenSumSet, MapThenFoldSet
<1>3. ASSUME NEW g PROVE Body(g) = Sum(g)
  <2>1. ASSUME NEW s \in SUBSET S, s # {}
        PROVE  f[CHOOSE x \in s : TRUE] = Duration(CHOOSE x \in s : TRUE, latency)
    <3>. PICK y : y = CHOOSE x \in s : TRUE
      OBVIOUS
    <3>1. y \in S
      BY <2>1
    <3>. QED  BY <3>1
  <2>. HIDE DEF f
  <2>. QED  BY <2>1
<1>. HIDE DEF Body, Sum
<1>4. (CHOOSE g : g = Body(g)) = (CHOOSE g : g = Sum(g))
  BY <1>3
<1>. QED  BY <1>1, <1>2, <1>4
-----------------------------------------------------------------------------
Durations(latency) == [i \in Instances(work) |-> Duration(i, latency)]

AllDone(latency) == [i \in Instances(work) |-> Done(i, latency)]

(* Work and durations are integers.                                        *)
LEMMA DoneTypes ==
    ASSUME IInv, WInv, NEW latency \in Nat
    PROVE  /\ \A i \in Instances(work) :
                 Done(i, latency) \in Int /\ Duration(i, latency) \in Nat
           /\ AllDone(latency) \in [Instances(work) -> Int]
           /\ Durations(latency) \in [Instances(work) -> Int]
<1>1. work \in ForwardWorkload /\ now \in Nat
  BY WellBehavedTypes
<1>2. ASSUME NEW i \in Instances(work) PROVE Done(i, latency) \in Int
  <2>1. opIndex[i] \in Nat /\ opIndex[i] <= OpCount(i)
        /\ OpCount(i) = Len(OpsOf(work, i)) /\ OpCount(i) \in Nat
    BY WellBehavedTypes DEF OpCount, WInv, Progress
  <2>2. \A n \in 0 .. OpCount(i) : Elapsed(work, i, n, latency) \in Nat
    BY <1>1, <2>1, ElapsedSteps
  <2>3. CASE EventsFor(i, Timed) = {}
    <3>1. Done(i, latency) = Elapsed(work, i, opIndex[i], latency)
      BY <2>3, WorkedWhole DEF Done
    <3>2. opIndex[i] \in 0 .. OpCount(i)
      BY <2>1
    <3>. QED  BY <3>1, <3>2, <2>2
  <2>4. CASE EventsFor(i, Timed) # {}
    <3>1. PICK f \in DOMAIN events : f.inst = i /\ f.type \in Timed
      BY <2>4 DEF EventsFor
    <3>2. EventsFor(i, Timed) = {f} /\ f.time \in Nat /\ opIndex[i] < OpCount(i)
      BY <3>1, EndOfOne
    <3>3. Done(i, latency) = Elapsed(work, i, opIndex[i] + 1, latency) - (f.time - now)
      BY <3>2, OneEnd DEF Done, Worked
    <3>4. opIndex[i] + 1 \in 0 .. OpCount(i)
      BY <2>1, <3>2
    <3>5. Elapsed(work, i, opIndex[i] + 1, latency) \in Nat
      BY <3>4, <2>2
    <3>. QED  BY <1>1, <3>2, <3>3, <3>5
  <2>. QED  BY <2>3, <2>4
<1>3. \A i \in Instances(work) : Duration(i, latency) \in Nat
  BY <1>1, DurationType
<1>. QED  BY <1>2, <1>3 DEF AllDone, Durations

(* An instance that has not begun has no work done on it.                  *)
LEMMA NothingDone ==
    ASSUME IInv, WInv, NEW latency \in Nat, NEW i \in Instances(work),
           opIndex[i] = 0, EventsFor(i, Timed) = {}
    PROVE  Done(i, latency) = 0
<1>1. Done(i, latency) = Elapsed(work, i, 0, latency)
  BY WorkedWhole DEF Done
<1>2. work \in ForwardWorkload
  BY WellBehavedTypes
<1>. QED  BY <1>1, <1>2, ElapsedSteps

(* An instance past its last operation has all of its work done.           *)
LEMMA EverythingDone ==
    ASSUME IInv, WInv, NEW latency \in Nat, NEW i \in Instances(work),
           opIndex[i] >= OpCount(i)
    PROVE  Done(i, latency) = Duration(i, latency) /\ EventsFor(i, Timed) = {}
<1>1. opIndex[i] \in Nat /\ OpCount(i) \in Nat /\ opIndex[i] <= OpCount(i)
      /\ OpCount(i) = Len(OpsOf(work, i)) /\ work \in ForwardWorkload
  BY WellBehavedTypes DEF OpCount, WInv, Progress
<1>2. opIndex[i] = Len(OpsOf(work, i))
  BY <1>1
<1>3. EventsFor(i, Timed) = {}
  <2>. SUFFICES ASSUME EventsFor(i, Timed) # {} PROVE FALSE
    OBVIOUS
  <2>1. PICK f \in DOMAIN events : f.inst = i /\ f.type \in Timed
    BY DEF EventsFor
  <2>2. opIndex[i] < OpCount(i)
    BY <2>1, EndOfOne
  <2>. QED  BY <2>2, <1>1
<1>4. Done(i, latency) = Elapsed(work, i, Len(OpsOf(work, i)), latency)
  BY <1>2, <1>3, WorkedWhole DEF Done
<1>. QED  BY <1>1, <1>3, <1>4, DurationIsElapsed
-----------------------------------------------------------------------------
(* THE SHARED WORK                                                         *)

WorkBound(latency) ==
    NumCores * now >= SumOver(AllDone(latency), Instances(work))

(* Before run() no instance has begun.                                     *)
LEMMA InitiallyIdle ==
    ASSUME Init, IInv, WInv, NEW latency \in Nat
    PROVE  \A i \in Instances(work) : Done(i, latency) = 0
<1>. SUFFICES ASSUME NEW i \in Instances(work) PROVE Done(i, latency) = 0
  OBVIOUS
<1>1. opIndex[i] = 0
  BY DEF Init
<1>2. \A g \in DOMAIN events : g.type = "TaskReady"
  <2>. PICK new : new = {TaskReady(j, 0) :
                     j \in ReadyInstances(work, inDegree, opIndex, readyTime)}
    OBVIOUS
  <2>1. DOMAIN PushAll(EmptyQueue, new) = new /\ DOMAIN EmptyQueue = {}
    BY ONLY EmptyQueueIsBag, PushAllBag
  <2>2. \A g \in new : g.type = "TaskReady"
    BY DEF TaskReady, Event
  <2>. HIDE DEF TaskReady
  <2>3. events = EmptyQueue \/ events = PushAll(EmptyQueue, new)
    BY DEF Init
  <2>. QED  BY <2>1, <2>2, <2>3
<1>3. EventsFor(i, Timed) = {}
  BY <1>2 DEF EventsFor, Timed
<1>. QED  BY <1>1, <1>3, NothingDone

(* Before run() no work is done.                                           *)
LEMMA InitialWork ==
    ASSUME Init, IInv, WInv, NEW latency \in Nat
    PROVE  SumOver(AllDone(latency), Instances(work)) = 0
<1>1. AllDone(latency) \in [Instances(work) -> Int]
      /\ IsFiniteSet(Instances(work))
  BY DoneTypes, WellBehavedTypes
<1>2. \A i \in Instances(work) : AllDone(latency)[i] = 0
  BY InitiallyIdle DEF AllDone
<1>. QED  BY <1>1, <1>2, SumOfNone

(* Before run() the bound holds at time 0.                                 *)
LEMMA InitiallyWorkBound ==
    ASSUME Init, IInv, WInv, NEW latency \in Nat
    PROVE  WorkBound(latency)
<1>1. now = 0 /\ NumCores \in Nat
  BY SchedulerAssumption DEF Init
<1>2. NumCores * now = 0
  BY <1>1
<1>. QED  BY <1>2, InitialWork DEF WorkBound

(* The types after a step.                                                 *)
LEMMA DoneTypesNext ==
    ASSUME NEW latency \in Nat
    PROVE  (IInv /\ WInv => AllDone(latency) \in [Instances(work) -> Int])'
<1>1. IInv /\ WInv => AllDone(latency) \in [Instances(work) -> Int]
  BY DoneTypes
<1>. QED  BY <1>1, PTL

(* What a step adds to all the work done.                                  *)
LEMMA WorkAdvances ==
    ASSUME IInv, WInv, IInv', WInv', NEW e \in DOMAIN events, Handles(e),
           NEW latency \in Nat
    PROVE  LET before == SumOver(AllDone(latency), Instances(work))
               after == SumOver(AllDone(latency), Instances(work))'
               d == (now' - now) * Cardinality(Running)
           IN  /\ before \in Int /\ after \in Int /\ d \in Int
               /\ (\A m \in MemLatencies : latency <= m) => after <= before + d
               /\ (\A m \in MemLatencies : m <= latency) => after >= before + d
<1>. PICK S, f, h, t : /\ S = Instances(work) /\ f = AllDone(latency)
                       /\ h = AllDone(latency)' /\ t = now' - now
  OBVIOUS
<1>1. work' = work /\ t \in Int
  BY HandledEvent
<1>2. Instances(work)' = S
  BY <1>1
<1>3. f \in [S -> Int] /\ h \in [S -> Int]
  <2>1. f \in [S -> Int]
    BY DoneTypes
  <2>2. h \in [S -> Int]
    BY DoneTypesNext, <1>2
  <2>. QED  BY <2>1, <2>2
<1>4. \A i \in S : /\ f[i] = Done(i, latency) /\ h[i] = Done(i, latency)'
                   /\ Advance(i) = IF i \in Running THEN t ELSE 0
  BY <1>2 DEF AllDone, Advance
<1>5. \A i \in S : WorkFits(i, latency)
  BY WorkOfStep DEF Handles
<1>6. IsFiniteSet(S) /\ Running \in SUBSET S /\ Cardinality(Running) \in Nat
  BY WellBehavedTypes, RunningFits
<1>. PICK R : R = Running
  OBVIOUS
<1>7. /\ SumOver(f, S) \in Int /\ SumOver(h, S) \in Int /\ t * Cardinality(R) \in Int
  <2>1. t * Cardinality(R) \in Int
    BY <1>1, <1>6
  <2>. QED  BY <1>3, <1>6, <2>1, SumType
<1>8. /\ (\A x \in S : h[x] <= f[x] + (IF x \in R THEN t ELSE 0)) =>
            SumOver(h, S) <= SumOver(f, S) + t * Cardinality(R)
      /\ (\A x \in S : h[x] >= f[x] + (IF x \in R THEN t ELSE 0)) =>
            SumOver(h, S) >= SumOver(f, S) + t * Cardinality(R)
  BY <1>1, <1>3, <1>6, SumAdvances
<1>9. (\A m \in MemLatencies : latency <= m) =>
         \A x \in S : h[x] <= f[x] + (IF x \in R THEN t ELSE 0)
  BY <1>4, <1>5 DEF WorkFits
<1>10. (\A m \in MemLatencies : m <= latency) =>
         \A x \in S : h[x] >= f[x] + (IF x \in R THEN t ELSE 0)
  BY <1>4, <1>5 DEF WorkFits
<1>. QED  BY <1>2, <1>7, <1>8, <1>9, <1>10

(* No more is done in a cycle than there are cores.                        *)
LEMMA WorkBoundStep ==
    ASSUME IInv, WInv, IInv', WInv', NEW e \in DOMAIN events, Handles(e),
           NEW latency \in Nat, \A m \in MemLatencies : latency <= m,
           WorkBound(latency)
    PROVE  WorkBound(latency)'
<1>. PICK before, after, k, d, n :
        /\ before = SumOver(AllDone(latency), Instances(work))
        /\ after = SumOver(AllDone(latency), Instances(work))'
        /\ k = Cardinality(Running) /\ d = now' - now /\ n = NumCores
  OBVIOUS
<1>1. before \in Int /\ after \in Int /\ after <= before + d * k
  BY WorkAdvances
<1>2. now \in Nat /\ now' \in Nat /\ d \in Nat /\ now' = now + d
  <2>1. now \in Nat /\ now' \in Nat /\ now' >= now
    BY HandledEvent
  <2>. PICK a, b : a = now /\ b = now'
    OBVIOUS
  <2>2. a \in Nat /\ b \in Nat /\ b >= a
    BY <2>1
  <2>3. b - a \in Nat /\ b = a + (b - a)
    BY ONLY <2>2
  <2>. QED  BY <2>1, <2>3
<1>3. k \in Nat /\ k <= n /\ n \in Nat
  BY RunningFits, SchedulerAssumption
<1>4. d * k <= d * n
  BY <1>2, <1>3, LargerProduct
<1>5. n * now' = n * now + n * d /\ n * d = d * n
      /\ n * now \in Int /\ n * d \in Int /\ d * k \in Int
  <2>1. n * (now + d) = n * now + n * d /\ n * d = d * n
        /\ n * now \in Int /\ n * d \in Int
    BY <1>2, <1>3, Products
  <2>2. d * k \in Int
    BY <1>2, <1>3
  <2>. QED  BY <1>2, <2>1, <2>2
<1>6. n * now >= before
  BY DEF WorkBound
<1>7. n * now' >= after
  BY <1>1, <1>4, <1>5, <1>6
<1>. QED  BY <1>7 DEF WorkBound
-----------------------------------------------------------------------------
(* THE CRITICAL PATH                                                       *)

(* Before an instance can have come so far, the chain that leads to it has *)
(* been executed.                                                          *)
PathBound(p, latency) ==
    \A i \in Instances(work) :
        inDegree[i] <= 0 => now >= p[i] - Duration(i, latency) + Done(i, latency)

(* Durations and predecessors depend on the workload alone.                *)
LEMMA SameGraph ==
    ASSUME work' = work
    PROVE  /\ Instances(work)' = Instances(work)
           /\ \A i, latency : Duration(i, latency)' = Duration(i, latency)
           /\ \A i : Predecessors(i)' = Predecessors(i)
<1>1. ASSUME NEW i, NEW latency PROVE Duration(i, latency)' = Duration(i, latency)
  <2>. PICK ops : ops = OpsOf(work, i) /\ ops = OpsOf(work', i)
    OBVIOUS
  <2>. QED  BY DEF Duration, FoldLeft, MapThenFoldSet
<1>2. \A i : Predecessors(i)' = Predecessors(i)
  BY DEF Predecessors
<1>. QED  BY <1>1, <1>2

(* What is ready at time 0 has no predecessors.                            *)
LEMMA InitiallyPathBound ==
    ASSUME Init, IInv, WInv, NEW latency \in Nat, NEW p, IsPath(p, latency)
    PROVE  PathBound(p, latency)
<1>. SUFFICES ASSUME NEW i \in Instances(work), inDegree[i] <= 0
              PROVE  now >= p[i] - Duration(i, latency) + Done(i, latency)
  BY DEF PathBound
<1>1. Predecessors(i) = {}
  <2>. SUFFICES ASSUME NEW d \in Predecessors(i) PROVE FALSE
    OBVIOUS
  <2>1. d \in Instances(work) /\ opIndex[d] >= OpCount(d)
    BY SatisfiedPredecessors DEF Completed
  <2>2. opIndex[d] = 0
    BY <2>1 DEF Init
  <2>. QED  BY <2>1, <2>2, WellBehavedTypes
<1>2. work \in ForwardWorkload
  BY WellBehavedTypes
<1>3. p[i] = Duration(i, latency) /\ p[i] \in Nat
  BY <1>1, <1>2, PathLengths
<1>4. Done(i, latency) = 0 /\ now = 0
  BY InitiallyIdle DEF Init
<1>. QED  BY <1>3, <1>4

(* After a step too, the predecessors of a ready instance are completed.   *)
LEMMA SatisfiedNext ==
    (IInv /\ WInv => \A i \in Instances(work) : inDegree[i] <= 0 =>
                        \A d \in Predecessors(i) : Completed(d))'
<1>1. IInv /\ WInv => \A i \in Instances(work) : inDegree[i] <= 0 =>
                        \A d \in Predecessors(i) : Completed(d)
  BY SatisfiedPredecessors
<1>. QED  BY <1>1, PTL

(* An instance becomes ready only when the chain before it is executed, and*)
(* is not worked on faster than time passes.                               *)
LEMMA PathBoundStep ==
    ASSUME IInv, WInv, IInv', WInv', NEW e \in DOMAIN events, Handles(e),
           NEW latency \in Nat, \A m \in MemLatencies : latency <= m,
           NEW p, IsPath(p, latency), PathBound(p, latency)
    PROVE  PathBound(p, latency)'
<1>1. /\ work' = work /\ now \in Nat /\ now' \in Nat /\ now' >= now
      /\ work \in ForwardWorkload
  BY HandledEvent, WellBehavedTypes
<1>2. /\ Instances(work)' = Instances(work)
      /\ \A i : Duration(i, latency)' = Duration(i, latency)
      /\ \A i : Predecessors(i)' = Predecessors(i)
  BY <1>1, SameGraph
<1>3. \A i \in Instances(work) : WorkFits(i, latency)
  BY WorkOfStep DEF Handles
<1>4. \A i \in Instances(work) : p[i] \in Nat /\ Duration(i, latency) \in Nat
  BY <1>1, PathLengths
<1>5. ASSUME NEW i \in Instances(work), inDegree[i] <= 0
      PROVE  now' >= p[i] - Duration(i, latency) + Done(i, latency)'
  <2>. PICK a, b, d, f, g :
          /\ a = p[i] /\ b = Duration(i, latency) /\ d = Done(i, latency)
          /\ f = Done(i, latency)' /\ g = Advance(i)
    OBVIOUS
  <2>1. now >= a - b + d
    BY <1>5 DEF PathBound
  <2>2. f <= d + g /\ d \in Int /\ f \in Int
    BY <1>3 DEF WorkFits
  <2>3. g \in Int /\ g <= now' - now
    <3>. PICK x, y : x = now /\ y = now'
      OBVIOUS
    <3>1. x \in Nat /\ y \in Nat /\ y >= x
      BY <1>1
    <3>2. y - x \in Int /\ 0 <= y - x
      BY ONLY <3>1
    <3>3. g = IF i \in Running THEN y - x ELSE 0
      BY DEF Advance
    <3>. QED  BY <3>2, <3>3
  <2>4. a \in Nat /\ b \in Nat
    BY <1>4
  <2>5. now' >= a - b + f
    BY <2>1, <2>2, <2>3, <2>4, <1>1
  <2>. QED  BY <2>5
<1>6. ASSUME NEW i \in Instances(work), inDegree[i] > 0, inDegree'[i] <= 0
      PROVE  now' >= p[i] - Duration(i, latency) + Done(i, latency)'
  <2>1. HandleTaskDone(e)
    <3>1. inDegree' # inDegree
      BY <1>6, WellBehavedTypes
    <3>. QED
      BY <3>1 DEF Handles, HandleTaskReady, HandleTaskDispatched, HandleComputeDone,
         HandleMemReqIssued, HandleMemRespDone, CompleteOp, Abort, graphVars
  <2>2. opIndex' = opIndex
    BY <2>1 DEF HandleTaskDone
  <2>3. \A j : EventsFor(j, Timed)' = EventsFor(j, Timed)
    BY <2>1, EndsStay
  <2>4. Done(i, latency)' = 0
    <3>1. EventsFor(i, Timed) = {}
      <4>1. ~Placed(i)
        BY <1>6, PlacedNotCompleted, WellBehavedTypes
      <4>. QED  BY <4>1 DEF EventsFor, Placed
    <3>2. opIndex[i] = 0
      BY <1>6 DEF WInv, Progress
    <3>3. Done(i, latency)' = Elapsed(work, i, 0, latency)
      BY <1>1, <2>2, <2>3, <3>1, <3>2, WorkedWhole DEF Done
    <3>. QED  BY <1>1, <3>3, ElapsedSteps
  <2>5. ASSUME NEW d \in Predecessors(i) PROVE now' >= p[d]
    <3>1. d \in Instances(work)
      BY DEF Predecessors
    <3>2. Completed(d)'
      BY <1>2, <1>6, SatisfiedNext
    <3>3. opIndex[d] >= OpCount(d)
      BY <1>1, <2>2, <3>2 DEF Completed, OpCount
    <3>4. inDegree[d] <= 0
      BY <3>1, <3>3, WellBehavedTypes DEF WInv, Progress
    <3>5. now' >= p[d] - Duration(d, latency) + Done(d, latency)'
      BY <1>5, <3>1, <3>4
    <3>6. Done(d, latency) = Duration(d, latency) /\ EventsFor(d, Timed) = {}
      BY <3>1, <3>3, EverythingDone
    <3>7. Done(d, latency)' = Done(d, latency)
      BY <1>1, <2>2, <2>3, <3>6, WorkedWhole DEF Done
    <3>. QED  BY <1>1, <1>4, <3>1, <3>5, <3>6, <3>7
  <2>6. \/ p[i] = Duration(i, latency)
        \/ \E d \in Predecessors(i) : p[i] = Duration(i, latency) + p[d]
    BY <1>1, PathLengths
  <2>7. CASE p[i] = Duration(i, latency)
    BY <1>1, <1>4, <2>4, <2>7
  <2>8. ASSUME NEW d \in Predecessors(i), p[i] = Duration(i, latency) + p[d]
        PROVE  now' >= p[i] - Duration(i, latency) + Done(i, latency)'
    <3>1. d \in Instances(work) /\ now' >= p[d]
      BY <2>5 DEF Predecessors
    <3>. PICK a, b, c : a = p[i] /\ b = Duration(i, latency) /\ c = p[d]
      OBVIOUS
    <3>2. a \in Nat /\ b \in Nat /\ c \in Nat /\ a = b + c
      BY <1>4, <2>8, <3>1
    <3>3. now' >= a - b + 0
      BY <1>1, <3>1, <3>2
    <3>. QED  BY <3>3, <2>4
  <2>. QED  BY <2>6, <2>7, <2>8
<1>7. \A i \in Instances(work) : inDegree[i] \in Int
  BY WellBehavedTypes
<1>8. \A i \in Instances(work) :
         inDegree'[i] <= 0 =>
            now' >= p[i] - Duration(i, latency) + Done(i, latency)'
  BY <1>5, <1>6, <1>7
<1>. QED  BY <1>2, <1>8 DEF PathBound
-----------------------------------------------------------------------------
(* The critical path depends on the workload alone.                        *)
LEMMA SameCriticalPath ==
    ASSUME work' = work, NEW latency
    PROVE  CriticalPath(latency)' = CriticalPath(latency)
BY DEF CriticalPath, Duration, Predecessors, FoldLeft, MapThenFoldSet

(* An instance that is completed stays so, as in the abstract execution.   *)
LEMMA CompletedStays ==
    ASSUME IInv, WInv, IInv', WInv', [Next]_vars, work' = work,
           NEW i \in Instances(work), Completed(i)
    PROVE  Completed(i)'
<1>. PICK status : status = [j \in Instances(work) |-> StatusOf(j)]
  OBVIOUS
<1>. PICK after : after = [j \in Instances(work) |-> StatusOf(j)]'
  OBVIOUS
<1>1. status[i] = "done"
  BY StatusByEvents DEF StatusFits
<1>2. after[i] = StatusOf(i)'
  OBVIOUS
<1>3. after[i] = "done"
  <2>1. CASE UNCHANGED Abstract!abstractVars
    BY <1>1, <2>1 DEF Abstract!abstractVars
  <2>2. ASSUME NEW j \in DOMAIN status,
               \/ status[j] = "waiting" /\ after = [status EXCEPT ![j] = "running"]
               \/ status[j] = "running" /\ after = [status EXCEPT ![j] = "done"]
        PROVE  after[i] = "done"
    BY <1>1, <2>2
  <2>3. CASE Abstract!Next
    BY <2>2, <2>3 DEF Abstract!Next, Abstract!Start, Abstract!Finish
  <2>. QED  BY <2>1, <2>3, StepSimulates
<1>4. StatusOf(i)' = IF Completed(i)' THEN "done"
                     ELSE IF InFlight(i)' THEN "running" ELSE "waiting"
  BY StatusByEventsNext DEF StatusFits
<1>. QED  BY <1>2, <1>3, <1>4
-----------------------------------------------------------------------------
(* LIST SCHEDULING                                                         *)

(* The cycles instance i still needs.                                      *)
Left(i, latency) == Duration(i, latency) - Done(i, latency)

(* p bounds the chain of what is left that ends in each instance, and P    *)
(* bounds all of these.                                                    *)
Chain(p, P, latency) ==
    /\ p \in [Instances(work) -> Nat] /\ P \in Nat
    /\ \A i \in Instances(work) :
          /\ Left(i, latency) <= p[i] /\ p[i] <= P
          /\ \A d \in Predecessors(i) :
                ~Completed(d) => p[i] >= Left(i, latency) + p[d]

(* A cycle in which not all cores work shortens what is left of the        *)
(* critical path.                                                          *)
ListBound(latency) ==
    \E p, P :
        /\ Chain(p, P, latency)
        /\ NumCores * now + (NumCores - 1) * P
              <= SumOver(AllDone(latency), Instances(work))
                 + (NumCores - 1) * CriticalPath(latency)

(* At time 0 all of the critical path is left.                             *)
LEMMA InitiallyListBound ==
    ASSUME Init, IInv, WInv, NEW latency \in Nat
    PROVE  ListBound(latency)
<1>1. work \in ForwardWorkload /\ ~HasCycle(work) /\ IsFiniteSet(Instances(work))
  BY WellBehavedTypes
<1>2. PICK p : /\ IsPath(p, latency)
               /\ CriticalPath(latency)
                     = Max({0} \cup {p[i] : i \in Instances(work)})
  BY <1>1, CriticalPathIs
<1>. PICK P, S : P = CriticalPath(latency) /\ S = Instances(work)
  OBVIOUS
<1>3. \A i \in S : p[i] \in Nat /\ Duration(i, latency) \in Nat
                   /\ p[i] >= Duration(i, latency)
                   /\ \A d \in Predecessors(i) : p[i] >= Duration(i, latency) + p[d]
  BY <1>1, <1>2, PathLengths
<1>4. P \in Nat /\ \A i \in S : p[i] <= P
  <2>1. \A i \in S : p[i] \in Nat
    BY <1>3
  <2>2. IsFiniteSet(S) /\ P = Max({0} \cup {p[i] : i \in S})
    BY <1>1, <1>2
  <2>. QED  BY ONLY <2>1, <2>2, LargestValue
<1>5. \A i \in S : Left(i, latency) = Duration(i, latency)
  <2>1. \A i \in S : Done(i, latency) = 0
    BY InitiallyIdle
  <2>. QED  BY <2>1, <1>3 DEF Left
<1>6. Chain(p, P, latency)
  BY <1>2, <1>3, <1>4, <1>5 DEF Chain, IsPath
<1>7. NumCores * now + (NumCores - 1) * P
         <= SumOver(AllDone(latency), Instances(work))
            + (NumCores - 1) * CriticalPath(latency)
  <2>1. NumCores \in Nat /\ now = 0
    BY SchedulerAssumption DEF Init
  <2>2. NumCores * now = 0 /\ (NumCores - 1) * P \in Int
    BY <2>1, <1>4
  <2>. QED  BY <2>2, InitialWork
<1>. QED  BY <1>6, <1>7 DEF ListBound

(* What is left of a running instance is more than the time to its event.  *)
LEMMA LeftOfRunning ==
    ASSUME IInv, WInv, NEW f \in DOMAIN events, f.type \in Timed,
           NEW latency \in Nat
    PROVE  Left(f.inst, latency) >= f.time - now /\ Left(f.inst, latency) \in Int
<1>. PICK i, n : i = f.inst /\ n = opIndex[i]
  OBVIOUS
<1>1. /\ EventsFor(i, Timed) = {f} /\ i \in Instances(work)
      /\ n < OpCount(i) /\ f.time \in Nat
  BY EndOfOne
<1>2. /\ work \in ForwardWorkload /\ n \in Nat /\ now \in Nat
      /\ OpCount(i) = Len(OpsOf(work, i)) /\ OpCount(i) \in Nat
  BY <1>1, WellBehavedTypes DEF OpCount
<1>. PICK next, all : /\ next = Elapsed(work, i, n + 1, latency)
                      /\ all = Duration(i, latency)
  OBVIOUS
<1>3. Done(i, latency) = next - (f.time - now)
  BY <1>1, OneEnd DEF Done, Worked
<1>4. next \in Nat /\ next <= all /\ all \in Nat
  <2>1. n + 1 \in 0 .. Len(OpsOf(work, i))
    BY <1>1, <1>2
  <2>2. \A k \in 0 .. Len(OpsOf(work, i)) :
           /\ Elapsed(work, i, k, latency) \in Nat
           /\ Elapsed(work, i, k, latency) <= all
    BY <1>1, <1>2, ElapsedGrows, DurationIsElapsed
  <2>3. all \in Nat
    BY <1>1, <1>2, DurationType
  <2>. QED  BY <2>1, <2>2, <2>3
<1>. QED  BY <1>1, <1>2, <1>3, <1>4 DEF Left

(* What is left of an instance that is completed, or has not begun.        *)
LEMMA LeftTypes ==
    ASSUME IInv, WInv, NEW latency \in Nat, NEW i \in Instances(work)
    PROVE  /\ Left(i, latency) \in Int
           /\ Completed(i) => Left(i, latency) = 0
           /\ opIndex[i] = 0 /\ EventsFor(i, Timed) = {} => Left(i, latency) >= 0
<1>1. Done(i, latency) \in Int /\ Duration(i, latency) \in Nat
  BY DoneTypes
<1>2. Completed(i) => Done(i, latency) = Duration(i, latency)
  BY EverythingDone DEF Completed
<1>3. opIndex[i] = 0 /\ EventsFor(i, Timed) = {} => Done(i, latency) = 0
  BY NothingDone
<1>. QED  BY <1>1, <1>2, <1>3 DEF Left

(* No request takes longer than the longest one: what is left of a running *)
(* instance shrinks with time.                                             *)
LEMMA LeftShrinks ==
    ASSUME IInv, WInv, NEW e \in DOMAIN events, Handles(e),
           NEW latency \in Nat, \A m \in MemLatencies : m <= latency,
           NEW i \in Instances(work)
    PROVE  /\ Left(i, latency)' <= Left(i, latency) - Advance(i)
           /\ Left(i, latency) \in Int /\ Left(i, latency)' \in Int
           /\ Advance(i) \in Nat
<1>1. work' = work /\ Advance(i) \in Nat
  BY HandledEvent, AdvanceType
<1>2. Duration(i, latency)' = Duration(i, latency) /\ Duration(i, latency) \in Nat
  BY <1>1, SameGraph, DoneTypes
<1>3. /\ Done(i, latency) \in Int /\ Done(i, latency)' \in Int
      /\ Done(i, latency)' >= Done(i, latency) + Advance(i)
  BY WorkOfStep DEF Handles, WorkFits
<1>. QED  BY <1>1, <1>2, <1>3 DEF Left

(* While a core is idle every instance that could run does.                *)
LEMMA OthersWait ==
    ASSUME IInv, WInv, \A g \in DOMAIN events : g.type \in Timed,
           readyQueue = <<>>,
           NEW i \in Instances(work), ~Completed(i), i \notin Running
    PROVE  /\ opIndex[i] = 0 /\ EventsFor(i, Timed) = {}
           /\ \E d \in Predecessors(i) : ~Completed(d)
<1>1. EventsFor(i, Timed) = {}
  BY DEF Running
<1>2. ~Placed(i)
  BY <1>1 DEF Placed, EventsFor
<1>3. inDegree[i] > 0
  BY <1>2, SatisfiedIsPlaced, WellBehavedTypes
<1>4. opIndex[i] = 0
  BY <1>3 DEF WInv, Progress
<1>5. PICK d \in Instances(work) : Multiplicity(work, d, i) # 0 /\ ~Completed(d)
  BY <1>3, UnsatisfiedPredecessor
<1>6. Multiplicity(work, d, i) \in Nat
  BY WellBehavedTypes, MultiplicityType
<1>. QED  BY <1>1, <1>4, <1>5, <1>6 DEF Predecessors

(* While a core is idle, a chain that is not completed begins with a       *)
(* running instance, so it lasts until the next event.                     *)
LEMMA ChainsLeft ==
    ASSUME IInv, WInv, \A g \in DOMAIN events : g.type \in Timed,
           readyQueue = <<>>, NEW latency \in Nat,
           NEW d \in Nat, \A g \in DOMAIN events : g.time - now >= d,
           NEW p, NEW P, Chain(p, P, latency)
    PROVE  \A i \in Instances(work) :
              ~Completed(i) =>
                 /\ p[i] >= d
                 /\ i \in Running => Left(i, latency) >= d
                 /\ i \notin Running => p[i] >= Left(i, latency) + d
<1>. DEFINE T == {i \in Instances(work) :
                     ~Completed(i) =>
                        /\ p[i] >= d
                        /\ i \in Running => Left(i, latency) >= d
                        /\ i \notin Running => p[i] >= Left(i, latency) + d}
<1>1. ASSUME NEW i \in Instances(work), Predecessors(i) \subseteq T, ~Completed(i)
      PROVE  i \in T
  <2>1. p[i] \in Nat /\ Left(i, latency) <= p[i] /\ Left(i, latency) \in Int
    BY LeftTypes DEF Chain
  <2>2. CASE i \in Running
    <3>1. PICK f \in DOMAIN events : f.inst = i /\ f.type \in Timed
      BY <2>2 DEF Running, EventsFor
    <3>2. Left(i, latency) >= f.time - now /\ f.time - now >= d
      BY <3>1, LeftOfRunning
    <3>3. f.time - now \in Int
      BY <3>1, WellBehavedTypes DEF Events
    <3>4. Left(i, latency) >= d /\ p[i] >= d
      BY <2>1, <3>2, <3>3
    <3>. QED  BY <2>2, <3>4
  <2>3. CASE i \notin Running
    <3>1. /\ opIndex[i] = 0 /\ EventsFor(i, Timed) = {}
          /\ \E q \in Predecessors(i) : ~Completed(q)
      BY <1>1, <2>3, OthersWait
    <3>2. PICK q \in Predecessors(i) : ~Completed(q)
      BY <3>1
    <3>3. q \in Instances(work) /\ p[q] >= d
      BY <1>1, <3>2
    <3>4. p[i] >= Left(i, latency) + p[q] /\ p[q] \in Nat
      BY <3>2, <3>3 DEF Chain
    <3>5. Left(i, latency) >= 0
      BY <3>1, LeftTypes
    <3>6. p[i] >= Left(i, latency) + d /\ p[i] >= d
      BY <2>1, <3>3, <3>4, <3>5
    <3>. QED  BY <2>3, <3>6
  <2>. QED  BY <2>2, <2>3
<1>2. \A i \in Instances(work) : Predecessors(i) \subseteq T => i \in T
  BY <1>1
<1>3. work \in ForwardWorkload /\ ~HasCycle(work)
  BY WellBehavedTypes
<1>. HIDE DEF T
<1>4. Instances(work) \subseteq T
  BY <1>2, <1>3, GraphInduction
<1>. QED  BY <1>4 DEF T

(* The bounds on the chains stay valid in every step.                      *)
LEMMA ChainStays ==
    ASSUME IInv, WInv, IInv', WInv', NEW e \in DOMAIN events, Handles(e),
           NEW latency \in Nat, \A m \in MemLatencies : m <= latency,
           NEW p, NEW P, Chain(p, P, latency)
    PROVE  Chain(p, P, latency)'
<1>1. work' = work /\ [Next]_vars
  BY HandledEvent DEF Handles, Next
<1>2. Instances(work)' = Instances(work) /\ \A i : Predecessors(i)' = Predecessors(i)
  BY <1>1, SameGraph
<1>3. p \in [Instances(work) -> Nat] /\ P \in Nat
  BY DEF Chain
<1>4. ASSUME NEW i \in Instances(work)
      PROVE  /\ Left(i, latency)' <= Left(i, latency)
             /\ Left(i, latency) \in Int /\ Left(i, latency)' \in Int
  <2>1. /\ Left(i, latency)' <= Left(i, latency) - Advance(i)
        /\ Left(i, latency) \in Int /\ Left(i, latency)' \in Int
        /\ Advance(i) \in Nat
    BY LeftShrinks
  <2>. QED  BY <2>1
<1>5. ASSUME NEW i \in Instances(work)
      PROVE  Left(i, latency)' <= p[i] /\ p[i] <= P
  <2>1. Left(i, latency) <= p[i] /\ p[i] <= P /\ p[i] \in Nat
    BY DEF Chain
  <2>. QED  BY <1>4, <2>1
<1>6. ASSUME NEW i \in Instances(work), NEW d \in Predecessors(i), ~Completed(d)'
      PROVE  p[i] >= Left(i, latency)' + p[d]
  <2>1. d \in Instances(work)
    BY DEF Predecessors
  <2>2. ~Completed(d)
    BY <1>1, <1>6, <2>1, CompletedStays
  <2>3. p[i] >= Left(i, latency) + p[d] /\ p[i] \in Nat /\ p[d] \in Nat
    BY <2>1, <2>2 DEF Chain
  <2>. QED  BY <1>4, <2>3
<1>. QED  BY <1>2, <1>3, <1>5, <1>6 DEF Chain

(* Where time passes and no instance waits for a core, all chains that are *)
(* left become shorter by that time.                                       *)
LEMMA ChainShortens ==
    ASSUME IInv, WInv, IInv', WInv', ImmediateNow,
           NEW e \in DOMAIN events, Handles(e), now' # now, readyQueue = <<>>,
           NEW latency \in Nat, \A m \in MemLatencies : m <= latency,
           NEW p, NEW P, Chain(p, P, latency),
           NEW d \in Nat, d = now' - now
    PROVE  /\ P - d \in Nat
           /\ \E q : Chain(q, P - d, latency)'
<1>1. /\ work' = work /\ [Next]_vars /\ d \in Nat
      /\ now \in Nat /\ now' \in Nat
  BY HandledEvent DEF Handles, Next
<1>2. \A g \in DOMAIN events : g.type \in Timed
  BY TimePasses
<1>3. \A g \in DOMAIN events : g.time - now >= d
  <2>1. \A g \in DOMAIN events : g.time \in Nat /\ now' <= g.time
    BY HandledEvent
  <2>. QED  BY <1>1, <2>1
<1>4. \A i \in Instances(work) :
         ~Completed(i) =>
            /\ p[i] >= d
            /\ i \in Running => Left(i, latency) >= d
            /\ i \notin Running => p[i] >= Left(i, latency) + d
  BY <1>1, <1>2, <1>3, ChainsLeft
<1>5. p \in [Instances(work) -> Nat] /\ P \in Nat
  BY DEF Chain
<1>6. P - d \in Nat
  <2>1. e.inst \in Instances(work) /\ e.type \in Timed
    BY <1>2, HandledEvent
  <2>2. ~Completed(e.inst)
    <3>1. Placed(e.inst)
      BY DEF Placed
    <3>. QED  BY <2>1, <3>1, PlacedNotCompleted
  <2>. PICK a : a = p[e.inst]
    OBVIOUS
  <2>3. d \in Nat /\ a >= d /\ a \in Nat /\ a <= P /\ P \in Nat
    BY <1>4, <1>5, <2>1, <2>2 DEF Chain
  <2>. QED  BY ONLY <2>3
<1>. PICK q : q = [i \in Instances(work) |-> IF p[i] >= d THEN p[i] - d ELSE 0]
  OBVIOUS
<1>7. q \in [Instances(work) -> Nat]
  BY <1>1, <1>5
<1>8. Instances(work)' = Instances(work) /\ \A i : Predecessors(i)' = Predecessors(i)
  BY <1>1, SameGraph
<1>9. ASSUME NEW i \in Instances(work)
      PROVE  \E before, after \in Int :
                /\ before = Left(i, latency) /\ after = Left(i, latency)'
                /\ after <= before
                /\ i \in Running => after <= before - d
  <2>. PICK before, after, a : /\ before = Left(i, latency)
                               /\ after = Left(i, latency)' /\ a = Advance(i)
    OBVIOUS
  <2>1. /\ a = IF i \in Running THEN d ELSE 0
        /\ before \in Int /\ after \in Int /\ after <= before - a /\ a \in Nat
        /\ d \in Nat
    BY LeftShrinks DEF Advance
  <2>2. after <= before /\ (i \in Running => after <= before - d)
    BY ONLY <2>1
  <2>. QED  BY <2>1, <2>2
<1>10. ASSUME NEW i \in Instances(work)
       PROVE  Left(i, latency)' <= q[i] /\ q[i] <= P - d
  <2>. PICK before, after \in Int :
          /\ before = Left(i, latency) /\ after = Left(i, latency)'
          /\ after <= before
          /\ i \in Running => after <= before - d
    BY <1>9
  <2>. PICK a, b : a = p[i] /\ b = q[i]
    OBVIOUS
  <2>0. before \in Int /\ after \in Int /\ d \in Nat /\ after <= before
    OBVIOUS
  <2>1. /\ before <= a /\ a <= P /\ a \in Nat /\ P \in Nat
        /\ b = IF a >= d THEN a - d ELSE 0
        /\ P - d \in Nat
    BY <1>5, <1>6 DEF Chain
  <2>2. b <= P - d /\ b \in Nat
    BY <2>1
  <2>3. CASE Completed(i)
    <3>1. before = 0
      BY <2>3, LeftTypes
    <3>. QED  BY <2>2, <3>1
  <2>4. CASE ~Completed(i) /\ i \in Running
    <3>1. a >= d
      BY <1>4, <2>4
    <3>2. after <= before - d
      BY <2>4
    <3>3. after <= b
      BY ONLY <2>0, <2>1, <3>1, <3>2
    <3>. QED  BY <2>2, <3>3
  <2>5. CASE ~Completed(i) /\ i \notin Running
    <3>1. a >= d /\ a >= before + d
      BY <1>4, <2>5
    <3>2. after <= b
      BY ONLY <2>0, <2>1, <3>1
    <3>. QED  BY <2>2, <3>2
  <2>. QED  BY <2>3, <2>4, <2>5
<1>11. ASSUME NEW i \in Instances(work), NEW c \in Predecessors(i), ~Completed(c)'
       PROVE  q[i] >= Left(i, latency)' + q[c]
  <2>1. c \in Instances(work)
    BY DEF Predecessors
  <2>2. ~Completed(c)
    BY <1>1, <1>11, <2>1, CompletedStays
  <2>. PICK before, after \in Int :
          /\ before = Left(i, latency) /\ after = Left(i, latency)'
          /\ after <= before
          /\ i \in Running => after <= before - d
    BY <1>9
  <2>. PICK a, b : a = p[i] /\ b = p[c]
    OBVIOUS
  <2>3. a >= before + b /\ a \in Nat /\ b \in Nat /\ b >= d
    BY <1>4, <1>5, <2>1, <2>2 DEF Chain
  <2>4. a >= d
    <3>1. CASE Completed(i)
      <4>1. before = 0
        BY <3>1, LeftTypes
      <4>. QED  BY <2>3, <4>1
    <3>2. CASE ~Completed(i)
      BY <1>4, <3>2
    <3>. QED  BY <3>1, <3>2
  <2>5. q[i] = a - d /\ q[c] = b - d
    BY <2>1, <2>3, <2>4
  <2>6. a - d >= after + (b - d)
    <3>1. /\ before \in Int /\ after \in Int /\ d \in Nat /\ after <= before
          /\ a >= before + b /\ a \in Nat /\ b \in Nat
      BY <2>3
    <3>. QED  BY ONLY <3>1
  <2>. QED  BY <2>5, <2>6
<1>12. Chain(q, P - d, latency)'
  BY <1>6, <1>7, <1>8, <1>10, <1>11 DEF Chain
<1>. QED  BY <1>6, <1>12

(* The critical path is a number of cycles.                                *)
LEMMA CriticalPathType ==
    ASSUME work \in ForwardWorkload, ~HasCycle(work), NEW latency \in Nat
    PROVE  CriticalPath(latency) \in Nat
<1>1. PICK p : /\ IsPath(p, latency)
               /\ CriticalPath(latency)
                     = Max({0} \cup {p[i] : i \in Instances(work)})
  BY CriticalPathIs
<1>. PICK S, P : S = Instances(work) /\ P = CriticalPath(latency)
  OBVIOUS
<1>2. IsFiniteSet(S) /\ \A i \in S : p[i] \in Nat
  BY <1>1, InstancesFinite DEF IsPath, ForwardWorkload
<1>3. P = Max({0} \cup {p[i] : i \in S})
  BY <1>1
<1>4. P \in Nat
  BY ONLY <1>2, <1>3, LargestValue
<1>. QED  BY <1>4

(* Unless every core works, no instance waits for one.                     *)
LEMMA IdleOrAllRun ==
    ASSUME IInv, WInv, ImmediateNow, NEW e \in DOMAIN events, Handles(e),
           now' # now
    PROVE  /\ Cardinality(Running) = NumCores \/ readyQueue = <<>>
           /\ Cardinality(Running) \in Nat \ {0}
<1>1. \A g \in DOMAIN events : g.type \in Timed
  BY TimePasses
<1>2. Cardinality(Running) = NumCores \/ readyQueue = <<>>
  <2>1. CASE \A c \in Cores : \E g \in CoreEvents : g.core = c
    BY <1>1, <2>1, AllCoresRun
  <2>2. CASE \E c \in Cores : ~\E g \in CoreEvents : g.core = c
    BY <2>2 DEF WInv, NoCoreLost, IInv, WorkConserving
  <2>. QED  BY <2>1, <2>2
<1>4. Cardinality(Running) \in Nat \ {0}
  <2>1. e.inst \in Running
    BY <1>1, EndOfOne
  <2>2. IsFiniteSet(Running) /\ Cardinality(Running) \in Nat
    BY RunningFits
  <2>. QED  BY <2>1, <2>2, FS_EmptySet
<1>. QED  BY <1>2, <1>4

(* The bound is kept in a step of d cycles in which all of n cores work,   *)
(* and also in one in which k of them work and the chains get shorter by d.*)
LEMMA ListArithmetic ==
    ASSUME NEW n \in Nat \ {0}, NEW t \in Nat, NEW d \in Nat, NEW k \in Nat,
           NEW P \in Int, NEW C \in Int, NEW before \in Int, NEW after \in Int,
           after >= before + d * k,
           n * t + (n - 1) * P <= before + (n - 1) * C
    PROVE  /\ d = 0 \/ k = n =>
                 n * (t + d) + (n - 1) * P <= after + (n - 1) * C
           /\ k # 0 => n * (t + d) + (n - 1) * (P - d) <= after + (n - 1) * C
<1>1. n * (t + d) = n * t + n * d /\ n * t \in Int /\ n * d \in Int
  BY Products
<1>2. /\ (n - 1) * (P - d) = (n - 1) * P - (n - 1) * d
      /\ (n - 1) * P \in Int /\ (n - 1) * d \in Int /\ (n - 1) * C \in Int
  BY Products
<1>3. (n - 1) * d = n * d - d
  OBVIOUS
<1>4. d * k \in Int
  OBVIOUS
<1>5. ASSUME d = 0 \/ k = n PROVE d * k = n * d
  BY <1>5
<1>6. ASSUME k # 0 PROVE d * k >= d
  <2>1. d * 1 <= d * k
    BY <1>6, LargerProduct
  <2>. QED  BY <2>1, <1>4
<1>. QED  BY <1>1, <1>2, <1>3, <1>4, <1>5, <1>6

(* Every step keeps the bound: either all cores work or the chains shorten.*)
LEMMA ListBoundStep ==
    ASSUME IInv, WInv, IInv', WInv', ImmediateNow,
           NEW e \in DOMAIN events, Handles(e),
           NEW latency \in Nat, \A m \in MemLatencies : m <= latency,
           ListBound(latency)
    PROVE  ListBound(latency)'
<1>1. /\ work' = work /\ now \in Nat /\ now' \in Nat /\ now' >= now
      /\ work \in ForwardWorkload /\ ~HasCycle(work)
  BY HandledEvent, WellBehavedTypes
<1>. PICK d \in Nat : d = now' - now /\ now' = now + d
  <2>. PICK a, b : a = now /\ b = now'
    OBVIOUS
  <2>1. a \in Nat /\ b \in Nat /\ b >= a
    BY <1>1
  <2>2. b - a \in Nat /\ b = a + (b - a)
    BY ONLY <2>1
  <2>. QED  BY <2>2
<1>. PICK n, k, t, C, before, after :
        /\ n = NumCores /\ k = Cardinality(Running) /\ t = now
        /\ C = CriticalPath(latency)
        /\ before = SumOver(AllDone(latency), Instances(work))
        /\ after = SumOver(AllDone(latency), Instances(work))'
  OBVIOUS
<1>2. PICK p, P : /\ Chain(p, P, latency)
                  /\ n * t + (n - 1) * P <= before + (n - 1) * C
  BY DEF ListBound
<1>3. C \in Int /\ C = CriticalPath(latency)'
  <2>1. CriticalPath(latency)' = CriticalPath(latency)
    BY <1>1, SameCriticalPath
  <2>. QED  BY <1>1, <2>1, CriticalPathType
<1>4. before \in Int /\ after \in Int /\ after >= before + d * k
  BY WorkAdvances
<1>5. n \in Nat \ {0} /\ k \in Nat /\ t \in Nat /\ P \in Int
  BY <1>1, <1>2, RunningFits, SchedulerAssumption DEF Chain
<1>6. /\ d = 0 \/ k = n =>
            n * (t + d) + (n - 1) * P <= after + (n - 1) * C
      /\ k # 0 => n * (t + d) + (n - 1) * (P - d) <= after + (n - 1) * C
  BY ONLY <1>2, <1>3, <1>4, <1>5, d \in Nat, ListArithmetic
<1>7. now' = t + d
  OBVIOUS
<1>8. ASSUME NEW q, NEW Q, Chain(q, Q, latency)',
             n * (t + d) + (n - 1) * Q <= after + (n - 1) * C
      PROVE  ListBound(latency)'
  BY <1>3, <1>7, <1>8 DEF ListBound
<1>9. CASE d = 0 \/ k = n
  <2>1. Chain(p, P, latency)'
    BY <1>2, ChainStays
  <2>. QED  BY <1>6, <1>8, <1>9, <2>1
<1>10. CASE d # 0 /\ k # n
  <2>1. now' # now
    <3>. SUFFICES ASSUME t + d = t PROVE FALSE
      BY <1>7
    <3>. PICK x, y : x = t /\ y = d
      OBVIOUS
    <3>1. x \in Nat /\ y \in Nat /\ y # 0 /\ x + y = x
      BY <1>5, <1>10
    <3>. QED  BY ONLY <3>1
  <2>2. readyQueue = <<>> /\ k # 0
    BY <1>10, <2>1, IdleOrAllRun
  <2>3. PICK q : Chain(q, P - d, latency)'
    BY <1>2, <2>1, <2>2, ChainShortens
  <2>. PICK Q : Q = P - d
    OBVIOUS
  <2>. QED  BY <1>6, <1>8, <2>2, <2>3
<1>. QED  BY <1>9, <1>10

(* There is a shortest and a longest latency.                              *)
LEMMA LatencyRange ==
    /\ Min(MemLatencies) \in Nat /\ \A m \in MemLatencies : Min(MemLatencies) <= m
    /\ Max(MemLatencies) \in Nat /\ \A m \in MemLatencies : m <= Max(MemLatencies)
<1>1. MemLatencies \subseteq Nat /\ MemLatencies # {} /\ IsFiniteSet(MemLatencies)
      /\ MemLatencies \subseteq Int
  BY SimulatorAssumption, MakespanAssumption
<1>2. Min(MemLatencies) \in MemLatencies
      /\ \A m \in MemLatencies : Min(MemLatencies) <= m
  BY <1>1, MinOf
<1>3. Max(MemLatencies) \in MemLatencies
      /\ \A m \in MemLatencies : m <= Max(MemLatencies)
  BY <1>1, MaxOf
<1>. QED  BY <1>1, <1>2, <1>3

CriticalBound(latency) ==
    \E p : /\ IsPath(p, latency)
           /\ CriticalPath(latency) = Max({0} \cup {p[i] : i \in Instances(work)})
           /\ PathBound(p, latency)

MakespanInv ==
    /\ ImmediateNow
    /\ WorkBound(Min(MemLatencies))
    /\ CriticalBound(Min(MemLatencies))
    /\ ListBound(Max(MemLatencies))

(* The invariant holds before run().                                       *)
LEMMA InitiallyMakespan ==
    ASSUME Init, IInv, WInv
    PROVE  MakespanInv
<1>. PICK s, l \in Nat : s = Min(MemLatencies) /\ l = Max(MemLatencies)
  BY LatencyRange
<1>1. ImmediateNow
  <2>. PICK new : new = {TaskReady(j, 0) :
                     j \in ReadyInstances(work, inDegree, opIndex, readyTime)}
    OBVIOUS
  <2>1. DOMAIN PushAll(EmptyQueue, new) = new /\ DOMAIN EmptyQueue = {}
    BY ONLY EmptyQueueIsBag, PushAllBag
  <2>2. \A g \in new : g.time = 0
    BY DEF TaskReady, Event
  <2>. HIDE DEF TaskReady
  <2>3. (events = EmptyQueue \/ events = PushAll(EmptyQueue, new)) /\ now = 0
    BY DEF Init
  <2>. QED  BY <2>1, <2>2, <2>3 DEF ImmediateNow
<1>2. WorkBound(s) /\ ListBound(l)
  BY InitiallyWorkBound, InitiallyListBound
<1>3. PICK p : /\ IsPath(p, s)
               /\ CriticalPath(s) = Max({0} \cup {p[i] : i \in Instances(work)})
  BY WellBehavedTypes, CriticalPathIs
<1>4. PathBound(p, s)
  BY <1>3, InitiallyPathBound
<1>. QED  BY <1>1, <1>2, <1>3, <1>4 DEF MakespanInv, CriticalBound

(* A step that changes nothing the bounds speak of.                        *)
LEMMA MakespanStutters ==
    ASSUME UNCHANGED <<work, now, events, inDegree, opIndex>>, MakespanInv
    PROVE  MakespanInv'
<1>1. work' = work /\ now' = now /\ events' = events
      /\ inDegree' = inDegree /\ opIndex' = opIndex
  OBVIOUS
<1>2. /\ Instances(work)' = Instances(work)
      /\ \A i, latency : Duration(i, latency)' = Duration(i, latency)
      /\ \A i : Predecessors(i)' = Predecessors(i)
      /\ \A latency : CriticalPath(latency)' = CriticalPath(latency)
  BY <1>1, SameGraph, SameCriticalPath
<1>3. /\ \A i, latency : Done(i, latency)' = Done(i, latency)
      /\ \A i : Completed(i)' <=> Completed(i)
  <2>1. \A i, types : EventsFor(i, types)' = EventsFor(i, types)
    BY <1>1 DEF EventsFor
  <2>. QED  BY <1>1, <2>1 DEF Done, Completed, OpCount
<1>4. \A latency : AllDone(latency)' = AllDone(latency)
  BY <1>2, <1>3 DEF AllDone
<1>5. ImmediateNow'
  BY <1>1 DEF MakespanInv, ImmediateNow
<1>6. \A latency : WorkBound(latency) => WorkBound(latency)'
  BY <1>1, <1>2, <1>4 DEF WorkBound
<1>7. \A latency : CriticalBound(latency) => CriticalBound(latency)'
  BY <1>1, <1>2, <1>3 DEF CriticalBound, IsPath, PathBound
<1>8. \A latency : ListBound(latency) => ListBound(latency)'
  <2>1. \A i, latency : Left(i, latency)' = Left(i, latency)
    BY <1>2, <1>3 DEF Left
  <2>2. \A p, P, latency : Chain(p, P, latency) => Chain(p, P, latency)'
    BY <1>2, <1>3, <2>1 DEF Chain
  <2>. QED  BY <1>1, <1>2, <1>4, <2>2 DEF ListBound
<1>. QED  BY <1>5, <1>6, <1>7, <1>8 DEF MakespanInv

(* Every step of the simulator keeps the invariant.                        *)
LEMMA MakespanStep ==
    ASSUME IInv, WInv, IInv', WInv', MakespanInv, [Next]_vars
    PROVE  MakespanInv'
<1>. PICK s, l \in Nat :
        /\ s = Min(MemLatencies) /\ l = Max(MemLatencies)
        /\ \A m \in MemLatencies : s <= m /\ m <= l
  BY LatencyRange
<1>1. ASSUME NEW e \in DOMAIN events, Handles(e) PROVE MakespanInv'
  <2>1. ImmediateNow' /\ WorkBound(s)' /\ ListBound(l)'
    BY <1>1, ImmediateStep, WorkBoundStep, ListBoundStep DEF MakespanInv
  <2>2. PICK p : /\ IsPath(p, s)
                 /\ CriticalPath(s) = Max({0} \cup {p[i] : i \in Instances(work)})
                 /\ PathBound(p, s)
    BY DEF MakespanInv, CriticalBound
  <2>3. PathBound(p, s)'
    BY <1>1, <2>2, PathBoundStep
  <2>4. work' = work
    BY <1>1, HandledEvent
  <2>5. IsPath(p, s)'
    BY <2>2, <2>4, SameGraph DEF IsPath
  <2>6. CriticalPath(s)' = CriticalPath(s) /\ Instances(work)' = Instances(work)
    BY <2>4, SameCriticalPath
  <2>7. CriticalBound(s)'
    BY <2>2, <2>3, <2>5, <2>6 DEF CriticalBound
  <2>. QED  BY <2>1, <2>7 DEF MakespanInv
<1>2. CASE Complete \/ Exited \/ UNCHANGED vars
  BY <1>2, MakespanStutters DEF Complete, Exited, vars, graphVars
<1>. QED  BY <1>1, <1>2 DEF Next, Handles

(* At the end all work is done: the invariant gives the bounds.            *)
LEMMA MakespanAtTheEnd ==
    ASSUME IInv, WInv, CompleteIsEmpty, MakespanInv
    PROVE  MakespanBounds
<1>. PICK s, l \in Nat : s = Min(MemLatencies) /\ l = Max(MemLatencies)
  BY LatencyRange
<1>. SUFFICES ASSUME phase = "complete"
              PROVE  /\ now >= CriticalPath(s)
                     /\ NumCores * now >= TotalWork(s)
                     /\ NumCores * now <=
                           TotalWork(l) + (NumCores - 1) * CriticalPath(l)
  BY DEF MakespanBounds
<1>1. \A i \in Instances(work) : Completed(i)
  BY AllCompleted DEF CompleteIsEmpty
<1>2. \A i \in Instances(work), latency \in Nat :
         Done(i, latency) = Duration(i, latency)
  BY <1>1, EverythingDone DEF Completed
<1>3. \A latency \in Nat :
         SumOver(AllDone(latency), Instances(work)) = TotalWork(latency)
  <2>. SUFFICES ASSUME NEW latency \in Nat
                PROVE  SumOver(AllDone(latency), Instances(work))
                          = TotalWork(latency)
    OBVIOUS
  <2>1. AllDone(latency) = [i \in Instances(work) |-> Duration(i, latency)]
    BY <1>2 DEF AllDone
  <2>. QED  BY <2>1, TotalWorkIsSum
<1>4. NumCores * now >= TotalWork(s)
  BY <1>3 DEF MakespanInv, WorkBound
<1>5. NumCores * now <= TotalWork(l) + (NumCores - 1) * CriticalPath(l)
  <2>. PICK p, P :
          /\ P \in Nat
          /\ NumCores * now + (NumCores - 1) * P
                <= SumOver(AllDone(l), Instances(work))
                   + (NumCores - 1) * CriticalPath(l)
    BY DEF MakespanInv, ListBound, Chain
  <2>. PICK a, b, c, d : /\ a = NumCores * now /\ b = (NumCores - 1) * P
                         /\ c = TotalWork(l)
                         /\ d = (NumCores - 1) * CriticalPath(l)
    OBVIOUS
  <2>1. a + b <= c + d
    BY <1>3
  <2>2. NumCores \in Nat \ {0} /\ now \in Nat /\ CriticalPath(l) \in Nat
    BY WellBehavedTypes, SchedulerAssumption, CriticalPathType
  <2>3. a \in Int /\ b \in Nat /\ d \in Int
    BY <2>2
  <2>4. c \in Int
    <3>1. SumOver(AllDone(l), Instances(work)) \in Int
      BY DoneTypes, WellBehavedTypes, SumType
    <3>. QED  BY <3>1, <1>3
  <2>5. a <= c + d
    BY ONLY <2>1, <2>3, <2>4
  <2>. QED  BY <2>5
<1>6. now >= CriticalPath(s)
  <2>1. PICK p : /\ IsPath(p, s)
                 /\ CriticalPath(s) = Max({0} \cup {p[i] : i \in Instances(work)})
                 /\ PathBound(p, s)
    BY DEF MakespanInv, CriticalBound
  <2>. PICK S, P : S = Instances(work) /\ P = CriticalPath(s)
    OBVIOUS
  <2>2. \A i \in S : p[i] \in Nat /\ Duration(i, s) \in Nat
    BY <2>1, DoneTypes DEF IsPath
  <2>3. \A i \in S : now >= p[i]
    <3>. SUFFICES ASSUME NEW i \in S PROVE now >= p[i]
      OBVIOUS
    <3>1. inDegree[i] <= 0
      BY <1>1, WellBehavedTypes DEF WInv, Progress, Completed
    <3>2. now >= p[i] - Duration(i, s) + Done(i, s) /\ Done(i, s) = Duration(i, s)
      BY <1>2, <2>1, <3>1 DEF PathBound
    <3>. QED  BY <2>2, <3>2
  <2>4. P = Max({0} \cup {p[i] : i \in S}) /\ IsFiniteSet(S)
    BY <2>1, WellBehavedTypes
  <2>5. P = 0 \/ \E i \in S : P = p[i]
    BY ONLY <2>2, <2>4, LargestValue
  <2>. QED  BY <2>3, <2>5, WellBehavedTypes
<1>. QED  BY <1>4, <1>5, <1>6

(* However long the memory requests take, the whole simulation takes as    *)
(* long as the critical path and the shared work require, and no longer    *)
(* than list scheduling allows.                                            *)
THEOREM MakespanIsBounded == Spec => []MakespanBounds
<1>. DEFINE Inv == IInv /\ WInv /\ CompleteIsEmpty /\ MakespanInv
<1>1. Init /\ WellBehaved(work) => Inv
  BY InitiallyIInv, InitiallyWInv, InitiallyMakespan DEF Init, CompleteIsEmpty
<1>2. Inv /\ [Next]_vars => Inv'
  <2>. SUFFICES ASSUME Inv, [Next]_vars PROVE Inv'
    OBVIOUS
  <2>1. IInv' /\ WInv' /\ CompleteIsEmpty'
    BY StepKeepsIInv, StepKeepsWInv, StepKeepsCompleteIsEmpty
  <2>. QED  BY <2>1, MakespanStep
<1>3. Inv => MakespanBounds
  BY MakespanAtTheEnd
<1>4. ~WellBehaved(work) => MakespanBounds
  BY DEF MakespanBounds
<1>5. ~WellBehaved(work) /\ [Next]_vars => ~WellBehaved(work)'
  <2>. SUFFICES ASSUME [Next]_vars PROVE work' = work
    BY DEF WellBehaved, TakesTime
  <2>. QED
    BY DEF Next, HandleTaskReady, HandleTaskDispatched, HandleComputeDone,
       HandleMemReqIssued, HandleMemRespDone, HandleTaskDone, Popped, Complete,
       Exited, vars
<1>. HIDE DEF Inv
<1>. QED  BY <1>1, <1>2, <1>3, <1>4, <1>5, PTL DEF Spec
=============================================================================
