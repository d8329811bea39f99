---------------------------- MODULE SimulatorProofs ----------------------------
(***************************************************************************)
(* What is true of the simulator for every number of cores, every policy   *)
(* and every set of memory latencies.                                      *)
(*                                                                         *)
(* The first part is about all workloads.  Its invariants are proved       *)
(* together: that an event finds its core as it expects needs              *)
(* CoreProtocol, that the queue is drained whenever a core is idle needs   *)
(* WorkConserving before the step, and each of them needs the types.       *)
(*                                                                         *)
(* The second part is about well-behaved workloads: every instance is      *)
(* announced and executed once, after all it depends on, and no core is    *)
(* lost.                                                                   *)
(***************************************************************************)
EXTENDS SimulatorProperties, SequenceProofs

(* LEMMAS ON THE EVENT QUEUE                                               *)

(* The queue a simulation starts from holds no event.                      *)
LEMMA EmptyQueueIsBag == IsABag(EmptyQueue) /\ DOMAIN EmptyQueue = {}
BY DEF EmptyQueue, EmptyBag, SetToBag, IsABag

(* Push adds one copy of e and touches no other event.                     *)
LEMMA PushBag ==
    ASSUME NEW q, IsABag(q), NEW e
    PROVE  /\ IsABag(Push(q, e))
           /\ DOMAIN Push(q, e) = (DOMAIN q) \cup {e}
           /\ \A f \in DOMAIN q : f # e => Push(q, e)[f] = q[f]
           /\ e \notin DOMAIN q => Push(q, e)[e] = 1
<1>1. DOMAIN Push(q, e) = (DOMAIN q) \cup {e}
  BY DEF Push, (+), SetToBag
<1>2. \A f \in DOMAIN Push(q, e) :
          Push(q, e)[f] = (IF f \in DOMAIN q THEN q[f] ELSE 0)
                          + (IF f = e THEN 1 ELSE 0)
  BY DEF Push, (+), SetToBag
<1>3. \A f \in DOMAIN q : q[f] \in Nat /\ q[f] > 0
  BY DEF IsABag
<1>4. IsABag(Push(q, e))
  <2>1. \A f \in DOMAIN Push(q, e) : Push(q, e)[f] \in {n \in Nat : n > 0}
    BY <1>1, <1>2, <1>3
  <2>2. Push(q, e) = [f \in DOMAIN Push(q, e) |-> Push(q, e)[f]]
    BY DEF Push, (+)
  <2>. QED  BY <2>1, <2>2 DEF IsABag
<1>. QED  BY <1>1, <1>2, <1>3, <1>4

(* PushAll adds one copy of each event of es.                              *)
LEMMA PushAllBag ==
    ASSUME NEW q, IsABag(q), NEW es
    PROVE  /\ IsABag(PushAll(q, es))
           /\ DOMAIN PushAll(q, es) = (DOMAIN q) \cup es
           /\ \A f \in DOMAIN q : f \notin es => PushAll(q, es)[f] = q[f]
           /\ \A f \in es : f \notin DOMAIN q => PushAll(q, es)[f] = 1
<1>1. DOMAIN PushAll(q, es) = (DOMAIN q) \cup es
  BY DEF PushAll, (+), SetToBag
<1>2. \A f \in DOMAIN PushAll(q, es) :
          PushAll(q, es)[f] = (IF f \in DOMAIN q THEN q[f] ELSE 0)
                              + (IF f \in es THEN 1 ELSE 0)
  BY DEF PushAll, (+), SetToBag
<1>3. IsABag(PushAll(q, es))
  <2>1. \A f \in DOMAIN q : q[f] \in Nat /\ q[f] > 0
    BY DEF IsABag
  <2>2. \A f \in DOMAIN PushAll(q, es) :
            PushAll(q, es)[f] \in {n \in Nat : n > 0}
    BY <1>1, <1>2, <2>1
  <2>3. PushAll(q, es) = [f \in DOMAIN PushAll(q, es) |-> PushAll(q, es)[f]]
    BY DEF PushAll, (+)
  <2>. QED  BY <2>2, <2>3 DEF IsABag
<1>. QED
  <2>1. \A f \in DOMAIN q : q[f] \in Nat
    BY DEF IsABag
  <2>. QED  BY <1>1, <1>2, <1>3, <2>1

(* What was not in the queue is there once after PushAll.                  *)
LEMMA PushedCopy ==
    ASSUME NEW q, NEW es, NEW g \in es, g \notin DOMAIN q
    PROVE  PushAll(q, es)[g] = 1
<1>1. PushAll(q, es)[g] = (IF g \in DOMAIN q THEN q[g] ELSE 0)
                          + (IF g \in es THEN 1 ELSE 0)
  BY DEF PushAll, (+), SetToBag
<1>. QED  BY <1>1

(* Pop removes one copy of e: all of it when there was only one.           *)
LEMMA PopBag ==
    ASSUME NEW q, IsABag(q), NEW e \in DOMAIN q
    PROVE  /\ IsABag(Pop(q, e))
           /\ DOMAIN Pop(q, e) \subseteq DOMAIN q
           /\ DOMAIN q \subseteq DOMAIN Pop(q, e) \cup {e}
           /\ \A f \in DOMAIN Pop(q, e) : f # e => Pop(q, e)[f] = q[f]
           /\ q[e] = 1 => e \notin DOMAIN Pop(q, e)
<1>1. \A f \in DOMAIN q : q[f] \in Nat /\ q[f] > 0
  BY DEF IsABag
<1>2. DOMAIN Pop(q, e) =
          {f \in DOMAIN q : (IF f = e THEN q[f] - 1 ELSE q[f]) > 0}
  BY DEF Pop, (-), SetToBag
<1>3. \A f \in DOMAIN Pop(q, e) :
          Pop(q, e)[f] = IF f = e THEN q[f] - 1 ELSE q[f]
  BY <1>2 DEF Pop, (-), SetToBag
<1>4. IsABag(Pop(q, e))
  <2>1. \A f \in DOMAIN Pop(q, e) : Pop(q, e)[f] \in {n \in Nat : n > 0}
    BY <1>1, <1>2, <1>3
  <2>2. Pop(q, e) = [f \in DOMAIN Pop(q, e) |-> Pop(q, e)[f]]
    BY DEF Pop, (-)
  <2>. QED  BY <2>1, <2>2 DEF IsABag
<1>. QED  BY <1>1, <1>2, <1>3, <1>4
-----------------------------------------------------------------------------
(* LEMMAS ON THE TASK GRAPH                                                *)

(* A finite family of finite sets, one per element of R, has a finite      *)
(* union.                                                                  *)
LEMMA FiniteFamily ==
    ASSUME NEW R, IsFiniteSet(R), NEW F, \A r \in R : IsFiniteSet(F[r])
    PROVE  IsFiniteSet(UNION {F[r] : r \in R})
<1>. DEFINE G == [r \in R |-> F[r]]
            Sets == {F[r] : r \in R}
<1>1. G \in Surjection(R, Sets)
  BY DEF Surjection
<1>2. IsFiniteSet(Sets)
  BY <1>1, FS_Surjection
<1>. QED
  BY <1>2, FS_UNION

(* The types of the rows of a workload.                                    *)
LEMMA RowTypes ==
    ASSUME NEW w \in Workload
    PROVE  /\ IsFiniteSet(Rows(w))
           /\ \A r \in Rows(w) :
                 /\ w.tasks[r] \in Task
                 /\ w.tasks[r].executions \in Int
                 /\ w.tasks[r].deps \in Seq(TaskIds)
                 /\ IsFiniteSet(DOMAIN w.tasks[r].deps)
<1>1. w.tasks \in Seq(Task)
  BY DEF Workload
<1>2. Rows(w) = 1 .. Len(w.tasks) /\ Len(w.tasks) \in Nat
  BY <1>1 DEF Rows
<1>3. IsFiniteSet(Rows(w))
  BY <1>2, FS_Interval
<1>4. ASSUME NEW r \in Rows(w)
      PROVE  /\ w.tasks[r] \in Task
             /\ w.tasks[r].executions \in Int
             /\ w.tasks[r].deps \in Seq(TaskIds)
             /\ IsFiniteSet(DOMAIN w.tasks[r].deps)
  <2>1. w.tasks[r] \in Task
    BY <1>1, <1>2
  <2>2. w.tasks[r].executions \in Int /\ w.tasks[r].deps \in Seq(TaskIds)
    BY <2>1 DEF Task
  <2>3. /\ DOMAIN w.tasks[r].deps = 1 .. Len(w.tasks[r].deps)
        /\ Len(w.tasks[r].deps) \in Nat
    BY <2>2
  <2>. QED  BY <2>1, <2>2, <2>3, FS_Interval
<1>. QED  BY <1>3, <1>4

(* The program creates finitely many instances.                            *)
LEMMA InstancesFinite ==
    ASSUME NEW w \in Workload
    PROVE  IsFiniteSet(Instances(w))
<1>. DEFINE F == [r \in Rows(w) |-> {r} \X (1 .. w.tasks[r].executions)]
<1>1. ASSUME NEW r \in Rows(w) PROVE IsFiniteSet(F[r])
  <2>1. w.tasks[r].executions \in Int
    BY RowTypes
  <2>2. IsFiniteSet(1 .. w.tasks[r].executions)
    BY <2>1, FS_Interval
  <2>3. IsFiniteSet({r})
    BY FS_Singleton
  <2>. QED  BY <2>2, <2>3, FS_Product
<1>2. Instances(w) = UNION {F[r] : r \in Rows(w)}
  BY DEF Instances
<1>3. IsFiniteSet(Rows(w))
  BY RowTypes
<1>. HIDE DEF F
<1>4. IsFiniteSet(UNION {F[r] : r \in Rows(w)})
  BY <1>1, <1>3, FiniteFamily
<1>. QED  BY <1>2, <1>4

(* Every instance belongs to a row and has the operations of its task.     *)
LEMMA InstanceTypes ==
    ASSUME NEW w \in Workload, NEW i \in Instances(w)
    PROVE  /\ i[1] \in Rows(w)
           /\ TaskId(w, i) \in TaskIds
           /\ OpsOf(w, i) \in Seq(Op)
           /\ i # <<0, 0>>
<1>1. PICK r \in Rows(w) : i \in {r} \X (1 .. w.tasks[r].executions)
  BY DEF Instances
<1>2. i[1] = r /\ i = <<i[1], i[2]>>
  BY <1>1
<1>3. w.tasks[r].id \in TaskIds
  BY RowTypes DEF Task
<1>4. w.ops \in [TaskIds -> Seq(Op)]
  BY DEF Workload
<1>5. i[1] # 0
  <2>1. w.tasks \in Seq(Task)
    BY DEF Workload
  <2>. QED  BY <2>1, <1>2 DEF Rows
<1>. QED  BY <1>2, <1>3, <1>4, <1>5 DEF TaskId, OpsOf

(* The lookup loop of buildDAG() finds a row: there is one with the id of  *)
(* the instance, its own, so there is a first one.                         *)
LEMMA FirstRowExists ==
    ASSUME NEW w \in Workload, NEW i \in Instances(w)
    PROVE  FirstRow(w, i) \in Rows(w)
<1>. DEFINE S == {r \in Rows(w) : w.tasks[r].id = TaskId(w, i)}
<1>1. w.tasks \in Seq(Task)
  BY DEF Workload
<1>2. S \subseteq Nat /\ S # {}
  <2>1. i[1] \in S
    BY InstanceTypes DEF TaskId
  <2>. QED  BY <2>1, <1>1 DEF Rows
<1>3. PICK r \in S : \A s \in S : r <= s
  <2>. HIDE DEF S
  <2>. QED  BY <1>2, LeastNatural
<1>. QED  BY <1>3 DEF FirstRow

(* The in-degree buildDAG() computes is a natural number.                  *)
LEMMA InitialInDegreeType ==
    ASSUME NEW w \in Workload, NEW i \in Instances(w)
    PROVE  InitialInDegree(w, i) \in Nat
<1>. DEFINE deps == w.tasks[FirstRow(w, i)].deps
<1>1. IsFiniteSet(DOMAIN deps) /\ IsFiniteSet(Instances(w))
  BY FirstRowExists, RowTypes, InstancesFinite
<1>2. IsFiniteSet((DOMAIN deps) \X Instances(w))
  BY <1>1, FS_Product
<1>3. DependenciesOf(w, i) \subseteq (DOMAIN deps) \X Instances(w)
  BY DEF DependenciesOf
<1>. QED  BY <1>2, <1>3, FS_Subset, FS_CardinalityType DEF InitialInDegree

(* An instance occurs finitely often in the successors of another.         *)
LEMMA MultiplicityType ==
    ASSUME NEW w \in Workload, NEW i \in Instances(w), NEW j \in Instances(w)
    PROVE  Multiplicity(w, i, j) \in Nat
<1>. DEFINE F == [r \in Rows(w) |-> {r} \X DOMAIN w.tasks[r].deps]
<1>1. ASSUME NEW r \in Rows(w) PROVE IsFiniteSet(F[r])
  BY RowTypes, FS_Singleton, FS_Product
<1>2. SuccessorEntries(w, i, j) \subseteq UNION {F[r] : r \in Rows(w)}
  BY DEF SuccessorEntries
<1>3. IsFiniteSet(Rows(w))
  BY RowTypes
<1>. HIDE DEF F
<1>4. IsFiniteSet(UNION {F[r] : r \in Rows(w)})
  BY <1>1, <1>3, FiniteFamily
<1>. QED  BY <1>2, <1>4, FS_Subset, FS_CardinalityType DEF Multiplicity

(* A finite relation in which all of S have a predecessor in S has a part  *)
(* of S in which all have a successor: elements without one can be taken   *)
(* away until none is left.                                                *)
LEMMA SomeHaveSuccessors ==
    ASSUME NEW S, IsFiniteSet(S), S # {}, NEW R,
           \A b \in S : \E a \in S : <<a, b>> \in R
    PROVE  \E T \in SUBSET S :
              T # {} /\ \A a \in T : \E b \in T : <<a, b>> \in R
<1>. DEFINE Closed(T) == \A b \in T : \E a \in T : <<a, b>> \in R
            Candidates == {T \in SUBSET S : T # {} /\ Closed(T)}
            Sizes == {Cardinality(T) : T \in Candidates}
<1>1. \A T \in SUBSET S : IsFiniteSet(T) /\ Cardinality(T) \in Nat
  BY FS_Subset, FS_CardinalityType
<1>2. Sizes \in SUBSET Nat /\ Sizes # {}
  <2>1. S \in Candidates
    OBVIOUS
  <2>2. Candidates \subseteq SUBSET S
    OBVIOUS
  <2>. HIDE DEF Candidates
  <2>. QED  BY <2>1, <2>2, <1>1
<1>3. PICK n \in Sizes : \A m \in Sizes : n <= m
  <2>. HIDE DEF Sizes
  <2>. QED  BY <1>2, LeastNatural
<1>4. PICK T \in Candidates : Cardinality(T) = n
  BY <1>3
<1>5. T \in SUBSET S /\ T # {} /\ Closed(T)
  BY <1>4
<1>6. ASSUME NEW a \in T, \A b \in T : <<a, b>> \notin R
      PROVE  FALSE
  <2>. DEFINE U == T \ {a}
  <2>1. U \in SUBSET S /\ U # {} /\ Closed(U)
    <3>1. U \in SUBSET S
      BY <1>5
    <3>2. \A b \in T : \E c \in U : <<c, b>> \in R
      BY <1>5, <1>6
    <3>3. U # {}
      BY <3>2, <1>5
    <3>. QED  BY <3>1, <3>2, <3>3
  <2>2. Cardinality(U) \in Sizes
    BY <2>1
  <2>3. n <= Cardinality(U)
    BY <2>2, <1>3
  <2>4. Cardinality(U) = Cardinality(T) - 1 /\ Cardinality(T) \in Nat
    BY <1>1, <1>5, FS_RemoveElement
  <2>. QED  BY <2>3, <2>4, <1>4
<1>. QED  BY <1>5, <1>6

(* Where detectCycles() finds nothing, every set of instances has one that *)
(* is a successor of none of them.                                         *)
LEMMA AcyclicInstances ==
    ASSUME NEW w \in Workload, ~HasCycle(w),
           NEW S \in SUBSET Instances(w), S # {}
    PROVE  \E i \in S : \A d \in S : Multiplicity(w, d, i) = 0
<1>. SUFFICES ASSUME \A i \in S : \E d \in S : Multiplicity(w, d, i) # 0
              PROVE  FALSE
  OBVIOUS
<1>. DEFINE ids == {TaskId(w, i) : i \in S}
            R == {x \in TaskIds \X TaskIds :
                     \E r \in Rows(w) : \E p \in DOMAIN w.tasks[r].deps :
                        w.tasks[r].id = x[2] /\ w.tasks[r].deps[p] = x[1]}
            f == [i \in S |-> TaskId(w, i)]
<1>1. IsFiniteSet(ids) /\ ids # {}
  <2>1. IsFiniteSet(S)
    BY InstancesFinite, FS_Subset
  <2>2. f \in Surjection(S, ids)
    BY DEF Surjection
  <2>. HIDE DEF f, ids
  <2>3. IsFiniteSet(ids)
    BY <2>1, <2>2, FS_Surjection
  <2>. QED  BY <2>3 DEF ids
<1>2. \A b \in ids : \E a \in ids : <<a, b>> \in R
  <2>. SUFFICES ASSUME NEW i \in S
                PROVE  \E a \in ids : <<a, TaskId(w, i)>> \in R
    OBVIOUS
  <2>1. PICK d \in S : Multiplicity(w, d, i) # 0
    OBVIOUS
  <2>2. SuccessorEntries(w, d, i) # {}
    BY <2>1, FS_EmptySet DEF Multiplicity
  <2>3. PICK r \in Rows(w) : \E p \in DOMAIN w.tasks[r].deps :
           w.tasks[r].id = TaskId(w, i) /\ w.tasks[r].deps[p] = TaskId(w, d)
    BY <2>2 DEF SuccessorEntries
  <2>4. TaskId(w, i) \in TaskIds /\ TaskId(w, d) \in TaskIds
    BY InstanceTypes
  <2>. QED  BY <2>3, <2>4
<1>. HIDE DEF R
<1>3. PICK T \in SUBSET ids :
         T # {} /\ \A a \in T : \E b \in T : <<a, b>> \in R
  <2>. HIDE DEF ids
  <2>. QED  BY <1>1, <1>2, SomeHaveSuccessors
<1>. DEFINE known == {w.tasks[r].id : r \in Rows(w)}
<1>4. T \in (SUBSET known) \ {{}}
  <2>1. \A i \in S : i[1] \in Rows(w)
    BY InstanceTypes
  <2>2. ids \subseteq known
    BY <2>1 DEF TaskId
  <2>. HIDE DEF ids, known
  <2>. QED  BY <2>2, <1>3
<1>5. \A a \in T : \E r \in Rows(w) : \E p \in DOMAIN w.tasks[r].deps :
         w.tasks[r].id \in T /\ w.tasks[r].deps[p] = a
  <2>. SUFFICES ASSUME NEW a \in T
                PROVE  \E r \in Rows(w) : \E p \in DOMAIN w.tasks[r].deps :
                          w.tasks[r].id \in T /\ w.tasks[r].deps[p] = a
    OBVIOUS
  <2>1. PICK b \in T : <<a, b>> \in R
    BY <1>3
  <2>. QED  BY <2>1 DEF R
<1>. QED  BY <1>4, <1>5 DEF HasCycle
-----------------------------------------------------------------------------

Events == [type : EventTypes, time : Int, core : Cores \cup {NoCore},
           inst : Instances(work), address : Addresses]

(* Time t is not before time s, unless durations may be negative.          *)
Due(s, t) == NonNegativeDurations(work) => s \in Nat /\ t \in Nat /\ s <= t

(* What the clock satisfies: with durations that are not negative a time   *)
(* never wraps around zero, and nothing in the queue is late.              *)
OnTime ==
    /\ Due(now, now)
    /\ \A e \in DOMAIN events : Due(now, e.time)
    /\ \A i \in Instances(work) : Due(0, readyTime[i])

(* The inductive invariant.                                                *)
IInv ==
    /\ TypeOK
    /\ CoreProtocol
    /\ NoException
    /\ WorkConserving
    /\ OnTime
    /\ ActiveOnlyWhenSatisfied

-----------------------------------------------------------------------------
(* LEMMAS ON THE PARTS OF A HANDLER                                        *)

(* What taking position k out of a queue leaves.                           *)
LEMMA Dequeued ==
    ASSUME NEW S, NEW q \in Seq(S), NEW k \in DOMAIN q
    PROVE  /\ RemoveAt(q, k) \in Seq(S)
           /\ Len(RemoveAt(q, k)) = Len(q) - 1
           /\ DOMAIN q = 1 .. Len(q) /\ Len(q) \in Nat
           /\ DOMAIN RemoveAt(q, k) = 1 .. Len(q) - 1
           /\ \A m \in 1 .. Len(q) - 1 :
                 RemoveAt(q, k)[m] = q[IF m < k THEN m ELSE m + 1]
           /\ \A m \in DOMAIN RemoveAt(q, k) :
                 \E n \in DOMAIN q : RemoveAt(q, k)[m] = q[n]
<1>1. DOMAIN q = 1 .. Len(q) /\ Len(q) \in Nat /\ k \in 1 .. Len(q)
  OBVIOUS
<1>2. /\ RemoveAt(q, k) \in Seq(S)
      /\ Len(RemoveAt(q, k)) = Len(q) - 1
      /\ DOMAIN RemoveAt(q, k) = 1 .. Len(q) - 1
      /\ \A m \in 1 .. Len(q) - 1 :
            RemoveAt(q, k)[m] = IF m < k THEN q[m] ELSE q[m + 1]
  BY <1>1, RemoveAtSeq
<1>. QED  BY <1>1, <1>2

(* What pop leaves of the queue.  The event of a core was its only one.    *)
LEMMA PoppedEvent ==
    ASSUME IInv, NEW e \in DOMAIN events
    PROVE  /\ e \in Events
           /\ IsABag(Pop(events, e))
           /\ DOMAIN Pop(events, e) \subseteq DOMAIN events
           /\ DOMAIN events \subseteq DOMAIN Pop(events, e) \cup {e}
           /\ \A f \in DOMAIN Pop(events, e) :
                 f # e => Pop(events, e)[f] = events[f]
           /\ e.core # NoCore =>
                 /\ e.core \in Cores
                 /\ DOMAIN Pop(events, e) = DOMAIN events \ {e}
                 /\ \A f \in DOMAIN Pop(events, e) : f.core # e.core
<1>1. IsABag(events) /\ e \in Events
  BY DEF IInv, TypeOK, Events
<1>2. /\ IsABag(Pop(events, e))
      /\ DOMAIN Pop(events, e) \subseteq DOMAIN events
      /\ DOMAIN events \subseteq DOMAIN Pop(events, e) \cup {e}
      /\ \A f \in DOMAIN Pop(events, e) :
            f # e => Pop(events, e)[f] = events[f]
      /\ events[e] = 1 => e \notin DOMAIN Pop(events, e)
  BY <1>1, PopBag
<1>3. ASSUME e.core # NoCore
      PROVE  /\ e.core \in Cores
             /\ events[e] = 1
             /\ \A f \in DOMAIN events : f.core = e.core => f = e
  BY <1>1, <1>3 DEF IInv, CoreProtocol, CoreEvents, Events
<1>. QED  BY <1>1, <1>2, <1>3

(* The events not taken are not earlier than the one that is, and that one *)
(* is not earlier than the clock.                                          *)
LEMMA PoppedIsEarliest ==
    ASSUME IInv, NEW e \in Earliest(events)
    PROVE  /\ e \in DOMAIN events
           /\ Due(now, e.time) /\ Due(e.time, e.time)
           /\ \A f \in DOMAIN Pop(events, e) : Due(e.time, f.time)
<1>1. /\ e \in DOMAIN events
      /\ \A f \in DOMAIN events : ~Before(f.time, e.time)
  BY DEF Earliest
<1>2. \A f \in DOMAIN events : Due(now, f.time)
  BY DEF IInv, OnTime
<1>3. \A f \in DOMAIN events : Due(e.time, f.time)
  BY <1>1, <1>2 DEF Due, Before
<1>4. DOMAIN Pop(events, e) \subseteq DOMAIN events
  BY <1>1, PoppedEvent
<1>. QED  BY <1>1, <1>2, <1>3, <1>4

(* The event of a core replaced by the next one of the same core.          *)
LEMMA ReplacedEvent ==
    ASSUME IInv, NEW e \in DOMAIN events, e.core # NoCore,
           NEW f \in Events, f.core = e.core
    PROVE  LET q == Push(Pop(events, e), f)
           IN  /\ IsABag(q)
               /\ DOMAIN q = (DOMAIN events \ {e}) \cup {f}
               /\ DOMAIN q \subseteq Events
               /\ q[f] = 1
               /\ \A g \in DOMAIN events \ {e} :
                     g # f /\ g.core # f.core /\ q[g] = events[g]
<1>. DEFINE p == Pop(events, e)
            q == Push(p, f)
<1>1. /\ IsABag(p)
      /\ DOMAIN p = DOMAIN events \ {e}
      /\ \A g \in DOMAIN p : g.core # f.core /\ p[g] = events[g]
  BY PoppedEvent
<1>2. DOMAIN p \subseteq Events
  BY <1>1 DEF IInv, TypeOK, Events
<1>3. f \notin DOMAIN p
  BY <1>1
<1>. HIDE DEF p
<1>4. /\ IsABag(q)
      /\ DOMAIN q = (DOMAIN p) \cup {f}
      /\ q[f] = 1
      /\ \A g \in DOMAIN p : g # f => q[g] = p[g]
  BY <1>1, <1>3, PushBag
<1>. HIDE DEF q
<1>5. \A g \in DOMAIN events \ {e} :
         g # f /\ g.core # f.core /\ q[g] = events[g]
  BY <1>1, <1>3, <1>4
<1>6. DOMAIN q \subseteq Events
  BY <1>2, <1>4
<1>7. IsABag(q) /\ DOMAIN q = (DOMAIN events \ {e}) \cup {f} /\ q[f] = 1
  BY <1>1, <1>4
<1>. QED  BY <1>5, <1>6, <1>7 DEF q, p

(* A handler that answers the event of core c with the next event of c, of *)
(* the same instance and not in the past, and brings the core into the     *)
(* state that event expects, keeps what the queue is known to satisfy.     *)
LEMMA ReplaceStep ==
    ASSUME IInv, NEW e \in Earliest(events), e.core # NoCore,
           NEW f \in Events, f.core = e.core, f.inst = e.inst,
           f.type # "TaskReady", Due(e.time, f.time),
           events' = Push(Pop(events, e), f),
           now' = e.time,
           UNCHANGED <<work, phase, inDegree, readyTime, schedulerVars>>,
           cores' = [cores EXCEPT ![e.core] =
                        IF f.type \in {"TaskDispatched", "TaskDone"}
                        THEN IdleCore ELSE BusyWith(f.inst)],
           opIndex' \in [Instances(work) -> Nat]
    PROVE  IInv'
<1>1. /\ e \in DOMAIN events /\ e \in Events /\ e.core \in Cores
      /\ Due(e.time, e.time)
      /\ \A g \in DOMAIN events \ {e} : Due(e.time, g.time)
  BY PoppedEvent, PoppedIsEarliest DEF Earliest
<1>2. /\ IsABag(events')
      /\ DOMAIN events' = (DOMAIN events \ {e}) \cup {f}
      /\ DOMAIN events' \subseteq Events
      /\ events'[f] = 1
      /\ \A g \in DOMAIN events \ {e} :
            g # f /\ g.core # f.core /\ events'[g] = events[g]
  <2>. DEFINE q == Push(Pop(events, e), f)
  <2>1. /\ IsABag(q)
        /\ DOMAIN q = (DOMAIN events \ {e}) \cup {f}
        /\ DOMAIN q \subseteq Events
        /\ q[f] = 1
        /\ \A g \in DOMAIN events \ {e} :
              g # f /\ g.core # f.core /\ q[g] = events[g]
    BY <1>1, ReplacedEvent
  <2>2. events' = q
    OBVIOUS
  <2>. HIDE DEF q
  <2>. QED  BY <2>1, <2>2
<1>3. /\ ~coreIdle[e.core]
      /\ inDegree[f.inst] <= 0
  BY <1>1 DEF IInv, CoreProtocol, CoreEvents, CoreStateFits,
              ActiveOnlyWhenSatisfied
<1>4. /\ cores' \in [Cores -> [busy : BOOLEAN,
                               current : Instances(work) \cup {NoInstance}]]
      /\ \A c \in Cores \ {e.core} : cores'[c] = cores[c]
      /\ cores'[e.core] = IF f.type \in {"TaskDispatched", "TaskDone"}
                          THEN IdleCore ELSE BusyWith(f.inst)
  BY <1>1 DEF IInv, TypeOK, IdleCore, BusyWith, Events
<1>5. TypeOK'
  BY <1>1, <1>2, <1>4 DEF IInv, TypeOK, Events, schedulerVars
<1>6. CoreProtocol'
  <2>1. \A g \in DOMAIN events' : g.core = NoCore => g.type = "TaskReady"
    BY <1>2 DEF IInv, CoreProtocol
  <2>2. ASSUME NEW g \in DOMAIN events', g.core # NoCore
        PROVE  events'[g] = 1 /\ CoreStateFits(g)'
    <3>1. CASE g = f
      BY <3>1, <1>2, <1>3, <1>4 DEF CoreStateFits, schedulerVars
    <3>2. CASE g # f
      <4>1. g \in DOMAIN events \ {e} /\ g.core # e.core /\ g.core \in Cores
        BY <3>2, <2>2, <1>2 DEF IInv, TypeOK
      <4>. QED
        BY <4>1, <2>2, <1>2, <1>4
           DEF IInv, CoreProtocol, CoreEvents, CoreStateFits, schedulerVars
    <3>. QED  BY <3>1, <3>2
  <2>3. \A g, h \in DOMAIN events' :
           g.core # NoCore /\ g.core = h.core => g = h
    BY <1>2 DEF IInv, CoreProtocol, CoreEvents
  <2>4. \A c \in Cores : cores'[c].busy => \E g \in CoreEvents' : g.core = c
    BY <1>2, <1>4 DEF IInv, CoreProtocol, CoreEvents
  <2>5. \A c \in Cores : ~cores'[c].busy => cores'[c] = IdleCore
    BY <1>4 DEF IInv, CoreProtocol, IdleCore, BusyWith
  <2>. QED  BY <2>1, <2>2, <2>3, <2>4, <2>5 DEF CoreProtocol, CoreEvents
<1>7. OnTime'
  BY <1>1, <1>2 DEF IInv, OnTime, Due
<1>8. ActiveOnlyWhenSatisfied'
  BY <1>2, <1>3, <1>4 DEF IInv, ActiveOnlyWhenSatisfied, schedulerVars,
                          IdleCore, BusyWith
<1>. QED
  BY <1>5, <1>6, <1>7, <1>8 DEF IInv, NoException, WorkConserving, schedulerVars
-----------------------------------------------------------------------------
(* THE STEPS                                                               *)

(* What every handler starts with.                                         *)
LEMMA PoppedBy ==
    ASSUME IInv, NEW type, NEW e \in DOMAIN events, Popped(e, type)
    PROVE  /\ e \in Earliest(events) /\ e \in Events /\ e.type = type
           /\ now' = e.time /\ work' = work
           /\ work \in Workload
           /\ e.inst \in Instances(work)
           /\ OpsOf(work, e.inst) \in Seq(Op)
           /\ type = "TaskReady" => e.core = NoCore
           /\ type # "TaskReady" =>
                 /\ e.core # NoCore
                 /\ e.core \in Cores
                 /\ CoreStateFits(e)
<1>1. /\ e \in Earliest(events) /\ e \in Events /\ e.type = type
      /\ now' = e.time /\ work' = work
  BY PoppedEvent DEF Popped
<1>2. work \in Workload
  BY SimulatorAssumption DEF IInv, TypeOK
<1>3. e.inst \in Instances(work) /\ OpsOf(work, e.inst) \in Seq(Op)
  BY <1>1, <1>2, InstanceTypes DEF Events
<1>4. /\ e.core = NoCore => e.type = "TaskReady"
      /\ e.core # NoCore => CoreStateFits(e)
  BY DEF IInv, CoreProtocol, CoreEvents
<1>. QED  BY <1>1, <1>2, <1>3, <1>4 DEF CoreStateFits, Events

(* executeOp() on the core of e, for the instance of e: the core goes on   *)
(* with operation n and its next event tells so.                           *)
LEMMA ExecuteOpStep ==
    ASSUME IInv, NEW e \in Earliest(events), e \in Events, e.core # NoCore,
           now' = e.time, work \in Workload,
           UNCHANGED <<work, phase, inDegree, readyTime, schedulerVars>>,
           opIndex' \in [Instances(work) -> Nat],
           NEW n \in Nat, n < Len(OpsOf(work, e.inst)),
           ExecuteOp(e.core, e.inst, n, Pop(events, e))
    PROVE  IInv'
<1>. DEFINE op == OpsOf(work, e.inst)[n + 1]
            f == OpEvent(op, e.core, e.inst, e.time)
<1>1. /\ e.inst \in Instances(work) /\ e.time \in Int /\ e.core \in Cores
      /\ Due(e.time, e.time)
  BY PoppedIsEarliest DEF Events
<1>2. /\ op \in Op
      /\ NonNegativeDurations(work) /\ op.type = "Compute" => op.cycles >= 0
  <2>1. OpsOf(work, e.inst) \in Seq(Op)
    BY <1>1, InstanceTypes
  <2>2. n + 1 \in DOMAIN OpsOf(work, e.inst)
    BY <2>1
  <2>. QED  BY <2>1, <2>2, <1>1 DEF NonNegativeDurations
<1>3. /\ f \in Events /\ f.core = e.core /\ f.inst = e.inst
      /\ f.type \in {"ComputeDone", "MemReqIssued"}
      /\ f.time = IF op.type = "Compute" THEN e.time + op.cycles ELSE e.time
  BY <1>1, <1>2, SimulatorAssumption
     DEF OpEvent, Event, Events, Op, OpTypes, EventTypes
<1>4. Due(e.time, f.time)
  BY <1>1, <1>2, <1>3 DEF Due, Op
<1>5. events' = Push(Pop(events, e), f)
  BY DEF ExecuteOp
<1>6. cores' = [cores EXCEPT ![e.core] = BusyWith(f.inst)]
  BY <1>3 DEF ExecuteOp
<1>. HIDE DEF f
<1>. QED  BY <1>3, <1>4, <1>5, <1>6, ReplaceStep

(* The handlers that replace the event of a core by its next one.          *)
LEMMA HandleTaskDispatchedStep ==
    ASSUME IInv, NEW e \in DOMAIN events, HandleTaskDispatched(e)
    PROVE  IInv'
<1>1. /\ e \in Earliest(events) /\ e \in Events /\ e.type = "TaskDispatched"
      /\ now' = e.time /\ work' = work /\ work \in Workload
      /\ e.core # NoCore /\ e.core \in Cores /\ cores[e.core] = IdleCore
      /\ e.inst \in Instances(work)
  BY PoppedBy DEF HandleTaskDispatched, CoreStateFits
<1>2. ~cores[e.core].busy
  BY <1>1 DEF IdleCore
<1>3. CASE /\ opIndex[e.inst] < Len(OpsOf(work, e.inst))
           /\ ExecuteOp(e.core, e.inst, opIndex[e.inst], Pop(events, e))
           /\ UNCHANGED <<phase, graphVars, schedulerVars>>
  <2>1. opIndex[e.inst] \in Nat /\ opIndex' \in [Instances(work) -> Nat]
    BY <1>1, <1>3 DEF IInv, TypeOK, graphVars
  <2>. QED  BY <2>1, <1>1, <1>3, ExecuteOpStep DEF graphVars
<1>4. CASE /\ events' = Pop(events, e)
           /\ UNCHANGED <<phase, graphVars, schedulerVars, cores>>
  <2>1. /\ IsABag(events')
        /\ DOMAIN events' = DOMAIN events \ {e}
        /\ \A f \in DOMAIN events' :
              f.core # e.core /\ events'[f] = events[f] /\ Due(e.time, f.time)
    BY <1>1, <1>4, PoppedEvent, PoppedIsEarliest
  <2>2. TypeOK'
    BY <2>1, <1>1, <1>4 DEF IInv, TypeOK, Events, graphVars, schedulerVars
  <2>3. CoreProtocol'
    BY <2>1, <1>1, <1>2, <1>4
       DEF IInv, CoreProtocol, CoreEvents, CoreStateFits, schedulerVars
  <2>4. OnTime'
    <3>1. Due(e.time, e.time)
      BY <1>1, PoppedIsEarliest
    <3>. QED  BY <3>1, <2>1, <1>1, <1>4 DEF IInv, OnTime, Due, graphVars
  <2>5. ActiveOnlyWhenSatisfied'
    BY <2>1, <1>4 DEF IInv, ActiveOnlyWhenSatisfied, graphVars, schedulerVars
  <2>. QED
    BY <2>2, <2>3, <2>4, <2>5, <1>4
       DEF IInv, NoException, WorkConserving, schedulerVars
<1>. QED  BY <1>2, <1>3, <1>4 DEF HandleTaskDispatched

(* completeOp() never throws; it goes on with the next operation or leaves *)
(* the core to its TaskDone.                                               *)
LEMMA CompleteOpStep ==
    ASSUME IInv, NEW e \in Earliest(events), e \in Events, e.core # NoCore,
           e.core \in Cores, e.type \in {"ComputeDone", "MemRespDone"},
           now' = e.time, work' = work, work \in Workload,
           CoreStateFits(e), CompleteOp(e)
    PROVE  IInv'
<1>1. e.inst \in Instances(work) /\ cores[e.core] = BusyWith(e.inst)
  BY DEF Events, CoreStateFits
<1>2. cores[e.core].busy /\ cores[e.core].current = e.inst
  BY <1>1 DEF BusyWith
<1>3. CanComplete(cores[e.core])
  BY <1>1, <1>2, InstanceTypes DEF CanComplete, NoInstance
<1>4. /\ opIndex' = [opIndex EXCEPT ![e.inst] = @ + 1]
      /\ \/ /\ cores' = [cores EXCEPT ![e.core] = IdleCore]
            /\ events' = Push(Pop(events, e),
                  Event("TaskDone", now', e.core, e.inst, NoAddress))
         \/ /\ opIndex'[e.inst] < Len(OpsOf(work, e.inst))
            /\ ExecuteOp(e.core, e.inst, opIndex'[e.inst], Pop(events, e))
      /\ UNCHANGED <<phase, inDegree, readyTime, schedulerVars>>
  BY <1>2, <1>3 DEF CompleteOp
<1>5. opIndex' \in [Instances(work) -> Nat] /\ opIndex'[e.inst] \in Nat
  BY <1>1, <1>4 DEF IInv, TypeOK
<1>6. CASE /\ cores' = [cores EXCEPT ![e.core] = IdleCore]
           /\ events' = Push(Pop(events, e),
                 Event("TaskDone", now', e.core, e.inst, NoAddress))
  <2>. DEFINE f == Event("TaskDone", e.time, e.core, e.inst, NoAddress)
  <2>1. /\ f \in Events /\ f.core = e.core /\ f.inst = e.inst
        /\ f.type = "TaskDone" /\ Due(e.time, f.time)
    BY <1>1, PoppedIsEarliest, SimulatorAssumption
       DEF Event, Events, EventTypes
  <2>2. events' = Push(Pop(events, e), f)
    BY <1>6
  <2>. HIDE DEF f
  <2>. QED  BY <2>1, <2>2, <1>4, <1>5, <1>6, ReplaceStep
<1>7. CASE /\ opIndex'[e.inst] < Len(OpsOf(work, e.inst))
           /\ ExecuteOp(e.core, e.inst, opIndex'[e.inst], Pop(events, e))
  BY <1>4, <1>5, <1>7, ExecuteOpStep
<1>. QED  BY <1>4, <1>6, <1>7

(* The same at the end of a computation, which ends or goes on.            *)
LEMMA HandleComputeDoneStep ==
    ASSUME IInv, NEW e \in DOMAIN events, HandleComputeDone(e)
    PROVE  IInv'
BY PoppedBy, CompleteOpStep DEF HandleComputeDone

(* The same at a response of the memory.                                   *)
LEMMA HandleMemRespDoneStep ==
    ASSUME IInv, NEW e \in DOMAIN events, HandleMemRespDone(e)
    PROVE  IInv'
BY PoppedBy, CompleteOpStep DEF HandleMemRespDone

(* The same at a request to the memory, which answers it later.            *)
LEMMA HandleMemReqIssuedStep ==
    ASSUME IInv, NEW e \in DOMAIN events, HandleMemReqIssued(e)
    PROVE  IInv'
<1>1. /\ e \in Earliest(events) /\ e \in Events /\ e.type = "MemReqIssued"
      /\ now' = e.time /\ work' = work
      /\ e.core # NoCore /\ e.core \in Cores
      /\ cores[e.core] = BusyWith(e.inst)
  BY PoppedBy DEF HandleMemReqIssued, CoreStateFits
<1>2. PICK latency \in MemLatencies :
         events' = Push(Pop(events, e),
            Event("MemRespDone", now' + latency, e.core, e.inst, e.address))
  BY DEF HandleMemReqIssued
<1>. DEFINE f == Event("MemRespDone", e.time + latency, e.core, e.inst,
                       e.address)
<1>3. /\ f \in Events /\ f.core = e.core /\ f.inst = e.inst
      /\ f.type = "MemRespDone" /\ f.time = e.time + latency
      /\ latency \in Nat
  BY <1>1, SimulatorAssumption DEF Event, Events, EventTypes
<1>4. events' = Push(Pop(events, e), f)
  BY <1>1, <1>2
<1>. HIDE DEF f
<1>5. UNCHANGED <<phase, graphVars, schedulerVars, cores>>
  BY DEF HandleMemReqIssued
<1>6. opIndex' \in [Instances(work) -> Nat]
  BY <1>5 DEF IInv, TypeOK, graphVars
<1>7. cores' = [cores EXCEPT ![e.core] = BusyWith(f.inst)]
  BY <1>1, <1>3, <1>5 DEF IInv, TypeOK
<1>8. Due(e.time, f.time)
  BY <1>1, <1>3, PoppedIsEarliest DEF Due
<1>. QED
  BY <1>1, <1>3, <1>4, <1>5, <1>6, <1>7, <1>8, ReplaceStep DEF graphVars

(* q is a queue a handler has built half-way, with no event left for the   *)
(* cores that idle says are free: what the invariant asks of the queue     *)
(* holds of q, for in-degrees degree and at time t.                        *)
Consistent(q, idle, degree, t) ==
    /\ IsABag(q)
    /\ DOMAIN q \subseteq Events
    /\ \A f \in DOMAIN q :
          /\ Due(t, f.time)
          /\ degree[f.inst] <= 0
          /\ f.core = NoCore => f.type = "TaskReady"
          /\ f.core # NoCore =>
                /\ q[f] = 1
                /\ f.type # "TaskReady"
                /\ ~idle[f.core]
                /\ cores[f.core] =
                      IF f.type \in {"TaskDispatched", "TaskDone"}
                      THEN IdleCore ELSE BusyWith(f.inst)
    /\ \A f, g \in DOMAIN q : f.core # NoCore /\ f.core = g.core => f = g
    /\ \A d \in Cores : cores[d].busy =>
          /\ \E f \in DOMAIN q : f.core = d
          /\ degree[cores[d].current] <= 0

(* A handler that leaves the cores alone and the queue consistent keeps    *)
(* the invariant, if it leaves no instance waiting for an idle core.       *)
LEMMA ConsistentStep ==
    ASSUME IInv, Consistent(events', coreIdle', inDegree', now'),
           now' \in Int, Due(now', now'), UNCHANGED <<work, phase, cores>>,
           readyQueue' \in Seq(Instances(work)),
           \A k \in DOMAIN readyQueue' : inDegree'[readyQueue'[k]] <= 0,
           coreIdle' \in [Cores -> BOOLEAN], nextCore' \in Cores,
           inDegree' \in [Instances(work) -> Int],
           opIndex' \in [Instances(work) -> Nat],
           readyTime' \in [Instances(work) -> Int],
           \A i \in Instances(work) : Due(0, readyTime'[i]),
           WorkConserving'
    PROVE  IInv'
<1>1. TypeOK'
  BY DEF Consistent, IInv, TypeOK, Events
<1>2. CoreProtocol'
  <2>1. \A f \in DOMAIN events' : f.core = NoCore => f.type = "TaskReady"
    BY DEF Consistent
  <2>2. \A f \in DOMAIN events' :
           f.core # NoCore => events'[f] = 1 /\ CoreStateFits(f)'
    BY DEF Consistent, CoreStateFits
  <2>3. \A f, g \in DOMAIN events' :
           f.core # NoCore /\ f.core = g.core => f = g
    BY DEF Consistent
  <2>4. \A d \in Cores : cores'[d].busy => \E f \in CoreEvents' : f.core = d
    BY DEF Consistent, CoreEvents, Cores, NoCore
  <2>5. \A d \in Cores : ~cores'[d].busy => cores'[d] = IdleCore
    BY DEF IInv, CoreProtocol
  <2>. QED  BY <2>1, <2>2, <2>3, <2>4, <2>5 DEF CoreProtocol, CoreEvents
<1>3. OnTime'
  BY DEF Consistent, OnTime, Due
<1>4. ActiveOnlyWhenSatisfied'
  BY DEF Consistent, ActiveOnlyWhenSatisfied
<1>. QED  BY <1>1, <1>2, <1>3, <1>4 DEF IInv, NoException

(* dispatch() of an instance of queue to core c, the only idle core if     *)
(* queue holds more than the instance that will be taken.                  *)
LEMMA DispatchStep ==
    ASSUME IInv, NEW q, NEW idle \in [Cores -> BOOLEAN],
           Consistent(q, idle, inDegree', now'),
           NEW c \in Cores, idle[c],
           NEW queue \in Seq(Instances(work)),
           Len(queue) > 1 => \A d \in Cores \ {c} : ~idle[d],
           \A k \in DOMAIN queue : inDegree'[queue[k]] <= 0,
           now' \in Int, Due(now', now'),
           UNCHANGED <<work, cores>>, nextCore' \in Cores,
           inDegree' \in [Instances(work) -> Int],
           opIndex' \in [Instances(work) -> Nat],
           readyTime' \in [Instances(work) -> Int],
           \A i \in Instances(work) : Due(0, readyTime'[i]),
           Dispatch(queue, idle, c, q)
    PROVE  IInv'
<1>1. PICK k \in DOMAIN queue :
         /\ phase' = phase
         /\ readyQueue' = RemoveAt(queue, k)
         /\ coreIdle' = [idle EXCEPT ![c] = FALSE]
         /\ events' = Push(q,
                Event("TaskDispatched", now', c, queue[k], NoAddress))
  BY DEF Dispatch, DispatchTo
<1>. DEFINE e == Event("TaskDispatched", now', c, queue[k], NoAddress)
<1>2. /\ e \in Events /\ e.core = c /\ e.core # NoCore /\ e.time = now'
      /\ e.type = "TaskDispatched" /\ inDegree'[e.inst] <= 0
  BY SimulatorAssumption DEF Event, Events, EventTypes, Cores, NoCore
<1>3. events' = Push(q, e)
  BY <1>1
<1>. HIDE DEF e
<1>4. e \notin DOMAIN q /\ \A f \in DOMAIN q : f.core # c
  BY <1>2 DEF Consistent
<1>5. /\ IsABag(events')
      /\ DOMAIN events' = (DOMAIN q) \cup {e}
      /\ events'[e] = 1
      /\ \A f \in DOMAIN q : f # e => events'[f] = q[f]
  <2>1. IsABag(q)
    BY DEF Consistent
  <2>2. \A f : f \notin DOMAIN q =>
           /\ IsABag(Push(q, f))
           /\ DOMAIN Push(q, f) = (DOMAIN q) \cup {f}
           /\ Push(q, f)[f] = 1
           /\ \A g \in DOMAIN q : g # f => Push(q, f)[g] = q[g]
    BY ONLY <2>1, PushBag
  <2>. QED  BY <2>2, <1>3, <1>4
<1>6. /\ readyQueue' \in Seq(Instances(work))
      /\ Len(readyQueue') = Len(queue) - 1
      /\ \A m \in DOMAIN readyQueue' :
            \E n \in DOMAIN queue : readyQueue'[m] = queue[n]
  <2>1. /\ RemoveAt(queue, k) \in Seq(Instances(work))
        /\ Len(RemoveAt(queue, k)) = Len(queue) - 1
        /\ \A m \in DOMAIN RemoveAt(queue, k) :
              \E n \in DOMAIN queue : RemoveAt(queue, k)[m] = queue[n]
    BY Dequeued
  <2>. QED  BY <2>1, <1>1
<1>7. /\ coreIdle' \in [Cores -> BOOLEAN] /\ ~coreIdle'[c]
      /\ \A d \in Cores \ {c} : coreIdle'[d] = idle[d]
  BY <1>1
<1>8. Consistent(events', coreIdle', inDegree', now')
  <2>1. IsABag(events') /\ DOMAIN events' \subseteq Events
    BY <1>2, <1>5 DEF Consistent
  <2>2. cores[c] = IdleCore
    BY <1>4 DEF IInv, CoreProtocol, Consistent
  <2>3. ASSUME NEW f \in DOMAIN events'
        PROVE  /\ Due(now', f.time)
               /\ inDegree'[f.inst] <= 0
               /\ f.core = NoCore => f.type = "TaskReady"
               /\ f.core # NoCore =>
                     /\ events'[f] = 1
                     /\ f.type # "TaskReady"
                     /\ ~coreIdle'[f.core]
                     /\ cores[f.core] =
                           IF f.type \in {"TaskDispatched", "TaskDone"}
                           THEN IdleCore ELSE BusyWith(f.inst)
    <3>1. CASE f = e
      BY <3>1, <2>2, <1>2, <1>5, <1>7
    <3>2. CASE f # e
      <4>1. f \in DOMAIN q /\ f.core \in (Cores \cup {NoCore}) \ {c}
        BY <3>2, <1>4, <1>5 DEF Consistent, Events
      <4>. QED  BY <3>2, <4>1, <1>5, <1>7 DEF Consistent
    <3>. QED  BY <3>1, <3>2
  <2>4. \A f, g \in DOMAIN events' :
           f.core # NoCore /\ f.core = g.core => f = g
    BY <1>2, <1>4, <1>5 DEF Consistent
  <2>5. \A d \in Cores : cores[d].busy =>
           /\ \E f \in DOMAIN events' : f.core = d
           /\ inDegree'[cores[d].current] <= 0
    BY <1>5 DEF Consistent
  <2>. QED  BY <2>1, <2>3, <2>4, <2>5 DEF Consistent
<1>9. WorkConserving'
  <2>. SUFFICES ASSUME readyQueue' # <<>>
                PROVE  \A d \in Cores : ~coreIdle'[d]
    BY DEF WorkConserving
  <2>1. Len(readyQueue') > 0
    BY <1>6
  <2>2. Len(queue) > 1
    BY <2>1, <1>6
  <2>. QED  BY <2>2, <1>7
<1>10. \A m \in DOMAIN readyQueue' : inDegree'[readyQueue'[m]] <= 0
  BY <1>6
<1>. QED  BY <1>1, <1>6, <1>7, <1>8, <1>9, <1>10, ConsistentStep

(* What the invariant says of the queue, after an event is taken from it.  *)
(* The core of the event, if it has one, is free.                          *)
LEMMA PoppedConsistent ==
    ASSUME IInv, NEW e \in Earliest(events),
           e.type \in {"TaskReady", "TaskDone"},
           NEW idle \in [Cores -> BOOLEAN],
           \A c \in Cores : idle[c] => coreIdle[c] \/ c = e.core,
           NEW degree, \A i \in Instances(work) :
                          inDegree[i] <= 0 => degree[i] <= 0
    PROVE  Consistent(Pop(events, e), idle, degree, e.time)
<1>. DEFINE q == Pop(events, e)
<1>1. e \in DOMAIN events /\ e \in Events
  BY PoppedEvent DEF Earliest
<1>2. /\ IsABag(q)
      /\ DOMAIN q \subseteq DOMAIN events
      /\ DOMAIN events \subseteq DOMAIN q \cup {e}
      /\ DOMAIN q \subseteq Events
      /\ \A f \in DOMAIN q :
            /\ f # e => q[f] = events[f]
            /\ Due(e.time, f.time)
            /\ f.core # NoCore => f # e /\ f.core # e.core
  <2>1. DOMAIN events \subseteq Events
    BY DEF IInv, TypeOK, Events
  <2>. QED  BY <2>1, <1>1, PoppedEvent, PoppedIsEarliest
<1>. HIDE DEF q
<1>3. ASSUME NEW f \in DOMAIN q
      PROVE  /\ Due(e.time, f.time)
             /\ degree[f.inst] <= 0
             /\ f.core = NoCore => f.type = "TaskReady"
             /\ f.core # NoCore =>
                   /\ q[f] = 1
                   /\ f.type # "TaskReady"
                   /\ ~idle[f.core]
                   /\ cores[f.core] =
                         IF f.type \in {"TaskDispatched", "TaskDone"}
                         THEN IdleCore ELSE BusyWith(f.inst)
  <2>1. f \in DOMAIN events /\ f \in Events
    BY <1>2
  <2>2. degree[f.inst] <= 0
    BY <2>1 DEF IInv, ActiveOnlyWhenSatisfied, Events
  <2>3. f.core # NoCore => f.core \in Cores
    BY <2>1 DEF Events
  <2>. QED
    BY <1>2, <2>1, <2>2, <2>3 DEF IInv, CoreProtocol, CoreEvents, CoreStateFits
<1>4. \A f, g \in DOMAIN q : f.core # NoCore /\ f.core = g.core => f = g
  BY <1>2 DEF IInv, CoreProtocol, CoreEvents
<1>5. ASSUME NEW d \in Cores, cores[d].busy
      PROVE  /\ \E f \in DOMAIN q : f.core = d
             /\ degree[cores[d].current] <= 0
  <2>1. PICK f \in CoreEvents : f.core = d
    BY <1>5 DEF IInv, CoreProtocol
  <2>2. f \in DOMAIN events /\ f.core # NoCore /\ CoreStateFits(f)
    BY <2>1 DEF IInv, CoreProtocol, CoreEvents
  <2>3. f # e
    BY <1>5, <2>1, <2>2 DEF CoreStateFits, IdleCore
  <2>4. cores[d].current = f.inst /\ f.inst \in Instances(work)
    BY <1>5, <2>1, <2>2 DEF CoreStateFits, IdleCore, BusyWith, IInv, TypeOK
  <2>. QED
    BY <1>2, <2>1, <2>2, <2>3, <2>4 DEF IInv, ActiveOnlyWhenSatisfied
<1>. QED  BY <1>2, <1>3, <1>4, <1>5 DEF Consistent, q

(* A ready instance is queued; the next idle core, if there is one, takes  *)
(* it at once, for then no other instance was waiting.                     *)
LEMMA HandleTaskReadyStep ==
    ASSUME IInv, NEW e \in DOMAIN events, HandleTaskReady(e)
    PROVE  IInv'
<1>. DEFINE q == Pop(events, e)
            queue == Append(readyQueue, e.inst)
<1>1. /\ e \in Earliest(events) /\ e \in Events /\ e.type = "TaskReady"
      /\ now' = e.time /\ work' = work /\ e.core = NoCore
      /\ e.inst \in Instances(work)
  BY PoppedBy DEF HandleTaskReady
<1>2. /\ UNCHANGED <<graphVars, cores>>
      /\ now' \in Int /\ Due(now', now')
      /\ inDegree' \in [Instances(work) -> Int]
      /\ opIndex' \in [Instances(work) -> Nat]
      /\ readyTime' \in [Instances(work) -> Int]
      /\ \A i \in Instances(work) : Due(0, readyTime'[i])
  BY <1>1, PoppedIsEarliest
     DEF HandleTaskReady, graphVars, IInv, TypeOK, OnTime, Events
<1>3. /\ coreIdle \in [Cores -> BOOLEAN] /\ nextCore \in Cores
      /\ readyQueue \in Seq(Instances(work))
  BY DEF IInv, TypeOK
<1>4. Consistent(q, coreIdle, inDegree', now')
  <2>1. Consistent(q, coreIdle, inDegree, e.time)
    BY <1>1, <1>3, PoppedConsistent
  <2>. QED  BY <2>1, <1>1, <1>2 DEF graphVars
<1>5. /\ queue \in Seq(Instances(work))
      /\ Len(queue) = Len(readyQueue) + 1
      /\ \A k \in DOMAIN queue : inDegree'[queue[k]] <= 0
  <2>1. inDegree[e.inst] <= 0 /\ inDegree' = inDegree
    BY <1>2 DEF IInv, ActiveOnlyWhenSatisfied, graphVars
  <2>2. \A k \in DOMAIN readyQueue : inDegree[readyQueue[k]] <= 0
    BY DEF IInv, ActiveOnlyWhenSatisfied
  <2>. QED  BY <2>1, <2>2, <1>1, <1>3
<1>6. CASE /\ \A c \in Cores : ~coreIdle[c]
           /\ readyQueue' = queue
           /\ events' = q
           /\ UNCHANGED <<phase, coreIdle, nextCore>>
  <2>1. WorkConserving'
    BY <1>6 DEF WorkConserving
  <2>. HIDE DEF q, queue
  <2>. QED  BY <2>1, <1>1, <1>2, <1>3, <1>4, <1>5, <1>6, ConsistentStep
<1>7. ASSUME NEW c \in Cores, SelectsCore(coreIdle, nextCore, c),
             nextCore' = CoreAfter(c), Dispatch(queue, coreIdle, c, q)
      PROVE  IInv'
  <2>1. coreIdle[c]
    BY <1>7 DEF SelectsCore
  <2>2. readyQueue = <<>> /\ Len(queue) = 1
    BY <2>1, <1>3, <1>5 DEF IInv, WorkConserving
  <2>3. nextCore' \in Cores
    BY <1>7, SchedulerAssumption DEF CoreAfter, Cores
  <2>. HIDE DEF q, queue
  <2>4. Len(queue) > 1 => \A d \in Cores \ {c} : ~coreIdle[d]
    BY <2>2
  <2>. QED
    BY <2>1, <2>3, <2>4, <1>1, <1>2, <1>3, <1>4, <1>5, <1>7, DispatchStep
<1>. QED  BY <1>6, <1>7 DEF HandleTaskReady, AddReady

(* Successors become ready, the core is released and takes an instance     *)
(* that was waiting: then no other core was idle.                          *)
LEMMA HandleTaskDoneStep ==
    ASSUME IInv, NEW e \in DOMAIN events, HandleTaskDone(e)
    PROVE  IInv'
<1>. DEFINE c == e.core
            ready == ReadyInstances(work, inDegree', opIndex, readyTime)
            idle == ReleaseCore(coreIdle, c)
            p == Pop(events, e)
            new == {TaskReady(i, now') : i \in ready}
            q == PushAll(p, new)
<1>1. /\ e \in Earliest(events) /\ e \in Events /\ e.type = "TaskDone"
      /\ now' = e.time /\ work' = work /\ work \in Workload
      /\ c # NoCore /\ c \in Cores
      /\ e.inst \in Instances(work)
  BY PoppedBy DEF HandleTaskDone
<1>2. /\ UNCHANGED cores
      /\ nextCore' \in Cores
      /\ now' \in Int /\ Due(now', now')
      /\ opIndex' \in [Instances(work) -> Nat]
  BY <1>1, PoppedIsEarliest DEF HandleTaskDone, IInv, TypeOK, Events
<1>3. /\ readyTime' \in [Instances(work) -> Int]
       /\ \A i \in Instances(work) : Due(0, readyTime'[i])
  <2>1. readyTime' = [i \in Instances(work) |->
                         IF i \in ready THEN now' ELSE readyTime[i]]
    BY DEF HandleTaskDone
  <2>2. Due(0, now') /\ \A i \in Instances(work) : Due(0, readyTime[i])
    BY <1>2 DEF IInv, OnTime, Due
  <2>3. readyTime \in [Instances(work) -> Int]
    BY DEF IInv, TypeOK
  <2>. HIDE DEF ready
  <2>. QED  BY <2>1, <2>2, <2>3, <1>2
<1>4. /\ inDegree' \in [Instances(work) -> Int]
      /\ \A i \in Instances(work) : inDegree'[i] <= inDegree[i]
  <2>1. inDegree' = [j \in Instances(work) |->
                        inDegree[j] - Multiplicity(work, e.inst, j)]
    BY DEF HandleTaskDone, MarkInstanceComplete
  <2>2. inDegree \in [Instances(work) -> Int]
    BY DEF IInv, TypeOK
  <2>3. \A j \in Instances(work) : Multiplicity(work, e.inst, j) \in Nat
    BY <1>1, MultiplicityType
  <2>. QED  BY <2>1, <2>2, <2>3
<1>5. /\ idle \in [Cores -> BOOLEAN] /\ idle[c]
      /\ \A d \in Cores \ {c} : idle[d] = coreIdle[d]
      /\ readyQueue \in Seq(Instances(work))
  BY <1>1 DEF ReleaseCore, IInv, TypeOK
<1>6. Consistent(p, idle, inDegree', now')
  <2>1. \A d \in Cores : idle[d] => coreIdle[d] \/ d = c
    BY <1>5
  <2>2. \A i \in Instances(work) : inDegree[i] <= 0 => inDegree'[i] <= 0
    BY <1>4 DEF IInv, TypeOK
  <2>. HIDE DEF idle, p
  <2>3. Consistent(Pop(events, e), idle, inDegree', e.time)
    BY <2>1, <2>2, <1>1, <1>5, PoppedConsistent
  <2>. QED  BY <2>3, <1>1 DEF p
<1>7. \A f \in new :
         /\ f \in Events /\ f.core = NoCore /\ f.type = "TaskReady"
         /\ f.time = now' /\ inDegree'[f.inst] = 0
  BY <1>2, SimulatorAssumption
     DEF ReadyInstances, TaskReady, Event, Events, EventTypes
<1>8. Consistent(q, idle, inDegree', now')
  <2>. HIDE DEF new, p, idle
  <2>1. IsABag(p)
    BY <1>6 DEF Consistent
  <2>2. /\ IsABag(q)
        /\ DOMAIN q = (DOMAIN p) \cup new
        /\ \A f \in DOMAIN p : f \notin new => q[f] = p[f]
    BY ONLY <2>1, PushAllBag
  <2>. HIDE DEF q
  <2>. QED  BY <2>2, <1>6, <1>7, <1>2 DEF Consistent
<1>9. \A k \in DOMAIN readyQueue : inDegree'[readyQueue[k]] <= 0
  <2>1. \A k \in DOMAIN readyQueue :
           readyQueue[k] \in Instances(work) /\ inDegree[readyQueue[k]] <= 0
    BY <1>5 DEF IInv, ActiveOnlyWhenSatisfied
  <2>. QED  BY <2>1, <1>4 DEF IInv, TypeOK
<1>. HIDE DEF q, idle
<1>10. CASE readyQueue = <<>> /\ coreIdle' = idle /\ events' = q
           /\ UNCHANGED <<phase, readyQueue>>
  <2>1. WorkConserving'
    BY <1>10 DEF WorkConserving
  <2>. QED
    BY <2>1, <1>1, <1>2, <1>4, <1>5, <1>8, <1>9, <1>10, <1>3, ConsistentStep
<1>11. CASE Dispatch(readyQueue, idle, c, q)
  <2>1. Len(readyQueue) > 1 => \A d \in Cores \ {c} : ~idle[d]
    BY <1>5 DEF IInv, WorkConserving
  <2>. QED
    BY <2>1, <1>1, <1>2, <1>4, <1>5, <1>8, <1>9, <1>11, <1>3, DispatchStep
<1>. QED  BY <1>10, <1>11 DEF HandleTaskDone, q, idle

(* The end of the loop changes nothing the invariant is about.             *)
LEMMA CompleteStep ==
    ASSUME IInv, Complete
    PROVE  IInv'
BY DEF Complete, IInv, TypeOK, Phases, CoreProtocol, CoreEvents, CoreStateFits,
       NoException, WorkConserving, OnTime, Due, ActiveOnlyWhenSatisfied,
       graphVars, schedulerVars

(* A step that changes nothing keeps the invariant.                        *)
LEMMA StutteringStep ==
    ASSUME IInv, UNCHANGED vars
    PROVE  IInv'
BY DEF vars, IInv, TypeOK, CoreProtocol, CoreEvents, CoreStateFits,
       NoException, WorkConserving, OnTime, Due, ActiveOnlyWhenSatisfied,
       graphVars, schedulerVars
-----------------------------------------------------------------------------
(* THE THEOREMS                                                            *)

LEMMA InitiallyIInv ==
    ASSUME Init
    PROVE  IInv
<1>. DEFINE ready == ReadyInstances(work, inDegree, opIndex, readyTime)
            new == {TaskReady(i, 0) : i \in ready}
<1>1. /\ work \in Workload /\ now = 0
      /\ inDegree \in [Instances(work) -> Int]
      /\ \A i \in ready : i \in Instances(work) /\ inDegree[i] = 0
  <2>1. work \in Workload
    BY SimulatorAssumption DEF Init
  <2>2. \A i \in Instances(work) : InitialInDegree(work, i) \in Nat
    BY <2>1, InitialInDegreeType
  <2>. QED  BY <2>1, <2>2 DEF Init, ReadyInstances
<1>2. \A f \in new : /\ f \in Events /\ f.core = NoCore /\ f.type = "TaskReady"
                     /\ f.time = 0 /\ inDegree[f.inst] = 0
  BY <1>1, SimulatorAssumption DEF TaskReady, Event, Events, EventTypes
<1>3. IsABag(events) /\ DOMAIN events \subseteq new
  <2>. DEFINE q == PushAll(EmptyQueue, new)
  <2>1. events = EmptyQueue \/ events = q
    BY DEF Init
  <2>. HIDE DEF new
  <2>2. IsABag(q) /\ DOMAIN q = new
    BY ONLY EmptyQueueIsBag, PushAllBag
  <2>. HIDE DEF q
  <2>. QED  BY <2>1, <2>2, EmptyQueueIsBag
<1>. HIDE DEF new
<1>4. /\ readyQueue = <<>> /\ nextCore \in Cores /\ phase # "aborted"
      /\ coreIdle = [c \in Cores |-> TRUE]
      /\ cores = [c \in Cores |-> IdleCore]
  BY SchedulerAssumption DEF Init, Cores
<1>5. TypeOK
  <2>1. /\ work \in Workloads /\ phase \in Phases
        /\ opIndex \in [Instances(work) -> Nat]
        /\ readyTime \in [Instances(work) -> Int]
    BY DEF Init, Phases
  <2>2. readyQueue \in Seq(Instances(work))
    BY <1>4
  <2>3. DOMAIN events \subseteq Events
    BY <1>2, <1>3
  <2>4. /\ coreIdle \in [Cores -> BOOLEAN]
        /\ cores \in [Cores -> [busy : BOOLEAN,
                                current : Instances(work) \cup {NoInstance}]]
    BY <1>4 DEF IdleCore
  <2>. QED  BY <2>1, <2>2, <2>3, <2>4, <1>1, <1>3, <1>4 DEF TypeOK, Events
<1>6. CoreProtocol
  BY <1>2, <1>3, <1>4 DEF CoreProtocol, CoreEvents, IdleCore
<1>7. OnTime
  <2>1. \A i \in Instances(work) : readyTime[i] = 0
    BY DEF Init
  <2>. QED  BY <2>1, <1>1, <1>2, <1>3 DEF OnTime, Due
<1>8. ActiveOnlyWhenSatisfied
  <2>1. \A k \in DOMAIN readyQueue : FALSE
    BY <1>4
  <2>2. \A c \in Cores : ~cores[c].busy
    BY <1>4 DEF IdleCore
  <2>. QED  BY <2>1, <2>2, <1>2, <1>3 DEF ActiveOnlyWhenSatisfied
<1>. QED  BY <1>4, <1>5, <1>6, <1>7, <1>8 DEF IInv, NoException, WorkConserving

(* Every step keeps the invariant.                                         *)
LEMMA StepKeepsIInv ==
    ASSUME IInv, [Next]_vars
    PROVE  IInv'
<1>1. ASSUME NEW e \in DOMAIN events, HandleTaskReady(e) PROVE IInv'
  BY <1>1, HandleTaskReadyStep
<1>2. ASSUME NEW e \in DOMAIN events, HandleTaskDispatched(e) PROVE IInv'
  BY <1>2, HandleTaskDispatchedStep
<1>3. ASSUME NEW e \in DOMAIN events, HandleComputeDone(e) PROVE IInv'
  BY <1>3, HandleComputeDoneStep
<1>4. ASSUME NEW e \in DOMAIN events, HandleMemReqIssued(e) PROVE IInv'
  BY <1>4, HandleMemReqIssuedStep
<1>5. ASSUME NEW e \in DOMAIN events, HandleMemRespDone(e) PROVE IInv'
  BY <1>5, HandleMemRespDoneStep
<1>6. ASSUME NEW e \in DOMAIN events, HandleTaskDone(e) PROVE IInv'
  BY <1>6, HandleTaskDoneStep
<1>7. CASE Complete
  BY <1>7, CompleteStep
<1>8. CASE Exited \/ UNCHANGED vars
  BY <1>8, StutteringStep DEF Exited
<1>. QED
  BY <1>1, <1>2, <1>3, <1>4, <1>5, <1>6, <1>7, <1>8 DEF Next

(* Every reachable state satisfies the inductive invariant, whatever the   *)
(* workload, the number of cores, the policy and the memory latencies.     *)
THEOREM Invariance == Spec => []IInv
<1>1. Init => IInv
  BY InitiallyIInv
<1>2. IInv /\ [Next]_vars => IInv'
  BY StepKeepsIInv
<1>. QED  BY <1>1, <1>2, PTL DEF Spec

(* The state of the simulator keeps its types: among others the search of  *)
(* selectIdleCore() never leaves nextCoreRoundRobin outside the cores.     *)
THEOREM TypeCorrectness == Spec => []TypeOK
<1>1. IInv => TypeOK
  BY DEF IInv
<1>. QED  BY <1>1, Invariance, PTL

(* The scheduler's idle flags, the cores' busy flags and the events in     *)
(* flight never disagree (selectIdleCore, executeOp, completeOp).          *)
THEOREM CoreProtocolHolds == Spec => []CoreProtocol
<1>1. IInv => CoreProtocol
  BY DEF IInv
<1>. QED  BY <1>1, Invariance, PTL

(* No handler throws: executeOp() never meets a busy core and completeOp() *)
(* never an idle one, in whatever order simultaneous events are popped.    *)
THEOREM NoExceptionIsThrown == Spec => []NoException
<1>1. IInv => NoException
  BY DEF IInv
<1>. QED  BY <1>1, Invariance, PTL

(* The dispatch sites of handleTaskReady() and handleTaskDone() together   *)
(* leave no instance waiting while the scheduler knows an idle core.       *)
THEOREM WorkIsConserved == Spec => []WorkConserving
<1>1. IInv => WorkConserving
  BY DEF IInv
<1>. QED  BY <1>1, Invariance, PTL

(* No handler schedules an event before the current cycle, unless an       *)
(* operation lasts a negative number of cycles.                            *)
THEOREM NoEventInThePast == Spec => []NoPastEvent
<1>1. IInv => NoPastEvent
  BY DEF IInv, OnTime, Due, NoPastEvent, Before
<1>. QED  BY <1>1, Invariance, PTL

(* getReadyInstances() announces nothing whose in-degree is positive, and  *)
(* markInstanceComplete() never raises an in-degree again.                 *)
THEOREM ActiveAreSatisfied == Spec => []ActiveOnlyWhenSatisfied
<1>1. IInv => ActiveOnlyWhenSatisfied
  BY DEF IInv
<1>. QED  BY <1>1, Invariance, PTL

(* Simulated time never runs backwards: run() sets now to the time of the  *)
(* event it pops, which is never below the current one, unless durations   *)
(* are negative.                                                           *)
THEOREM TimeIsMonotone == Spec => TimeMonotone
<1>1. IInv /\ [Next]_vars =>
         [NonNegativeDurations(work) => ~Before(now', now)]_vars
  <2>. SUFFICES ASSUME IInv, Next, NonNegativeDurations(work)
                PROVE  ~Before(now', now)
    OBVIOUS
  <2>1. Due(now, now)
    BY DEF IInv, OnTime
  <2>2. ASSUME NEW e \in DOMAIN events, NEW type, Popped(e, type)
        PROVE  Due(now, now')
    <3>1. e \in Earliest(events) /\ now' = e.time
      BY <2>2, PoppedBy
    <3>. QED  BY <3>1, PoppedIsEarliest
  <2>3. ASSUME Complete \/ Exited PROVE Due(now, now')
    <3>1. now' = now
      BY <2>3 DEF Complete, Exited, vars
    <3>. QED  BY <3>1, <2>1
  <2>4. Due(now, now')
    BY <2>2, <2>3 DEF Next, HandleTaskReady, HandleTaskDispatched,
       HandleComputeDone, HandleMemReqIssued, HandleMemRespDone, HandleTaskDone
  <2>. QED  BY <2>4 DEF Due, Before
<1>. QED  BY <1>1, Invariance, PTL DEF Spec, TimeMonotone

(* What pop and push do to the queue of a handler that schedules f.        *)
LEMMA OneMoreEvent ==
    ASSUME IInv, NEW e \in DOMAIN events, NEW f
    PROVE  DOMAIN Push(Pop(events, e), f) \subseteq (DOMAIN events) \cup {f}
<1>. DEFINE q == Pop(events, e)
<1>1. IsABag(q) /\ DOMAIN q \subseteq DOMAIN events
  BY PoppedEvent
<1>. HIDE DEF q
<1>2. DOMAIN Push(q, f) = (DOMAIN q) \cup {f}
  BY <1>1, PushBag
<1>. QED  BY <1>1, <1>2 DEF q

(* The search that ends at core d passed over no idle core, so the next    *)
(* one starts nearer to every idle core.                                   *)
LEMMA SearchComesNearer ==
    ASSUME NEW c \in Cores, NEW d \in Cores \ {c}, NEW start \in Cores,
           Distance(start, d) <= Distance(start, c)
    PROVE  Distance(CoreAfter(d), c) < Distance(start, c)
<1>1. /\ NumCores \in Nat /\ c \in Int /\ d \in Int /\ start \in Int
      /\ 0 <= c /\ c < NumCores /\ 0 <= d /\ d < NumCores /\ c # d
      /\ 0 <= start /\ start < NumCores
  BY SchedulerAssumption DEF Cores
<1>2. CASE d + 1 = NumCores
  <2>1. CoreAfter(d) = 0 /\ Distance(0, c) = c
    BY <1>1, <1>2 DEF CoreAfter, Distance
  <2>2. start <= d
    BY <1>1, <1>2
  <2>3. c < start
    BY <1>1, <1>2, <2>2 DEF Distance
  <2>. QED  BY <1>1, <2>1, <2>3 DEF Distance
<1>3. CASE d + 1 # NumCores
  <2>1. CoreAfter(d) = d + 1
    BY <1>1, <1>3 DEF CoreAfter
  <2>. QED  BY <1>1, <1>3, <2>1 DEF Distance
<1>. QED  BY <1>2, <1>3

(* A handler that dispatches while a core is idle is handleTaskReady(): no *)
(* instance waits then for handleTaskDone() to dispatch.                   *)
LEMMA StepTakesTurn ==
    ASSUME IInv, Next, Dispatches
    PROVE  TurnTaken
<1>. SUFFICES ASSUME NEW c \in Cores, coreIdle[c], coreIdle'[c]
              PROVE  Distance(nextCore', c) < Distance(nextCore, c)
  BY DEF TurnTaken
<1>1. /\ readyQueue = <<>>
      /\ coreIdle \in [Cores -> BOOLEAN] /\ nextCore \in Cores
  BY DEF IInv, WorkConserving, TypeOK
<1>2. ASSUME NEW f, DOMAIN events' \subseteq (DOMAIN events) \cup {f},
             f.type # "TaskDispatched"
      PROVE  FALSE
  BY <1>2 DEF Dispatches
<1>3. ASSUME NEW e \in DOMAIN events, HandleTaskReady(e)
      PROVE  Distance(nextCore', c) < Distance(nextCore, c)
  <2>1. PICK d \in Cores :
           /\ SelectsCore(coreIdle, nextCore, d)
           /\ nextCore' = CoreAfter(d)
           /\ coreIdle' = DispatchTo(coreIdle, d)
    BY <1>3 DEF HandleTaskReady, Dispatch
  <2>2. c # d
    BY <2>1, <1>1 DEF DispatchTo
  <2>3. Distance(nextCore, d) <= Distance(nextCore, c)
    BY <2>1 DEF SelectsCore
  <2>. QED  BY <2>1, <2>2, <2>3, <1>1, SearchComesNearer
<1>4. ASSUME NEW e \in DOMAIN events, HandleTaskDone(e)
      PROVE  FALSE
  <2>. DEFINE ready == ReadyInstances(work, inDegree', opIndex, readyTime)
              new == {TaskReady(i, now') : i \in ready}
              p == Pop(events, e)
  <2>1. events' = PushAll(p, new)
    BY <1>1, <1>4 DEF HandleTaskDone, Dispatch
  <2>2. \A f \in new : f.type = "TaskReady"
    BY DEF TaskReady, Event
  <2>3. IsABag(p) /\ DOMAIN p \subseteq DOMAIN events
    BY PoppedEvent
  <2>. HIDE DEF new, p
  <2>4. DOMAIN PushAll(p, new) = (DOMAIN p) \cup new
    BY ONLY <2>3, PushAllBag
  <2>. QED  BY <2>1, <2>2, <2>3, <2>4 DEF Dispatches
<1>5. ASSUME NEW e \in DOMAIN events, HandleMemReqIssued(e)
      PROVE  FALSE
  <2>1. PICK f : f.type = "MemRespDone" /\ events' = Push(Pop(events, e), f)
    BY <1>5 DEF HandleMemReqIssued, Event
  <2>. QED  BY <2>1, <1>2, OneMoreEvent
<1>6. ASSUME NEW e \in DOMAIN events,
             \/ HandleTaskDispatched(e)
             \/ HandleComputeDone(e) \/ HandleMemRespDone(e)
      PROVE  FALSE
  <2>1. CASE events' = Pop(events, e)
    <3>1. DOMAIN events' \subseteq DOMAIN events
      BY <2>1, PoppedEvent
    <3>. QED  BY <3>1 DEF Dispatches
  <2>2. CASE \E f : f.type # "TaskDispatched" /\ events' = Push(Pop(events, e), f)
    BY <2>2, <1>2, OneMoreEvent
  <2>. QED
    BY <1>6, <2>1, <2>2 DEF HandleTaskDispatched, HandleComputeDone,
       HandleMemRespDone, CompleteOp, ExecuteOp, OpEvent, Event, Abort
<1>7. CASE Complete \/ Exited
  BY <1>7 DEF Complete, Exited, vars, Dispatches
<1>. QED  BY <1>3, <1>4, <1>5, <1>6, <1>7 DEF Next

(* Whatever the policy, an idle core waits for at most NumCores - 1        *)
(* dispatches to others: selectIdleCore() goes round, and the dispatch at  *)
(* the end of handleTaskDone() happens only when no core is idle.          *)
THEOREM CoresTakeTurns == Spec => IdleCoresTakeTurns
<1>1. IInv /\ [Next]_vars => [Dispatches => TurnTaken]_vars
  BY StepTakesTurn
<1>. QED  BY <1>1, Invariance, PTL DEF Spec, IdleCoresTakeTurns

-----------------------------------------------------------------------------
(* WELL-BEHAVED WORKLOADS                                                  *)
(*                                                                         *)
(* The argument goes through the life of an instance: it waits for its     *)
(* dependencies (a positive inDegree), then it is in exactly one place (an *)
(* event or an entry of the ready queue), then it is completed.  That an   *)
(* instance is not announced again, which the code leaves to a readyTime   *)
(* that is still zero, needs that no instance but the root becomes ready   *)
(* at cycle 0; that is what WellBehaved asks of the root, and Clock shows. *)

Placed(i) ==
    \/ \E e \in DOMAIN events : e.inst = i
    \/ \E k \in DOMAIN readyQueue : readyQueue[k] = i

(* An instance is in one place at most.                                    *)
OnePlace ==
    /\ \A e \in DOMAIN events : events[e] = 1
    /\ \A e, f \in DOMAIN events : e.inst = f.inst => e = f
    /\ \A k, l \in DOMAIN readyQueue : readyQueue[k] = readyQueue[l] => k = l
    /\ \A e \in DOMAIN events, k \in DOMAIN readyQueue : e.inst # readyQueue[k]

(* The next operation of the instance of e, which is the one e is about,   *)
(* if e is about one.                                                      *)
NextOp(e) == OpsOf(work, e.inst)[opIndex[e.inst] + 1]

EventFits(e) ==
    /\ e.type \in {"TaskReady", "TaskDispatched"} => opIndex[e.inst] = 0
    /\ e.type = "TaskDone" => opIndex[e.inst] = OpCount(e.inst)
    /\ e.type \in {"ComputeDone", "MemReqIssued", "MemRespDone"} =>
          /\ opIndex[e.inst] < OpCount(e.inst)
          /\ NextOp(e).type = IF e.type = "ComputeDone" THEN "Compute"
                              ELSE "Memory"
    /\ e.type = "MemReqIssued" => NextOp(e).address = e.address

(* How many operations an instance has executed fits its place.            *)
Progress ==
    /\ \A e \in DOMAIN events : EventFits(e)
    /\ \A k \in DOMAIN readyQueue : opIndex[readyQueue[k]] = 0
    /\ \A i \in Instances(work) :
          /\ opIndex[i] <= OpCount(i)
          /\ inDegree[i] > 0 => opIndex[i] = 0
          /\ inDegree[i] <= 0 /\ ~Placed(i) => opIndex[i] = OpCount(i)

(* Where an operation that takes time is behind, the clock has moved.      *)
Clock ==
    /\ \A e \in DOMAIN events :
          e.type \in {"ComputeDone", "MemRespDone"} /\ TakesTime(NextOp(e)) =>
              e.time > 0
    /\ \A i \in Instances(work) : \A n \in 1 .. opIndex[i] :
          TakesTime(OpsOf(work, i)[n]) => now > 0

IsRoot(i) == InitialInDegree(work, i) = 0

(* Nothing else becomes ready before the root is completed, and what does  *)
(* is stamped then, and not before, with a time that is not zero.          *)
RootFirst ==
    /\ \A root \in Instances(work) : IsRoot(root) /\ ~Completed(root) =>
          \A i \in Instances(work) : ~IsRoot(i) => inDegree[i] > 0
    /\ \A i \in Instances(work) :
          /\ ~IsRoot(i) /\ inDegree[i] <= 0 => readyTime[i] > 0
          /\ inDegree[i] > 0 => readyTime[i] = 0

(* The inductive invariant, on top of IInv.                                *)
WInv ==
    /\ WellBehaved(work)
    /\ OnePlace
    /\ Progress
    /\ Clock
    /\ RootFirst
    /\ InDegreeCountsUnsatisfied
    /\ NoCoreLost

(* The ready queue is in the order in which its instances became ready,    *)
(* and what is announced comes after them.                                 *)
QueueInOrder ==
    /\ \A e \in DOMAIN events :
          e.type = "TaskReady" => e.time = readyTime[e.inst]
    /\ \A k \in DOMAIN readyQueue : readyTime[readyQueue[k]] <= now
    /\ \A j, k \in DOMAIN readyQueue :
          j < k => readyTime[readyQueue[j]] <= readyTime[readyQueue[k]]
-----------------------------------------------------------------------------
(* LEMMAS ON THE GRAPH                                                     *)

LEMMA DependenciesFinite ==
    ASSUME NEW w \in Workload, NEW i \in Instances(w)
    PROVE  IsFiniteSet(DependenciesOf(w, i))
<1>. DEFINE deps == w.tasks[FirstRow(w, i)].deps
<1>1. IsFiniteSet(DOMAIN deps) /\ IsFiniteSet(Instances(w))
  BY FirstRowExists, RowTypes, InstancesFinite
<1>2. IsFiniteSet((DOMAIN deps) \X Instances(w))
  BY <1>1, FS_Product
<1>3. DependenciesOf(w, i) \in SUBSET ((DOMAIN deps) \X Instances(w))
  BY DEF DependenciesOf
<1>. QED  BY <1>2, <1>3, FS_Subset

(* Where ids are unique, the row of an instance is the one the lookup loop *)
(* finds, and a successor entry names a dependency.                        *)
LEMMA FirstRowIsRow ==
    ASSUME NEW w \in Workload, UniqueIds(w), NEW i \in Instances(w),
           NEW r \in Rows(w), w.tasks[r].id = TaskId(w, i)
    PROVE  r = FirstRow(w, i)
<1>1. \E s \in Rows(w) :
         /\ w.tasks[s].id = TaskId(w, i)
         /\ \A t \in Rows(w) : w.tasks[t].id = TaskId(w, i) => s <= t
  <2>1. \A t \in Rows(w) : w.tasks[t].id = TaskId(w, i) => t = r
    BY DEF UniqueIds
  <2>2. r \in Int
    <3>1. w.tasks \in Seq(Task)
      BY DEF Workload
    <3>. QED  BY <3>1 DEF Rows
  <2>. QED  BY <2>1, <2>2
<1>2. /\ FirstRow(w, i) \in Rows(w)
      /\ w.tasks[FirstRow(w, i)].id = TaskId(w, i)
  BY <1>1 DEF FirstRow
<1>. QED  BY <1>2 DEF UniqueIds

(* buildDAG() counts the dependencies of i on d as often as                *)
(* markInstanceComplete() will count d off.                                *)
LEMMA MultiplicityCounts ==
    ASSUME NEW w \in Workload, UniqueIds(w),
           NEW i \in Instances(w), NEW d \in Instances(w)
    PROVE  Cardinality({x \in DependenciesOf(w, i) : x[2] = d})
               = Multiplicity(w, d, i)
<1>. DEFINE row == FirstRow(w, i)
            deps == w.tasks[row].deps
            Here == {p \in DOMAIN deps : deps[p] = TaskId(w, d)}
            A == {x \in DependenciesOf(w, i) : x[2] = d}
            B == SuccessorEntries(w, d, i)
            f == [x \in A |-> <<row, x[1]>>]
<1>1. A = {<<p, d>> : p \in Here}
  BY DEF DependenciesOf
<1>2. B = {<<row, p>> : p \in Here}
  <2>1. w.tasks[i[1]].id = TaskId(w, i) /\ i[1] \in Rows(w)
    BY InstanceTypes DEF TaskId
  <2>2. row = i[1]
    BY <2>1, FirstRowIsRow
  <2>3. {s \in Rows(w) : w.tasks[s].id = TaskId(w, i)} = {row}
    BY <2>1, <2>2, FirstRowIsRow
  <2>4. SuccessorEntries(w, d, i) =
            UNION {{<<r, p>> : p \in {q \in DOMAIN w.tasks[r].deps :
                                         w.tasks[r].deps[q] = TaskId(w, d)}} :
                   r \in {row}}
    BY <2>3 DEF SuccessorEntries
  <2>. QED  BY <2>4
<1>3. IsFiniteSet(A)
  <2>1. A \in SUBSET DependenciesOf(w, i)
    OBVIOUS
  <2>. HIDE DEF A
  <2>. QED  BY <2>1, DependenciesFinite, FS_Subset
<1>. HIDE DEF A, B, Here
<1>4. f \in Bijection(A, B)
  <2>1. f \in [A -> B]
    BY <1>1, <1>2
  <2>2. \A x, y \in A : f[x] = f[y] => x = y
    BY <1>1
  <2>3. \A b \in B : \E x \in A : f[x] = b
    <3>. SUFFICES ASSUME NEW b \in B PROVE \E x \in A : f[x] = b
      OBVIOUS
    <3>1. PICK p \in Here : b = <<row, p>>
      BY <1>2
    <3>2. <<p, d>> \in A /\ f[<<p, d>>] = b
      BY <1>1, <3>1
    <3>. QED  BY <3>2
  <2>. HIDE DEF f
  <2>4. f \in Injection(A, B)
    BY <2>1, <2>2 DEF Injection, IsInjective
  <2>5. f \in Surjection(A, B)
    BY <2>1, <2>3 DEF Surjection
  <2>. QED  BY <2>4, <2>5 DEF Bijection
<1>5. ExistsBijection(A, B)
  BY <1>4 DEF ExistsBijection
<1>6. Cardinality(B) = Cardinality(A)
  BY <1>3, <1>5, FS_Bijection
<1>. QED  BY <1>6 DEF Multiplicity, A, B

(* What the adjacency list says is what the dependencies say.              *)
LEMMA PredecessorIsDependency ==
    ASSUME NEW w \in Workload, UniqueIds(w),
           NEW i \in Instances(w), NEW d \in Instances(w),
           Multiplicity(w, d, i) > 0
    PROVE  \E x \in DependenciesOf(w, i) : x[2] = d
<1>. DEFINE A == {x \in DependenciesOf(w, i) : x[2] = d}
<1>1. Cardinality(A) = Multiplicity(w, d, i)
  BY MultiplicityCounts
<1>2. A # {}
  BY <1>1, FS_EmptySet
<1>. QED  BY <1>2
-----------------------------------------------------------------------------
(* LEMMAS ON THE STATE                                                     *)

(* The workloads on which time does not go back.                           *)
ForwardWorkload == {w \in Workload : NonNegativeDurations(w)}

(* The types of what these workloads are made of.                          *)
LEMMA WellBehavedTypes ==
    ASSUME IInv, WInv
    PROVE  /\ work \in Workload /\ work \in ForwardWorkload
           /\ UniqueIds(work) /\ ~HasCycle(work)
           /\ IsFiniteSet(Instances(work))
           /\ \A i \in Instances(work) :
                 /\ OpsOf(work, i) \in Seq(Op)
                 /\ OpCount(i) \in Nat \ {0}
                 /\ opIndex[i] \in Nat
                 /\ inDegree[i] \in Int
                 /\ readyTime[i] \in Nat
                 /\ InitialInDegree(work, i) \in Nat
           /\ DOMAIN events \subseteq Events
           /\ now \in Nat
           /\ \A e \in DOMAIN events : e.time \in Nat /\ now <= e.time
<1>1. work \in Workload /\ WellBehaved(work)
  BY SimulatorAssumption DEF IInv, TypeOK, WInv
<1>2. ASSUME NEW i \in Instances(work)
      PROVE  OpsOf(work, i) \in Seq(Op) /\ OpCount(i) \in Nat \ {0}
  <2>1. OpsOf(work, i) \in Seq(Op) /\ OpsOf(work, i) # <<>>
    BY <1>1, InstanceTypes DEF WellBehaved
  <2>. QED  BY <2>1 DEF OpCount
<1>3. /\ now \in Nat
      /\ \A i \in Instances(work) : readyTime[i] \in Nat
      /\ \A e \in DOMAIN events : e.time \in Nat /\ now <= e.time
  BY <1>1 DEF WellBehaved, IInv, OnTime, Due
<1>. QED
  BY <1>1, <1>2, <1>3, InstancesFinite, InitialInDegreeType
     DEF WellBehaved, ForwardWorkload, IInv, TypeOK, Events

(* The root, of which there is one, and its operation that takes time.     *)
LEMMA RootTakesTime ==
    ASSUME IInv, WInv
    PROVE  \E root \in Instances(work) :
              /\ IsRoot(root)
              /\ \A i \in Instances(work) : IsRoot(i) => i = root
              /\ \E n \in 1 .. OpCount(root) : TakesTime(OpsOf(work, root)[n])
<1>1. PICK root \in Instances(work) :
         /\ \A i \in Instances(work) : InitialInDegree(work, i) = 0 <=> i = root
         /\ \E n \in DOMAIN OpsOf(work, root) : TakesTime(OpsOf(work, root)[n])
  BY DEF WInv, WellBehaved
<1>2. DOMAIN OpsOf(work, root) = 1 .. OpCount(root)
  BY WellBehavedTypes DEF OpCount
<1>. QED  BY <1>1, <1>2 DEF IsRoot

(* With one event per instance, pop removes the event it returns.          *)
LEMMA PoppedOnce ==
    ASSUME IInv, WInv, NEW e \in DOMAIN events
    PROVE  /\ IsABag(Pop(events, e))
           /\ DOMAIN Pop(events, e) = DOMAIN events \ {e}
           /\ \A f \in DOMAIN Pop(events, e) : Pop(events, e)[f] = 1
<1>1. IsABag(events) /\ \A f \in DOMAIN events : events[f] = 1
  BY DEF IInv, TypeOK, WInv, OnePlace
<1>. QED  BY <1>1, PopBag

(* The event popped is replaced by one that was not in the queue.          *)
LEMMA PushedOnce ==
    ASSUME IInv, WInv, NEW e \in DOMAIN events, NEW f, f.inst = e.inst
    PROVE  LET q == Push(Pop(events, e), f)
           IN  /\ DOMAIN q = (DOMAIN events \ {e}) \cup {f}
               /\ \A g \in DOMAIN q : q[g] = 1
<1>. DEFINE p == Pop(events, e)
            q == Push(p, f)
<1>1. /\ IsABag(p) /\ DOMAIN p = DOMAIN events \ {e}
      /\ \A g \in DOMAIN p : p[g] = 1
  BY PoppedOnce
<1>2. f \notin DOMAIN p
  BY <1>1 DEF WInv, OnePlace
<1>. HIDE DEF p
<1>3. /\ DOMAIN q = (DOMAIN p) \cup {f}
      /\ \A g \in DOMAIN p : g # f => q[g] = p[g]
      /\ q[f] = 1
  <2>1. IsABag(p)
    BY <1>1
  <2>2. /\ DOMAIN Push(p, f) = (DOMAIN p) \cup {f}
        /\ \A g \in DOMAIN p : g # f => Push(p, f)[g] = p[g]
    BY ONLY <2>1, PushBag
  <2>3. Push(p, f)[f] = 1
    BY ONLY <1>2, <2>1, PushBag
  <2>. QED  BY <2>2, <2>3
<1>. HIDE DEF q
<1>4. DOMAIN q = (DOMAIN events \ {e}) \cup {f} /\ \A g \in DOMAIN q : q[g] = 1
  BY <1>1, <1>2, <1>3
<1>. QED  BY <1>4 DEF q, p

(* An instance in a place is not completed.                                *)
LEMMA PlacedNotCompleted ==
    ASSUME IInv, WInv, NEW i \in Instances(work), Placed(i)
    PROVE  ~Completed(i) /\ inDegree[i] <= 0
<1>1. CASE \E e \in DOMAIN events : e.inst = i
  <2>1. PICK e \in DOMAIN events : e.inst = i
    BY <1>1
  <2>2. EventFits(e) /\ e.type \in EventTypes /\ inDegree[i] <= 0
    BY <2>1, WellBehavedTypes
       DEF WInv, Progress, IInv, ActiveOnlyWhenSatisfied, Events
  <2>3. CASE e.type = "TaskDone"
    BY <2>1, <2>2, <2>3 DEF Completed, EventsFor
  <2>4. CASE e.type # "TaskDone"
    BY <2>1, <2>2, <2>4, WellBehavedTypes DEF EventFits, Completed, EventTypes
  <2>. QED  BY <2>2, <2>3, <2>4
<1>2. CASE \E k \in DOMAIN readyQueue : readyQueue[k] = i
  <2>1. opIndex[i] = 0 /\ inDegree[i] <= 0
    BY <1>2 DEF WInv, Progress, IInv, ActiveOnlyWhenSatisfied
  <2>. QED  BY <2>1, WellBehavedTypes DEF Completed
<1>. QED  BY <1>1, <1>2 DEF Placed

(* An instance that is not completed and waits for nothing is in a place.  *)
LEMMA SatisfiedIsPlaced ==
    ASSUME IInv, WInv, NEW i \in Instances(work), ~Completed(i), inDegree[i] <= 0
    PROVE  Placed(i)
<1>. SUFFICES ASSUME ~Placed(i) PROVE FALSE
  OBVIOUS
<1>1. opIndex[i] = OpCount(i)
  BY DEF WInv, Progress
<1>2. EventsFor(i, {"TaskDone"}) = {}
  BY DEF EventsFor, Placed
<1>. QED  BY <1>1, <1>2, WellBehavedTypes DEF Completed
-----------------------------------------------------------------------------
(* THE STEPS                                                               *)

(* A handler that answers the event e with the next event of the same      *)
(* instance, which fits the progress of the instance and comes later if    *)
(* an operation took time, keeps what is known of all instances.           *)
LEMMA WReplaceStep ==
    ASSUME IInv, WInv, NoCoreLost',
           NEW e \in DOMAIN events, e.type # "TaskDone",
           NEW f, f.inst = e.inst, f.type \in EventTypes \ {"TaskReady"},
           events' = Push(Pop(events, e), f),
           UNCHANGED <<work, inDegree, readyTime, readyQueue>>,
           opIndex' \in [Instances(work) -> Nat],
           \A i \in Instances(work) \ {e.inst} : opIndex'[i] = opIndex[i],
           now' \in Nat, now' >= now,
           EventFits(f)',
           f.type \in {"ComputeDone", "MemRespDone"} /\ TakesTime(NextOp(f)') =>
               f.time > 0,
           \A n \in 1 .. opIndex'[e.inst] :
               TakesTime(OpsOf(work, e.inst)[n]) => now' > 0
    PROVE  WInv'
<1>1. /\ e \in Events /\ e.inst \in Instances(work)
      /\ \A i \in Instances(work) : OpCount(i) \in Nat \ {0} /\ opIndex[i] \in Nat
      /\ now \in Nat
  BY WellBehavedTypes DEF Events
<1>2. /\ DOMAIN events' = (DOMAIN events \ {e}) \cup {f}
      /\ \A g \in DOMAIN events' : events'[g] = 1
  <2>. DEFINE q == Push(Pop(events, e), f)
  <2>1. /\ DOMAIN q = (DOMAIN events \ {e}) \cup {f}
        /\ \A g \in DOMAIN q : q[g] = 1
    BY PushedOnce
  <2>2. events' = q
    OBVIOUS
  <2>. HIDE DEF q
  <2>. QED  BY <2>1, <2>2
<1>3. \A g \in DOMAIN events \ {e} :
         g.inst # e.inst /\ g.inst \in Instances(work)
  BY DEF WInv, OnePlace, IInv, TypeOK
<1>4. \A i : Placed(i)' <=> Placed(i)
  BY <1>2 DEF Placed
<1>5. \A i : OpCount(i)' = OpCount(i)
  BY DEF OpCount
<1>6. ASSUME NEW i \in Instances(work)
      PROVE  Completed(i)' <=> Completed(i)
  <2>1. CASE i = e.inst
    <3>1. ~Completed(i)
      BY <2>1, <1>1, PlacedNotCompleted DEF Placed
    <3>2. CASE f.type = "TaskDone"
      BY <3>1, <3>2, <2>1, <1>2 DEF Completed, EventsFor
    <3>3. CASE f.type # "TaskDone"
      <4>1. opIndex'[i] < OpCount(i)
        BY <3>3, <2>1, <1>1, <1>5 DEF EventFits, EventTypes
      <4>. QED  BY <4>1, <3>1, <1>1, <1>5 DEF Completed
    <3>. QED  BY <3>2, <3>3
  <2>2. CASE i # e.inst
    <3>1. EventsFor(i, {"TaskDone"})' = EventsFor(i, {"TaskDone"})
      BY <2>2, <1>2 DEF EventsFor
    <3>. QED  BY <3>1, <2>2, <1>5 DEF Completed
  <2>. QED  BY <2>1, <2>2
<1>7. OnePlace'
  <2>1. \A g, h \in DOMAIN events' : g.inst = h.inst => g = h
    BY <1>2, <1>3 DEF WInv, OnePlace
  <2>2. \A g \in DOMAIN events', k \in DOMAIN readyQueue' :
           g.inst # readyQueue'[k]
    BY <1>2 DEF WInv, OnePlace
  <2>. QED  BY <2>1, <2>2, <1>2 DEF WInv, OnePlace
<1>8. Progress'
  <2>1. \A g \in DOMAIN events' : EventFits(g)'
    <3>1. ASSUME NEW g \in DOMAIN events \ {e} PROVE EventFits(g)'
      <4>1. EventFits(g) /\ opIndex'[g.inst] = opIndex[g.inst]
        BY <1>3 DEF WInv, Progress
      <4>. QED  BY <4>1, <1>5 DEF EventFits, NextOp
    <3>. QED  BY <3>1, <1>2
  <2>2. \A k \in DOMAIN readyQueue' : opIndex'[readyQueue'[k]] = 0
    <3>1. \A k \in DOMAIN readyQueue :
             readyQueue[k] \in Instances(work) \ {e.inst}
      BY DEF WInv, OnePlace, IInv, TypeOK
    <3>. QED  BY <3>1 DEF WInv, Progress
  <2>3. ASSUME NEW i \in Instances(work)
        PROVE  /\ opIndex'[i] <= OpCount(i)
               /\ inDegree[i] > 0 => opIndex'[i] = 0
               /\ inDegree[i] <= 0 /\ ~Placed(i)' => opIndex'[i] = OpCount(i)
    <3>1. CASE i # e.inst
      BY <3>1, <1>4 DEF WInv, Progress
    <3>2. CASE i = e.inst
      <4>1. inDegree[i] <= 0 /\ inDegree[i] \in Int
        BY <3>2 DEF IInv, ActiveOnlyWhenSatisfied, TypeOK
      <4>2. Placed(i)'
        BY <3>2, <1>4 DEF Placed
      <4>3. opIndex'[i] <= OpCount(i)
        BY <3>2, <1>1, <1>5 DEF EventFits, EventTypes
      <4>. QED  BY <4>1, <4>2, <4>3
    <3>. QED  BY <3>1, <3>2
  <2>. QED  BY <2>1, <2>2, <2>3, <1>5 DEF Progress
<1>9. Clock'
  <2>1. ASSUME NEW g \in DOMAIN events',
               g.type \in {"ComputeDone", "MemRespDone"}, TakesTime(NextOp(g)')
        PROVE  g.time > 0
    <3>1. CASE g = f
      BY <2>1, <3>1
    <3>2. CASE g # f
      <4>1. g \in DOMAIN events /\ NextOp(g)' = NextOp(g)
        BY <3>2, <1>2, <1>3 DEF NextOp
      <4>. QED  BY <4>1, <2>1 DEF WInv, Clock
    <3>. QED  BY <3>1, <3>2
  <2>2. ASSUME NEW i \in Instances(work), NEW n \in 1 .. opIndex'[i],
               TakesTime(OpsOf(work, i)[n])
        PROVE  now' > 0
    <3>1. CASE i = e.inst
      BY <2>2, <3>1
    <3>2. CASE i # e.inst
      BY <2>2, <3>2, <1>1 DEF WInv, Clock
    <3>. QED  BY <3>1, <3>2
  <2>. QED  BY <2>1, <2>2 DEF Clock, TakesTime
<1>10. RootFirst'
  BY <1>6 DEF WInv, RootFirst, IsRoot
<1>11. InDegreeCountsUnsatisfied'
  <2>1. ASSUME NEW i \in Instances(work)
        PROVE  {x \in DependenciesOf(work, i) : ~Completed(x[2])'}
               = {x \in DependenciesOf(work, i) : ~Completed(x[2])}
    BY <1>6 DEF DependenciesOf
  <2>. QED  BY <2>1 DEF WInv, InDegreeCountsUnsatisfied
<1>12. WellBehaved(work')
  BY DEF WInv
<1>. QED  BY <1>7, <1>8, <1>9, <1>10, <1>11, <1>12 DEF WInv

(* A core whose event is answered by another of the same core is not lost. *)
LEMMA ReplaceKeepsCores ==
    ASSUME IInv, WInv, NEW e \in DOMAIN events, e.core # NoCore,
           NEW f, f.inst = e.inst, f.core = e.core,
           events' = Push(Pop(events, e), f), UNCHANGED coreIdle
    PROVE  NoCoreLost'
<1>. DEFINE q == Push(Pop(events, e), f)
<1>1. DOMAIN q = (DOMAIN events \ {e}) \cup {f}
  BY PushedOnce
<1>2. events' = q
  OBVIOUS
<1>. HIDE DEF q
<1>. QED  BY <1>1, <1>2 DEF WInv, NoCoreLost, CoreEvents

(* executeOp() of an operation that the instance has.                      *)
LEMMA WExecuteOpStep ==
    ASSUME IInv, WInv, NEW e \in DOMAIN events, e.type # "TaskDone",
           e.core # NoCore,
           UNCHANGED <<work, inDegree, readyTime, schedulerVars>>,
           opIndex' \in [Instances(work) -> Nat],
           \A i \in Instances(work) \ {e.inst} : opIndex'[i] = opIndex[i],
           opIndex'[e.inst] < OpCount(e.inst),
           now' \in Nat, now' >= now,
           ExecuteOp(e.core, e.inst, opIndex'[e.inst], Pop(events, e)),
           \A n \in 1 .. opIndex'[e.inst] :
               TakesTime(OpsOf(work, e.inst)[n]) => now' > 0
    PROVE  WInv'
<1>. PICK op : op = OpsOf(work, e.inst)[opIndex'[e.inst] + 1]
  OBVIOUS
<1>. PICK f : f = OpEvent(op, e.core, e.inst, now')
  OBVIOUS
<1>1. e.inst \in Instances(work) /\ opIndex'[e.inst] \in Nat
  BY WellBehavedTypes DEF Events
<1>2. op \in Op
  <2>1. OpsOf(work, e.inst) \in Seq(Op)
    BY <1>1, WellBehavedTypes
  <2>. QED  BY <2>1, <1>1 DEF OpCount
<1>3. /\ f.inst = e.inst /\ f.core = e.core
      /\ f.type = IF op.type = "Compute" THEN "ComputeDone" ELSE "MemReqIssued"
      /\ op.type = "Compute" => f.time = now' + op.cycles
      /\ op.type # "Compute" => f.address = op.address
  BY DEF OpEvent, Event
<1>4. events' = Push(Pop(events, e), f)
  BY DEF ExecuteOp
<1>5. NextOp(f)' = op
  BY <1>3 DEF NextOp
<1>6. NoCoreLost'
  BY <1>3, <1>4, ReplaceKeepsCores DEF schedulerVars
<1>7. op.type \in {"Compute", "Memory"} /\ op.cycles \in Int
  BY <1>2 DEF Op, OpTypes
<1>8. EventFits(f)'
  BY <1>3, <1>5, <1>7 DEF EventFits, OpCount
<1>9. f.type \in {"ComputeDone", "MemRespDone"} /\ TakesTime(NextOp(f)') =>
         f.time > 0
  BY <1>3, <1>5, <1>7 DEF TakesTime
<1>10. f.type \in EventTypes \ {"TaskReady"}
  BY <1>3 DEF EventTypes
<1>. QED
  BY <1>3, <1>4, <1>6, <1>8, <1>9, <1>10, WReplaceStep DEF schedulerVars

(* What every handler starts with, and what has been proved of the step.   *)
LEMMA WPoppedBy ==
    ASSUME IInv, WInv, NEW type, NEW e \in DOMAIN events, Popped(e, type)
    PROVE  /\ e \in Events /\ e.type = type /\ e.inst \in Instances(work)
           /\ now' = e.time /\ work' = work /\ now' \in Nat /\ now' >= now
           /\ EventFits(e) /\ inDegree[e.inst] <= 0
           /\ type # "TaskReady" => e.core # NoCore /\ CoreStateFits(e)
<1>1. /\ e \in Earliest(events) /\ e \in Events /\ e.type = type
      /\ now' = e.time /\ work' = work
      /\ type # "TaskReady" => e.core # NoCore /\ CoreStateFits(e)
  BY PoppedBy
<1>2. now <= e.time
  BY WellBehavedTypes
<1>3. EventFits(e) /\ inDegree[e.inst] <= 0
  BY DEF WInv, Progress, IInv, ActiveOnlyWhenSatisfied
<1>4. e.time \in Nat /\ now \in Nat
  BY <1>1, WellBehavedTypes DEF Events
<1>. QED  BY <1>1, <1>2, <1>3, <1>4 DEF Events

(* The dispatched instance keeps its place with its first event.           *)
LEMMA WHandleTaskDispatched ==
    ASSUME IInv, WInv, NEW e \in DOMAIN events, HandleTaskDispatched(e)
    PROVE  WInv'
<1>1. /\ e.type = "TaskDispatched" /\ e.inst \in Instances(work)
      /\ work' = work /\ now' \in Nat /\ now' >= now
      /\ e.core # NoCore /\ cores[e.core] = IdleCore
      /\ opIndex[e.inst] = 0
  BY WPoppedBy DEF HandleTaskDispatched, CoreStateFits, EventFits
<1>2. opIndex \in [Instances(work) -> Nat] /\ 0 < OpCount(e.inst)
  BY <1>1, WellBehavedTypes DEF IInv, TypeOK
<1>3. /\ ExecuteOp(e.core, e.inst, opIndex[e.inst], Pop(events, e))
      /\ UNCHANGED <<phase, graphVars, schedulerVars>>
  BY <1>1, <1>2 DEF HandleTaskDispatched, OpCount, IdleCore
<1>. QED  BY <1>1, <1>2, <1>3, WExecuteOpStep DEF graphVars

(* The operation that ends is the next one of the instance, and if it took *)
(* time the clock has moved.                                               *)
LEMMA WCompleteOp ==
    ASSUME IInv, WInv, NEW e \in DOMAIN events,
           e.type \in {"ComputeDone", "MemRespDone"}, Popped(e, e.type),
           CompleteOp(e)
    PROVE  WInv'
<1>1. /\ e.inst \in Instances(work)
      /\ now' = e.time /\ work' = work /\ now' \in Nat /\ now' >= now
      /\ e.core # NoCore /\ cores[e.core] = BusyWith(e.inst)
      /\ opIndex[e.inst] < OpCount(e.inst)
  BY WPoppedBy DEF CoreStateFits, EventFits
<1>2. /\ cores[e.core].current = e.inst /\ CanComplete(cores[e.core])
      /\ opIndex \in [Instances(work) -> Nat] /\ opIndex[e.inst] \in Nat
      /\ OpCount(e.inst) \in Nat /\ now \in Nat
  <2>1. e.inst # NoInstance
    BY <1>1, WellBehavedTypes, InstanceTypes DEF NoInstance
  <2>. QED
    BY <2>1, <1>1, WellBehavedTypes DEF BusyWith, CanComplete, IInv, TypeOK
<1>3. /\ opIndex' = [opIndex EXCEPT ![e.inst] = @ + 1]
      /\ \/ /\ opIndex'[e.inst] >= OpCount(e.inst)
            /\ events' = Push(Pop(events, e),
                  Event("TaskDone", now', e.core, e.inst, NoAddress))
         \/ /\ opIndex'[e.inst] < OpCount(e.inst)
            /\ ExecuteOp(e.core, e.inst, opIndex'[e.inst], Pop(events, e))
      /\ UNCHANGED <<phase, inDegree, readyTime, schedulerVars>>
  BY <1>2 DEF CompleteOp, OpCount
<1>4. /\ opIndex' \in [Instances(work) -> Nat]
      /\ \A i \in Instances(work) \ {e.inst} : opIndex'[i] = opIndex[i]
      /\ opIndex'[e.inst] = opIndex[e.inst] + 1
  BY <1>1, <1>2, <1>3
<1>5. ASSUME NEW n \in 1 .. opIndex'[e.inst],
             TakesTime(OpsOf(work, e.inst)[n])
      PROVE  now' > 0
  <2>1. CASE n = opIndex[e.inst] + 1
    BY <1>1, <1>5, <2>1 DEF WInv, Clock, NextOp
  <2>2. CASE n # opIndex[e.inst] + 1
    <3>1. n \in 1 .. opIndex[e.inst]
      BY <1>2, <1>4, <2>2
    <3>. QED  BY <3>1, <1>1, <1>2, <1>5 DEF WInv, Clock
  <2>. QED  BY <2>1, <2>2
<1>6. CASE /\ opIndex'[e.inst] >= OpCount(e.inst)
           /\ events' = Push(Pop(events, e),
                  Event("TaskDone", now', e.core, e.inst, NoAddress))
  <2>. PICK f : f = Event("TaskDone", now', e.core, e.inst, NoAddress)
    OBVIOUS
  <2>1. /\ f.inst = e.inst /\ f.core = e.core /\ f.type = "TaskDone"
        /\ f.type \in EventTypes \ {"TaskReady"}
    BY DEF Event, EventTypes
  <2>2. events' = Push(Pop(events, e), f)
    BY <1>6
  <2>3. EventFits(f)'
    BY <1>1, <1>2, <1>4, <1>6, <2>1 DEF EventFits, OpCount
  <2>4. NoCoreLost'
    BY <1>1, <1>3, <2>1, <2>2, ReplaceKeepsCores DEF schedulerVars
  <2>. QED
    BY <1>1, <1>3, <1>4, <1>5, <2>1, <2>2, <2>3, <2>4, WReplaceStep
       DEF schedulerVars
<1>7. CASE /\ opIndex'[e.inst] < OpCount(e.inst)
           /\ ExecuteOp(e.core, e.inst, opIndex'[e.inst], Pop(events, e))
  BY <1>1, <1>3, <1>4, <1>5, <1>7, WExecuteOpStep
<1>. QED  BY <1>3, <1>6, <1>7

(* A request answered is a place kept, at the same operation.              *)
LEMMA WHandleMemReqIssued ==
    ASSUME IInv, WInv, NEW e \in DOMAIN events, HandleMemReqIssued(e)
    PROVE  WInv'
<1>1. /\ e.type = "MemReqIssued" /\ e.inst \in Instances(work)
      /\ work' = work /\ now' \in Nat /\ now' >= now
      /\ e.core # NoCore
      /\ opIndex[e.inst] < OpCount(e.inst) /\ NextOp(e).type = "Memory"
  BY WPoppedBy DEF HandleMemReqIssued, EventFits
<1>2. UNCHANGED <<phase, graphVars, schedulerVars, cores>>
  BY DEF HandleMemReqIssued
<1>3. PICK latency \in MemLatencies :
         events' = Push(Pop(events, e),
            Event("MemRespDone", now' + latency, e.core, e.inst, e.address))
  BY DEF HandleMemReqIssued
<1>. PICK f : f = Event("MemRespDone", now' + latency, e.core, e.inst,
                        e.address)
  OBVIOUS
<1>4. /\ f.inst = e.inst /\ f.core = e.core /\ f.type = "MemRespDone"
      /\ f.time = now' + latency
      /\ f.type \in EventTypes \ {"TaskReady"}
  BY DEF Event, EventTypes
<1>5. events' = Push(Pop(events, e), f)
  BY <1>3
<1>6. NextOp(f)' = NextOp(e)
  BY <1>1, <1>2, <1>4 DEF NextOp, graphVars
<1>7. EventFits(f)'
  BY <1>1, <1>2, <1>4, <1>6 DEF EventFits, OpCount, graphVars
<1>8. TakesTime(NextOp(f)') => f.time > 0
  <2>1. latency \in Nat
    BY SimulatorAssumption
  <2>. QED  BY <1>1, <1>4, <1>6, <2>1 DEF TakesTime
<1>9. NoCoreLost'
  BY <1>1, <1>2, <1>4, <1>5, ReplaceKeepsCores DEF schedulerVars
<1>10. \A n \in 1 .. opIndex'[e.inst] :
          TakesTime(OpsOf(work, e.inst)[n]) => now' > 0
  BY <1>1, <1>2, WellBehavedTypes DEF WInv, Clock, graphVars
<1>11. opIndex \in [Instances(work) -> Nat]
  BY DEF IInv, TypeOK
<1>. QED
  BY <1>1, <1>2, <1>4, <1>5, <1>7, <1>8, <1>9, <1>10, <1>11, WReplaceStep
     DEF graphVars, schedulerVars

(* A ready instance moves from its event to the queue, or through the      *)
(* empty queue to the next idle core.                                      *)
LEMMA WHandleTaskReady ==
    ASSUME IInv, WInv, NEW e \in DOMAIN events, HandleTaskReady(e)
    PROVE  WInv'
<1>1. /\ e.type = "TaskReady" /\ e.inst \in Instances(work)
      /\ work' = work /\ now' \in Nat /\ now' >= now
      /\ opIndex[e.inst] = 0 /\ inDegree[e.inst] <= 0 /\ e.core = NoCore
  BY WPoppedBy, PoppedBy DEF HandleTaskReady, EventFits
<1>2. UNCHANGED <<graphVars, cores>>
  BY DEF HandleTaskReady
<1>3. /\ readyQueue \in Seq(Instances(work))
      /\ opIndex \in [Instances(work) -> Nat]
      /\ now \in Nat
  BY WellBehavedTypes DEF IInv, TypeOK
<1>4. ASSUME NEW c \in Cores, SelectsCore(coreIdle, nextCore, c),
             Dispatch(Append(readyQueue, e.inst), coreIdle, c, Pop(events, e))
      PROVE  WInv'
  <2>1. readyQueue = <<>>
    BY <1>4 DEF SelectsCore, IInv, WorkConserving
  <2>2. PICK queue \in Seq(Instances(work)) : queue = Append(readyQueue, e.inst)
    <3>1. Append(readyQueue, e.inst) \in Seq(Instances(work))
      BY <1>1, <1>3
    <3>. QED  BY <3>1
  <2>3. Len(queue) = 1 /\ DOMAIN queue = {1} /\ queue[1] = e.inst
    BY <2>1, <2>2
  <2>4. /\ readyQueue' = RemoveAt(queue, 1)
        /\ coreIdle' = [coreIdle EXCEPT ![c] = FALSE]
        /\ events' = Push(Pop(events, e),
               Event("TaskDispatched", now', c, e.inst, NoAddress))
    BY <1>4, <2>2, <2>3 DEF Dispatch, DispatchTo
  <2>5. readyQueue' = <<>>
    <3>1. /\ RemoveAt(queue, 1) \in Seq(Instances(work))
          /\ Len(RemoveAt(queue, 1)) = Len(queue) - 1
      <4>1. 1 \in DOMAIN queue
        BY <2>3
      <4>. QED  BY <4>1, Dequeued
    <3>. QED  BY <3>1, <2>3, <2>4
  <2>. PICK f : f = Event("TaskDispatched", now', c, e.inst, NoAddress)
    OBVIOUS
  <2>6. /\ f.inst = e.inst /\ f.core = c /\ f.type = "TaskDispatched"
        /\ f.type \in EventTypes \ {"TaskReady"}
    BY DEF Event, EventTypes
  <2>7. events' = Push(Pop(events, e), f)
    BY <2>4
  <2>8. EventFits(f)'
    BY <2>6, <1>1, <1>2 DEF EventFits, graphVars
  <2>9. NoCoreLost'
    <3>1. DOMAIN Push(Pop(events, e), f) = (DOMAIN events \ {e}) \cup {f}
      BY <2>6, PushedOnce
    <3>2. DOMAIN events' = (DOMAIN events \ {e}) \cup {f}
      BY <3>1, <2>7
    <3>3. \A d \in Cores \ {c} : coreIdle'[d] = coreIdle[d]
      BY <2>4 DEF IInv, TypeOK
    <3>4. c # NoCore
      BY DEF Cores, NoCore
    <3>. QED
      BY <3>2, <3>3, <3>4, <2>6, <1>1 DEF WInv, NoCoreLost, CoreEvents
  <2>10. \A n \in 1 .. opIndex'[e.inst] :
            TakesTime(OpsOf(work, e.inst)[n]) => now' > 0
    BY <1>1, <1>2 DEF graphVars
  <2>. QED
    BY <1>1, <1>2, <1>3, <2>1, <2>5, <2>6, <2>7, <2>8, <2>9, <2>10,
       WReplaceStep DEF graphVars
<1>5. CASE /\ readyQueue' = Append(readyQueue, e.inst)
           /\ events' = Pop(events, e)
           /\ UNCHANGED <<phase, coreIdle, nextCore>>
  <2>1. /\ DOMAIN events' = DOMAIN events \ {e}
        /\ \A g \in DOMAIN events' : events'[g] = 1
    BY <1>5, PoppedOnce
  <2>2. /\ DOMAIN readyQueue = 1 .. Len(readyQueue)
        /\ DOMAIN readyQueue' = 1 .. Len(readyQueue) + 1
        /\ \A k \in DOMAIN readyQueue : readyQueue'[k] = readyQueue[k]
        /\ readyQueue'[Len(readyQueue) + 1] = e.inst
    BY <1>1, <1>3, <1>5
  <2>3. /\ Len(readyQueue) \in Nat
        /\ \A k \in DOMAIN readyQueue :
              readyQueue'[k] = readyQueue[k] /\ readyQueue[k] # e.inst
        /\ \A k \in DOMAIN readyQueue' :
              k \in DOMAIN readyQueue \/ k = Len(readyQueue) + 1
    BY <2>2, <1>3 DEF WInv, OnePlace
  <2>4. \A i : Placed(i)' <=> Placed(i)
    <3>1. \A i : (\E k \in DOMAIN readyQueue' : readyQueue'[k] = i)
                 <=> i = e.inst \/ \E k \in DOMAIN readyQueue : readyQueue[k] = i
      BY <2>2, <2>3
    <3>. QED  BY <3>1, <2>1 DEF Placed
  <2>5. \A i : /\ OpCount(i)' = OpCount(i)
               /\ Completed(i)' <=> Completed(i)
    <3>1. \A i : EventsFor(i, {"TaskDone"})' = EventsFor(i, {"TaskDone"})
      BY <2>1, <1>1 DEF EventsFor
    <3>. QED  BY <3>1, <1>1, <1>2 DEF Completed, OpCount, graphVars
  <2>6. OnePlace'
    <3>1. \A k, l \in DOMAIN readyQueue' :
             readyQueue'[k] = readyQueue'[l] => k = l
      BY <2>2, <2>3 DEF WInv, OnePlace
    <3>2. \A g \in DOMAIN events', k \in DOMAIN readyQueue' :
             g.inst # readyQueue'[k]
      BY <2>1, <2>2, <2>3 DEF WInv, OnePlace
    <3>. QED  BY <3>1, <3>2, <2>1 DEF WInv, OnePlace
  <2>7. Progress'
    <3>1. \A g \in DOMAIN events' : EventFits(g)'
      BY <2>1, <2>5, <1>1, <1>2
         DEF WInv, Progress, EventFits, NextOp, graphVars
    <3>2. \A k \in DOMAIN readyQueue' : opIndex[readyQueue'[k]] = 0
      BY <2>2, <2>3, <1>1 DEF WInv, Progress
    <3>. QED
      BY <3>1, <3>2, <2>4, <2>5, <1>1, <1>2 DEF WInv, Progress, graphVars
  <2>8. Clock'
    <3>1. \A g \in DOMAIN events' : NextOp(g)' = NextOp(g)
      BY <1>1, <1>2 DEF NextOp, graphVars
    <3>2. now > 0 => now' > 0
      BY <1>1, <1>3
    <3>. QED  BY <3>1, <3>2, <2>1, <1>1, <1>2
                 DEF WInv, Clock, TakesTime, graphVars
  <2>9. RootFirst' /\ InDegreeCountsUnsatisfied'
    BY <2>5, <1>1, <1>2
       DEF WInv, RootFirst, IsRoot, InDegreeCountsUnsatisfied, graphVars
  <2>10. NoCoreLost' /\ WellBehaved(work')
    BY <2>1, <1>1, <1>5 DEF WInv, NoCoreLost, CoreEvents
  <2>. QED  BY <2>6, <2>7, <2>8, <2>9, <2>10 DEF WInv
<1>. QED  BY <1>4, <1>5 DEF HandleTaskReady, AddReady

(* The TaskDone of e.inst counts e.inst off wherever it was a dependency   *)
(* not satisfied.  What becomes ready had that dependency, and nothing but *)
(* the root can be completed before the root.                              *)
LEMMA TaskDoneGraph ==
    ASSUME IInv, WInv, NEW e \in DOMAIN events, HandleTaskDone(e)
    PROVE  /\ now' \in Nat /\ now' > 0 /\ now' >= now
           /\ ~Completed(e.inst) /\ opIndex[e.inst] = OpCount(e.inst)
           /\ \A root \in Instances(work) :
                 IsRoot(root) => root = e.inst \/ Completed(root)
           /\ \A i \in Instances(work) :
                 /\ inDegree'[i] = Cardinality({x \in DependenciesOf(work, i) :
                        ~Completed(x[2]) /\ x[2] # e.inst})
                 /\ inDegree'[i] \in Nat
                 /\ inDegree'[i] <= inDegree[i]
           /\ \A i \in ReadyInstances(work, inDegree', opIndex, readyTime) :
                 inDegree[i] > 0
<1>1. /\ e.type = "TaskDone" /\ e.inst \in Instances(work)
      /\ work' = work /\ now' \in Nat /\ now' >= now
      /\ opIndex[e.inst] = OpCount(e.inst) /\ inDegree[e.inst] <= 0
  BY WPoppedBy DEF HandleTaskDone, EventFits
<1>2. ~Completed(e.inst)
  BY <1>1, PlacedNotCompleted DEF Placed
<1>3. ASSUME NEW root \in Instances(work), IsRoot(root)
      PROVE  root = e.inst \/ Completed(root)
  <2>. SUFFICES ASSUME root # e.inst, ~Completed(root) PROVE FALSE
    OBVIOUS
  <2>1. ~IsRoot(e.inst)
    BY <1>1, <1>3, RootTakesTime
  <2>2. inDegree[e.inst] > 0
    BY <2>1, <1>1, <1>3 DEF WInv, RootFirst
  <2>. QED  BY <2>2, <1>1, WellBehavedTypes
<1>4. now' > 0
  <2>1. PICK root \in Instances(work) :
           /\ IsRoot(root)
           /\ \E n \in 1 .. OpCount(root) : TakesTime(OpsOf(work, root)[n])
    BY RootTakesTime
  <2>2. opIndex[root] = OpCount(root)
    BY <2>1, <1>1, <1>3, WellBehavedTypes DEF WInv, Progress, Completed
  <2>3. now > 0
    BY <2>1, <2>2 DEF WInv, Clock
  <2>. QED  BY <2>3, <1>1, WellBehavedTypes
<1>5. ASSUME NEW i \in Instances(work)
      PROVE  /\ inDegree'[i] = Cardinality({x \in DependenciesOf(work, i) :
                    ~Completed(x[2]) /\ x[2] # e.inst})
             /\ inDegree'[i] \in Nat
             /\ inDegree'[i] <= inDegree[i]
  <2>. DEFINE D == DependenciesOf(work, i)
              A == {x \in D : ~Completed(x[2])}
              B == {x \in D : x[2] = e.inst}
              C == {x \in D : ~Completed(x[2]) /\ x[2] # e.inst}
  <2>1. inDegree'[i] = inDegree[i] - Multiplicity(work, e.inst, i)
    BY DEF HandleTaskDone, MarkInstanceComplete
  <2>2. inDegree[i] = Cardinality(A)
    BY DEF WInv, InDegreeCountsUnsatisfied
  <2>3. Cardinality(B) = Multiplicity(work, e.inst, i)
    BY <1>1, WellBehavedTypes, MultiplicityCounts
  <2>4. A = B \cup C /\ B \cap C = {}
    BY <1>2
  <2>5. B \in SUBSET D /\ C \in SUBSET D
    OBVIOUS
  <2>6. IsFiniteSet(D)
    BY WellBehavedTypes, DependenciesFinite
  <2>. HIDE DEF A, B, C, D
  <2>7. IsFiniteSet(B) /\ IsFiniteSet(C)
    BY <2>5, <2>6, FS_Subset
  <2>8. /\ Cardinality(B) \in Nat /\ Cardinality(C) \in Nat
        /\ Cardinality(B \cap C) = 0
        /\ Cardinality(B \cup C)
              = Cardinality(B) + Cardinality(C) - Cardinality(B \cap C)
    BY <2>4, <2>7, FS_CardinalityType, FS_EmptySet, FS_Union
  <2>9. /\ inDegree'[i] = Cardinality(C) /\ inDegree'[i] \in Nat
        /\ inDegree'[i] <= inDegree[i]
    BY <2>1, <2>2, <2>3, <2>4, <2>8
  <2>. QED  BY <2>9 DEF C, D
<1>6. ASSUME NEW i \in ReadyInstances(work, inDegree', opIndex, readyTime)
      PROVE  inDegree[i] > 0
  <2>1. i \in Instances(work) /\ opIndex[i] = 0 /\ readyTime[i] = 0
    BY DEF ReadyInstances
  <2>2. /\ OpCount(i) \in Nat \ {0} /\ inDegree[i] \in Int
        /\ OpCount(e.inst) \in Nat \ {0}
    BY <2>1, <1>1, WellBehavedTypes
  <2>3. ~IsRoot(i)
    BY <2>1, <2>2, <1>1, <1>3 DEF Completed
  <2>. QED  BY <2>1, <2>2, <2>3 DEF WInv, RootFirst
<1>. QED  BY <1>1, <1>2, <1>3, <1>4, <1>5, <1>6

(* handleTaskDone(): each instance is in the place it was in, or is ready  *)
(* and announced, or moves from the queue to the released core.            *)
LEMMA WDoneStep ==
    ASSUME IInv, WInv, NEW e \in DOMAIN events, HandleTaskDone(e),
           OnePlace', NoCoreLost',
           DOMAIN events \ {e} \subseteq DOMAIN events',
           \A g \in DOMAIN events' :
              g \in DOMAIN events \ {e}
              \/ /\ g.type \in {"TaskReady", "TaskDispatched"}
                 /\ opIndex[g.inst] = 0,
           \A k \in DOMAIN readyQueue' : opIndex[readyQueue'[k]] = 0,
           \A i \in Instances(work) :
              \/ Placed(i) /\ i # e.inst
              \/ i \in ReadyInstances(work, inDegree', opIndex, readyTime)
              => Placed(i)'
    PROVE  WInv'
<1>. DEFINE ready == ReadyInstances(work, inDegree', opIndex, readyTime)
<1>1. /\ e.type = "TaskDone" /\ e.inst \in Instances(work) /\ work' = work
      /\ opIndex' = opIndex
      /\ readyTime' = [i \in Instances(work) |->
                          IF i \in ready THEN now' ELSE readyTime[i]]
      /\ now \in Nat
  BY WPoppedBy, WellBehavedTypes DEF HandleTaskDone
<1>2. \A i \in Instances(work) :
         inDegree'[i] \in Nat /\ inDegree[i] \in Int /\ inDegree'[i] <= inDegree[i]
  <2>. SUFFICES ASSUME NEW i \in Instances(work)
                PROVE  /\ inDegree'[i] \in Nat /\ inDegree[i] \in Int
                       /\ inDegree'[i] <= inDegree[i]
    OBVIOUS
  <2>. QED  BY TaskDoneGraph, WellBehavedTypes
<1>3. \A i \in Instances(work) : OpCount(i)' = OpCount(i)
  BY <1>1 DEF OpCount
<1>4. \A g \in DOMAIN events \ {e} : g.inst # e.inst
  BY DEF WInv, OnePlace
<1>5. ASSUME NEW i \in Instances(work)
      PROVE  Completed(i)' <=> Completed(i) \/ i = e.inst
  <2>1. EventsFor(i, {"TaskDone"})'
           = IF i = e.inst THEN {} ELSE EventsFor(i, {"TaskDone"})
    BY <1>1, <1>4 DEF EventsFor
  <2>2. opIndex[e.inst] >= OpCount(e.inst)
    BY <1>1, TaskDoneGraph, WellBehavedTypes
  <2>. QED  BY <2>1, <2>2, <1>1, <1>3 DEF Completed
<1>6. InDegreeCountsUnsatisfied'
  <2>. SUFFICES ASSUME NEW i \in Instances(work)
                PROVE  inDegree'[i] = Cardinality({x \in DependenciesOf(work, i) :
                                                      ~Completed(x[2])'})
    BY <1>1 DEF InDegreeCountsUnsatisfied
  <2>1. {x \in DependenciesOf(work, i) : ~Completed(x[2])'}
        = {x \in DependenciesOf(work, i) : ~Completed(x[2]) /\ x[2] # e.inst}
    BY <1>5 DEF DependenciesOf
  <2>. QED  BY <2>1, TaskDoneGraph
<1>7. RootFirst'
  <2>1. ASSUME NEW root \in Instances(work), IsRoot(root)
        PROVE  Completed(root)'
    BY <2>1, <1>5, TaskDoneGraph
  <2>2. ASSUME NEW i \in Instances(work), ~IsRoot(i), inDegree'[i] <= 0
        PROVE  readyTime'[i] > 0
    <3>1. CASE inDegree[i] <= 0
      <4>1. readyTime[i] > 0 /\ i \notin ready
        BY <2>2, <3>1, WellBehavedTypes DEF WInv, RootFirst, ReadyInstances
      <4>. QED  BY <4>1, <1>1
    <3>2. CASE inDegree[i] > 0
      <4>1. readyTime[i] = 0 /\ opIndex[i] = 0
        BY <3>2 DEF WInv, RootFirst, Progress
      <4>2. inDegree'[i] = 0
        BY <2>2, <1>2
      <4>3. i \in ready
        BY <4>1, <4>2 DEF ReadyInstances
      <4>. QED  BY <4>3, <1>1, TaskDoneGraph
    <3>. QED  BY <3>1, <3>2, WellBehavedTypes
  <2>3. ASSUME NEW i \in Instances(work), inDegree'[i] > 0
        PROVE  readyTime'[i] = 0
    <3>1. inDegree[i] > 0
      BY <2>3, <1>2
    <3>2. i \notin ready
      BY <2>3 DEF ReadyInstances
    <3>. QED  BY <3>1, <3>2, <1>1 DEF WInv, RootFirst
  <2>. HIDE DEF ready
  <2>. QED  BY <2>1, <2>2, <2>3, <1>1 DEF RootFirst, IsRoot
<1>8. Progress'
  <2>1. ASSUME NEW g \in DOMAIN events'
        PROVE  EventFits(g)'
    <3>1. CASE g \in DOMAIN events \ {e}
      <4>1. EventFits(g)
        BY <3>1 DEF WInv, Progress
      <4>. QED  BY <4>1, <1>1 DEF EventFits, NextOp, OpCount
    <3>2. CASE g.type \in {"TaskReady", "TaskDispatched"} /\ opIndex[g.inst] = 0
      BY <3>2, <1>1 DEF EventFits
    <3>. QED  BY <3>1, <3>2
  <2>2. ASSUME NEW i \in Instances(work)
        PROVE  /\ opIndex[i] <= OpCount(i)
               /\ inDegree'[i] > 0 => opIndex[i] = 0
               /\ inDegree'[i] <= 0 /\ ~Placed(i)' => opIndex[i] = OpCount(i)
    <3>1. opIndex[i] <= OpCount(i)
      BY DEF WInv, Progress
    <3>2. ASSUME inDegree'[i] > 0 PROVE opIndex[i] = 0
      <4>1. inDegree[i] > 0
        BY <3>2, <1>2
      <4>. QED  BY <4>1 DEF WInv, Progress
    <3>3. ASSUME inDegree'[i] <= 0, ~Placed(i)'
          PROVE  opIndex[i] = OpCount(i)
      <4>1. CASE inDegree[i] > 0
        <5>1. inDegree'[i] = 0
          BY <3>3, <1>2
        <5>2. i \in ready
          BY <4>1, <5>1 DEF WInv, RootFirst, Progress, ReadyInstances
        <5>. QED  BY <5>2, <3>3
      <4>2. CASE inDegree[i] <= 0
        <5>1. ~Placed(i) \/ i = e.inst
          BY <3>3
        <5>. QED  BY <5>1, <4>2, TaskDoneGraph DEF WInv, Progress
      <4>. QED  BY <4>1, <4>2, WellBehavedTypes
    <3>. QED  BY <3>1, <3>2, <3>3
  <2>. QED  BY <2>1, <2>2, <1>1, <1>3 DEF Progress
<1>9. Clock'
  <2>1. \A g \in DOMAIN events' :
           g.type \in {"ComputeDone", "MemRespDone"} =>
              g \in DOMAIN events /\ NextOp(g)' = NextOp(g)
    BY <1>1 DEF NextOp
  <2>2. now' > 0
    BY TaskDoneGraph
  <2>. QED  BY <2>1, <2>2 DEF WInv, Clock, TakesTime
<1>10. WellBehaved(work')
  BY <1>1 DEF WInv
<1>. QED  BY <1>6, <1>7, <1>8, <1>9, <1>10 DEF WInv

(* The instance is completed, and those it releases get their places.      *)
LEMMA WHandleTaskDone ==
    ASSUME IInv, WInv, NEW e \in DOMAIN events, HandleTaskDone(e)
    PROVE  WInv'
<1>. DEFINE c == e.core
            ready == ReadyInstances(work, inDegree', opIndex, readyTime)
            idle == ReleaseCore(coreIdle, c)
            p == Pop(events, e)
            new == {TaskReady(i, now') : i \in ready}
            q == PushAll(p, new)
            rest == DOMAIN events \ {e}
<1>1. /\ e.type = "TaskDone" /\ e.inst \in Instances(work) /\ c # NoCore
      /\ c \in Cores /\ CoreStateFits(e)
  BY PoppedBy DEF HandleTaskDone
<1>2. /\ readyQueue \in Seq(Instances(work))
      /\ coreIdle \in [Cores -> BOOLEAN]
      /\ \A d \in Cores \ {c} : idle[d] = coreIdle[d]
  BY DEF IInv, TypeOK, ReleaseCore
<1>3. \A i \in ready : /\ i \in Instances(work) /\ ~Placed(i) /\ opIndex[i] = 0
  <2>. SUFFICES ASSUME NEW i \in ready
                PROVE  i \in Instances(work) /\ ~Placed(i) /\ opIndex[i] = 0
    OBVIOUS
  <2>1. i \in Instances(work) /\ opIndex[i] = 0
    BY DEF ReadyInstances
  <2>2. inDegree[i] > 0 /\ inDegree[i] \in Int
    BY <2>1, TaskDoneGraph, WellBehavedTypes
  <2>. QED  BY <2>1, <2>2, PlacedNotCompleted
<1>4. /\ \A g \in new : g.type = "TaskReady" /\ g.core = NoCore /\ g.inst \in ready
      /\ \A g, h \in new : g.inst = h.inst => g = h
      /\ \A i \in ready : \E g \in new : g.inst = i
  <2>1. \A i \in ready : TaskReady(i, now') \in new /\ TaskReady(i, now').inst = i
    BY DEF TaskReady, Event
  <2>2. \A g \in new : \E i \in ready : g = TaskReady(i, now')
    OBVIOUS
  <2>3. \A i : /\ TaskReady(i, now').type = "TaskReady"
               /\ TaskReady(i, now').core = NoCore
               /\ TaskReady(i, now').inst = i
    BY DEF TaskReady, Event
  <2>. HIDE DEF new, ready
  <2>. QED  BY <2>1, <2>2, <2>3
<1>5. \A g \in rest :
         g \in DOMAIN events /\ g.inst # e.inst /\ g.inst \notin ready
  <2>1. \A g \in rest : g.inst # e.inst /\ Placed(g.inst)
    BY DEF WInv, OnePlace, Placed
  <2>. QED  BY <2>1, <1>3
<1>6. \A i \in ready : i # e.inst /\ \A k \in DOMAIN readyQueue : readyQueue[k] # i
  BY <1>3 DEF Placed
<1>. HIDE DEF new, ready
<1>7. /\ IsABag(q)
      /\ DOMAIN q = rest \cup new
      /\ \A g \in DOMAIN q : q[g] = 1
  <2>1. /\ IsABag(p) /\ DOMAIN p = rest /\ \A g \in DOMAIN p : p[g] = 1
    BY PoppedOnce
  <2>2. \A g \in DOMAIN p : g \notin new
    BY <2>1, <1>4, <1>5
  <2>. HIDE DEF p, rest
  <2>3. IsABag(p)
    BY <2>1
  <2>4. IsABag(q) /\ DOMAIN q = (DOMAIN p) \cup new
    BY ONLY <2>3, PushAllBag
  <2>5. \A g \in DOMAIN p : g \notin new => q[g] = p[g]
    BY ONLY <2>3, PushAllBag
  <2>6. ASSUME NEW g \in new, g \notin DOMAIN p PROVE q[g] = 1
    BY ONLY <2>6, g \in new, PushedCopy
  <2>. HIDE DEF q
  <2>. QED  BY <2>1, <2>2, <2>4, <2>5, <2>6
<1>8. \A g, h \in rest \cup new : g.inst = h.inst => g = h
  BY <1>4, <1>5 DEF WInv, OnePlace
<1>9. \A g \in rest \cup new : \A k \in DOMAIN readyQueue : g.inst # readyQueue[k]
  BY <1>4, <1>5, <1>6 DEF WInv, OnePlace
<1>10. \A d \in Cores \ {c} : idle[d] \/ \E g \in rest : g.core # NoCore /\ g.core = d
  BY <1>1, <1>2 DEF WInv, NoCoreLost, CoreEvents
<1>11. \A g \in rest \cup new :
          \/ g \in rest
          \/ g.type \in {"TaskReady", "TaskDispatched"} /\ opIndex[g.inst] = 0
  BY <1>3, <1>4
<1>. HIDE DEF q, idle, rest
<1>12. CASE readyQueue = <<>> /\ coreIdle' = idle /\ events' = q
            /\ UNCHANGED <<phase, readyQueue>>
  <2>1. DOMAIN events' = rest \cup new
    BY <1>7, <1>12
  <2>2. OnePlace'
    <3>1. \A k \in DOMAIN readyQueue' : FALSE
      BY <1>12
    <3>. QED  BY <3>1, <2>1, <1>7, <1>8, <1>12 DEF OnePlace
  <2>3. NoCoreLost'
    <3>1. idle[c]
      BY <1>1, <1>2 DEF idle, ReleaseCore
    <3>. QED  BY <3>1, <2>1, <1>10, <1>12 DEF NoCoreLost, CoreEvents
  <2>4. ASSUME NEW i \in Instances(work),
               \/ Placed(i) /\ i # e.inst
               \/ i \in ready
        PROVE  Placed(i)'
    <3>1. \E g \in rest \cup new : g.inst = i
      BY <2>4, <1>4, <1>12 DEF Placed, rest
    <3>. QED  BY <3>1, <2>1 DEF Placed
  <2>5. \A k \in DOMAIN readyQueue' : opIndex[readyQueue'[k]] = 0
    BY <1>12
  <2>. QED
    BY <2>1, <2>2, <2>3, <2>4, <2>5, <1>11, WDoneStep DEF rest, ready
<1>13. CASE Dispatch(readyQueue, idle, c, q)
  <2>1. PICK k \in DOMAIN readyQueue :
           /\ readyQueue' = RemoveAt(readyQueue, k)
           /\ coreIdle' = DispatchTo(idle, c)
           /\ events' = Push(q,
                  Event("TaskDispatched", now', c, readyQueue[k], NoAddress))
    BY <1>13 DEF Dispatch
  <2>. PICK d : d = Event("TaskDispatched", now', c, readyQueue[k], NoAddress)
    OBVIOUS
  <2>2. d.type = "TaskDispatched" /\ d.core = c /\ d.inst = readyQueue[k]
    BY DEF Event
  <2>3. d \notin DOMAIN q
    BY <2>2, <1>7, <1>9
  <2>4. /\ DOMAIN events' = (rest \cup new) \cup {d}
        /\ \A g \in DOMAIN events' : events'[g] = 1
    <3>1. events' = Push(q, d)
      BY <2>1
    <3>2. /\ DOMAIN Push(q, d) = (DOMAIN q) \cup {d}
          /\ \A g \in DOMAIN q : g # d => Push(q, d)[g] = q[g]
          /\ Push(q, d)[d] = 1
      BY ONLY <1>7, <2>3, PushBag
    <3>. QED  BY <3>1, <3>2, <1>7
  <2>5. /\ DOMAIN readyQueue = 1 .. Len(readyQueue) /\ Len(readyQueue) \in Nat
        /\ DOMAIN readyQueue' = 1 .. Len(readyQueue) - 1
        /\ \A m \in 1 .. Len(readyQueue) - 1 :
              readyQueue'[m] = readyQueue[IF m < k THEN m ELSE m + 1]
    BY <2>1, <1>2, Dequeued
  <2>6. ASSUME NEW m \in DOMAIN readyQueue'
        PROVE  \E n \in DOMAIN readyQueue : n # k /\ readyQueue'[m] = readyQueue[n]
    BY <2>5
  <2>7. ASSUME NEW n \in DOMAIN readyQueue, n # k
        PROVE  \E m \in DOMAIN readyQueue' : readyQueue'[m] = readyQueue[n]
    <3>1. CASE n < k
      BY <3>1, <2>5
    <3>2. CASE n > k
      <4>1. n - 1 \in 1 .. Len(readyQueue) - 1 /\ ~(n - 1 < k) /\ (n - 1) + 1 = n
        BY <3>2, <2>5
      <4>. QED  BY <4>1, <2>5
    <3>. QED  BY <3>1, <3>2, <2>5, <2>7
  <2>8. OnePlace'
    <3>1. \A g, h \in DOMAIN events' : g.inst = h.inst => g = h
      BY <2>2, <2>4, <1>8, <1>9
    <3>2. \A m, n \in DOMAIN readyQueue' : readyQueue'[m] = readyQueue'[n] => m = n
      <4>1. \A m, n \in 1 .. Len(readyQueue) :
               readyQueue[m] = readyQueue[n] => m = n
        BY <2>5 DEF WInv, OnePlace
      <4>2. ASSUME NEW m \in 1 .. Len(readyQueue) - 1,
                   NEW n \in 1 .. Len(readyQueue) - 1,
                   readyQueue'[m] = readyQueue'[n]
            PROVE  m = n
        <5>1. /\ (IF m < k THEN m ELSE m + 1) \in 1 .. Len(readyQueue)
              /\ (IF n < k THEN n ELSE n + 1) \in 1 .. Len(readyQueue)
          BY <2>5
        <5>2. (IF m < k THEN m ELSE m + 1) = (IF n < k THEN n ELSE n + 1)
          BY <5>1, <4>1, <4>2, <2>5
        <5>. QED  BY <5>2, <2>5
      <4>. QED  BY <4>2, <2>5
    <3>3. \A g \in DOMAIN events', m \in DOMAIN readyQueue' :
             g.inst # readyQueue'[m]
      <4>1. \A m \in DOMAIN readyQueue : m # k => readyQueue[m] # readyQueue[k]
        BY DEF WInv, OnePlace
      <4>. QED  BY <4>1, <2>2, <2>4, <2>6, <1>9
    <3>. QED  BY <3>1, <3>2, <3>3, <2>4 DEF OnePlace
  <2>9. NoCoreLost'
    <3>1. \A f \in Cores \ {c} : coreIdle'[f] = idle[f]
      BY <2>1, <1>2 DEF DispatchTo, idle, ReleaseCore
    <3>. QED  BY <3>1, <2>2, <2>4, <1>1, <1>10 DEF NoCoreLost, CoreEvents
  <2>10. ASSUME NEW i \in Instances(work),
                \/ Placed(i) /\ i # e.inst
                \/ i \in ready
         PROVE  Placed(i)'
    <3>1. CASE \E g \in rest \cup new : g.inst = i
      BY <3>1, <2>4 DEF Placed
    <3>2. CASE \E n \in DOMAIN readyQueue : readyQueue[n] = i
      <4>1. CASE i = readyQueue[k]
        BY <4>1, <2>2, <2>4 DEF Placed
      <4>2. CASE i # readyQueue[k]
        BY <4>2, <3>2, <2>7 DEF Placed
      <4>. QED  BY <4>1, <4>2
    <3>. QED  BY <3>1, <3>2, <2>10, <1>4 DEF Placed, rest
  <2>11. \A m \in DOMAIN readyQueue' : opIndex[readyQueue'[m]] = 0
    BY <2>6 DEF WInv, Progress
  <2>12. opIndex[readyQueue[k]] = 0
    BY DEF WInv, Progress
  <2>. QED
    BY <2>2, <2>4, <2>8, <2>9, <2>10, <2>11, <2>12, <1>11, WDoneStep
       DEF rest, ready
<1>. QED  BY <1>12, <1>13 DEF HandleTaskDone, q, idle, new, ready, p

(* The invariant is about these variables only.                            *)
LEMMA WUnchanged ==
    ASSUME IInv, WInv,
           UNCHANGED <<work, now, events, graphVars, schedulerVars, cores>>
    PROVE  WInv'
<1>. /\ work' = work /\ now' = now /\ events' = events
     /\ inDegree' = inDegree /\ opIndex' = opIndex /\ readyTime' = readyTime
     /\ readyQueue' = readyQueue /\ coreIdle' = coreIdle
  BY DEF graphVars, schedulerVars
<1>1. /\ \A i : OpCount(i)' = OpCount(i)
      /\ \A i : Placed(i)' <=> Placed(i)
      /\ \A i : Completed(i)' <=> Completed(i)
      /\ \A e : NextOp(e)' = NextOp(e)
      /\ \A e : EventFits(e)' <=> EventFits(e)
  <2>1. \A i : OpCount(i)' = OpCount(i)
    BY DEF OpCount
  <2>2. \A i : Placed(i)' <=> Placed(i)
    BY DEF Placed
  <2>3. \A i : Completed(i)' <=> Completed(i)
    BY <2>1 DEF Completed, EventsFor
  <2>4. \A e : NextOp(e)' = NextOp(e)
    BY DEF NextOp
  <2>5. \A e : EventFits(e)' <=> EventFits(e)
    BY <2>1, <2>4 DEF EventFits
  <2>. QED  BY <2>1, <2>2, <2>3, <2>4, <2>5
<1>2. OnePlace'
  BY DEF WInv, OnePlace, schedulerVars
<1>3. Progress'
  BY <1>1 DEF WInv, Progress, graphVars, schedulerVars
<1>4. Clock'
  BY <1>1 DEF WInv, Clock, TakesTime, graphVars
<1>5. RootFirst' /\ InDegreeCountsUnsatisfied'
  BY <1>1 DEF WInv, RootFirst, IsRoot, InDegreeCountsUnsatisfied, graphVars
<1>6. NoCoreLost' /\ WellBehaved(work')
  BY DEF WInv, NoCoreLost, CoreEvents, schedulerVars
<1>. QED  BY <1>2, <1>3, <1>4, <1>5, <1>6 DEF WInv

(* Before run() the root is announced and nothing else has a place.        *)
LEMMA InitiallyWInv ==
    ASSUME Init, WellBehaved(work)
    PROVE  WInv
<1>. DEFINE ready == ReadyInstances(work, inDegree, opIndex, readyTime)
            new == {TaskReady(i, 0) : i \in ready}
            q == PushAll(EmptyQueue, new)
<1>1. IInv
  BY InitiallyIInv
<1>2. /\ work \in Workload
      /\ \A i \in Instances(work) :
            /\ OpCount(i) \in Nat \ {0}
            /\ inDegree[i] = InitialInDegree(work, i)
            /\ InitialInDegree(work, i) \in Nat
            /\ opIndex[i] = 0 /\ readyTime[i] = 0
  <2>1. work \in Workload
    BY <1>1, SimulatorAssumption DEF IInv, TypeOK
  <2>2. ASSUME NEW i \in Instances(work)
        PROVE  OpCount(i) \in Nat \ {0} /\ InitialInDegree(work, i) \in Nat
    <3>1. OpsOf(work, i) \in Seq(Op) /\ OpsOf(work, i) # <<>>
      BY <2>1, InstanceTypes DEF WellBehaved
    <3>. QED  BY <3>1, <2>1, InitialInDegreeType DEF OpCount
  <2>. QED  BY <2>1, <2>2 DEF Init
<1>3. \A i \in Instances(work) : i \in ready <=> InitialInDegree(work, i) = 0
  BY <1>2 DEF ReadyInstances
<1>4. ready \subseteq Instances(work)
  BY DEF ReadyInstances
<1>5. /\ \A g \in new : g.type = "TaskReady" /\ g.inst \in ready
      /\ \A g, h \in new : g.inst = h.inst => g = h
      /\ \A i \in ready : \E g \in new : g.inst = i
  <2>1. \A i \in ready : TaskReady(i, 0) \in new
    OBVIOUS
  <2>2. \A g \in new : \E i \in ready : g = TaskReady(i, 0)
    OBVIOUS
  <2>3. \A i : TaskReady(i, 0).type = "TaskReady" /\ TaskReady(i, 0).inst = i
    BY DEF TaskReady, Event
  <2>. HIDE DEF new, ready
  <2>. QED  BY <2>1, <2>2, <2>3
<1>6. /\ events = q /\ readyQueue = <<>>
      /\ \A c \in Cores : coreIdle[c]
  BY DEF Init, WellBehaved
<1>. HIDE DEF new, ready
<1>7. DOMAIN events = new /\ \A g \in DOMAIN events : events[g] = 1
  <2>1. /\ DOMAIN q = (DOMAIN EmptyQueue) \cup new
        /\ \A g \in new : g \notin DOMAIN EmptyQueue => q[g] = 1
    BY ONLY EmptyQueueIsBag, PushAllBag
  <2>. HIDE DEF q
  <2>. QED  BY <2>1, <1>6, EmptyQueueIsBag
<1>. HIDE DEF q
<1>8. OnePlace
  BY <1>5, <1>6, <1>7 DEF OnePlace
<1>9. Progress
  <2>1. \A g \in DOMAIN events : EventFits(g)
    BY <1>2, <1>4, <1>5, <1>7 DEF EventFits
  <2>2. \A i \in Instances(work) : inDegree[i] <= 0 => Placed(i)
    BY <1>2, <1>3, <1>5, <1>7 DEF Placed
  <2>3. \A k \in DOMAIN readyQueue : FALSE
    BY <1>6
  <2>. QED  BY <2>1, <2>2, <2>3, <1>2 DEF Progress
<1>10. Clock
  BY <1>2, <1>5, <1>7 DEF Clock
<1>11. RootFirst
  BY <1>2 DEF RootFirst, IsRoot
<1>12. InDegreeCountsUnsatisfied
  <2>. SUFFICES ASSUME NEW i \in Instances(work)
                PROVE  inDegree[i] = Cardinality({x \in DependenciesOf(work, i) :
                                                      ~Completed(x[2])})
    BY DEF InDegreeCountsUnsatisfied
  <2>1. \A d \in Instances(work) : ~Completed(d)
    BY <1>2 DEF Completed
  <2>2. {x \in DependenciesOf(work, i) : ~Completed(x[2])}
           = DependenciesOf(work, i)
    BY <2>1 DEF DependenciesOf
  <2>. QED  BY <2>2, <1>2 DEF InitialInDegree
<1>13. NoCoreLost
  BY <1>6 DEF NoCoreLost
<1>. QED  BY <1>8, <1>9, <1>10, <1>11, <1>12, <1>13 DEF WInv

(* Every step keeps the invariant of well-behaved workloads.               *)
LEMMA StepKeepsWInv ==
    ASSUME IInv, WInv, [Next]_vars
    PROVE  WInv'
<1>1. ASSUME NEW e \in DOMAIN events, HandleTaskReady(e) PROVE WInv'
  BY <1>1, WHandleTaskReady
<1>2. ASSUME NEW e \in DOMAIN events, HandleTaskDispatched(e) PROVE WInv'
  BY <1>2, WHandleTaskDispatched
<1>3. ASSUME NEW e \in DOMAIN events, HandleComputeDone(e) PROVE WInv'
  BY <1>3, WCompleteOp DEF HandleComputeDone, Popped
<1>4. ASSUME NEW e \in DOMAIN events, HandleMemReqIssued(e) PROVE WInv'
  BY <1>4, WHandleMemReqIssued
<1>5. ASSUME NEW e \in DOMAIN events, HandleMemRespDone(e) PROVE WInv'
  BY <1>5, WCompleteOp DEF HandleMemRespDone, Popped
<1>6. ASSUME NEW e \in DOMAIN events, HandleTaskDone(e) PROVE WInv'
  BY <1>6, WHandleTaskDone
<1>7. CASE Complete
  BY <1>7, WUnchanged DEF Complete
<1>8. CASE Exited \/ UNCHANGED vars
  BY <1>8, WUnchanged DEF Exited, vars
<1>. QED
  BY <1>1, <1>2, <1>3, <1>4, <1>5, <1>6, <1>7, <1>8 DEF Next
-----------------------------------------------------------------------------
(* THE THEOREMS                                                            *)

(* On a well-behaved workload every reachable state satisfies the          *)
(* inductive invariant.                                                    *)
THEOREM WellBehavedInvariance == Spec /\ WellBehaved(work) => [](IInv /\ WInv)
<1>1. Init /\ WellBehaved(work) => IInv /\ WInv
  BY InitiallyIInv, InitiallyWInv
<1>2. IInv /\ WInv /\ [Next]_vars => (IInv /\ WInv)'
  BY StepKeepsIInv, StepKeepsWInv
<1>. QED  BY <1>1, <1>2, PTL DEF Spec

(* buildDAG() and markInstanceComplete() count alike, so that inDegree is  *)
(* at all times the number of unsatisfied dependencies.                    *)
THEOREM InDegreeIsCount ==
    Spec /\ WellBehaved(work) => []InDegreeCountsUnsatisfied
<1>1. WInv => InDegreeCountsUnsatisfied
  BY DEF WInv
<1>. QED  BY <1>1, WellBehavedInvariance, PTL

(* handleTaskDispatched() always has an operation to start, so that every  *)
(* core that is given an instance comes back through its TaskDone.         *)
THEOREM CoresAreKept == Spec /\ WellBehaved(work) => []NoCoreLost
<1>1. WInv => NoCoreLost
  BY DEF WInv
<1>. QED  BY <1>1, WellBehavedInvariance, PTL

(* The operation that handleMemReqIssued() looks up is the memory          *)
(* operation whose issue executeOp() scheduled.                            *)
THEOREM RequestsMatch == Spec /\ WellBehaved(work) => []RequestMatchesOp
<1>1. IInv /\ WInv => RequestMatchesOp
  <2>. SUFFICES ASSUME IInv, WInv, NEW e \in DOMAIN events,
                       e.type = "MemReqIssued"
                PROVE  LET n == opIndex[e.inst] + 1
                       IN  /\ n \in DOMAIN OpsOf(work, e.inst)
                           /\ OpsOf(work, e.inst)[n].type = "Memory"
                           /\ OpsOf(work, e.inst)[n].address = e.address
    BY DEF RequestMatchesOp
  <2>1. /\ opIndex[e.inst] < OpCount(e.inst)
        /\ NextOp(e).type = "Memory" /\ NextOp(e).address = e.address
    BY DEF WInv, Progress, EventFits
  <2>2. /\ e.inst \in Instances(work) /\ opIndex[e.inst] \in Nat
        /\ OpsOf(work, e.inst) \in Seq(Op)
    BY WellBehavedTypes DEF Events
  <2>3. opIndex[e.inst] + 1 \in DOMAIN OpsOf(work, e.inst)
    BY <2>1, <2>2 DEF OpCount
  <2>. QED  BY <2>1, <2>3 DEF NextOp
<1>. QED  BY <1>1, WellBehavedInvariance, PTL

(* An instance with nothing left to wait for has its predecessors behind.  *)
LEMMA SatisfiedPredecessors ==
    ASSUME IInv, WInv, NEW i \in Instances(work), inDegree[i] <= 0,
           NEW d \in Predecessors(i)
    PROVE  d \in Instances(work) /\ Completed(d)
<1>. DEFINE U == {x \in DependenciesOf(work, i) : ~Completed(x[2])}
<1>1. d \in Instances(work) /\ Multiplicity(work, d, i) > 0
  BY DEF Predecessors
<1>2. PICK x \in DependenciesOf(work, i) : x[2] = d
  BY <1>1, WellBehavedTypes, PredecessorIsDependency
<1>3. inDegree[i] = Cardinality(U)
  BY DEF WInv, InDegreeCountsUnsatisfied
<1>4. U \in SUBSET DependenciesOf(work, i)
  OBVIOUS
<1>. HIDE DEF U
<1>5. IsFiniteSet(U)
  BY <1>4, WellBehavedTypes, DependenciesFinite, FS_Subset
<1>6. U = {}
  BY <1>3, <1>5, FS_CardinalityType, FS_EmptySet
<1>. QED  BY <1>1, <1>2, <1>6 DEF U

(* No instance is dispatched before all it depends on has been completed:  *)
(* getReadyInstances() announces it when the last of them has counted off. *)
THEOREM DependenciesFirst == Spec /\ WellBehaved(work) => []DependencyOrder
<1>1. IInv /\ WInv => DependencyOrder
  <2>. SUFFICES ASSUME IInv, WInv, NEW i \in Instances(work),
                       opIndex[i] > 0
                       \/ EventsFor(i, EventTypes \ {"TaskReady"}) # {},
                       NEW d \in Predecessors(i)
                PROVE  Completed(d)
    BY DEF DependencyOrder
  <2>1. opIndex[i] \in Nat /\ inDegree[i] \in Int
    BY WellBehavedTypes
  <2>2. inDegree[i] <= 0
    <3>1. CASE opIndex[i] > 0
      BY <3>1, <2>1 DEF WInv, Progress
    <3>2. CASE EventsFor(i, EventTypes \ {"TaskReady"}) # {}
      BY <3>2 DEF IInv, ActiveOnlyWhenSatisfied, EventsFor
    <3>. QED  BY <3>1, <3>2
  <2>. QED  BY <2>2, SatisfiedPredecessors
<1>. QED  BY <1>1, WellBehavedInvariance, PTL

(* No instance is announced twice, whatever order the events of a cycle    *)
(* are popped in: the readyTime test of getReadyInstances() is enough when *)
(* only the root can be ready at cycle 0.                                  *)
THEOREM InstancesScheduledOnce ==
    Spec /\ WellBehaved(work) => []ScheduledOnce
<1>1. IInv /\ WInv => ScheduledOnce
  <2>. SUFFICES ASSUME IInv, WInv, NEW i \in Instances(work)
                PROVE  Activations(i) <= IF Completed(i) THEN 0 ELSE 1
    BY DEF ScheduledOnce
  <2>. DEFINE E == {x \in EventsFor(i, EventTypes) \X (1 .. 2) :
                       x[2] <= events[x[1]]}
              K == {k \in DOMAIN readyQueue : readyQueue[k] = i}
  <2>1. Activations(i) = Cardinality(E) + Cardinality(K)
    BY DEF Activations
  <2>2. \A e \in DOMAIN events : events[e] = 1
    BY DEF WInv, OnePlace
  <2>3. CASE ~Placed(i)
    <3>1. E = {} /\ K = {}
      BY <2>3 DEF Placed, EventsFor
    <3>. HIDE DEF E, K
    <3>. QED  BY <2>1, <3>1, FS_EmptySet
  <2>4. CASE Placed(i)
    <3>1. ~Completed(i)
      BY <2>4, PlacedNotCompleted
    <3>2. ASSUME NEW e \in DOMAIN events, e.inst = i
          PROVE  Activations(i) = 1
      <4>1. e.type \in EventTypes
        BY WellBehavedTypes DEF Events
      <4>2. EventsFor(i, EventTypes) = {e}
        BY <3>2, <4>1 DEF WInv, OnePlace, EventsFor
      <4>3. E = {<<e, 1>>}
        BY <4>2, <2>2
      <4>4. K = {}
        BY <3>2 DEF WInv, OnePlace
      <4>. HIDE DEF E, K
      <4>5. Cardinality({<<e, 1>>}) = 1
        BY ONLY FS_Singleton
      <4>6. Cardinality(K) = 0
        BY <4>4, FS_EmptySet
      <4>. QED  BY <2>1, <4>3, <4>5, <4>6
    <3>3. ASSUME NEW k \in DOMAIN readyQueue, readyQueue[k] = i
          PROVE  Activations(i) = 1
      <4>1. E = {}
        BY <3>3 DEF WInv, OnePlace, EventsFor
      <4>2. K = {k}
        BY <3>3 DEF WInv, OnePlace
      <4>. HIDE DEF E, K
      <4>. QED  BY <2>1, <4>1, <4>2, FS_EmptySet, FS_Singleton
    <3>4. Activations(i) = 1
      BY <2>4, <3>2, <3>3 DEF Placed
    <3>. QED  BY <3>1, <3>4
  <2>. QED  BY <2>3, <2>4
<1>. QED  BY <1>1, WellBehavedInvariance, PTL

(* An instance that has unsatisfied dependencies waits for one that is not *)
(* completed.                                                              *)
LEMMA UnsatisfiedPredecessor ==
    ASSUME IInv, WInv, NEW i \in Instances(work), inDegree[i] > 0
    PROVE  \E d \in Instances(work) : Multiplicity(work, d, i) # 0 /\ ~Completed(d)
<1>. DEFINE U == {x \in DependenciesOf(work, i) : ~Completed(x[2])}
<1>1. U # {}
  <2>1. inDegree[i] = Cardinality(U)
    BY DEF WInv, InDegreeCountsUnsatisfied
  <2>. HIDE DEF U
  <2>. QED  BY <2>1, FS_EmptySet
<1>2. PICK x \in DependenciesOf(work, i) : ~Completed(x[2])
  BY <1>1
<1>. DEFINE d == x[2]
            A == {y \in DependenciesOf(work, i) : y[2] = d}
<1>3. d \in Instances(work)
  BY DEF DependenciesOf
<1>4. A # {} /\ A \in SUBSET DependenciesOf(work, i)
  OBVIOUS
<1>5. Cardinality(A) = Multiplicity(work, d, i)
  BY <1>3, WellBehavedTypes, MultiplicityCounts
<1>. HIDE DEF A
<1>6. IsFiniteSet(A)
  BY <1>4, WellBehavedTypes, DependenciesFinite, FS_Subset
<1>7. Cardinality(A) # 0
  BY <1>4, <1>6, FS_EmptySet
<1>. QED  BY <1>2, <1>3, <1>5, <1>7

(* The loop of run() ended because the queue was empty, and it still is.   *)
CompleteIsEmpty == phase = "complete" => DOMAIN events = {}

(* Once the loop has ended there are no events.                            *)
LEMMA StepKeepsCompleteIsEmpty ==
    ASSUME CompleteIsEmpty, [Next]_vars
    PROVE  CompleteIsEmpty'
<1>1. ASSUME NEW e \in DOMAIN events,
             \/ HandleTaskReady(e) \/ HandleTaskDispatched(e)
             \/ HandleComputeDone(e) \/ HandleMemReqIssued(e)
             \/ HandleMemRespDone(e) \/ HandleTaskDone(e)
      PROVE  phase' # "complete"
  BY <1>1 DEF HandleTaskReady, HandleTaskDispatched, HandleComputeDone,
     HandleMemReqIssued, HandleMemRespDone, HandleTaskDone, CompleteOp,
     Dispatch, Abort, Popped
<1>2. CASE Complete
  BY <1>2, EmptyQueueIsBag DEF Complete, CompleteIsEmpty
<1>3. CASE Exited \/ UNCHANGED vars
  BY <1>3 DEF Exited, vars, CompleteIsEmpty
<1>. QED  BY <1>1, <1>2, <1>3 DEF Next, CompleteIsEmpty

(* When the event queue has run empty no instance is left waiting for a    *)
(* dependency, because those that were would wait for one another, and     *)
(* none for a core.                                                        *)
LEMMA AllCompleted ==
    ASSUME IInv, WInv, DOMAIN events = {}
    PROVE  \A i \in Instances(work) : Completed(i)
<1>1. readyQueue = <<>>
  <2>1. \A c \in Cores : coreIdle[c]
    BY DEF WInv, NoCoreLost, CoreEvents
  <2>2. 0 \in Cores
    BY SchedulerAssumption DEF Cores
  <2>. QED  BY <2>1, <2>2 DEF IInv, WorkConserving
<1>2. \A j : ~Placed(j)
  <2>1. \A k \in DOMAIN readyQueue : FALSE
    BY <1>1
  <2>. QED  BY <2>1 DEF Placed
<1>. DEFINE U == {j \in Instances(work) : ~Completed(j)}
<1>. SUFFICES ASSUME U # {} PROVE FALSE
  OBVIOUS
<1>3. \A j \in U : inDegree[j] > 0
  BY <1>2, SatisfiedIsPlaced, WellBehavedTypes
<1>4. \A j \in U : \E d \in U : Multiplicity(work, d, j) # 0
  BY <1>3, UnsatisfiedPredecessor
<1>5. U \in SUBSET Instances(work)
  OBVIOUS
<1>. HIDE DEF U
<1>. QED  BY <1>4, <1>5, AcyclicInstances, WellBehavedTypes

(* At the end of run() every instance has executed all its operations.     *)
THEOREM AllAreExecuted == Spec /\ WellBehaved(work) => []AllExecuted
<1>1. IInv /\ WInv /\ CompleteIsEmpty => AllExecuted
  <2>. SUFFICES ASSUME IInv, WInv, DOMAIN events = {}, NEW i \in Instances(work)
                PROVE  opIndex[i] = OpCount(i)
    BY DEF AllExecuted, CompleteIsEmpty
  <2>1. opIndex[i] >= OpCount(i)
    BY AllCompleted DEF Completed
  <2>. QED  BY <2>1, WellBehavedTypes DEF WInv, Progress
<1>2. Init => CompleteIsEmpty
  BY DEF Init, CompleteIsEmpty
<1>3. CompleteIsEmpty /\ [Next]_vars => CompleteIsEmpty'
  BY StepKeepsCompleteIsEmpty
<1>. QED  BY <1>1, <1>2, <1>3, WellBehavedInvariance, PTL DEF Spec
(* All that a handler schedules is due at once, but the ends of operations. *)
LEMMA NewEventsNow ==
    ASSUME IInv, NEW e \in DOMAIN events,
           \/ HandleTaskReady(e) \/ HandleTaskDispatched(e)
           \/ HandleComputeDone(e) \/ HandleMemReqIssued(e)
           \/ HandleMemRespDone(e) \/ HandleTaskDone(e)
    PROVE  \A g \in DOMAIN events' : g.type \notin {"ComputeDone", "MemRespDone"} =>
               g \in DOMAIN events \/ g.time = now'
<1>. DEFINE Fits(g) == g.type \notin {"ComputeDone", "MemRespDone"} => g.time = now'
            new == {TaskReady(i, now') :
                       i \in ReadyInstances(work, inDegree', opIndex, readyTime)}
            p == Pop(events, e)
            q == PushAll(p, new)
<1>1. CASE events' = p
  BY <1>1, PoppedEvent
<1>2. CASE \E f : Fits(f) /\ events' = Push(p, f)
  BY <1>2, OneMoreEvent
<1>3. IsABag(q) /\ DOMAIN q = (DOMAIN p) \cup new /\ DOMAIN p \subseteq DOMAIN events
  <2>1. IsABag(p) /\ DOMAIN p \subseteq DOMAIN events
    BY PoppedEvent
  <2>. HIDE DEF p, new
  <2>. QED  BY ONLY <2>1, PushAllBag
<1>4. \A g \in new : Fits(g)
  BY DEF TaskReady, Event
<1>. HIDE DEF q, new
<1>5. CASE events' = q
  BY <1>3, <1>4, <1>5
<1>6. CASE \E f : Fits(f) /\ events' = Push(q, f)
  <2>1. PICK f : Fits(f) /\ events' = Push(q, f)
    BY <1>6
  <2>2. DOMAIN Push(q, f) = (DOMAIN q) \cup {f}
    BY ONLY <1>3, PushBag
  <2>. QED  BY <1>3, <1>4, <2>1, <2>2
<1>7. HandleTaskReady(e) => events' = p \/ \E f : Fits(f) /\ events' = Push(p, f)
  BY DEF HandleTaskReady, Dispatch, Event
<1>8. HandleTaskDone(e) => events' = q \/ \E f : Fits(f) /\ events' = Push(q, f)
  BY DEF HandleTaskDone, Dispatch, Event, q, new
<1>9. HandleMemReqIssued(e) => \E f : Fits(f) /\ events' = Push(p, f)
  BY DEF HandleMemReqIssued, Event
<1>10. \A op, c, i : Fits(OpEvent(op, c, i, now'))
  BY DEF OpEvent, Event
<1>11. HandleTaskDispatched(e) \/ CompleteOp(e) =>
          events' = p \/ \E f : Fits(f) /\ events' = Push(p, f)
  BY <1>10 DEF HandleTaskDispatched, CompleteOp, ExecuteOp, Abort, Event
<1>. QED
  BY <1>1, <1>2, <1>5, <1>6, <1>7, <1>8, <1>9, <1>11
     DEF HandleComputeDone, HandleMemRespDone
-----------------------------------------------------------------------------
(* THE ORDER OF THE READY QUEUE                                            *)

LEMMA QueueKept ==
    ASSUME IInv, WInv, QueueInOrder, now' \in Nat, now' >= now,
           UNCHANGED <<work, readyTime, readyQueue>>,
           \A g \in DOMAIN events' : g.type = "TaskReady" => g \in DOMAIN events
    PROVE  QueueInOrder'
<1>1. \A k \in DOMAIN readyQueue :
         /\ readyTime[readyQueue[k]] \in Nat
         /\ readyTime[readyQueue[k]] <= now
  BY WellBehavedTypes DEF QueueInOrder, IInv, TypeOK
<1>2. now \in Nat
  BY WellBehavedTypes
<1>3. \A k \in DOMAIN readyQueue : readyTime[readyQueue[k]] <= now'
  BY <1>1, <1>2
<1>. QED  BY <1>3 DEF QueueInOrder

(* The handlers that answer an event with one of the same core neither     *)
(* touch the ready queue nor announce an instance.                         *)
LEMMA OtherHandlers ==
    ASSUME IInv, NEW e \in DOMAIN events,
           \/ HandleTaskDispatched(e) \/ HandleMemReqIssued(e)
           \/ HandleComputeDone(e) \/ HandleMemRespDone(e)
    PROVE  /\ UNCHANGED <<readyTime, readyQueue>>
           /\ \A g \in DOMAIN events' : g.type = "TaskReady" => g \in DOMAIN events
<1>1. UNCHANGED <<readyTime, readyQueue>>
  BY DEF HandleTaskDispatched, HandleComputeDone, HandleMemRespDone,
     HandleMemReqIssued, CompleteOp, Abort, graphVars, schedulerVars
<1>2. CASE events' = Pop(events, e)
  BY <1>1, <1>2, PoppedEvent
<1>3. CASE \E f : f.type # "TaskReady" /\ events' = Push(Pop(events, e), f)
  BY <1>1, <1>3, OneMoreEvent
<1>4. HandleMemReqIssued(e) =>
         \E f : f.type # "TaskReady" /\ events' = Push(Pop(events, e), f)
  BY DEF HandleMemReqIssued, Event
<1>. QED
  BY <1>2, <1>3, <1>4 DEF HandleTaskDispatched, HandleComputeDone,
     HandleMemRespDone, CompleteOp, ExecuteOp, OpEvent, Event, Abort

(* What is announced goes to the end of a queue that is sorted.            *)
LEMMA ReadyKeepsOrder ==
    ASSUME IInv, WInv, QueueInOrder, NEW e \in DOMAIN events, HandleTaskReady(e)
    PROVE  QueueInOrder'
<1>1. /\ e.type = "TaskReady" /\ e.inst \in Instances(work)
      /\ work' = work /\ now' = e.time /\ now' \in Nat /\ now' >= now
      /\ UNCHANGED readyTime
  BY WPoppedBy DEF HandleTaskReady, graphVars
<1>2. readyQueue \in Seq(Instances(work)) /\ now \in Nat
  BY WellBehavedTypes DEF IInv, TypeOK
<1>3. ASSUME NEW c \in Cores, coreIdle[c],
             Dispatch(Append(readyQueue, e.inst), coreIdle, c, Pop(events, e))
      PROVE  QueueInOrder'
  <2>1. readyQueue = <<>>
    BY <1>3 DEF IInv, WorkConserving
  <2>2. PICK queue \in Seq(Instances(work)) : queue = Append(readyQueue, e.inst)
    <3>1. Append(readyQueue, e.inst) \in Seq(Instances(work))
      BY <1>1, <1>2
    <3>. QED  BY <3>1
  <2>3. PICK k \in DOMAIN queue :
           /\ readyQueue' = RemoveAt(queue, k)
           /\ events' = Push(Pop(events, e),
                  Event("TaskDispatched", now', c, queue[k], NoAddress))
    BY <1>3, <2>2 DEF Dispatch
  <2>4. RemoveAt(queue, k) \in Seq(Instances(work))
        /\ Len(RemoveAt(queue, k)) = Len(queue) - 1
    BY Dequeued
  <2>5. Len(queue) = 1
    BY <2>1, <2>2
  <2>6. readyQueue' = <<>>
    BY <2>3, <2>4, <2>5
  <2>7. \A g \in DOMAIN events' : g.type = "TaskReady" => g \in DOMAIN events
    BY <2>3, OneMoreEvent DEF Event
  <2>. QED  BY <1>1, <2>1, <2>6, <2>7, QueueKept
<1>4. CASE readyQueue' = Append(readyQueue, e.inst) /\ events' = Pop(events, e)
  <2>1. DOMAIN events' \subseteq DOMAIN events
    BY <1>4, PoppedEvent
  <2>2. /\ Len(readyQueue) \in Nat
        /\ DOMAIN readyQueue = 1 .. Len(readyQueue)
        /\ DOMAIN readyQueue' = 1 .. Len(readyQueue) + 1
        /\ \A k \in DOMAIN readyQueue : readyQueue'[k] = readyQueue[k]
        /\ readyQueue'[Len(readyQueue) + 1] = e.inst
    BY <1>1, <1>2, <1>4
  <2>3. /\ \A k \in DOMAIN readyQueue :
              /\ readyTime[readyQueue[k]] \in Nat
              /\ readyTime[readyQueue[k]] <= now'
        /\ readyTime[e.inst] = now'
    <3>1. \A k \in DOMAIN readyQueue :
             /\ readyTime[readyQueue[k]] \in Nat
             /\ readyTime[readyQueue[k]] <= now
      <4>1. \A k \in DOMAIN readyQueue : readyQueue[k] \in Instances(work)
        BY <1>2
      <4>. QED  BY <4>1, WellBehavedTypes DEF QueueInOrder
    <3>2. readyTime[e.inst] = now'
      BY <1>1 DEF QueueInOrder
    <3>. QED  BY <3>1, <3>2, <1>1, <1>2
  <2>4. ASSUME NEW k \in DOMAIN readyQueue'
        PROVE  readyTime[readyQueue'[k]] <= now'
    BY <2>2, <2>3, <1>1
  <2>5. ASSUME NEW j \in DOMAIN readyQueue', NEW k \in DOMAIN readyQueue', j < k
        PROVE  readyTime[readyQueue'[j]] <= readyTime[readyQueue'[k]]
    <3>1. j \in DOMAIN readyQueue
      BY <2>2, <2>5
    <3>2. CASE k \in DOMAIN readyQueue
      BY <3>1, <3>2, <2>2, <2>5 DEF QueueInOrder
    <3>3. CASE k = Len(readyQueue) + 1
      BY <3>1, <3>3, <2>2, <2>3
    <3>. QED  BY <3>2, <3>3, <2>2
  <2>. QED  BY <2>1, <2>4, <2>5, <1>1 DEF QueueInOrder
<1>. QED  BY <1>3, <1>4 DEF HandleTaskReady, AddReady, SelectsCore

(* What handleTaskDone() does to the ready queue.                          *)
LEMMA DoneTakes ==
    ASSUME IInv, NEW e \in DOMAIN events, HandleTaskDone(e)
    PROVE  \/ readyQueue' = readyQueue
           \/ \E k \in DOMAIN readyQueue :
                 /\ SelectsInstance(readyQueue, Remaining, k)
                 /\ DOMAIN readyQueue = 1 .. Len(readyQueue)
                 /\ Len(readyQueue) \in Nat
                 /\ DOMAIN readyQueue' = 1 .. Len(readyQueue) - 1
                 /\ \A m \in 1 .. Len(readyQueue) - 1 :
                       readyQueue'[m] = readyQueue[IF m < k THEN m ELSE m + 1]
<1>1. readyQueue \in Seq(Instances(work))
  BY DEF IInv, TypeOK
<1>2. CASE UNCHANGED <<phase, readyQueue>>
  BY <1>2
<1>3. CASE \E k \in DOMAIN readyQueue :
              /\ SelectsInstance(readyQueue, Remaining, k)
              /\ readyQueue' = RemoveAt(readyQueue, k)
  <2>1. PICK k \in DOMAIN readyQueue :
           /\ SelectsInstance(readyQueue, Remaining, k)
           /\ readyQueue' = RemoveAt(readyQueue, k)
    BY <1>3
  <2>2. /\ DOMAIN readyQueue = 1 .. Len(readyQueue) /\ Len(readyQueue) \in Nat
        /\ DOMAIN RemoveAt(readyQueue, k) = 1 .. Len(readyQueue) - 1
        /\ \A m \in 1 .. Len(readyQueue) - 1 :
              RemoveAt(readyQueue, k)[m] = readyQueue[IF m < k THEN m ELSE m + 1]
    BY <1>1, Dequeued
  <2>. QED  BY <2>1, <2>2
<1>. QED  BY <1>2, <1>3 DEF HandleTaskDone, Dispatch

(* What becomes ready is stamped with the current cycle; what is announced *)
(* or queued already is not stamped again.                                 *)
LEMMA DoneKeepsOrder ==
    ASSUME IInv, WInv, QueueInOrder, NEW e \in DOMAIN events, HandleTaskDone(e)
    PROVE  QueueInOrder'
<1>. DEFINE ready == ReadyInstances(work, inDegree', opIndex, readyTime)
            new == {TaskReady(i, now') : i \in ready}
            p == Pop(events, e)
            q == PushAll(p, new)
<1>1. /\ now' \in Nat /\ now' >= now /\ now \in Nat /\ work' = work
      /\ readyTime' = [i \in Instances(work) |->
                          IF i \in ready THEN now' ELSE readyTime[i]]
  BY WPoppedBy, WellBehavedTypes DEF HandleTaskDone
<1>2. \A i \in Instances(work) :
         /\ i \in ready => readyTime'[i] = now' /\ ~Placed(i)
         /\ i \notin ready => readyTime'[i] = readyTime[i]
  <2>. SUFFICES ASSUME NEW i \in Instances(work), i \in ready PROVE ~Placed(i)
    BY <1>1
  <2>1. inDegree[i] > 0 /\ inDegree[i] \in Int
    BY TaskDoneGraph, WellBehavedTypes
  <2>. QED  BY <2>1, PlacedNotCompleted
<1>3. ready \subseteq Instances(work)
  BY DEF ReadyInstances
<1>4. \A g \in new : g.inst \in ready /\ g.time = now'
  BY DEF TaskReady, Event
<1>. HIDE DEF ready, new
<1>5. \A g \in DOMAIN events' :
         g.type = "TaskReady" => g \in DOMAIN events \/ g \in new
  <2>1. IsABag(p) /\ DOMAIN p \subseteq DOMAIN events
    BY PoppedEvent
  <2>. HIDE DEF p
  <2>2. IsABag(q) /\ DOMAIN q = (DOMAIN p) \cup new
    BY ONLY <2>1, PushAllBag
  <2>. HIDE DEF q
  <2>3. CASE events' = q
    BY <2>1, <2>2, <2>3
  <2>4. CASE \E f : f.type = "TaskDispatched" /\ events' = Push(q, f)
    <3>1. PICK f : f.type = "TaskDispatched" /\ events' = Push(q, f)
      BY <2>4
    <3>2. DOMAIN Push(q, f) = (DOMAIN q) \cup {f}
      BY ONLY <2>2, PushBag
    <3>. QED  BY <3>1, <3>2, <2>1, <2>2
  <2>. QED
    BY <2>3, <2>4 DEF HandleTaskDone, Dispatch, Event, q, p, new, ready
<1>6. \A g \in DOMAIN events' : g.type = "TaskReady" => g.time = readyTime'[g.inst]
  <2>. SUFFICES ASSUME NEW g \in DOMAIN events', g.type = "TaskReady"
                PROVE  g.time = readyTime'[g.inst]
    OBVIOUS
  <2>1. CASE g \in DOMAIN events
    <3>1. g.inst \in Instances(work) /\ Placed(g.inst)
      BY <2>1, WellBehavedTypes DEF Events, Placed
    <3>. QED  BY <3>1, <2>1, <1>2 DEF QueueInOrder
  <2>2. CASE g \in new
    BY <2>2, <1>2, <1>3, <1>4
  <2>. QED  BY <2>1, <2>2, <1>5
<1>7. \A k \in DOMAIN readyQueue :
         /\ readyTime'[readyQueue[k]] = readyTime[readyQueue[k]]
         /\ readyTime[readyQueue[k]] \in Nat
         /\ readyTime[readyQueue[k]] <= now'
  <2>. SUFFICES ASSUME NEW k \in DOMAIN readyQueue
                PROVE  /\ readyTime'[readyQueue[k]] = readyTime[readyQueue[k]]
                       /\ readyTime[readyQueue[k]] \in Nat
                       /\ readyTime[readyQueue[k]] <= now'
    OBVIOUS
  <2>1. readyQueue[k] \in Instances(work) /\ Placed(readyQueue[k])
    BY DEF IInv, TypeOK, Placed
  <2>2. /\ readyTime[readyQueue[k]] \in Nat /\ readyTime[readyQueue[k]] <= now
    BY <2>1, WellBehavedTypes DEF QueueInOrder
  <2>. QED  BY <2>1, <2>2, <1>1, <1>2
<1>8. CASE readyQueue' = readyQueue
  BY <1>6, <1>7, <1>8 DEF QueueInOrder
<1>9. CASE \E k \in DOMAIN readyQueue :
              /\ DOMAIN readyQueue = 1 .. Len(readyQueue)
              /\ Len(readyQueue) \in Nat
              /\ DOMAIN readyQueue' = 1 .. Len(readyQueue) - 1
              /\ \A m \in 1 .. Len(readyQueue) - 1 :
                    readyQueue'[m] = readyQueue[IF m < k THEN m ELSE m + 1]
  <2>1. PICK k \in DOMAIN readyQueue :
           /\ DOMAIN readyQueue = 1 .. Len(readyQueue)
           /\ Len(readyQueue) \in Nat
           /\ DOMAIN readyQueue' = 1 .. Len(readyQueue) - 1
           /\ \A m \in 1 .. Len(readyQueue) - 1 :
                 readyQueue'[m] = readyQueue[IF m < k THEN m ELSE m + 1]
    BY <1>9
  <2>. DEFINE at(m) == IF m < k THEN m ELSE m + 1
  <2>2. \A m \in DOMAIN readyQueue' :
           at(m) \in DOMAIN readyQueue /\ readyQueue'[m] = readyQueue[at(m)]
    BY <2>1
  <2>3. \A m, n \in DOMAIN readyQueue' : m < n => at(m) < at(n)
    BY <2>1
  <2>. HIDE DEF at
  <2>4. \A m, n \in DOMAIN readyQueue' :
           m < n => readyTime[readyQueue[at(m)]] <= readyTime[readyQueue[at(n)]]
    BY <2>2, <2>3 DEF QueueInOrder
  <2>. QED  BY <2>2, <2>4, <1>6, <1>7 DEF QueueInOrder
<1>. QED  BY <1>8, <1>9, DoneTakes

(* Every step keeps the ready queue sorted.                                *)
LEMMA StepKeepsOrder ==
    ASSUME IInv, WInv, QueueInOrder, [Next]_vars
    PROVE  QueueInOrder'
<1>1. ASSUME NEW e \in DOMAIN events, HandleTaskReady(e) PROVE QueueInOrder'
  BY <1>1, ReadyKeepsOrder
<1>2. ASSUME NEW e \in DOMAIN events,
             \/ HandleTaskDispatched(e) \/ HandleMemReqIssued(e)
             \/ HandleComputeDone(e) \/ HandleMemRespDone(e)
      PROVE  QueueInOrder'
  <2>1. now' \in Nat /\ now' >= now /\ work' = work
    BY <1>2, WPoppedBy DEF HandleTaskDispatched, HandleMemReqIssued,
                           HandleComputeDone, HandleMemRespDone
  <2>. QED  BY <2>1, <1>2, OtherHandlers, QueueKept
<1>3. ASSUME NEW e \in DOMAIN events, HandleTaskDone(e) PROVE QueueInOrder'
  BY <1>3, DoneKeepsOrder
<1>4. CASE Complete \/ Exited \/ UNCHANGED vars
  <2>1. now \in Nat
    BY WellBehavedTypes
  <2>. QED  BY <2>1, <1>4, QueueKept
               DEF Complete, Exited, vars, graphVars, schedulerVars
<1>. QED  BY <1>1, <1>2, <1>3, <1>4 DEF Next

(* An empty queue is sorted.                                               *)
LEMMA InitiallyInOrder ==
    ASSUME Init
    PROVE  QueueInOrder
<1>. DEFINE ready == ReadyInstances(work, inDegree, opIndex, readyTime)
            new == {TaskReady(i, 0) : i \in ready}
            q == PushAll(EmptyQueue, new)
<1>1. \A g \in new : g.time = 0 /\ g.inst \in Instances(work)
  BY DEF TaskReady, Event, ReadyInstances
<1>2. events = EmptyQueue \/ events = q
  BY DEF Init
<1>. HIDE DEF new
<1>3. DOMAIN q = new
  BY ONLY EmptyQueueIsBag, PushAllBag
<1>. HIDE DEF q
<1>4. DOMAIN events \subseteq new
  BY <1>2, <1>3, EmptyQueueIsBag
<1>5. /\ \A k \in DOMAIN readyQueue : FALSE
      /\ \A i \in Instances(work) : readyTime[i] = 0
  BY DEF Init
<1>. QED  BY <1>1, <1>4, <1>5 DEF QueueInOrder

(* What a step takes from the ready queue while something is left in it is *)
(* what selectNextInstance() selects.                                      *)
LEMMA TakenIsSelected ==
    ASSUME IInv, [Next]_vars, NEW i, NEW j, Overtakes(i, j)
    PROVE  \E k, n \in DOMAIN readyQueue :
              /\ k # n /\ readyQueue[k] = i /\ readyQueue[n] = j
              /\ SelectsInstance(readyQueue, Remaining, k)
<1>1. /\ \E k \in DOMAIN readyQueue : readyQueue[k] = i
      /\ \A m \in DOMAIN readyQueue' : readyQueue'[m] # i
      /\ \E m \in DOMAIN readyQueue' : readyQueue'[m] = j
  BY DEF Overtakes, ToSet
<1>2. readyQueue' # readyQueue
  BY <1>1
<1>3. ASSUME NEW e \in DOMAIN events, HandleTaskReady(e) PROVE FALSE
  <2>1. \A c \in Cores : ~coreIdle[c]
    <3>1. \A k \in DOMAIN readyQueue : readyQueue # <<>>
      OBVIOUS
    <3>. QED  BY <3>1, <1>1 DEF IInv, WorkConserving
  <2>2. readyQueue' = Append(readyQueue, e.inst)
    BY <2>1, <1>3 DEF HandleTaskReady, AddReady, SelectsCore
  <2>3. readyQueue \in Seq(Instances(work))
    BY DEF IInv, TypeOK
  <2>4. \A k \in DOMAIN readyQueue :
           k \in DOMAIN readyQueue' /\ readyQueue'[k] = readyQueue[k]
    BY <2>2, <2>3
  <2>. QED  BY <2>4, <1>1
<1>4. ASSUME NEW e \in DOMAIN events,
             \/ HandleTaskDispatched(e) \/ HandleMemReqIssued(e)
             \/ HandleComputeDone(e) \/ HandleMemRespDone(e)
      PROVE  FALSE
  BY <1>2, <1>4, OtherHandlers
<1>5. CASE Complete \/ Exited \/ UNCHANGED vars
  BY <1>2, <1>5 DEF Complete, Exited, vars, schedulerVars
<1>6. ASSUME NEW e \in DOMAIN events, HandleTaskDone(e)
      PROVE  \E k, n \in DOMAIN readyQueue :
                /\ k # n /\ readyQueue[k] = i /\ readyQueue[n] = j
                /\ SelectsInstance(readyQueue, Remaining, k)
  <2>1. PICK k \in DOMAIN readyQueue :
           /\ SelectsInstance(readyQueue, Remaining, k)
           /\ DOMAIN readyQueue = 1 .. Len(readyQueue)
           /\ Len(readyQueue) \in Nat
           /\ DOMAIN readyQueue' = 1 .. Len(readyQueue) - 1
           /\ \A m \in 1 .. Len(readyQueue) - 1 :
                 readyQueue'[m] = readyQueue[IF m < k THEN m ELSE m + 1]
    BY <1>2, <1>6, DoneTakes
  <2>2. ASSUME NEW n \in DOMAIN readyQueue, n # k
        PROVE  readyQueue[n] # i
    <3>1. CASE n < k
      <4>1. n \in 1 .. Len(readyQueue) - 1 /\ readyQueue'[n] = readyQueue[n]
        BY <3>1, <2>1
      <4>. QED  BY <4>1, <2>1, <1>1
    <3>2. CASE n > k
      <4>1. n - 1 \in 1 .. Len(readyQueue) - 1 /\ ~(n - 1 < k) /\ (n - 1) + 1 = n
        BY <3>2, <2>1
      <4>2. readyQueue'[n - 1] = readyQueue[n]
        BY <4>1, <2>1
      <4>. QED  BY <4>1, <4>2, <2>1, <1>1
    <3>. QED  BY <3>1, <3>2, <2>1, <2>2
  <2>3. readyQueue[k] = i
    BY <2>2, <1>1
  <2>4. \E n \in DOMAIN readyQueue : n # k /\ readyQueue[n] = j
    <3>1. PICK m \in 1 .. Len(readyQueue) - 1 : readyQueue'[m] = j
      BY <2>1, <1>1
    <3>2. CASE m < k
      BY <3>1, <3>2, <2>1
    <3>3. CASE ~(m < k)
      <4>1. m + 1 \in DOMAIN readyQueue /\ m + 1 # k
        BY <3>3, <2>1
      <4>. QED  BY <3>1, <3>3, <4>1, <2>1
    <3>. QED  BY <3>2, <3>3
  <2>. QED  BY <2>1, <2>3, <2>4
<1>. QED  BY <1>3, <1>4, <1>5, <1>6 DEF Next

(* The ready queue is sorted all along.                                    *)
LEMMA OrderInvariance ==
    Spec /\ WellBehaved(work) => [](IInv /\ WInv /\ QueueInOrder)
<1>1. Init /\ WellBehaved(work) => IInv /\ WInv /\ QueueInOrder
  BY InitiallyIInv, InitiallyWInv, InitiallyInOrder
<1>2. IInv /\ WInv /\ QueueInOrder /\ [Next]_vars
         => (IInv /\ WInv /\ QueueInOrder)'
  BY StepKeepsIInv, StepKeepsWInv, StepKeepsOrder
<1>. QED  BY <1>1, <1>2, PTL DEF Spec

(* FIFO, and RoundRobin which selects instances alike: no instance is      *)
(* dispatched past one that became ready in an earlier cycle.              *)
THEOREM FifoInOrder ==
    ASSUME Policy \in {"FIFO", "RoundRobin"}
    PROVE  Spec /\ WellBehaved(work) => FifoByReadyTime
<1>1. IInv /\ WInv /\ QueueInOrder /\ [Next]_vars =>
         [\A i, j \in Instances(work) :
             Overtakes(i, j) => readyTime[i] <= readyTime[j]]_vars
  <2>. SUFFICES ASSUME IInv, QueueInOrder, [Next]_vars,
                       NEW i \in Instances(work), NEW j \in Instances(work),
                       Overtakes(i, j)
                PROVE  readyTime[i] <= readyTime[j]
    OBVIOUS
  <2>1. PICK k \in DOMAIN readyQueue : \E n \in DOMAIN readyQueue :
           /\ k # n /\ readyQueue[k] = i /\ readyQueue[n] = j
           /\ SelectsInstance(readyQueue, Remaining, k)
    BY TakenIsSelected
  <2>2. PICK n \in DOMAIN readyQueue :
           k # n /\ readyQueue[k] = i /\ readyQueue[n] = j
    BY <2>1
  <2>3. k = 1
    BY <2>1 DEF SelectsInstance
  <2>4. readyQueue \in Seq(Instances(work))
    BY DEF IInv, TypeOK
  <2>5. k < n
    BY <2>2, <2>3, <2>4
  <2>. QED  BY <2>2, <2>5 DEF QueueInOrder
<1>. QED  BY <1>1, OrderInvariance, PTL DEF Spec, FifoByReadyTime

(* ShortestOpsFirst: the instance dispatched has the fewest operations of  *)
(* those that wait, and of these it became ready first.                    *)
THEOREM ShortestInOrder ==
    ASSUME Policy = "ShortestOpsFirst"
    PROVE  Spec => ShortestThenOldest
<1>. DEFINE A == \A i, j \in Instances(work) :
                    Overtakes(i, j) /\ WellBehaved(work) =>
                       \/ Remaining[i] < Remaining[j]
                       \/ Remaining[i] = Remaining[j] /\ readyTime[i] <= readyTime[j]
<1>1. IInv /\ WInv /\ QueueInOrder /\ [Next]_vars => [A]_vars
  <2>. SUFFICES ASSUME IInv, QueueInOrder, [Next]_vars,
                       NEW i \in Instances(work), NEW j \in Instances(work),
                       Overtakes(i, j)
                PROVE  \/ Remaining[i] < Remaining[j]
                       \/ Remaining[i] = Remaining[j] /\ readyTime[i] <= readyTime[j]
    OBVIOUS
  <2>1. PICK k \in DOMAIN readyQueue : \E n \in DOMAIN readyQueue :
           /\ k # n /\ readyQueue[k] = i /\ readyQueue[n] = j
           /\ SelectsInstance(readyQueue, Remaining, k)
    BY TakenIsSelected
  <2>2. PICK n \in DOMAIN readyQueue :
           k # n /\ readyQueue[k] = i /\ readyQueue[n] = j
    BY <2>1
  <2>3. /\ Remaining[i] <= Remaining[j]
        /\ n < k => Remaining[i] < Remaining[j]
    BY <2>1, <2>2 DEF SelectsInstance
  <2>4. readyQueue \in Seq(Instances(work))
    BY DEF IInv, TypeOK
  <2>5. Remaining[i] \in Int /\ Remaining[j] \in Int
    <3>1. work \in Workload /\ opIndex \in [Instances(work) -> Nat]
      BY SimulatorAssumption DEF IInv, TypeOK
    <3>2. \A m \in Instances(work) : OpsOf(work, m) \in Seq(Op)
      BY <3>1, InstanceTypes
    <3>. QED  BY <3>1, <3>2 DEF Remaining
  <2>6. k < n => readyTime[i] <= readyTime[j]
    BY <2>2 DEF QueueInOrder
  <2>7. k < n \/ n < k
    BY <2>2, <2>4
  <2>. QED  BY <2>3, <2>5, <2>6, <2>7
<1>2. ~WellBehaved(work) => [A]_vars
  OBVIOUS
<1>3. ~WellBehaved(work) /\ [Next]_vars => ~WellBehaved(work)'
  <2>. SUFFICES ASSUME [Next]_vars PROVE work' = work
    BY DEF WellBehaved, TakesTime
  <2>. QED
    BY DEF Next, HandleTaskReady, HandleTaskDispatched, HandleComputeDone,
       HandleMemReqIssued, HandleMemRespDone, HandleTaskDone, Popped, Complete,
       Exited, vars
<1>4. Spec /\ WellBehaved(work) => [][A]_vars
  BY <1>1, OrderInvariance, PTL DEF Spec
<1>5. Spec /\ ~WellBehaved(work) => [][A]_vars
  BY <1>2, <1>3, PTL DEF Spec
<1>6. Spec => [][A]_vars
  BY <1>4, <1>5, PTL
<1>. QED  BY <1>6 DEF ShortestThenOldest
-----------------------------------------------------------------------------
(* THE REFINEMENT                                                          *)

(* The events an instance has from handleTaskDispatched() on until         *)
(* handleTaskDone().                                                       *)
CoreTypes == {"ComputeDone", "MemReqIssued", "MemRespDone", "TaskDone"}

InFlight(i) == EventsFor(i, CoreTypes) # {}

(* An instance is on a core exactly if it has an event of one.             *)
LEMMA OnCoreIsInFlight == IInv => \A i : OnCore(i) <=> InFlight(i)
<1>. SUFFICES ASSUME IInv, NEW i PROVE OnCore(i) <=> InFlight(i)
  OBVIOUS
<1>1. ASSUME NEW c \in Cores, cores[c].busy, cores[c].current = i
      PROVE  InFlight(i)
  <2>1. PICK e \in CoreEvents : e.core = c
    BY <1>1 DEF IInv, CoreProtocol
  <2>2. e \in DOMAIN events /\ e.type \in EventTypes /\ CoreStateFits(e)
    BY <2>1 DEF IInv, CoreProtocol, CoreEvents, TypeOK
  <2>3. e.type \in CoreTypes /\ e.inst = i
    BY <1>1, <2>1, <2>2
       DEF CoreStateFits, IdleCore, BusyWith, EventTypes, CoreTypes
  <2>. QED  BY <2>2, <2>3 DEF InFlight, EventsFor
<1>2. ASSUME NEW e \in DOMAIN events, e.inst = i,
             e.type \in CoreTypes \ {"TaskDone"}
      PROVE  OnCore(i)
  <2>1. e.core # NoCore /\ e.core \in Cores \cup {NoCore}
    BY <1>2 DEF IInv, CoreProtocol, TypeOK, CoreTypes
  <2>2. CoreStateFits(e)
    BY <2>1 DEF IInv, CoreProtocol, CoreEvents
  <2>. QED
    BY <2>1, <2>2, <1>2 DEF CoreStateFits, BusyWith, OnCore, CoreTypes
<1>3. EventsFor(i, {"TaskDone"}) \subseteq EventsFor(i, CoreTypes)
  BY DEF EventsFor, CoreTypes
<1>. QED  BY <1>1, <1>2, <1>3 DEF OnCore, InFlight, EventsFor

StatusFits ==
    \A i \in Instances(work) :
        /\ StatusOf(i) = IF Completed(i) THEN "done"
                         ELSE IF InFlight(i) THEN "running" ELSE "waiting"
        /\ InFlight(i) => ~Completed(i)

(* The abstract status of an instance can be read off its events.          *)
LEMMA StatusByEvents == IInv /\ WInv => StatusFits
<1>. SUFFICES ASSUME IInv, WInv, NEW i \in Instances(work)
              PROVE  /\ StatusOf(i) = IF Completed(i) THEN "done"
                            ELSE IF InFlight(i) THEN "running" ELSE "waiting"
                     /\ InFlight(i) => ~Completed(i)
  BY DEF StatusFits
<1>1. StatusOf(i) = IF Completed(i) THEN "done"
                    ELSE IF InFlight(i) THEN "running" ELSE "waiting"
  BY OnCoreIsInFlight DEF StatusOf
<1>2. InFlight(i) => Placed(i)
  BY DEF InFlight, EventsFor, Placed
<1>. QED  BY <1>1, <1>2, PlacedNotCompleted

(* The same after a step.                                                  *)
LEMMA StatusByEventsNext == IInv' /\ WInv' => StatusFits'
<1>1. IInv /\ WInv => StatusFits
  BY StatusByEvents
<1>. QED  BY <1>1, PTL

(* The status of an instance follows its operations and its events.        *)
LEMMA SameStatus ==
    ASSUME IInv, WInv, IInv', WInv', work' = work, NEW i \in Instances(work),
           opIndex'[i] = opIndex[i],
           EventsFor(i, CoreTypes)' = EventsFor(i, CoreTypes)
    PROVE  StatusOf(i)' = StatusOf(i)
<1>1. EventsFor(i, {"TaskDone"})' = EventsFor(i, {"TaskDone"})
  <2>1. \A e : e \in EventsFor(i, CoreTypes)' <=> e \in EventsFor(i, CoreTypes)
    OBVIOUS
  <2>. QED  BY <2>1 DEF EventsFor, CoreTypes
<1>2. Completed(i)' <=> Completed(i)
  BY <1>1 DEF Completed, OpCount
<1>3. InFlight(i)' <=> InFlight(i)
  BY DEF InFlight
<1>. QED  BY <1>2, <1>3, StatusByEvents, StatusByEventsNext DEF StatusFits

(* A handler that answers an event with one of those of a core leaves that *)
(* instance running and the others as they were.                           *)
LEMMA ReplacedStatus ==
    ASSUME IInv, WInv, IInv', WInv', work' = work,
           NEW e \in DOMAIN events, NEW f, f.inst = e.inst, f.type \in CoreTypes,
           events' = Push(Pop(events, e), f),
           \A i \in Instances(work) \ {e.inst} : opIndex'[i] = opIndex[i]
    PROVE  \A i \in Instances(work) :
              StatusOf(i)' = IF i = e.inst THEN "running" ELSE StatusOf(i)
<1>. DEFINE q == Push(Pop(events, e), f)
<1>1. DOMAIN q = (DOMAIN events \ {e}) \cup {f}
  BY PushedOnce
<1>2. events' = q
  OBVIOUS
<1>. HIDE DEF q
<1>3. ASSUME NEW i \in Instances(work), i # e.inst
      PROVE  StatusOf(i)' = StatusOf(i)
  <2>1. EventsFor(i, CoreTypes)' = EventsFor(i, CoreTypes)
    BY <1>1, <1>2, <1>3 DEF EventsFor
  <2>. QED  BY <2>1, <1>3, SameStatus
<1>4. ASSUME NEW i \in Instances(work), i = e.inst
      PROVE  StatusOf(i)' = "running"
  <2>1. InFlight(i)'
    BY <1>1, <1>2, <1>4 DEF InFlight, EventsFor
  <2>. QED  BY <2>1, StatusByEventsNext DEF StatusFits
<1>. QED  BY <1>3, <1>4

(* The instances that run have events of different cores, none of them of  *)
(* the core that has just been given another.                              *)
LEMMA OneCoreIsFree ==
    ASSUME IInv, WInv, NEW e \in DOMAIN events, e.type = "TaskDispatched"
    PROVE  Cardinality({i \in Instances(work) : StatusOf(i) = "running"}) < NumCores
<1>. DEFINE R == {i \in Instances(work) : StatusOf(i) = "running"}
            on(i) == CHOOSE g \in EventsFor(i, CoreTypes) : TRUE
            f == [i \in R |-> on(i).core]
            Others == Cores \ {e.core}
<1>1. e.core \in Cores /\ e.core # NoCore
  BY DEF IInv, CoreProtocol, TypeOK, CoreEvents, CoreStateFits
<1>2. ASSUME NEW i \in R
      PROVE  /\ on(i) \in CoreEvents /\ on(i).inst = i
             /\ on(i).core \in Others
  <2>1. InFlight(i)
    BY StatusByEvents DEF StatusFits
  <2>2. on(i) \in EventsFor(i, CoreTypes)
    BY <2>1 DEF InFlight
  <2>. HIDE DEF on
  <2>3. on(i) \in DOMAIN events /\ on(i).inst = i /\ on(i).type \in CoreTypes
    BY <2>2 DEF EventsFor
  <2>4. on(i).core # NoCore /\ on(i).core \in Cores
    BY <2>3 DEF IInv, CoreProtocol, TypeOK, CoreTypes
  <2>5. on(i).core # e.core
    BY <2>3, <2>4, <1>1 DEF IInv, CoreProtocol, CoreEvents, CoreTypes
  <2>. QED  BY <2>3, <2>4, <2>5 DEF CoreEvents
<1>. HIDE DEF on, R
<1>3. f \in Injection(R, Others)
  <2>1. f \in [R -> Others]
    BY <1>2
  <2>2. ASSUME NEW i \in R, NEW j \in R, f[i] = f[j] PROVE i = j
    <3>1. on(i).core = on(j).core
      BY <2>2
    <3>2. on(i) = on(j)
      BY <3>1, <1>2 DEF IInv, CoreProtocol
    <3>. QED  BY <3>2, <1>2
  <2>. HIDE DEF f
  <2>. QED  BY <2>1, <2>2 DEF Injection, IsInjective
<1>4. IsFiniteSet(Others) /\ Cardinality(Others) = NumCores - 1
  <2>1. NumCores \in Nat \ {0}
    BY SchedulerAssumption
  <2>2. IsFiniteSet(0 .. NumCores - 1) /\ Cardinality(0 .. NumCores - 1) = NumCores
    BY <2>1, FS_Interval
  <2>3. IsFiniteSet(Cores) /\ Cardinality(Cores) = NumCores
    BY <2>2 DEF Cores
  <2>. QED  BY <2>3, <1>1, FS_RemoveElement
<1>. HIDE DEF f, Others
<1>5. IsFiniteSet(R) /\ Cardinality(R) <= Cardinality(Others)
  BY <1>3, <1>4, FS_Injection
<1>6. Cardinality(R) \in Nat /\ NumCores \in Nat
  BY <1>5, SchedulerAssumption, FS_CardinalityType
<1>7. Cardinality(R) < NumCores
  BY <1>4, <1>5, <1>6
<1>. QED  BY <1>7 DEF R

(* A TaskDispatched is the abstract start of its instance.                 *)
LEMMA DispatchedStarts ==
    ASSUME IInv, WInv, IInv', WInv', NEW e \in DOMAIN events,
           HandleTaskDispatched(e)
    PROVE  e.inst \in Instances(work) /\ Abstract!Start(e.inst)
<1>1. /\ e.type = "TaskDispatched" /\ e.inst \in Instances(work)
      /\ work' = work
      /\ e.core # NoCore /\ cores[e.core] = IdleCore
      /\ opIndex[e.inst] = 0 /\ inDegree[e.inst] <= 0
  BY WPoppedBy DEF HandleTaskDispatched, CoreStateFits, EventFits
<1>2. 0 < OpCount(e.inst)
  BY <1>1, WellBehavedTypes
<1>3. /\ ExecuteOp(e.core, e.inst, opIndex[e.inst], Pop(events, e))
      /\ UNCHANGED <<phase, graphVars, schedulerVars>>
  BY <1>1, <1>2 DEF HandleTaskDispatched, OpCount, IdleCore
<1>4. PICK f : /\ f.inst = e.inst /\ f.type \in CoreTypes
               /\ events' = Push(Pop(events, e), f)
  BY <1>3 DEF ExecuteOp, OpEvent, Event, CoreTypes
<1>5. \A i \in Instances(work) :
         StatusOf(i)' = IF i = e.inst THEN "running" ELSE StatusOf(i)
  BY <1>1, <1>3, <1>4, ReplacedStatus DEF graphVars
<1>6. StatusOf(e.inst) = "waiting"
  <2>1. Placed(e.inst)
    BY DEF Placed
  <2>2. ~Completed(e.inst)
    BY <2>1, <1>1, PlacedNotCompleted
  <2>3. ~InFlight(e.inst)
    BY <1>1 DEF InFlight, EventsFor, CoreTypes, WInv, OnePlace
  <2>. QED  BY <2>2, <2>3, <1>1, StatusByEvents DEF StatusFits
<1>7. \A d \in Predecessors(e.inst) : d \in Instances(work) /\ StatusOf(d) = "done"
  BY <1>1, SatisfiedPredecessors DEF StatusOf
<1>8. Cardinality({i \in Instances(work) : StatusOf(i) = "running"}) < NumCores
  BY <1>1, OneCoreIsFree
<1>. DEFINE status == [i \in Instances(work) |-> StatusOf(i)]
            deps == [i \in Instances(work) |-> Predecessors(i)]
<1>9. Cardinality(Abstract!InstancesWith("running")) < NumCores
  <2>1. Abstract!InstancesWith("running")
           = {i \in Instances(work) : StatusOf(i) = "running"}
    BY DEF Abstract!InstancesWith
  <2>. QED  BY <2>1, <1>8
<1>10. deps' = deps
  BY <1>1 DEF Predecessors
<1>11. status' = [status EXCEPT ![e.inst] = "running"]
  BY <1>1, <1>5
<1>12. deps[e.inst] \subseteq Abstract!InstancesWith("done")
  BY <1>1, <1>7 DEF Abstract!InstancesWith
<1>13. Abstract!Cardinality(Abstract!InstancesWith("running")) < NumCores
  BY <1>9 DEF Abstract!Cardinality, Cardinality
<1>. QED
  BY <1>1, <1>6, <1>13, <1>10, <1>11, <1>12 DEF Abstract!Start

(* What handleTaskDone() leaves of the events of the cores.                *)
LEMMA DoneEvents ==
    ASSUME IInv, WInv, NEW e \in DOMAIN events, HandleTaskDone(e)
    PROVE  \A i : EventsFor(i, CoreTypes)' = EventsFor(i, CoreTypes) \ {e}
<1>. DEFINE new == {TaskReady(i, now') :
                       i \in ReadyInstances(work, inDegree', opIndex, readyTime)}
            p == Pop(events, e)
            q == PushAll(p, new)
<1>1. IsABag(p) /\ DOMAIN p = DOMAIN events \ {e}
  BY PoppedOnce
<1>2. \A g \in new : g.type \notin CoreTypes
  BY DEF TaskReady, Event, CoreTypes
<1>. HIDE DEF p, new
<1>3. IsABag(q) /\ DOMAIN q = (DOMAIN p) \cup new
  BY ONLY <1>1, PushAllBag
<1>. HIDE DEF q
<1>4. CASE events' = q
  BY <1>1, <1>2, <1>3, <1>4 DEF EventsFor
<1>5. CASE \E f : f.type \notin CoreTypes /\ events' = Push(q, f)
  <2>1. PICK f : f.type \notin CoreTypes /\ events' = Push(q, f)
    BY <1>5
  <2>2. DOMAIN Push(q, f) = (DOMAIN q) \cup {f}
    BY ONLY <1>3, PushBag
  <2>. QED  BY <2>1, <2>2, <1>1, <1>2, <1>3 DEF EventsFor
<1>. QED
  BY <1>4, <1>5 DEF HandleTaskDone, Dispatch, Event, CoreTypes, q, p, new

(* A TaskDone is the abstract end of its instance.                         *)
LEMMA DoneFinishes ==
    ASSUME IInv, WInv, IInv', WInv', NEW e \in DOMAIN events, HandleTaskDone(e)
    PROVE  e.inst \in Instances(work) /\ Abstract!Finish(e.inst)
<1>1. /\ e.type = "TaskDone" /\ e.inst \in Instances(work) /\ work' = work
      /\ opIndex[e.inst] = OpCount(e.inst) /\ opIndex' = opIndex
  BY WPoppedBy DEF HandleTaskDone, EventFits
<1>2. StatusOf(e.inst) = "running"
  <2>1. InFlight(e.inst)
    BY <1>1 DEF InFlight, EventsFor, CoreTypes
  <2>. QED  BY <2>1, <1>1, StatusByEvents DEF StatusFits
<1>3. StatusOf(e.inst)' = "done"
  <2>1. EventsFor(e.inst, CoreTypes) = {e}
    BY <1>1 DEF EventsFor, CoreTypes, WInv, OnePlace
  <2>2. EventsFor(e.inst, CoreTypes)' = {}
    BY <2>1, DoneEvents
  <2>3. EventsFor(e.inst, {"TaskDone"})' = {}
    BY <2>2 DEF EventsFor, CoreTypes
  <2>4. opIndex'[e.inst] >= OpCount(e.inst)'
    BY <1>1, WellBehavedTypes DEF OpCount
  <2>. QED  BY <2>3, <2>4 DEF StatusOf, Completed
<1>4. ASSUME NEW i \in Instances(work), i # e.inst
      PROVE  StatusOf(i)' = StatusOf(i)
  <2>1. EventsFor(i, CoreTypes)' = EventsFor(i, CoreTypes)
    BY <1>4, DoneEvents DEF EventsFor
  <2>. QED  BY <2>1, <1>1, SameStatus
<1>. DEFINE status == [i \in Instances(work) |-> StatusOf(i)]
            deps == [i \in Instances(work) |-> Predecessors(i)]
<1>5. deps' = deps
  BY <1>1 DEF Predecessors
<1>6. status' = [status EXCEPT ![e.inst] = "done"]
  BY <1>1, <1>3, <1>4
<1>. QED  BY <1>1, <1>2, <1>5, <1>6 DEF Abstract!Finish

(* Before run() there are only announcements.                              *)
LEMMA InitialEvents ==
    Init => \A e \in DOMAIN events : e.type = "TaskReady"
<1>. SUFFICES ASSUME Init PROVE \A e \in DOMAIN events : e.type = "TaskReady"
  OBVIOUS
<1>. DEFINE new == {TaskReady(i, 0) :
                       i \in ReadyInstances(work, inDegree, opIndex, readyTime)}
            q == PushAll(EmptyQueue, new)
<1>1. \A g \in new : g.type = "TaskReady"
  BY DEF TaskReady, Event
<1>2. events = EmptyQueue \/ events = q
  BY DEF Init
<1>. HIDE DEF new
<1>3. DOMAIN q = new
  BY ONLY EmptyQueueIsBag, PushAllBag
<1>. HIDE DEF q
<1>. QED  BY <1>1, <1>2, <1>3, EmptyQueueIsBag

(* If no instance changes its status the abstract state stays.             *)
LEMMA NoStatusChanges ==
    ASSUME work' = work, \A i \in Instances(work) : StatusOf(i)' = StatusOf(i)
    PROVE  UNCHANGED Abstract!abstractVars
<1>. DEFINE status == [i \in Instances(work) |-> StatusOf(i)]
            deps == [i \in Instances(work) |-> Predecessors(i)]
<1>1. deps' = deps
  BY DEF Predecessors
<1>2. status' = status
  OBVIOUS
<1>. QED  BY <1>1, <1>2 DEF Abstract!abstractVars

(* handleTaskReady() may give the instance a core: it starts when the core *)
(* gets to it.                                                             *)
LEMMA ReadyStutters ==
    ASSUME IInv, WInv, IInv', WInv', NEW e \in DOMAIN events, HandleTaskReady(e)
    PROVE  UNCHANGED Abstract!abstractVars
<1>1. e.type = "TaskReady" /\ work' = work /\ opIndex' = opIndex
  BY WPoppedBy DEF HandleTaskReady, graphVars
<1>. DEFINE p == Pop(events, e)
<1>2. IsABag(p) /\ DOMAIN p = DOMAIN events \ {e}
  BY PoppedOnce
<1>3. events' = p \/ \E f : f.type = "TaskDispatched" /\ events' = Push(p, f)
  BY DEF HandleTaskReady, Dispatch, Event
<1>. HIDE DEF p
<1>4. ASSUME NEW i \in Instances(work)
      PROVE  EventsFor(i, CoreTypes)' = EventsFor(i, CoreTypes)
  <2>1. CASE events' = p
    BY <1>1, <1>2, <2>1 DEF EventsFor, CoreTypes
  <2>2. CASE \E f : f.type = "TaskDispatched" /\ events' = Push(p, f)
    <3>1. PICK f : f.type = "TaskDispatched" /\ events' = Push(p, f)
      BY <2>2
    <3>2. DOMAIN Push(p, f) = (DOMAIN p) \cup {f}
      BY ONLY <1>2, PushBag
    <3>. QED  BY <1>1, <1>2, <3>1, <3>2 DEF EventsFor, CoreTypes
  <2>. QED  BY <1>3, <2>1, <2>2
<1>5. \A i \in Instances(work) : StatusOf(i)' = StatusOf(i)
  BY <1>1, <1>4, SameStatus
<1>. QED  BY <1>1, <1>5, NoStatusChanges

(* An event of a core that is answered with another leaves its instance    *)
(* running.                                                                *)
LEMMA AnsweredStutters ==
    ASSUME IInv, WInv, IInv', WInv', work' = work,
           NEW e \in DOMAIN events, e.type \in CoreTypes,
           e.inst \in Instances(work),
           NEW f, f.inst = e.inst, f.type \in CoreTypes,
           events' = Push(Pop(events, e), f),
           \A i \in Instances(work) \ {e.inst} : opIndex'[i] = opIndex[i]
    PROVE  UNCHANGED Abstract!abstractVars
<1>1. StatusOf(e.inst) = "running"
  <2>1. InFlight(e.inst)
    BY DEF InFlight, EventsFor
  <2>. QED  BY <2>1, StatusByEvents DEF StatusFits
<1>2. \A i \in Instances(work) :
         StatusOf(i)' = IF i = e.inst THEN "running" ELSE StatusOf(i)
  BY ReplacedStatus
<1>3. \A i \in Instances(work) : StatusOf(i)' = StatusOf(i)
  BY <1>1, <1>2
<1>. QED  BY <1>3, NoStatusChanges

(* The end of an operation is no step of the abstract execution.           *)
LEMMA CompletedOpStutters ==
    ASSUME IInv, WInv, IInv', WInv', NEW e \in DOMAIN events,
           e.type \in {"ComputeDone", "MemRespDone"}, Popped(e, e.type),
           CompleteOp(e)
    PROVE  UNCHANGED Abstract!abstractVars
<1>1. /\ e.inst \in Instances(work) /\ work' = work
      /\ e.core # NoCore /\ cores[e.core] = BusyWith(e.inst)
  BY WPoppedBy DEF CoreStateFits
<1>2. cores[e.core].current = e.inst /\ CanComplete(cores[e.core])
  <2>1. e.inst # NoInstance
    BY <1>1, WellBehavedTypes, InstanceTypes DEF NoInstance
  <2>. QED  BY <2>1, <1>1 DEF BusyWith, CanComplete
<1>3. /\ opIndex' = [opIndex EXCEPT ![e.inst] = @ + 1]
      /\ \/ events' = Push(Pop(events, e),
                  Event("TaskDone", now', e.core, e.inst, NoAddress))
         \/ ExecuteOp(e.core, e.inst, opIndex'[e.inst], Pop(events, e))
  BY <1>2 DEF CompleteOp
<1>4. \A i \in Instances(work) \ {e.inst} : opIndex'[i] = opIndex[i]
  BY <1>1, <1>3 DEF IInv, TypeOK
<1>5. PICK f : /\ f.inst = e.inst /\ f.type \in CoreTypes
               /\ events' = Push(Pop(events, e), f)
  BY <1>3 DEF ExecuteOp, OpEvent, Event, CoreTypes
<1>6. e.type \in CoreTypes
  BY DEF CoreTypes
<1>. QED  BY <1>1, <1>4, <1>5, <1>6, AnsweredStutters

(* Nor is the answer to a request.                                         *)
LEMMA IssuedStutters ==
    ASSUME IInv, WInv, IInv', WInv', NEW e \in DOMAIN events,
           HandleMemReqIssued(e)
    PROVE  UNCHANGED Abstract!abstractVars
<1>1. /\ e.inst \in Instances(work) /\ work' = work /\ opIndex' = opIndex
      /\ e.type \in CoreTypes
  BY WPoppedBy DEF HandleMemReqIssued, graphVars, CoreTypes
<1>2. PICK f : /\ f.inst = e.inst /\ f.type \in CoreTypes
               /\ events' = Push(Pop(events, e), f)
  BY DEF HandleMemReqIssued, Event, CoreTypes
<1>. QED  BY <1>1, <1>2, AnsweredStutters

(* Every step of the loop of run() is one of the abstract execution, or    *)
(* changes nothing that the abstract execution speaks of.                  *)
LEMMA StepSimulates ==
    ASSUME IInv, WInv, IInv', WInv', [Next]_vars
    PROVE  [Abstract!Next]_(Abstract!abstractVars)
<1>1. ASSUME NEW i \in Instances(work), Abstract!Start(i) \/ Abstract!Finish(i)
      PROVE  Abstract!Next
  BY <1>1 DEF Abstract!Next
<1>2. ASSUME NEW e \in DOMAIN events, HandleTaskReady(e)
      PROVE  UNCHANGED Abstract!abstractVars
  BY <1>2, ReadyStutters
<1>3. ASSUME NEW e \in DOMAIN events, HandleTaskDispatched(e)
      PROVE  Abstract!Next
  <2>1. e.inst \in Instances(work) /\ Abstract!Start(e.inst)
    BY <1>3, DispatchedStarts
  <2>. QED  BY <2>1, <1>1
<1>4. ASSUME NEW e \in DOMAIN events, HandleComputeDone(e) \/ HandleMemRespDone(e)
      PROVE  UNCHANGED Abstract!abstractVars
  <2>1. /\ e.type \in {"ComputeDone", "MemRespDone"}
        /\ Popped(e, e.type) /\ CompleteOp(e)
    BY <1>4 DEF HandleComputeDone, HandleMemRespDone, Popped
  <2>. QED  BY <2>1, CompletedOpStutters
<1>5. ASSUME NEW e \in DOMAIN events, HandleMemReqIssued(e)
      PROVE  UNCHANGED Abstract!abstractVars
  BY <1>5, IssuedStutters
<1>6. ASSUME NEW e \in DOMAIN events, HandleTaskDone(e)
      PROVE  Abstract!Next
  <2>1. e.inst \in Instances(work) /\ Abstract!Finish(e.inst)
    BY <1>6, DoneFinishes
  <2>. QED  BY <2>1, <1>1
<1>7. CASE Complete \/ Exited \/ UNCHANGED vars
  <2>1. work' = work /\ opIndex' = opIndex /\ events' = events
    BY <1>7 DEF Complete, Exited, vars, graphVars
  <2>2. \A i \in Instances(work) : StatusOf(i)' = StatusOf(i)
    <3>1. \A i : EventsFor(i, CoreTypes)' = EventsFor(i, CoreTypes)
      BY <2>1 DEF EventsFor
    <3>. QED  BY <2>1, <3>1, SameStatus
  <2>. QED  BY <2>1, <2>2, NoStatusChanges
<1>. QED  BY <1>2, <1>3, <1>4, <1>5, <1>6, <1>7 DEF Next

(* The initial states are abstract initial states.                         *)
LEMMA InitiallySimulates ==
    ASSUME Init, WellBehaved(work)
    PROVE  Abstract!Init
<1>1. IInv /\ WInv
  BY InitiallyIInv, InitiallyWInv
<1>2. work \in Workload /\ ~HasCycle(work)
  BY <1>1, WellBehavedTypes
<1>. DEFINE status == [i \in Instances(work) |-> StatusOf(i)]
            deps == [i \in Instances(work) |-> Predecessors(i)]
<1>3. deps \in [DOMAIN deps -> SUBSET DOMAIN deps]
  BY DEF Predecessors
<1>4. Abstract!Acyclic
  <2>1. ASSUME NEW S \in SUBSET Instances(work), S # {}
        PROVE  \E i \in S : Predecessors(i) \cap S = {}
    <3>1. PICK i \in S : \A d \in S : Multiplicity(work, d, i) = 0
      BY <2>1, <1>2, AcyclicInstances
    <3>2. Predecessors(i) \cap S = {}
      BY <3>1 DEF Predecessors
    <3>. QED  BY <3>2
  <2>. QED  BY <2>1 DEF Abstract!Acyclic
<1>5. ASSUME NEW i \in Instances(work) PROVE StatusOf(i) = "waiting"
  <2>1. EventsFor(i, CoreTypes) = {}
    BY InitialEvents DEF EventsFor, CoreTypes
  <2>2. ~Completed(i)
    <3>1. OpCount(i) \in Nat \ {0} /\ opIndex[i] = 0
      BY <1>1, WellBehavedTypes DEF Init
    <3>. QED  BY <3>1 DEF Completed
  <2>. QED  BY <2>1, <2>2, <1>1, StatusByEvents DEF StatusFits, InFlight
<1>6. status = [i \in DOMAIN deps |-> "waiting"]
  BY <1>5
<1>. QED  BY <1>3, <1>4, <1>6 DEF Abstract!Init

(* A run executes the task graph as the abstract execution says: every     *)
(* instance runs once, on a core of its own, after the instances it        *)
(* depends on.  That it gets to the end is left to TLC.                    *)
THEOREM ImplementsSafely == Spec /\ WellBehaved(work) => Abstract!Safety
<1>1. Init /\ WellBehaved(work) => Abstract!Init
  BY InitiallySimulates
<1>2. IInv /\ WInv /\ (IInv /\ WInv)' /\ [Next]_vars
         => [Abstract!Next]_(Abstract!abstractVars)
  BY StepSimulates
<1>. QED  BY <1>1, <1>2, WellBehavedInvariance, PTL DEF Spec, Abstract!Safety
=============================================================================
