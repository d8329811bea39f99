------------------------------- MODULE Makespan -------------------------------
(***************************************************************************)
(* How long a whole simulation takes, which is the number the program is   *)
(* run for ("Simulation complete at cycle ..."): the bounds every greedy   *)
(* schedule of a task graph obeys.                                         *)
(***************************************************************************)
EXTENDS SimulatorProperties

(* There is a shortest and a longest time a memory request may take.       *)
ASSUME MakespanAssumption == IsFiniteSet(MemLatencies) /\ MemLatencies # {}

(* The cycles instance i needs when each memory request takes latency.     *)
Duration(i, latency) ==
    FoldLeft(LAMBDA t, op :
                 t + IF op.type = "Compute" THEN op.cycles ELSE latency,
             0, OpsOf(work, i))

TotalWork(latency) ==
    MapThenSumSet(LAMBDA i : Duration(i, latency), Instances(work))

(* The longest chain of instances that have to run one after another.      *)
CriticalPath(latency) ==
    LET path[i \in Instances(work)] ==
            Duration(i, latency)
            + Max({0} \cup {path[d] : d \in Predecessors(i)})
    IN  Max({0} \cup {path[i] : i \in Instances(work)})

(* The cycle at which the simulation ends is no smaller than the critical  *)
(* path and the work shared among all cores allow, and no larger than what *)
(* list scheduling guarantees: no cycle passes in which a core idles while *)
(* an instance could run, unless the critical path gets shorter in it.     *)
(* (On workloads where an instance may be run twice, or never, they say    *)
(* nothing.)                                                               *)
MakespanBounds ==
    LET shortest == Min(MemLatencies)
        longest == Max(MemLatencies)
    IN  phase = "complete" /\ WellBehaved(work) =>
            /\ now >= CriticalPath(shortest)
            /\ NumCores * now >= TotalWork(shortest)
            /\ NumCores * now <=
                   TotalWork(longest) + (NumCores - 1) * CriticalPath(longest)
=============================================================================
