------------------------------ MODULE Scheduler ------------------------------
(***************************************************************************)
(* The scheduler (Scheduler.cpp): a deque of ready instances, one idle     *)
(* flag per core and the core at which the next round-robin search starts. *)
(* The operators say what each member function selects or returns; the     *)
(* variables are the simulator's, whose handlers call them in sequence.    *)
(***************************************************************************)
EXTENDS Integers, Sequences, SequencesExt

CONSTANTS
    NumCores,   \* config.numCores, positive once Config::validate() passed
    Policy      \* config.schedulingPolicy

Policies == {"FIFO", "RoundRobin", "ShortestOpsFirst"}

ASSUME SchedulerAssumption == NumCores \in Nat \ {0} /\ Policy \in Policies

Cores == 0 .. NumCores - 1

(* Mutant of AddReady: push_front for push_back.                           *)
AddReadyFirst(queue, i) == <<i>> \o queue

AddReady(queue, i) == Append(queue, i)

(* Mutant of SelectsInstance: <= for < in the scan of ShortestOpsFirst.    *)
SelectsLastShortest(queue, remaining, k) ==
    /\ k \in DOMAIN queue
    /\ \/ Policy \in {"FIFO", "RoundRobin"} /\ k = 1
       \/ /\ Policy = "ShortestOpsFirst"
          /\ \A j \in DOMAIN queue :
                /\ remaining[queue[k]] <= remaining[queue[j]]
                /\ j > k => remaining[queue[k]] < remaining[queue[j]]

(* selectNextInstance() takes position k of the queue.  FIFO and           *)
(* RoundRobin take the front; ShortestOpsFirst takes the first of those    *)
(* with the fewest remaining operations.                                   *)
SelectsInstance(queue, remaining, k) ==
    /\ k \in DOMAIN queue
    /\ \/ Policy \in {"FIFO", "RoundRobin"} /\ k = 1
       \/ /\ Policy = "ShortestOpsFirst"
          /\ \A j \in DOMAIN queue :
                /\ remaining[queue[k]] <= remaining[queue[j]]
                /\ j < k => remaining[queue[k]] < remaining[queue[j]]

(* How many steps the search of selectIdleCore() needs from core a to c.   *)
Distance(a, c) == IF a <= c THEN c - a ELSE c - a + NumCores

(* Mutant of SelectsCore: the idle flag is not looked at.                  *)
SelectsBusyCore(coreIdle, nextCore, c) == c = nextCore

(* selectIdleCore() returns c, the first idle core from nextCore onwards.  *)
SelectsCore(coreIdle, nextCore, c) ==
    /\ coreIdle[c]
    /\ \A d \in Cores :
          coreIdle[d] => Distance(nextCore, c) <= Distance(nextCore, d)

(* Mutants of CoreAfter: no wrap-around; the search starts where it ended. *)
CoreAfterLast(c) == c + 1

CoreAgain(c) == c

(* ... and leaves nextCoreRoundRobin at the core after it.                 *)
CoreAfter(c) == IF c + 1 = NumCores THEN 0 ELSE c + 1

DispatchTo(coreIdle, c) == [coreIdle EXCEPT ![c] = FALSE]

(* Mutant of ReleaseCore: the core stays taken.                            *)
KeepCore(coreIdle, c) == coreIdle

ReleaseCore(coreIdle, c) == [coreIdle EXCEPT ![c] = TRUE]
=============================================================================
