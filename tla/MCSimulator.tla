------------------------------ MODULE MCSimulator ------------------------------
(***************************************************************************)
(* Instances of the simulator for TLC.  The workloads are small versions   *)
(* of the ones the repository ships (tiny, test and matmul) plus the odd   *)
(* rows its loader accepts.                                                *)
(***************************************************************************)
EXTENDS Makespan, StatsCollector

MCTaskIds == 1 .. 4
MCAddresses == {0, 64}

C(n) == [type |-> "Compute", cycles |-> n, address |-> 0]
M == [type |-> "Memory", cycles |-> 0, address |-> 64]
Row(id, executions, deps) ==
    [id |-> id, executions |-> executions, deps |-> deps]
Load(rows, ops) == [tasks |-> rows, ops |-> ops]

(* tiny_tasks.csv with two executions of B: 1 -> 2, 3 -> 4.                *)
Diamond ==
    Load(<<Row(1, 1, <<>>), Row(2, 2, <<1>>), Row(3, 1, <<1>>),
           Row(4, 1, <<2, 3>>)>>,
         <<<<C(1)>>, <<M, C(1)>>, <<C(2)>>, <<M>>>>)

(* More instances than cores, of different lengths, and a join.            *)
FanOut ==
    Load(<<Row(1, 1, <<>>), Row(2, 3, <<1>>), Row(3, 2, <<1>>),
           Row(4, 1, <<2>>)>>,
         <<<<C(1)>>, <<C(1), C(1)>>, <<M>>, <<C(1)>>>>)

(* A dependency listed twice, one on a task without executions (a negative *)
(* number of them), one on an id no row has, operations of zero cycles.    *)
Odd ==
    Load(<<Row(2, 1, <<1, 1>>), Row(1, 1, <<3, 4>>), Row(3, -1, <<>>)>>,
         <<<<C(0), M>>, <<C(0), C(0)>>, <<>>, <<>>>>)

(* Instances of task 4 become ready while equally long ones of task 3 wait. *)
Waves ==
    Load(<<Row(1, 1, <<>>), Row(2, 1, <<1>>), Row(3, 3, <<1>>),
           Row(4, 1, <<2>>)>>,
         <<<<C(1)>>, <<C(1)>>, <<M, C(1)>>, <<C(1), C(1)>>>>)

(* The same for three cores.                                               *)
WiderWaves ==
    [Waves EXCEPT !.tasks[3].executions = 4, !.ops[3] = <<C(2), C(1)>>]

SingleRoot == {Diamond, Waves, Odd}

(* Two roots of different lengths and a task that depends on both.         *)
TwoRoots ==
    Load(<<Row(1, 1, <<>>), Row(2, 1, <<>>), Row(3, 1, <<1, 2>>)>>,
         <<<<C(1)>>, <<C(2), C(2)>>, <<M>>, <<>>>>)

(* The shape of matmul_tasks.csv: many roots, one reduction.               *)
ManyRoots ==
    Load(<<Row(1, 3, <<>>), Row(2, 1, <<1>>)>>,
         <<<<M, C(1)>>, <<C(1)>>, <<>>, <<>>>>)

(* A task without operations between two others.                           *)
NoOps ==
    Load(<<Row(1, 1, <<>>), Row(2, 1, <<1>>), Row(3, 1, <<2>>)>>,
         <<<<C(1)>>, <<>>, <<C(1)>>, <<>>>>)

(* Everything happens at cycle 0.                                          *)
NoTime ==
    Load(<<Row(1, 2, <<>>), Row(2, 1, <<1>>)>>,
         <<<<C(0)>>, <<C(0), C(0)>>, <<>>, <<>>>>)

(* Two rows with the same id.                                              *)
SameId ==
    Load(<<Row(1, 1, <<>>), Row(2, 1, <<1>>), Row(2, 1, <<1>>)>>,
         <<<<C(1)>>, <<C(1)>>, <<>>, <<>>>>)

Cyclic ==
    Load(<<Row(1, 1, <<2>>), Row(2, 1, <<1>>)>>,
         <<<<C(1)>>, <<C(1)>>, <<>>, <<>>>>)

(* Operations of a negative number of cycles: time goes back to before the *)
(* cycle at which a task became ready, and below zero.                     *)
Backwards ==
    Load(<<Row(1, 1, <<>>), Row(2, 3, <<1>>), Row(3, 1, <<2>>)>>,
         <<<<C(3)>>, <<C(-1), M>>, <<C(-5), C(2)>>, <<>>>>)

JustTwoRoots == {TwoRoots}
JustNoOps == {NoOps}
JustFanOut == {FanOut}
JustBackwards == {Backwards}

(* Three of them are well-behaved.                                         *)
Unrestricted ==
    {TwoRoots, ManyRoots, NoOps, NoTime, SameId, Cyclic, Odd, Backwards,
     Diamond, FanOut, WiderWaves}

ASSUME Workloads = SingleRoot => \A w \in Workloads : WellBehaved(w)
ASSUME Workloads = Unrestricted =>
    {w \in Workloads : WellBehaved(w)} = {Diamond, FanOut, WiderWaves}
=============================================================================
