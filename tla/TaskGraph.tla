------------------------------ MODULE TaskGraph ------------------------------
(***************************************************************************)
(* The task graph (TaskGraph.cpp): what the rows of tasks.csv and ops.csv  *)
(* become once buildDAG() has expanded every task into its executions and  *)
(* connected the instances.                                                *)
(*                                                                         *)
(* A workload is what loadFromCSV() leaves behind:                         *)
(*   w.tasks : the rows of tasks.csv, in order, each with its task id, its *)
(*             executions and the list of ids it depends on;               *)
(*   w.ops   : the operations of each task id, already sorted by seq_idx.  *)
(* Nothing makes the ids of the rows unique, a list of dependencies may    *)
(* repeat an id or name one no row has, and a task may have no operation.  *)
(*                                                                         *)
(* The code numbers the instances 0, 1, 2, ... row by row; here instance   *)
(* <<r, n>> is the n-th execution of row r.                                *)
(***************************************************************************)
EXTENDS Integers, Sequences, FiniteSets

CONSTANTS
    TaskIds,    \* the ids a row may have or name in its deps column
    Addresses   \* the addresses a memory operation may have

OpTypes == {"Compute", "Memory"}

(* rw is left out: no decision of the program depends on it.  cycles is an *)
(* int that stoi() reads, and nothing makes it non-negative.               *)
Op == [type : OpTypes, cycles : Int, address : Addresses]

Task == [id : TaskIds, executions : Int, deps : Seq(TaskIds)]

Workload == [tasks : Seq(Task), ops : [TaskIds -> Seq(Op)]]

Rows(w) == DOMAIN w.tasks

Instances(w) ==
    UNION {{r} \X (1 .. w.tasks[r].executions) : r \in Rows(w)}

TaskId(w, i) == w.tasks[i[1]].id

OpsOf(w, i) == w.ops[TaskId(w, i)]

(* What the statements about time ask of a workload.                       *)
NonNegativeDurations(w) ==
    \A i \in Instances(w) : \A n \in DOMAIN OpsOf(w, i) :
        OpsOf(w, i)[n].type = "Compute" => OpsOf(w, i)[n].cycles >= 0

(* The first row with the task id of i: the lookup loop of buildDAG()      *)
(* stops there, so a later row of the same id lends its instances but not  *)
(* its dependencies to the in-degree.                                      *)
FirstRow(w, i) ==
    CHOOSE r \in Rows(w) :
        /\ w.tasks[r].id = TaskId(w, i)
        /\ \A s \in Rows(w) : w.tasks[s].id = TaskId(w, i) => r <= s

(* The in-degree of i counts one dependency for every entry p of the deps  *)
(* list and every instance d of the task that entry names.                 *)
DependenciesOf(w, i) ==
    LET deps == w.tasks[FirstRow(w, i)].deps
    IN  {x \in (DOMAIN deps) \X Instances(w) : TaskId(w, x[2]) = deps[x[1]]}

InitialInDegree(w, i) == Cardinality(DependenciesOf(w, i))

(* adjacencyList[id of i] receives one entry per row r and per position p  *)
(* at which r's deps name i's task; each entry makes every instance of r's *)
(* task a successor of i once more.                                        *)
SuccessorEntries(w, i, j) ==
    UNION {{<<r, p>> : p \in {q \in DOMAIN w.tasks[r].deps :
                                 w.tasks[r].deps[q] = TaskId(w, i)}} :
           r \in {s \in Rows(w) : w.tasks[s].id = TaskId(w, j)}}

(* How often j occurs in the successors of i.                              *)
Multiplicity(w, i, j) == Cardinality(SuccessorEntries(w, i, j))

(* detectCycles() throws iff some tasks all have a successor among         *)
(* themselves (CycleDetection checks that its DFS computes just this).     *)
HasCycle(w) ==
    \E ids \in (SUBSET {w.tasks[r].id : r \in Rows(w)}) \ {{}} :
        \A a \in ids : \E r \in Rows(w) : \E p \in DOMAIN w.tasks[r].deps :
            w.tasks[r].id \in ids /\ w.tasks[r].deps[p] = a

(***************************************************************************)
(* The operations the simulator performs on the instances, given their     *)
(* current in-degrees, operation indices and ready times.                  *)
(***************************************************************************)

(* Mutants of ReadyInstances: the readyTime is not looked at; an instance  *)
(* with one dependency left counts as ready.                               *)
ReadyInstancesAgain(w, inDegree, opIndex, readyTime) ==
    {i \in Instances(w) : inDegree[i] = 0 /\ opIndex[i] = 0}

ReadyInstancesEarly(w, inDegree, opIndex, readyTime) ==
    {i \in Instances(w) :
        inDegree[i] <= 1 /\ opIndex[i] = 0 /\ readyTime[i] = 0}

ReadyInstances(w, inDegree, opIndex, readyTime) ==
    {i \in Instances(w) :
        inDegree[i] = 0 /\ opIndex[i] = 0 /\ readyTime[i] = 0}

(* Mutant of MarkInstanceComplete: a successor counts once however often   *)
(* its deps list names the task.                                           *)
MarkSuccessorsOnce(w, inDegree, i) ==
    [j \in Instances(w) |->
        inDegree[j] - IF Multiplicity(w, i, j) > 0 THEN 1 ELSE 0]

MarkInstanceComplete(w, inDegree, i) ==
    [j \in Instances(w) |-> inDegree[j] - Multiplicity(w, i, j)]
=============================================================================
