---------------------------- MODULE CycleDetection ----------------------------
(***************************************************************************)
(* detectCycles() and dfsVisit() of TaskGraph.cpp: a depth-first search of *)
(* the task ids with three colours, run over the rows in order.  The       *)
(* recursion is unfolded into its stack, one step per iteration of a loop; *)
(* path is the code's path vector, each entry with the position its frame  *)
(* has reached in the adjacency list.                                      *)
(***************************************************************************)
EXTENDS TaskGraph, SequencesExt

VARIABLES
    work,      \* the workload searched, fixed
    row,       \* the row the loop of detectCycles() looks at
    state,     \* 0 unvisited, 1 visiting, 2 visited, per task id
    path,      \* the stack of dfsVisit() frames
    outcome    \* "searching", "cycle" (runtime_error) or "acyclic";
               \* what it is before the search, TaskLoader says

vars == <<work, row, state, path, outcome>>

Ids == {work.tasks[r].id : r \in Rows(work)}

(* adjacencyList[id]: the tasks that name id, once for each time they do,  *)
(* in the order of the rows.                                               *)
Naming(w, r, id) == {p \in DOMAIN w.tasks[r].deps : w.tasks[r].deps[p] = id}

AdjacencyList(w, id) ==
    FlattenSeq([r \in Rows(w) |->
        [n \in 1 .. Cardinality(Naming(w, r, id)) |-> w.tasks[r].id]])

Frame(id) == [id |-> id, next |-> 1]

Top == path[Len(path)]

Successors == AdjacencyList(work, Top.id)

Enter(id, stack) ==
    /\ state' = [state EXCEPT ![id] = 1]
    /\ path' = Append(stack, Frame(id))

(* The loop of detectCycles().                                             *)
NextRow ==
    /\ path = <<>>
    /\ row \in Rows(work)
    /\ row' = row + 1
    /\ \/ state[work.tasks[row].id] = 0 /\ Enter(work.tasks[row].id, path)
       \/ state[work.tasks[row].id] # 0 /\ UNCHANGED <<state, path>>
    /\ UNCHANGED outcome

(* Mutant of NextSuccessor: a visited successor is not passed over.        *)
SameSuccessor ==
    /\ path # <<>>
    /\ Top.next \in DOMAIN Successors
    /\ LET successor == Successors[Top.next]
           advanced == [path EXCEPT ![Len(path)].next = @ + 1]
       IN  \/ /\ state[successor] = 1
              /\ outcome' = "cycle"
              /\ UNCHANGED <<state, path>>
           \/ /\ state[successor] = 0
              /\ Enter(successor, advanced)
              /\ UNCHANGED outcome
           \/ state[successor] = 2 /\ UNCHANGED <<state, path, outcome>>
    /\ UNCHANGED row

(* The loop of dfsVisit(): its next successor.                             *)
NextSuccessor ==
    /\ path # <<>>
    /\ Top.next \in DOMAIN Successors
    /\ LET successor == Successors[Top.next]
           advanced == [path EXCEPT ![Len(path)].next = @ + 1]
       IN  \/ /\ state[successor] = 1
              /\ outcome' = "cycle"
              /\ UNCHANGED <<state, path>>
           \/ /\ state[successor] = 0
              /\ Enter(successor, advanced)
              /\ UNCHANGED outcome
           \/ /\ state[successor] = 2
              /\ path' = advanced
              /\ UNCHANGED <<state, outcome>>
    /\ UNCHANGED row

(* Mutants of Leave: the task stays marked as visiting, or stays on path.  *)
LeaveVisiting ==
    /\ path # <<>>
    /\ Top.next \notin DOMAIN Successors
    /\ path' = SubSeq(path, 1, Len(path) - 1)
    /\ UNCHANGED <<row, state, outcome>>

LeaveOnPath ==
    /\ path # <<>>
    /\ Top.next \notin DOMAIN Successors
    /\ state' = [state EXCEPT ![Top.id] = 2]
    /\ UNCHANGED <<row, path, outcome>>

(* dfsVisit() has no successor left and returns to its caller.             *)
Leave ==
    /\ path # <<>>
    /\ Top.next \notin DOMAIN Successors
    /\ state' = [state EXCEPT ![Top.id] = 2]
    /\ path' = SubSeq(path, 1, Len(path) - 1)
    /\ UNCHANGED <<row, outcome>>

Finish ==
    /\ path = <<>>
    /\ row \notin Rows(work)
    /\ outcome' = "acyclic"
    /\ UNCHANGED <<row, state, path>>

Search ==
    /\ outcome = "searching"
    /\ NextRow \/ NextSuccessor \/ Leave \/ Finish
    /\ UNCHANGED work

(* How loading and searching can end.                                      *)
Outcomes == {"cycle", "acyclic", "rejected"}
-----------------------------------------------------------------------------
(* The search throws exactly on the workloads that have a cycle: a loop of *)
(* any length, also one no row before it leads into, and never a diamond.  *)
VerdictCorrect ==
    /\ outcome = "cycle" => HasCycle(work)
    /\ outcome = "acyclic" => ~HasCycle(work)

(* The path printed in the error message is a chain of dependencies, and   *)
(* the tasks being visited are those on it, each once.                     *)
PathIsChain ==
    /\ \A k \in 1 .. Len(path) - 1 :
          path[k + 1].id \in ToSet(AdjacencyList(work, path[k].id))
    /\ {id \in DOMAIN state : state[id] = 1} = {path[k].id : k \in DOMAIN path}
    /\ \A j, k \in DOMAIN path : path[j].id = path[k].id => j = k

(* A search that has begun ends, on every workload, cyclic or not.         *)
SearchEnds == outcome = "searching" ~> outcome \in Outcomes
=============================================================================
