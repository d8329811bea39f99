----------------------------- MODULE TaskExecution -----------------------------
(***************************************************************************)
(* What a simulation run promises, without events, queues or times: every  *)
(* task instance runs exactly once, no earlier than all the instances it   *)
(* depends on are done, never more of them at a time than there are cores, *)
(* and in the end all of them are done.                                    *)
(***************************************************************************)
EXTENDS Integers, FiniteSets

CONSTANT MaxRunning   \* how many instances may run at a time

VARIABLES
    deps,     \* the instances each instance depends on, fixed
    status    \* "waiting", "running" or "done", per instance

abstractVars == <<deps, status>>

InstancesWith(s) == {i \in DOMAIN status : status[i] = s}

(* No set of instances all depend on one another.                          *)
Acyclic ==
    \A S \in (SUBSET DOMAIN deps) \ {{}} : \E i \in S : deps[i] \cap S = {}

Init ==
    /\ deps \in [DOMAIN deps -> SUBSET DOMAIN deps]
    /\ Acyclic
    /\ status = [i \in DOMAIN deps |-> "waiting"]

Start(i) ==
    /\ status[i] = "waiting"
    /\ deps[i] \subseteq InstancesWith("done")
    /\ Cardinality(InstancesWith("running")) < MaxRunning
    /\ status' = [status EXCEPT ![i] = "running"]
    /\ UNCHANGED deps

Finish(i) ==
    /\ status[i] = "running"
    /\ status' = [status EXCEPT ![i] = "done"]
    /\ UNCHANGED deps

Next == \E i \in DOMAIN status : Start(i) \/ Finish(i)

Safety == Init /\ [][Next]_abstractVars

Spec == Safety /\ WF_abstractVars(Next)
=============================================================================
