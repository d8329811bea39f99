--------------------------------- MODULE Core ---------------------------------
(***************************************************************************)
(* A core (Core.cpp): whether it executes an operation and for which       *)
(* instance.  busySince is written and never read, so it is left out.      *)
(***************************************************************************)
EXTENDS EventQueue

IdleCore == [busy |-> FALSE, current |-> NoInstance]

BusyWith(i) == [busy |-> TRUE, current |-> i]

(* Mutant of OpEvent: the duration taken for the time of completion.       *)
OpEventAtDuration(op, c, i, t) ==
    IF op.type = "Compute"
    THEN Event("ComputeDone", op.cycles, c, i, NoAddress)
    ELSE Event("MemReqIssued", t, c, i, op.address)

(* The event executeOp() schedules for operation op of instance i on core  *)
(* c at time t: a compute operation ends op.cycles later, a memory         *)
(* operation first issues its request, at once.                            *)
OpEvent(op, c, i, t) ==
    IF op.type = "Compute"
    THEN Event("ComputeDone", t + op.cycles, c, i, NoAddress)
    ELSE Event("MemReqIssued", t, c, i, op.address)

(* completeOp() throws unless the core executes something.                 *)
CanComplete(core) == core.busy /\ core.current # NoInstance
=============================================================================
