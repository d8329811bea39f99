------------------------------ MODULE EventQueue ------------------------------
(***************************************************************************)
(* The discrete-event queue (EventQueue.hpp): a std::priority_queue whose  *)
(* comparator looks at the time of the events and at nothing else.  Two    *)
(* events of the same time are therefore popped in whatever order the heap *)
(* happens to hold them, so the queue is a bag and pop returns any of its  *)
(* earliest events: every order the heap can produce is one of these.      *)
(*                                                                         *)
(* A time is a uint64_t, and a sum with a negative int may wrap around     *)
(* zero.  Here a time is an integer in which t < 0 stands for 2^64 + t:    *)
(* sums are then those of the code, and its comparisons are Before.  (So   *)
(* they are while times stay within 2^63 of zero.)                         *)
(***************************************************************************)
EXTENDS Integers, Bags

NoCore == -1           \* coreId of an event that belongs to no core
NoInstance == <<0, 0>> \* taskInstanceId -1: no task instance
NoAddress == 0         \* address of an event that carries none

(* Event(...): the context field is written by the code and never read.    *)
Event(type, time, core, inst, address) ==
    [type |-> type, time |-> time, core |-> core, inst |-> inst,
     address |-> address]

EmptyQueue == EmptyBag

Push(queue, e) == queue (+) SetToBag({e})

PushAll(queue, es) == queue (+) SetToBag(es)

(* s < t for uint64_t: what has wrapped around comes after what has not.   *)
Before(s, t) == IF (s < 0) = (t < 0) THEN s < t ELSE t < 0

(* Mutant of Earliest: a queue that does not order its events.             *)
AnyEvent(queue) == DOMAIN queue

(* The events pop() may return: no other event of the queue is earlier.    *)
Earliest(queue) ==
    {e \in DOMAIN queue : \A f \in DOMAIN queue : ~Before(f.time, e.time)}

(* The queue pop() leaves when it returns e.                               *)
Pop(queue, e) == queue (-) SetToBag({e})

(* How often e is in the queue.                                            *)
Copies(e, queue) == IF e \in DOMAIN queue THEN queue[e] ELSE 0
=============================================================================
