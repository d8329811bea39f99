------------------------------ MODULE Interconnect ------------------------------
(***************************************************************************)
(* The interconnect (Interconnect.cpp): the latency of a transfer, and the *)
(* queue of requests with what arbitrate() does to it.                     *)
(***************************************************************************)
EXTENDS Integers, Sequences

LineBytes == 64   \* the data size handleBankAccess() passes

(* calculateLatency(): the base latency, the cycles to move a line over    *)
(* the link (its width is positive in a valid configuration) and the       *)
(* penalty for leaving the chiplet.                                        *)
TransferLatency(c, src, dst) ==
    LET width == c.interconnectLinkWidth
    IN  c.interconnectLatency + (LineBytes + width - 1) \div width
           + IF src # dst THEN c.remoteChipletPenalty ELSE 0

(* A request, as the interconnect and the banks queue it.                  *)
Request(address, core, inst, time, src) ==
    [address |-> address, core |-> core, inst |-> inst, time |-> time,
     src |-> src]

Enqueue(queue, request) == Append(queue, request)

-----------------------------------------------------------------------------
(* The constructor.                                                        *)
IdleLink ==
    [queue |-> <<>>, busy |-> FALSE, busyUntil |-> 0, transfers |-> 0,
     busyCycles |-> 0]

(* arbitrate() with nothing to carry.                                      *)
ReleaseLink(link) == [link EXCEPT !.busy = FALSE, !.busyUntil = 0]

(* arbitrate() carries the first request, busy or not.                     *)
Carry(link, t, latency) ==
    [link EXCEPT
        !.queue = Tail(@), !.busy = TRUE, !.busyUntil = t + latency,
        !.transfers = @ + 1, !.busyCycles = @ + latency]
=============================================================================
