---------------------------- MODULE MCBufferLive ----------------------------
(* Progress of the calls into BufferCache, with a bound on their number. *)
EXTENDS MCBufferCache

CONSTANT MaxCalls
VARIABLE calls      \* calls made so far

LiveInit == Init /\ calls = 0

LiveNext ==
    \/ \E p \in Proc : calls < MaxCalls /\ NewCall(p) /\ calls' = calls + 1
    \/ \E p \in Proc : (ClientStep(p) \/ KernelStep(p)) /\ UNCHANGED calls
    \/ Interrupt /\ UNCHANGED calls

(* A runnable process runs, a transfer ends, a client releases its buffer. *)
Fairness ==
    /\ \A p \in Proc : WF_vars(KernelStep(p)) /\ WF_vars(ClientStep(p))
    /\ \A b \in Buf : WF_vars(\E err \in BOOLEAN : Biodone(b, err))

LiveSpec == LiveInit /\ [][LiveNext]_<<vars, calls>> /\ Fairness

(* Every call returns to its client: nobody waits for ever for a buffer,   *)
(* for memory or for a transfer.                                           *)
EveryCallReturns ==
    \A p \in Proc : pc[p] \notin {"idle", "hold"} ~> pc[p] \in {"idle", "hold"}

(* In the end nobody owns a buffer: all of them are back on a free list.   *)
AllReleased == calls = MaxCalls ~> \A b \in Buf : ~Has(b, "B_BUSY")
=============================================================================
