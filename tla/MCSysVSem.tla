----------------------------- MODULE MCSysVSem -----------------------------
(* Small instances of SysVSem for TLC. *)
EXTENDS SysVSem, TLC, FiniteSetsExt

CONSTANTS p1, p2, s1, u1

B(num, op, nowait, undo) ==
    [sem_num |-> num, sem_op |-> op, IPC_NOWAIT |-> nowait, SEM_UNDO |-> undo]

(* Take one of each semaphore, give them back, wait for zero.              *)
PairOps ==
    { <<B(0, -1, FALSE, TRUE), B(1, -1, FALSE, TRUE)>>,
      <<B(0, 1, FALSE, TRUE)>>,
      <<B(1, 1, FALSE, TRUE)>>,
      <<B(1, 0, FALSE, FALSE), B(0, 1, TRUE, FALSE)>> }

(* Bring the semaphore down and wait until that made it zero.              *)
DownToZeroOps ==
    { <<B(0, -1, FALSE, FALSE), B(0, 0, FALSE, FALSE)>>,
      <<B(0, -1, TRUE, FALSE)>> }

OneOps == { <<B(0, 1, FALSE, FALSE)>> }

One == {1}
Two == {2}
None == {}
OneThree == {1, 3}

-----------------------------------------------------------------------------
VARIABLE start      \* values and undo entries when the attempt began

MCInit == Init /\ start = << >>

(* start is set by Start and Check, and dropped when nobody is in semop.   *)
MCNext ==
    /\ Next
    /\ start' = IF \E p \in Proc : pc[p] \in {"copyin", "check"} /\ pc'[p] = "op"
                THEN <<semval, un_ent>>
                ELSE IF \E p \in Proc : pc'[p] \in {"op", "undo"} THEN start ELSE << >>

MCSpec == MCInit /\ [][MCNext]_<<vars, start>>

(* The scheduler lets every process run that is not asleep.                *)
FairSpec == MCSpec /\ \A p \in Proc : SF_vars(KernelStep(p))

(* semop is atomic: when it sleeps or fails, semundo has left values and   *)
(* undo entries as they were when the attempt began.                       *)
UndoExact ==
    \A p \in Proc : pc[p] = "undo" /\ done[p] = 0 => <<semval, un_ent>> = start

(* IPC_RMID ends every semop on the set: whoever slept for it comes back.  *)
RemovedReturns ==
    \A p \in Proc : pc[p] = "asleep" /\ ~semconv(semid[p]) ~> pc[p] = "user"

(* What the operations before the i-th do to its semaphore.                *)
Before(ops, i) ==
    MapThenSumSet(LAMBDA j : ops[j].sem_op,
                  {j \in 1 .. i - 1 : ops[j].sem_num = ops[i].sem_num})

(* All of p's operations could be done now.                                *)
CanRun(p) ==
    \A i \in 1 .. Len(uops[p]) :
       LET op == uops[p][i]
           v  == semval[SemOf(semid[p], op.sem_num)] + Before(uops[p], i)
       IN  IF op.sem_op = 0 THEN v = 0 ELSE v + op.sem_op \in 0 .. SEMVMX

(* A process whose operations can all be done does not sleep: whoever made *)
(* them possible has woken it.                                             *)
NoMissedChance ==
    \A p \in Proc : cpu = NoProc /\ wchan[p] # NoChan => ~CanRun(p)
=============================================================================
