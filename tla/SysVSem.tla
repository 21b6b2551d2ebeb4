------------------------------ MODULE SysVSem ------------------------------
(***************************************************************************)
(* System V semaphores: sys/ipc_sem.c, with ipcget of sys/ipc_subr.c.      *)
(*                                                                         *)
(* semop tries its operations one after the other, on the semaphores       *)
(* themselves; when one of them cannot be done it undoes the ones before   *)
(* it (semundo), sleeps and starts over.  With SEM_UNDO every operation    *)
(* also leaves its opposite in the process's undo structure, for semexit.  *)
(*                                                                         *)
(* A process keeps the CPU (variable cpu) from one sleep to the next, as   *)
(* in BufferCache.  Only a signal may come in between.                     *)
(*                                                                         *)
(* Abstracted: permissions (all processes have them), sempid and the time  *)
(* stamps, keys (a process may use any id that semget ever returned), the  *)
(* order of the undo lists and of the entries in an undo structure; ipcget *)
(* takes any free header and rmalloc any free run of semaphores.  The      *)
(* commands of semctl that only read are left out.                         *)
(***************************************************************************)
EXTENDS Integers, Sequences, FiniteSets

CONSTANTS
    Proc,       \* processes
    Slot,       \* semaphore headers: sema[]
    SEMMNS,     \* semaphores in the system: sem[1..SEMMNS]
    Undo,       \* the pool of undo structures
    SEMVMX,     \* semaphore maximum value
    SEMAEM,     \* adjust on exit maximum value
    SEMUME,     \* undo entries per process
    SetSizes,   \* the nsems semget is called with
    OpLists,    \* the sops semop is called with
    SetVals,    \* the values of SETVAL and SETALL
    MaxSeq,     \* bound: how often a header is reused
    MaxCnt,     \* bound: premature returns from sleep only below this count
    AllocSleeps,    \* do kmem_alloc and copyin sleep?
    NoProc, NoUndo, NoChan

Sem == 1 .. SEMMNS
Num == 0 .. SEMMNS - 1
Id == [slot : Slot, seq : 0 .. MaxSeq]
sembuf == [sem_num : Num, sem_op : Int, IPC_NOWAIT : BOOLEAN, SEM_UNDO : BOOLEAN]
Chan == Sem \X {"semncnt", "semzcnt"}
UndoKey == Id \X Num

ASSUME SemConstants ==
    /\ SEMMNS \in Nat \ {0} /\ SEMVMX \in Nat \ {0} /\ SEMAEM \in Nat \ {0}
    /\ SEMUME \in Nat \ {0} /\ MaxSeq \in Nat /\ MaxCnt \in Nat
    /\ SetSizes \subseteq Nat \ {0}
    /\ OpLists \subseteq Seq(sembuf)
    /\ SetVals \subseteq Nat
    /\ AllocSleeps \in BOOLEAN
    /\ Slot # {}
    /\ NoProc \notin Proc /\ NoUndo \notin Undo /\ NoChan \notin Chan

VARIABLES
    cpu,        \* the process in the middle of a system call, or NoProc
    pc,         \* where each process is
    wchan,      \* the count it sleeps on
    sig,        \* has it a signal pending?
    semid,      \* uap->semid
    uops,       \* semop's copy of the operations
    done,       \* how many of them this attempt has done
    semp,       \* the count to sleep on, or NoChan if semop fails
    sema,       \* the headers
    semmap,     \* the free semaphores
    semval, cnt,    \* a semaphore's value; its semncnt and semzcnt
    sem_undo,   \* each process's undo structure
    un_ent,     \* the undo entries: adjust on exit values, 0 for no entry
    semunp,     \* the active undo structures
    semfup      \* the free ones

procvars == <<semid, uops, semp>>
undovars == <<sem_undo, un_ent, semunp, semfup>>
vars == <<cpu, pc, wchan, sig, procvars, done, sema, semmap, semval, cnt, undovars>>

NoId == CHOOSE d \in Id : TRUE
NoEntries == [k \in UndoKey |-> 0]

-----------------------------------------------------------------------------
(* Ids and wakeups                                                         *)

(* semconv finds the header.                                               *)
semconv(d) == sema[d.slot].alloc /\ sema[d.slot].seq = d.seq

(* sp->sem_base + num; sp stays what it was when the set is removed.       *)
SemOf(d, num) == sema[d.slot].base + num
SetOf(h) == h.base .. h.base + h.nsems - 1

(* For each count of S: if it is not 0 it is reset and its sleepers woken. *)
Wakeup(S) ==
    /\ wchan' = [q \in Proc |-> IF wchan[q] \in {c \in S : cnt[c] # 0}
                                THEN NoChan ELSE wchan[q]]
    /\ cnt' = [c \in Chan |-> IF c \in S THEN 0 ELSE cnt[c]]

(* What is to be woken when semaphore s gets value v.                      *)
SetChan(s, v) == IF v = 0 THEN <<s, "semzcnt">> ELSE <<s, "semncnt">>

At(p, l) == pc[p] = l /\ wchan[p] = NoChan /\ cpu \in {p, NoProc}

Goto(p, l) == pc' = [pc EXCEPT ![p] = l] /\ cpu' = p

(* The system call returns; a pending signal is delivered.                 *)
Return(p) ==
    /\ pc' = [pc EXCEPT ![p] = "user"]
    /\ cpu' = NoProc
    /\ sig' = [sig EXCEPT ![p] = FALSE]
    /\ semid' = [semid EXCEPT ![p] = NoId]
    /\ uops' = [uops EXCEPT ![p] = << >>]
    /\ done' = [done EXCEPT ![p] = 0]
    /\ semp' = [semp EXCEPT ![p] = NoChan]

Init ==
    /\ cpu = NoProc
    /\ pc = [p \in Proc |-> "user"]
    /\ wchan = [p \in Proc |-> NoChan]
    /\ sig = [p \in Proc |-> FALSE]
    /\ semid = [p \in Proc |-> NoId]
    /\ uops = [p \in Proc |-> << >>]
    /\ done = [p \in Proc |-> 0]
    /\ semp = [p \in Proc |-> NoChan]
    /\ sema = [h \in Slot |-> [alloc |-> FALSE, seq |-> 0, base |-> 1, nsems |-> 0]]
    /\ semmap = Sem
    /\ semval = [s \in Sem |-> 0]
    /\ cnt = [c \in Chan |-> 0]
    /\ sem_undo = [p \in Proc |-> NoUndo]
    /\ un_ent = [u \in Undo |-> NoEntries]
    /\ semunp = {}
    /\ semfup = Undo

-----------------------------------------------------------------------------
(* The undo structures                                                     *)

un_cnt(u) == Cardinality({k \in UndoKey : un_ent[u][k] # 0})

(* semaoe(val, id, num) fails, for p.                                      *)
SemaoeFails(p, val, k) ==
    \/ val \notin -SEMAEM .. SEMAEM
    \/ sem_undo[p] = NoUndo /\ semfup = {}
    \/ /\ sem_undo[p] # NoUndo
       /\ LET e == un_ent[sem_undo[p]] IN
             IF e[k] = 0 THEN un_cnt(sem_undo[p]) >= SEMUME
                         ELSE e[k] - val \notin -SEMAEM .. SEMAEM

(* Mutant: an undo structure that gets its first entry is not linked.      *)
Linked_Not(u, k) == semunp

(* The active list, once u has an entry for k.                             *)
Linked(u, k) ==
    IF un_ent[u][k] = 0 /\ un_cnt(u) = 0 THEN semunp \cup {u} ELSE semunp

(* semaoe(val, id, num) succeeds: p's undo structure, or a free one if it  *)
(* has none, takes -val for the semaphore.                                 *)
semaoe(p, val, k) ==
    \E u \in IF sem_undo[p] = NoUndo THEN semfup ELSE {sem_undo[p]} :
       /\ sem_undo' = [sem_undo EXCEPT ![p] = u]
       /\ semfup' = semfup \ {u}
       /\ un_ent' = [un_ent EXCEPT ![u][k] = @ - val]
       /\ semunp' = IF un_ent'[u] = NoEntries THEN semunp \ {u} ELSE Linked(u, k)

(* Clear the entries for the semaphores K, in the active structures.       *)
semunrm(K) ==
    /\ un_ent' = [u \in Undo |-> IF u \in semunp
                     THEN [k \in UndoKey |-> IF k \in K THEN 0 ELSE un_ent[u][k]]
                     ELSE un_ent[u]]
    /\ semunp' = {u \in semunp : un_ent'[u] # NoEntries}
    /\ UNCHANGED <<sem_undo, semfup>>

-----------------------------------------------------------------------------
(* semget, semctl, semexit                                                 *)

semget(p, h, n, b) ==
    /\ At(p, "user") /\ ~sema[h].alloc
    /\ b .. b + n - 1 \subseteq semmap
    /\ semmap' = semmap \ (b .. b + n - 1)
    /\ sema' = [sema EXCEPT ![h].alloc = TRUE, ![h].base = b, ![h].nsems = n]
    /\ UNCHANGED <<cpu, pc, wchan, sig, procvars, done, semval, cnt, undovars>>

(* Mutant: the semaphores go back to the map, the sleepers sleep on.       *)
RmidChans_None(h) == {}

RmidChans(h) == SetOf(h) \X {"semncnt", "semzcnt"}

(* IPC_RMID                                                                *)
semctl_RMID(p, d) ==
    LET h == sema[d.slot] IN
    /\ At(p, "user") /\ semconv(d) /\ d.seq < MaxSeq
    /\ semunrm({d} \X Num)
    /\ semval' = [s \in Sem |-> IF s \in SetOf(h) THEN 0 ELSE semval[s]]
    /\ Wakeup(RmidChans(h))
    /\ semmap' = semmap \cup SetOf(h)
    /\ sema' = [sema EXCEPT ![d.slot].seq = @ + 1, ![d.slot].alloc = FALSE]
    /\ UNCHANGED <<cpu, pc, sig, procvars, done>>

semctl_SETVAL(p, d, num, v) ==
    LET s == SemOf(d, num) IN
    /\ At(p, "user") /\ semconv(d) /\ num < sema[d.slot].nsems /\ v <= SEMVMX
    /\ semval' = [semval EXCEPT ![s] = v]
    /\ Wakeup({SetChan(s, v)})
    /\ semunrm({<<d, num>>})
    /\ UNCHANGED <<cpu, pc, sig, procvars, done, sema, semmap>>

(* SETALL looks its set up, and then allocates and fills the array.        *)
semctl_SETALL(p, d) ==
    /\ At(p, "user") /\ semconv(d)
    /\ pc' = [pc EXCEPT ![p] = "setall"]
    /\ cpu' = IF AllocSleeps THEN NoProc ELSE p
    /\ semid' = [semid EXCEPT ![p] = d]
    /\ UNCHANGED <<wchan, sig, uops, semp, done, sema, semmap, semval, cnt, undovars>>

SetAll(p, vals) ==
    LET S == SetOf(sema[semid[p].slot]) IN
    /\ At(p, "setall")
    /\ \A s \in S : vals[s] <= SEMVMX
    /\ semunrm({semid[p]} \X Num)
    /\ semval' = [s \in Sem |-> IF s \in S THEN vals[s] ELSE semval[s]]
    /\ Wakeup({SetChan(s, vals[s]) : s \in S})
    /\ Return(p)
    /\ UNCHANGED <<sema, semmap>>

SetAllFails(p, vals) ==
    /\ At(p, "setall")
    /\ \E s \in SetOf(sema[semid[p].slot]) : vals[s] > SEMVMX
    /\ Return(p)
    /\ UNCHANGED <<wchan, sema, semmap, semval, cnt, undovars>>

(* Mutant: only an increased value wakes, not one that became 0.           *)
ExitChans_NoZero(k, a, v) == IF a > 0 THEN {<<SemOf(k[1], k[2]), "semncnt">>} ELSE {}

(* What semexit wakes when adjusting a semaphore by a made its value v.    *)
ExitChans(k, a, v) ==
    LET s == SemOf(k[1], k[2]) IN
    (IF v = 0 THEN {<<s, "semzcnt">>} ELSE {}) \cup
    (IF a > 0 THEN {<<s, "semncnt">>} ELSE {})

(* The process exits; the next process in its slot has no undo structure.  *)
(* An adjustment that leaves the range of values is not made.              *)
semexit(p) ==
    LET u      == sem_undo[p]
        Val(k) == semval[SemOf(k[1], k[2])] + un_ent[u][k]
        K      == {k \in UndoKey : /\ un_ent[u][k] # 0 /\ semconv(k[1])
                                   /\ Val(k) \in 0 .. SEMVMX}
    IN  /\ At(p, "user") /\ u # NoUndo
        /\ semval' = [s \in Sem |->
              IF \E k \in K : SemOf(k[1], k[2]) = s
              THEN Val(CHOOSE k \in K : SemOf(k[1], k[2]) = s) ELSE semval[s]]
        /\ Wakeup(UNION {ExitChans(k, un_ent[u][k], Val(k)) : k \in K})
        /\ un_ent' = [un_ent EXCEPT ![u] = NoEntries]
        /\ semunp' = semunp \ {u}
        /\ sem_undo' = [sem_undo EXCEPT ![p] = NoUndo]
        /\ semfup' = semfup \cup {u}
        /\ UNCHANGED <<cpu, pc, sig, procvars, done, sema, semmap>>

-----------------------------------------------------------------------------
(* semop                                                                   *)

(* semop looks its set up, and then allocates and fills its copy of the    *)
(* operations.                                                             *)
semop(p, d, ops) ==
    /\ At(p, "user") /\ semconv(d)
    /\ pc' = [pc EXCEPT ![p] = "copyin"]
    /\ cpu' = IF AllocSleeps THEN NoProc ELSE p
    /\ semid' = [semid EXCEPT ![p] = d]
    /\ uops' = [uops EXCEPT ![p] = ops]
    /\ UNCHANGED <<wchan, sig, semp, done, sema, semmap, semval, cnt, undovars>>

InRange(p) ==
    \A i \in 1 .. Len(uops[p]) : uops[p][i].sem_num < sema[semid[p].slot].nsems

Start(p) ==
    /\ At(p, "copyin") /\ InRange(p)
    /\ Goto(p, "op")
    /\ UNCHANGED <<wchan, sig, procvars, done, sema, semmap, semval, cnt, undovars>>

(* Mutant: the set is not looked up again after a sleep.                   *)
Removed_Never(p) == FALSE

(* The set was removed while p slept.                                      *)
Removed(p) == ~semconv(semid[p])

Check(p) ==
    /\ At(p, "check") /\ ~Removed(p)
    /\ Goto(p, "op")
    /\ UNCHANGED <<wchan, sig, procvars, done, sema, semmap, semval, cnt, undovars>>

(* EFBIG and EIDRM.                                                        *)
Reject(p) ==
    /\ \/ At(p, "copyin") /\ ~InRange(p)
       \/ At(p, "check") /\ Removed(p)
    /\ Return(p)
    /\ UNCHANGED <<wchan, sema, semmap, semval, cnt, undovars>>

(* The operation p is at, its semaphore, and that semaphore's undo key.    *)
CurOp(p) == uops[p][done[p] + 1]
CurSem(p) == SemOf(semid[p], CurOp(p).sem_num)
CurKey(p) == <<semid[p], CurOp(p).sem_num>>
AtOp(p) == At(p, "op") /\ done[p] < Len(uops[p])

UndoFails(p) == CurOp(p).SEM_UNDO /\ SemaoeFails(p, CurOp(p).sem_op, CurKey(p))

(* Mutant: the old value is compared, not the new one.                     *)
CanAdd_Old(p) == semval[CurSem(p)] <= SEMVMX

CanAdd(p) == CurOp(p).sem_op + semval[CurSem(p)] <= SEMVMX

(* The operation changes the semaphore; its undo entry follows.            *)
Apply(p, chans) ==
    LET op == CurOp(p) IN
    /\ IF op.SEM_UNDO THEN semaoe(p, op.sem_op, CurKey(p)) ELSE UNCHANGED undovars
    /\ semval' = [semval EXCEPT ![CurSem(p)] = @ + op.sem_op]
    /\ Wakeup(chans)
    /\ done' = [done EXCEPT ![p] = @ + 1]
    /\ Goto(p, "op")
    /\ UNCHANGED <<sig, procvars, sema, semmap>>

OpUp(p) ==
    /\ AtOp(p) /\ CurOp(p).sem_op > 0
    /\ CanAdd(p) /\ ~UndoFails(p)
    /\ Apply(p, {<<CurSem(p), "semncnt">>})

OpDown(p) ==
    /\ AtOp(p) /\ CurOp(p).sem_op < 0
    /\ semval[CurSem(p)] >= -CurOp(p).sem_op /\ ~UndoFails(p)
    /\ Apply(p, IF semval[CurSem(p)] + CurOp(p).sem_op = 0
                THEN {<<CurSem(p), "semzcnt">>} ELSE {})

OpZero(p) ==
    /\ AtOp(p) /\ CurOp(p).sem_op = 0 /\ semval[CurSem(p)] = 0
    /\ done' = [done EXCEPT ![p] = @ + 1]
    /\ Goto(p, "op")
    /\ UNCHANGED <<wchan, sig, procvars, sema, semmap, semval, cnt, undovars>>

(* The value must become greater, or zero, first.                          *)
MustWait(p) ==
    \/ CurOp(p).sem_op < 0 /\ semval[CurSem(p)] < -CurOp(p).sem_op
    \/ CurOp(p).sem_op = 0 /\ semval[CurSem(p)] # 0

(* The operation cannot be done: p undoes the ones before it, then sleeps, *)
(* or returns with an error.                                               *)
OpBlocks(p) ==
    /\ AtOp(p) /\ MustWait(p)
    /\ semp' = [semp EXCEPT ![p] =
          IF CurOp(p).IPC_NOWAIT THEN NoChan
          ELSE <<CurSem(p), IF CurOp(p).sem_op < 0 THEN "semncnt" ELSE "semzcnt">>]
    /\ Goto(p, "undo")
    /\ UNCHANGED <<wchan, sig, semid, uops, done, sema, semmap, semval, cnt, undovars>>

OpFails(p) ==
    /\ AtOp(p) /\ ~MustWait(p) /\ CurOp(p).sem_op # 0
    /\ \/ CurOp(p).sem_op > 0 /\ ~CanAdd(p)
       \/ UndoFails(p)
    /\ Goto(p, "undo")
    /\ UNCHANGED <<wchan, sig, procvars, done, sema, semmap, semval, cnt, undovars>>

SemopDone(p) ==
    /\ At(p, "op") /\ done[p] = Len(uops[p])
    /\ Return(p)
    /\ UNCHANGED <<wchan, sema, semmap, semval, cnt, undovars>>

(* Mutant: the undo entry is left as it is.                                *)
semundo_Values(p, op) == UNCHANGED undovars

(* semundo takes the operation out of the undo structure again.            *)
semundo(p, op) ==
    IF op.SEM_UNDO /\ op.sem_op # 0
    THEN LET k == <<semid[p], op.sem_num>> IN
         IF SemaoeFails(p, -op.sem_op, k) THEN UNCHANGED undovars
                                          ELSE semaoe(p, -op.sem_op, k)
    ELSE UNCHANGED undovars

(* One turn of semundo's loop, last operation first.                       *)
UndoOp(p) ==
    LET op == uops[p][done[p]] IN
    /\ At(p, "undo") /\ done[p] > 0
    /\ semval' = [semval EXCEPT ![SemOf(semid[p], op.sem_num)] = @ - op.sem_op]
    /\ semundo(p, op)
    /\ done' = [done EXCEPT ![p] = @ - 1]
    /\ Goto(p, "undo")
    /\ UNCHANGED <<wchan, sig, procvars, sema, semmap, cnt>>

UndoneFails(p) ==
    /\ At(p, "undo") /\ done[p] = 0 /\ semp[p] = NoChan
    /\ Return(p)
    /\ UNCHANGED <<wchan, sema, semmap, semval, cnt, undovars>>

(* p counts itself and sleeps; sleep returns at once if there is a signal. *)
UndoneSleeps(p) ==
    /\ At(p, "undo") /\ done[p] = 0 /\ semp[p] # NoChan
    /\ cnt' = [cnt EXCEPT ![semp[p]] = @ + 1]
    /\ pc' = [pc EXCEPT ![p] = "asleep"]
    /\ IF sig[p] THEN cpu' = p /\ UNCHANGED wchan
                 ELSE cpu' = NoProc /\ wchan' = [wchan EXCEPT ![p] = semp[p]]
    /\ UNCHANGED <<sig, procvars, done, sema, semmap, semval, undovars>>

(* sleep returned 0.                                                       *)
Retry(p) ==
    /\ At(p, "asleep") /\ ~sig[p]
    /\ semp' = [semp EXCEPT ![p] = NoChan]
    /\ Goto(p, "check")
    /\ UNCHANGED <<wchan, sig, semid, uops, done, sema, semmap, semval, cnt, undovars>>

(* Mutant: the others are not woken when the count is used up.             *)
Uncount_NoWakeup(c) ==
    cnt' = [cnt EXCEPT ![c] = IF @ <= 1 THEN 0 ELSE @ - 1] /\ UNCHANGED wchan

(* The interrupted sleeper takes itself out of the count, which may by now *)
(* be somebody else's: a waker has reset it, and others have slept since,  *)
(* or the set is gone.  When nothing is left of it the others are woken.   *)
Uncount(c) ==
    IF cnt[c] <= 1
    THEN /\ cnt' = [cnt EXCEPT ![c] = 0]
         /\ wchan' = [q \in Proc |-> IF wchan[q] = c THEN NoChan ELSE wchan[q]]
    ELSE cnt' = [cnt EXCEPT ![c] = @ - 1] /\ UNCHANGED wchan

(* sleep returned 1: EINTR.                                                *)
Interrupted(p) ==
    /\ At(p, "asleep") /\ sig[p]
    /\ Uncount(semp[p])
    /\ Return(p)
    /\ UNCHANGED <<sema, semmap, semval, undovars>>

-----------------------------------------------------------------------------
(* What may happen to a process in a system call: a signal, or a return    *)
(* from sleep without a reason (it was stopped, or traced).                *)

Signal(p) ==
    /\ pc[p] # "user" /\ ~sig[p]
    /\ sig' = [sig EXCEPT ![p] = TRUE]
    /\ wchan' = [wchan EXCEPT ![p] = NoChan]
    /\ UNCHANGED <<cpu, pc, procvars, done, sema, semmap, semval, cnt, undovars>>

Premature(p) ==
    /\ wchan[p] # NoChan /\ cnt[wchan[p]] < MaxCnt
    /\ wchan' = [wchan EXCEPT ![p] = NoChan]
    /\ UNCHANGED <<cpu, pc, sig, procvars, done, sema, semmap, semval, cnt, undovars>>

-----------------------------------------------------------------------------
UserStep(p) ==
    \/ \E h \in Slot, n \in SetSizes, b \in Sem : semget(p, h, n, b)
    \/ \E d \in Id :
          \/ semctl_RMID(p, d)
          \/ \E num \in Num, v \in SetVals : semctl_SETVAL(p, d, num, v)
          \/ SetVals # {} /\ semctl_SETALL(p, d)
          \/ \E ops \in OpLists : semop(p, d, ops)
    \/ semexit(p)

KernelStep(p) ==
    \/ \E vals \in [Sem -> SetVals] : SetAll(p, vals) \/ SetAllFails(p, vals)
    \/ Start(p) \/ Check(p) \/ Reject(p)
    \/ OpUp(p) \/ OpDown(p) \/ OpZero(p) \/ OpBlocks(p) \/ OpFails(p) \/ SemopDone(p)
    \/ UndoOp(p) \/ UndoneFails(p) \/ UndoneSleeps(p) \/ Retry(p) \/ Interrupted(p)

Next == \E p \in Proc : UserStep(p) \/ KernelStep(p) \/ Signal(p) \/ Premature(p)

Spec == Init /\ [][Next]_vars

-----------------------------------------------------------------------------
(* Properties                                                              *)

(* Every variable has its type; in particular no value leaves the range of *)
(* a semaphore, not even between the operations of one semop.              *)
TypeOK ==
    /\ cpu \in Proc \cup {NoProc}
    /\ pc \in [Proc -> {"user", "setall", "copyin", "check", "op", "undo", "asleep"}]
    /\ wchan \in [Proc -> Chan \cup {NoChan}]
    /\ sig \in [Proc -> BOOLEAN]
    /\ semid \in [Proc -> Id]
    /\ uops \in [Proc -> OpLists \cup {<< >>}]
    /\ done \in [Proc -> Nat]
    /\ semp \in [Proc -> Chan \cup {NoChan}]
    /\ sema \in [Slot -> [alloc : BOOLEAN, seq : 0 .. MaxSeq, base : Sem, nsems : Nat]]
    /\ semmap \subseteq Sem
    /\ semval \in [Sem -> 0 .. SEMVMX]
    /\ cnt \in [Chan -> Nat]
    /\ sem_undo \in [Proc -> Undo \cup {NoUndo}]
    /\ un_ent \in [Undo -> [UndoKey -> -SEMAEM .. SEMAEM]]
    /\ semunp \subseteq Undo /\ semfup \subseteq Undo

(* No sleeper is forgotten: the count it sleeps on is not 0, so whoever    *)
(* raises the value, makes it 0 or removes the set will wake it; and the   *)
(* set is still there.                                                     *)
SleepersCounted ==
    \A p \in Proc : wchan[p] # NoChan =>
       /\ cnt[wchan[p]] > 0
       /\ semconv(semid[p])
       /\ wchan[p][1] \in SetOf(sema[semid[p].slot])

(* semop works on the semaphores of the set that it was called for, never  *)
(* on those of a set that took its place.                                  *)
OwnSetOnly == \A p \in Proc : pc[p] \in {"op", "undo"} => semconv(semid[p])

(* The undo structures: every one is free or belongs to one process; the   *)
(* active ones are those with entries, and all entries are for sets that   *)
(* exist, so that no later set inherits an adjustment.                     *)
UndoPool ==
    /\ \A u \in Undo : u \in semfup <=> \A p \in Proc : sem_undo[p] # u
    /\ \A p, q \in Proc : sem_undo[p] = sem_undo[q] /\ sem_undo[p] # NoUndo => p = q
    /\ semunp = {u \in Undo : un_ent[u] # NoEntries}
    /\ semunp \cap semfup = {}
    /\ \A u \in Undo, k \in UndoKey : un_ent[u][k] # 0 => semconv(k[1])
    /\ \A u \in Undo : un_cnt(u) <= SEMUME
=============================================================================
