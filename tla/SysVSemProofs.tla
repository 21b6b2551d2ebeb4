--------------------------- MODULE SysVSemProofs ---------------------------
(***************************************************************************)
(* Proofs about SysVSem, for any number of processes, headers, semaphores  *)
(* and any operations, when kmem_alloc and copyin do not sleep.            *)
(***************************************************************************)
EXTENDS MCSysVSem, FiniteSetTheorems, TLAPS

Inside == {"setall", "copyin", "check", "op", "undo"}

(* The types of the variables that sleeping and waking depend on.          *)
SleepTypes ==
    /\ cpu \in Proc \cup {NoProc}
    /\ pc \in [Proc -> {"user", "setall", "copyin", "check", "op", "undo", "asleep"}]
    /\ wchan \in [Proc -> Chan \cup {NoChan}]
    /\ semid \in [Proc -> Id]
    /\ uops \in [Proc -> OpLists \cup {<< >>}]
    /\ done \in [Proc -> Nat]
    /\ semp \in [Proc -> Chan \cup {NoChan}]
    /\ sema \in [Slot -> [alloc : BOOLEAN, seq : 0 .. MaxSeq, base : Sem, nsems : Nat]]
    /\ semmap \subseteq Sem
    /\ cnt \in [Chan -> Nat]

(* The semaphores of a set that exists are semaphores.                     *)
SetsInv == \A h \in Slot : sema[h].alloc => SetOf(sema[h]) \subseteq Sem

(* An id is that of a set that exists, or of one that was removed.         *)
Issued(d) == d.seq < sema[d.slot].seq \/ semconv(d)

(* Where p is, and what it then knows of its set.  A process that slept    *)
(* knows it only if the set is still there.                                *)
ProcInv(p) ==
    /\ pc[p] \in Inside => cpu = p
    /\ pc[p] # "user" => Issued(semid[p])
    /\ pc[p] \in {"setall", "copyin", "op", "undo"} => semconv(semid[p])
    /\ pc[p] \in {"check", "op", "undo", "asleep"} /\ semconv(semid[p]) => InRange(p)
    /\ IF pc[p] \in {"op", "undo"} THEN done[p] <= Len(uops[p]) ELSE done[p] = 0
    /\ pc[p] \in {"undo", "asleep"} /\ semp[p] # NoChan /\ semconv(semid[p])
          => semp[p][1] \in SetOf(sema[semid[p].slot])
    /\ pc[p] = "asleep" => semp[p] # NoChan
    /\ pc[p] \in {"user", "setall", "copyin", "check", "op"} => semp[p] = NoChan

(* Who sleeps is in semop, on a set that is there, and counted.            *)
SleeperInv(p) ==
    wchan[p] # NoChan =>
       /\ pc[p] = "asleep" /\ wchan[p] = semp[p]
       /\ semconv(semid[p]) /\ cnt[wchan[p]] > 0

SInv ==
    /\ SleepTypes
    /\ SetsInv
    /\ \A p \in Proc : ProcInv(p) /\ SleeperInv(p)

-----------------------------------------------------------------------------
(* A change of wchan and cnt that wakes some processes and leaves the      *)
(* others counted.                                                         *)
Gentle ==
    /\ wchan' \in [Proc -> Chan \cup {NoChan}]
    /\ cnt' \in [Chan -> Nat]
    /\ \A q \in Proc : wchan'[q] # NoChan => wchan'[q] = wchan[q] /\ cnt'[wchan[q]] > 0

(* Wakeup wakes everybody on the counts that it resets: they were not 0.   *)
LEMMA WakeupGentle == ASSUME SInv, NEW S, Wakeup(S) PROVE Gentle
<1>1. wchan \in [Proc -> Chan \cup {NoChan}] /\ cnt \in [Chan -> Nat]
  BY DEF SInv, SleepTypes
<1>2. \A q \in Proc : wchan[q] # NoChan => wchan[q] \in Chan /\ cnt[wchan[q]] > 0
  BY <1>1 DEF SInv, SleeperInv
<1> QED BY <1>1, <1>2 DEF Gentle, Wakeup

(* So does an interrupted sleeper that uses a count up.                    *)
LEMMA UncountGentle ==
    ASSUME SInv, NEW c \in Chan, Uncount(c) PROVE Gentle
<1>1. wchan \in [Proc -> Chan \cup {NoChan}] /\ cnt \in [Chan -> Nat]
  BY DEF SInv, SleepTypes
<1>2. \A q \in Proc : wchan[q] # NoChan => wchan[q] \in Chan /\ cnt[wchan[q]] > 0
  BY <1>1 DEF SInv, SleeperInv
<1>3. CASE cnt[c] <= 1 BY <1>1, <1>2, <1>3 DEF Gentle, Uncount
<1>4. CASE ~(cnt[c] <= 1) BY <1>1, <1>2, <1>4 DEF Gentle, Uncount
<1> QED BY <1>3, <1>4

(* Nothing happened to the sleepers.                                       *)
LEMMA UnchangedGentle ==
    ASSUME SInv, UNCHANGED <<wchan, cnt>> PROVE Gentle
BY DEF SInv, SleepTypes, SleeperInv, Gentle

(* A step of p in its own variables, which may wake others.                *)
LEMMA OwnStep ==
    ASSUME SInv, NEW p \in Proc, cpu \in {p, NoProc}, SleepTypes', UNCHANGED sema,
           \A q \in Proc \ {p} :
              /\ wchan'[q] # NoChan => wchan'[q] = wchan[q] /\ cnt'[wchan[q]] > 0
              /\ pc'[q] = pc[q] /\ semid'[q] = semid[q] /\ uops'[q] = uops[q]
              /\ done'[q] = done[q] /\ semp'[q] = semp[q],
           ProcInv(p)', SleeperInv(p)'
    PROVE  SInv'
<1>1. SetsInv' BY DEF SInv, SetsInv, SetOf
<1>2. ASSUME NEW q \in Proc, q # p PROVE ProcInv(q)' /\ SleeperInv(q)'
  <2>1. ProcInv(q) /\ SleeperInv(q) /\ q # NoProc BY SemConstants DEF SInv
  <2>2. pc[q] \notin Inside BY <2>1, <1>2 DEF ProcInv
  <2>3. semconv(semid[q])' <=> semconv(semid[q]) BY <1>2 DEF semconv
  <2>4. InRange(q)' <=> InRange(q) BY <1>2 DEF InRange
  <2>5. Issued(semid[q])' <=> Issued(semid[q]) BY <1>2, <2>3 DEF Issued
  <2>6. ProcInv(q)' BY <1>2, <2>1, <2>2, <2>3, <2>4, <2>5 DEF ProcInv, SetOf, Inside
  <2>7. SleeperInv(q)' BY <1>2, <2>1, <2>3 DEF SleeperInv
  <2> QED BY <2>6, <2>7
<1> QED BY <1>1, <1>2 DEF SInv

(* The same, when p is awake before and after.                             *)
LEMMA LocalStep ==
    ASSUME SInv, NEW p \in Proc, Gentle, cpu \in {p, NoProc}, wchan[p] = NoChan,
           cpu' \in Proc \cup {NoProc}, UNCHANGED <<sema, semmap>>,
           NEW l, pc' = [pc EXCEPT ![p] = l],
           l \in {"user", "setall", "copyin", "check", "op", "undo", "asleep"},
           semid' \in [Proc -> Id], uops' \in [Proc -> OpLists \cup {<< >>}],
           done' \in [Proc -> Nat], semp' \in [Proc -> Chan \cup {NoChan}],
           \A q \in Proc \ {p} : /\ semid'[q] = semid[q] /\ uops'[q] = uops[q]
                                 /\ done'[q] = done[q] /\ semp'[q] = semp[q],
           ProcInv(p)'
    PROVE  SInv'
<1>1. SleepTypes' BY DEF SInv, SleepTypes, Gentle
<1>2. pc \in [Proc -> {"user", "setall", "copyin", "check", "op", "undo", "asleep"}]
  BY DEF SInv, SleepTypes
<1>3. SleeperInv(p)' BY DEF Gentle, SleeperInv
<1>4. \A q \in Proc \ {p} :
        /\ wchan'[q] # NoChan => wchan'[q] = wchan[q] /\ cnt'[wchan[q]] > 0
        /\ pc'[q] = pc[q]
  BY <1>2 DEF Gentle
<1> QED BY <1>1, <1>3, <1>4, OwnStep

(* The id of a process outside semop and SETALL is an id.                  *)
LEMMA NoIdType == NoId \in Id
<1>1. \E d \in Id : TRUE
  <2>1. PICK h \in Slot : TRUE BY SemConstants
  <2>2. [slot |-> h, seq |-> 0] \in Id BY SemConstants DEF Id
  <2> QED BY <2>2
<1> QED BY <1>1 DEF NoId

(* A system call returns.                                                  *)
LEMMA ReturnStep ==
    ASSUME SInv, NEW p \in Proc, Gentle, cpu \in {p, NoProc}, wchan[p] = NoChan,
           Return(p), UNCHANGED <<sema, semmap>>
    PROVE  SInv'
<1>1. SleepTypes BY DEF SInv
<1>2. ProcInv(p)' BY <1>1 DEF SleepTypes, ProcInv, Return, Inside
<1> QED BY <1>1, <1>2, NoIdType, LocalStep DEF SleepTypes, Return

(* The actions that return.                                                *)
LEMMA ReturnActions ==
    ASSUME SInv, NEW p \in Proc,
           \/ \E vals \in [Sem -> SetVals] : SetAll(p, vals) \/ SetAllFails(p, vals)
           \/ Reject(p) \/ SemopDone(p) \/ UndoneFails(p) \/ Interrupted(p)
    PROVE  SInv'
<1>1. ASSUME NEW vals \in [Sem -> SetVals], SetAll(p, vals) PROVE SInv'
  <2>1. Gentle BY <1>1, WakeupGentle DEF SetAll
  <2> QED BY <1>1, <2>1, ReturnStep DEF SetAll, At
<1>2. ASSUME NEW vals \in [Sem -> SetVals], SetAllFails(p, vals) PROVE SInv'
  BY <1>2, UnchangedGentle, ReturnStep DEF SetAllFails, At
<1>3. CASE Reject(p) BY <1>3, UnchangedGentle, ReturnStep DEF Reject, At
<1>4. CASE SemopDone(p) BY <1>4, UnchangedGentle, ReturnStep DEF SemopDone, At
<1>5. CASE UndoneFails(p) BY <1>5, UnchangedGentle, ReturnStep DEF UndoneFails, At
<1>6. CASE Interrupted(p)
  <2>1. semp[p] \in Chan BY <1>6 DEF Interrupted, At, SInv, SleepTypes, ProcInv
  <2>2. Gentle BY <1>6, <2>1, UncountGentle DEF Interrupted
  <2> QED BY <1>6, <2>2, ReturnStep DEF Interrupted, At
<1> QED BY <1>1, <1>2, <1>3, <1>4, <1>5, <1>6

-----------------------------------------------------------------------------
(* The semaphore of the operation p is at is one of its set.               *)
LEMMA CurSemIn ==
    ASSUME SInv, NEW p \in Proc, AtOp(p)
    PROVE  /\ CurSem(p) \in Sem
           /\ CurSem(p) \in SetOf(sema[semid[p].slot])
           /\ CurOp(p) \in sembuf
<1>1. /\ semconv(semid[p]) /\ InRange(p)
      /\ semid[p].slot \in Slot /\ done[p] \in Nat
      /\ uops[p] \in Seq(sembuf)
  BY SemConstants DEF SInv, SleepTypes, ProcInv, AtOp, At, Id
<1>2. done[p] + 1 \in 1 .. Len(uops[p]) BY <1>1 DEF AtOp
<1>3. CurOp(p) \in sembuf BY <1>1, <1>2 DEF CurOp
<1>4. CurOp(p).sem_num \in Nat BY <1>3, SemConstants DEF sembuf, Num
<1>5. CurOp(p).sem_num < sema[semid[p].slot].nsems
  BY <1>1, <1>2 DEF InRange, CurOp
<1>6. sema[semid[p].slot].base \in Nat /\ sema[semid[p].slot].nsems \in Nat
  BY <1>1, SemConstants DEF SInv, SleepTypes, Sem
<1>7. CurSem(p) \in SetOf(sema[semid[p].slot])
  BY <1>4, <1>5, <1>6 DEF CurSem, SemOf, SetOf
<1>8. SetOf(sema[semid[p].slot]) \subseteq Sem
  BY <1>1 DEF SInv, SetsInv, semconv
<1> QED BY <1>3, <1>7, <1>8

(* The operations of a process are operations.                             *)
LEMMA UopsType == ASSUME SleepTypes, NEW p \in Proc PROVE uops[p] \in Seq(sembuf)
<1>1. << >> \in Seq(sembuf) OBVIOUS
<1>2. uops[p] \in OpLists \cup {<< >>} BY DEF SleepTypes
<1> QED BY <1>1, <1>2, SemConstants

(* One operation is done.                                                  *)
LEMMA ApplyStep ==
    ASSUME SInv, NEW p \in Proc, NEW S, AtOp(p), Apply(p, S) PROVE SInv'
<1>1. SleepTypes /\ ProcInv(p) BY DEF SInv
<1>2. Gentle BY WakeupGentle DEF Apply
<1>3. uops[p] \in Seq(sembuf) BY <1>1, UopsType
<1>4. ProcInv(p)'
  BY <1>1, <1>3 DEF ProcInv, Apply, AtOp, At, Goto, SleepTypes, Inside, semconv, Issued,
     InRange, procvars
<1>5. done' \in [Proc -> Nat] /\ \A q \in Proc \ {p} : done'[q] = done[q]
  BY <1>1 DEF Apply, SleepTypes
<1> QED BY <1>1, <1>2, <1>4, <1>5, LocalStep
        DEF Apply, AtOp, At, Goto, SleepTypes, procvars

(* One turn of semop's loop over its operations: done, impossible, wrong.  *)
LEMMA OpActions ==
    ASSUME SInv, NEW p \in Proc,
           \/ OpUp(p) \/ OpDown(p) \/ OpZero(p) \/ OpBlocks(p) \/ OpFails(p)
    PROVE  SInv'
<1> USE DEF Inside, semconv, InRange, SetOf, Issued, procvars
<1>1. SleepTypes /\ ProcInv(p) BY DEF SInv
<1>2. AtOp(p) BY DEF OpUp, OpDown, OpZero, OpBlocks, OpFails
<1>3. uops[p] \in Seq(sembuf) BY <1>1, UopsType
<1>4. CASE OpUp(p) BY <1>2, <1>4, ApplyStep DEF OpUp
<1>5. CASE OpDown(p) BY <1>2, <1>5, ApplyStep DEF OpDown
<1>6. CASE OpZero(p)
  <2>1. ProcInv(p)' BY <1>1, <1>3, <1>6 DEF ProcInv, OpZero, AtOp, At, Goto, SleepTypes
  <2>2. Gentle BY <1>6, UnchangedGentle DEF OpZero
  <2>3. done' \in [Proc -> Nat] /\ \A q \in Proc \ {p} : done'[q] = done[q]
    BY <1>1, <1>6 DEF OpZero, SleepTypes
  <2> QED BY <1>1, <1>6, <2>1, <2>2, <2>3, LocalStep DEF OpZero, AtOp, At, Goto, SleepTypes
<1>7. CASE OpBlocks(p)
  <2>1. CurSem(p) \in Sem /\ CurSem(p) \in SetOf(sema[semid[p].slot])
    BY <1>2, CurSemIn
  <2>2. semp'[p] # NoChan => semp'[p] \in Chan /\ semp'[p][1] = CurSem(p)
    BY <1>1, <1>7, <2>1 DEF OpBlocks, Chan, SleepTypes
  <2>3. semp' \in [Proc -> Chan \cup {NoChan}]
    BY <1>1, <1>7, <2>1, <2>2 DEF OpBlocks, SleepTypes
  <2>4. ProcInv(p)'
    BY <1>1, <1>3, <1>7, <2>1, <2>2 DEF ProcInv, OpBlocks, AtOp, At, Goto, SleepTypes
  <2>5. Gentle BY <1>7, UnchangedGentle DEF OpBlocks
  <2> QED BY <1>1, <1>7, <2>3, <2>4, <2>5, LocalStep
          DEF OpBlocks, AtOp, At, Goto, SleepTypes
<1>8. CASE OpFails(p)
  <2>1. ProcInv(p)' BY <1>1, <1>3, <1>8 DEF ProcInv, OpFails, AtOp, At, Goto, SleepTypes
  <2>2. Gentle BY <1>8, UnchangedGentle DEF OpFails
  <2> QED BY <1>1, <1>8, <2>1, <2>2, LocalStep DEF OpFails, AtOp, At, Goto, SleepTypes
<1> QED BY <1>4, <1>5, <1>6, <1>7, <1>8

(* The steps of semop between its operations.                              *)
LEMMA LoopActions ==
    ASSUME SInv, NEW p \in Proc,
           Start(p) \/ Check(p) \/ UndoOp(p) \/ UndoneSleeps(p) \/ Retry(p)
    PROVE  SInv'
<1> USE DEF Inside, semconv, InRange, SetOf, Issued, procvars
<1>1. SleepTypes /\ ProcInv(p) BY DEF SInv
<1>2. uops[p] \in Seq(sembuf) BY <1>1, UopsType
<1>3. CASE Start(p)
  <2>1. ProcInv(p)' BY <1>1, <1>2, <1>3 DEF ProcInv, Start, At, Goto, SleepTypes
  <2>2. Gentle BY <1>3, UnchangedGentle DEF Start
  <2> QED BY <1>1, <1>3, <2>1, <2>2, LocalStep DEF Start, At, Goto, SleepTypes
<1>4. CASE Check(p)
  <2>1. ProcInv(p)' BY <1>1, <1>2, <1>4 DEF ProcInv, Check, Removed, At, Goto, SleepTypes
  <2>2. Gentle BY <1>4, UnchangedGentle DEF Check
  <2> QED BY <1>1, <1>4, <2>1, <2>2, LocalStep DEF Check, At, Goto, SleepTypes
<1>5. CASE UndoOp(p)
  <2>1. /\ done' \in [Proc -> Nat] /\ \A q \in Proc \ {p} : done'[q] = done[q]
        /\ done'[p] < done[p]
    BY <1>1, <1>5 DEF UndoOp, SleepTypes
  <2>2. Len(uops[p]) \in Nat BY <1>2
  <2>3. ProcInv(p)' BY <1>1, <1>5, <2>1, <2>2 DEF ProcInv, UndoOp, At, Goto, SleepTypes
  <2>4. Gentle BY <1>5, UnchangedGentle DEF UndoOp
  <2> QED BY <1>1, <1>5, <2>1, <2>3, <2>4, LocalStep DEF UndoOp, At, Goto, SleepTypes
<1>6. CASE UndoneSleeps(p)
  <2>1. semp[p] \in Chan BY <1>1, <1>6 DEF UndoneSleeps, SleepTypes
  <2>2. cnt' \in [Chan -> Nat] /\ \A c \in Chan : cnt'[c] >= cnt[c]
    BY <1>1, <1>6, <2>1 DEF UndoneSleeps, SleepTypes
  <2>3. cnt'[semp[p]] > 0 BY <1>1, <1>6, <2>1 DEF UndoneSleeps, SleepTypes
  <2>4. /\ wchan' \in [Proc -> Chan \cup {NoChan}]
        /\ wchan'[p] \in {semp[p], NoChan}
        /\ \A q \in Proc \ {p} : wchan'[q] = wchan[q]
    BY <1>1, <1>6, <2>1 DEF UndoneSleeps, At, SleepTypes
  <2>5. SleepTypes' BY <1>1, <1>6, <2>2, <2>4 DEF UndoneSleeps, At, SleepTypes
  <2>6. ProcInv(p)' BY <1>1, <1>6 DEF ProcInv, UndoneSleeps, At, SleepTypes
  <2>7. SleeperInv(p)'
    BY <1>1, <1>6, <2>3, <2>4 DEF SleeperInv, ProcInv, UndoneSleeps, At, SleepTypes
  <2>8. ASSUME NEW q \in Proc \ {p}
        PROVE  /\ wchan'[q] # NoChan => wchan'[q] = wchan[q] /\ cnt'[wchan[q]] > 0
               /\ pc'[q] = pc[q]
    <3>1. SleeperInv(q) BY DEF SInv
    <3>2. wchan[q] \in Chan \cup {NoChan} /\ cnt \in [Chan -> Nat]
      BY <1>1 DEF SleepTypes
    <3>3. pc'[q] = pc[q] BY <1>1, <1>6 DEF UndoneSleeps, SleepTypes
    <3> QED BY <2>2, <2>4, <3>1, <3>2, <3>3 DEF SleeperInv
  <2> QED BY <1>6, <2>5, <2>6, <2>7, <2>8, OwnStep DEF UndoneSleeps, At
<1>7. CASE Retry(p)
  <2>1. ProcInv(p)' BY <1>1, <1>2, <1>7 DEF ProcInv, Retry, At, Goto, SleepTypes
  <2>2. Gentle BY <1>7, UnchangedGentle DEF Retry
  <2> QED BY <1>1, <1>7, <2>1, <2>2, LocalStep DEF Retry, At, Goto, SleepTypes
<1> QED BY <1>3, <1>4, <1>5, <1>6, <1>7

(* semop and SETALL are entered.                                           *)
LEMMA EnterActions ==
    ASSUME SInv, ~AllocSleeps, NEW p \in Proc, NEW d \in Id,
           semctl_SETALL(p, d) \/ \E ops \in OpLists : semop(p, d, ops)
    PROVE  SInv'
<1>1. SleepTypes /\ ProcInv(p) BY DEF SInv
<1>2. CASE semctl_SETALL(p, d)
  <2>1. ProcInv(p)'
    BY <1>1, <1>2 DEF ProcInv, semctl_SETALL, At, SleepTypes, Inside, semconv, Issued
  <2>2. Gentle BY <1>2, UnchangedGentle DEF semctl_SETALL
  <2> QED BY <1>1, <1>2, <2>1, <2>2, LocalStep DEF semctl_SETALL, At, SleepTypes
<1>3. ASSUME NEW ops \in OpLists, semop(p, d, ops) PROVE SInv'
  <2>1. ProcInv(p)'
    BY <1>1, <1>3 DEF ProcInv, semop, At, SleepTypes, Inside, semconv, Issued
  <2>2. Gentle BY <1>3, UnchangedGentle DEF semop
  <2>3. semid' \in [Proc -> Id] /\ \A q \in Proc \ {p} : semid'[q] = semid[q]
    BY <1>1, <1>3 DEF semop, SleepTypes
  <2>4. /\ uops' \in [Proc -> OpLists \cup {<< >>}]
        /\ \A q \in Proc \ {p} : uops'[q] = uops[q]
    BY <1>1, <1>3 DEF semop, SleepTypes
  <2> QED BY <1>1, <1>3, <2>1, <2>2, <2>3, <2>4, LocalStep DEF semop, At, SleepTypes
<1> QED BY <1>2, <1>3

-----------------------------------------------------------------------------
(* semctl and semexit wake processes and change no process otherwise.      *)
LEMMA WakeStep ==
    ASSUME SInv, Gentle, UNCHANGED <<cpu, pc, procvars, done, sema, semmap>>
    PROVE  SInv'
<1>1. SleepTypes' BY DEF SInv, SleepTypes, Gentle, procvars
<1>2. SetsInv' BY DEF SInv, SetsInv, SetOf
<1>3. ASSUME NEW q \in Proc PROVE ProcInv(q)' /\ SleeperInv(q)'
  <2>1. ProcInv(q) /\ SleeperInv(q) BY DEF SInv
  <2> QED BY <2>1 DEF ProcInv, SleeperInv, Gentle, procvars, semconv, InRange, SetOf,
     Issued
<1> QED BY <1>1, <1>2, <1>3 DEF SInv

(* A new set: its header was nobody's.                                     *)
LEMMA SemgetStep ==
    ASSUME SInv, NEW p \in Proc, NEW h \in Slot, NEW n \in SetSizes, NEW b \in Sem,
           semget(p, h, n, b)
    PROVE  SInv'
<1>1. SleepTypes BY DEF SInv
<1>2. n \in Nat \ {0} BY SemConstants
<1>3. /\ sema'[h] = [alloc |-> TRUE, seq |-> sema[h].seq, base |-> b, nsems |-> n]
      /\ sema' = [sema EXCEPT ![h] = sema'[h]]
      /\ \A k \in Slot \ {h} : sema'[k] = sema[k]
      /\ sema' \in [Slot -> [alloc : BOOLEAN, seq : 0 .. MaxSeq, base : Sem, nsems : Nat]]
  <2>1. sema[h] \in [alloc : BOOLEAN, seq : 0 .. MaxSeq, base : Sem, nsems : Nat]
    BY <1>1 DEF SleepTypes
  <2>2. sema'[h] = [alloc |-> TRUE, seq |-> sema[h].seq, base |-> b, nsems |-> n]
    BY <1>1, <2>1 DEF SleepTypes, semget
  <2>3. /\ sema' = [sema EXCEPT ![h] = sema'[h]]
        /\ \A k \in Slot \ {h} : sema'[k] = sema[k]
    BY <1>1 DEF SleepTypes, semget
  <2>4. sema'[h] \in [alloc : BOOLEAN, seq : 0 .. MaxSeq, base : Sem, nsems : Nat]
    BY <1>2, <2>1, <2>2
  <2> QED BY <1>1, <2>2, <2>3, <2>4 DEF SleepTypes
<1>4. SleepTypes' BY <1>1, <1>3 DEF SleepTypes, semget, procvars
<1>5. SetsInv'
  <2>1. SetOf(sema'[h]) \subseteq Sem BY <1>1, <1>3 DEF semget, SleepTypes, SetOf
  <2> QED BY <1>3, <2>1 DEF SInv, SetsInv, SetOf
<1>6. ASSUME NEW q \in Proc PROVE ProcInv(q)' /\ SleeperInv(q)'
  <2>1. ProcInv(q) /\ SleeperInv(q) BY DEF SInv
  <2>2. semid[q].slot \in Slot BY <1>1 DEF SleepTypes, Id
  <2>3. semid' = semid /\ semp' = semp /\ pc' = pc /\ uops' = uops /\ done' = done
        /\ cpu' = cpu /\ wchan' = wchan /\ cnt' = cnt
    BY DEF semget, procvars
  <2>4. CASE semid[q].slot # h
    BY <1>3, <2>1, <2>2, <2>3, <2>4
    DEF ProcInv, SleeperInv, semconv, InRange, SetOf, Issued
  <2>5. CASE semid[q].slot = h
    <3>1. ~semconv(semid[q]) BY <2>5 DEF semget, semconv
    <3>2. pc[q] # "user" => semid[q].seq < sema[h].seq
      BY <2>1, <2>5, <3>1 DEF ProcInv, Issued
    <3>3. semid[q].seq \in Nat /\ sema[h].seq \in Nat
      <4>1. semid[q].seq \in 0 .. MaxSeq BY <1>1 DEF SleepTypes, Id
      <4>2. sema[h].seq \in 0 .. MaxSeq BY <1>1 DEF SleepTypes
      <4> QED BY <4>1, <4>2, SemConstants
    <3>4. pc[q] # "user" => ~semconv(semid[q])' /\ Issued(semid[q])'
      BY <1>3, <2>3, <2>5, <3>2, <3>3 DEF semconv, Issued
    <3>5. pc[q] = "user" => ProcInv(q)' BY <2>1, <2>3 DEF ProcInv, Inside
    <3>6. pc[q] # "user" => ProcInv(q)' BY <2>1, <2>3, <3>1, <3>4 DEF ProcInv
    <3>7. SleeperInv(q)' BY <2>1, <2>3, <3>1 DEF SleeperInv
    <3> QED BY <3>5, <3>6, <3>7
  <2> QED BY <2>4, <2>5
<1> QED BY <1>4, <1>5, <1>6 DEF SInv

(* A set is removed: whoever slept for one of its semaphores is awake, and *)
(* nobody else is in the middle of a semop.                                *)
LEMMA RmidStep ==
    ASSUME SInv, NEW p \in Proc, NEW d \in Id, semctl_RMID(p, d)
    PROVE  SInv'
<1> DEFINE s == d.slot
           h == sema[s]
<1>1. SleepTypes /\ s \in Slot BY DEF SInv, Id
<1>2. Gentle BY WakeupGentle DEF semctl_RMID
<1>3. /\ semid' = semid /\ semp' = semp /\ pc' = pc /\ uops' = uops /\ done' = done
      /\ cpu' = cpu /\ semmap' = semmap \cup SetOf(h)
  BY DEF semctl_RMID, procvars
<1>4. /\ h \in [alloc : BOOLEAN, seq : 0 .. MaxSeq, base : Sem, nsems : Nat]
      /\ h.seq < MaxSeq /\ h.alloc /\ h.seq = d.seq
  BY <1>1 DEF SleepTypes, semctl_RMID, semconv
<1>5. sema'[s] = [alloc |-> FALSE, seq |-> h.seq + 1, base |-> h.base, nsems |-> h.nsems]
  BY <1>1, <1>4 DEF SleepTypes, semctl_RMID
<1>6. sema' = [sema EXCEPT ![s] = sema'[s]] /\ \A k \in Slot \ {s} : sema'[k] = sema[k]
  BY <1>1 DEF SleepTypes, semctl_RMID
<1>7. h.seq + 1 \in 0 .. MaxSeq BY <1>4, SemConstants
<1>8. sema' \in [Slot -> [alloc : BOOLEAN, seq : 0 .. MaxSeq, base : Sem, nsems : Nat]]
  <2>1. sema'[s] \in [alloc : BOOLEAN, seq : 0 .. MaxSeq, base : Sem, nsems : Nat]
    BY <1>4, <1>5, <1>7
  <2> QED BY <1>1, <1>6, <2>1 DEF SleepTypes
<1>9. SetOf(h) \subseteq Sem BY <1>1, <1>4 DEF SInv, SetsInv
<1>10. SleepTypes' BY <1>1, <1>2, <1>3, <1>8, <1>9 DEF SleepTypes, Gentle
<1>11. SetsInv' BY <1>1, <1>5, <1>6 DEF SInv, SetsInv, SetOf
<1>12. ASSUME NEW q \in Proc PROVE ProcInv(q)' /\ SleeperInv(q)'
  <2>1. ProcInv(q) /\ SleeperInv(q) BY DEF SInv
  <2>2. semid[q].slot \in Slot BY <1>1 DEF SleepTypes, Id
  <2>3. CASE semid[q].slot # s
    BY <1>2, <1>3, <1>6, <2>1, <2>2, <2>3
    DEF ProcInv, SleeperInv, Gentle, semconv, InRange, SetOf, Issued
  <2>4. CASE semid[q].slot = s
    <3>1. pc[q] \in {"user", "asleep"}
      <4>1. pc[q] \in Inside => cpu = q BY <2>1 DEF ProcInv
      <4>2. pc[p] = "user" /\ cpu \in {p, NoProc} BY DEF semctl_RMID, At
      <4>3. q # NoProc BY SemConstants
      <4> QED BY <1>1, <4>1, <4>2, <4>3 DEF SleepTypes, Inside
    <3>2. ~semconv(semid[q])' BY <1>3, <1>5, <2>4 DEF semconv
    <3>3. semid[q].seq \in Nat /\ h.seq \in Nat
      <4>1. semid[q].seq \in 0 .. MaxSeq BY <1>1 DEF SleepTypes, Id
      <4>2. h.seq \in 0 .. MaxSeq BY <1>4
      <4> QED BY <4>1, <4>2, SemConstants
    <3>4. pc[q] # "user" => Issued(semid[q])'
      BY <1>3, <1>5, <2>1, <2>4, <3>3 DEF ProcInv, Issued, semconv
    <3>5. ProcInv(q)'
      BY <1>3, <2>1, <3>1, <3>2, <3>4 DEF ProcInv, Inside
    <3>6. wchan'[q] = NoChan
      <4>1. CASE wchan[q] = NoChan BY <4>1, <1>2 DEF Gentle
      <4>2. CASE wchan[q] # NoChan
        <5>1. /\ wchan[q] = semp[q] /\ semconv(semid[q]) /\ cnt[wchan[q]] > 0
              /\ pc[q] = "asleep"
          BY <2>1, <4>2 DEF SleeperInv
        <5>2. wchan[q] \in Chan /\ wchan[q][1] \in SetOf(h)
          BY <1>1, <2>1, <2>4, <4>2, <5>1 DEF ProcInv, SleepTypes
        <5>3. wchan[q] \in RmidChans(h) BY <5>2 DEF RmidChans, Chan
        <5>4. cnt[wchan[q]] # 0 BY <1>1, <5>1, <5>2 DEF SleepTypes
        <5> QED BY <5>3, <5>4 DEF semctl_RMID, Wakeup
      <4> QED BY <4>1, <4>2
    <3> QED BY <3>5, <3>6 DEF SleeperInv
  <2> QED BY <2>3, <2>4
<1> QED BY <1>10, <1>11, <1>12 DEF SInv

(* A process returns from sleep early, or a signal gets it out of it.      *)
LEMMA EarlyActions ==
    ASSUME SInv, NEW p \in Proc, Signal(p) \/ Premature(p) PROVE SInv'
<1>1. SleepTypes BY DEF SInv
<1>2. wchan' = [wchan EXCEPT ![p] = NoChan] /\ cnt' = cnt
  BY DEF Signal, Premature
<1>3. \A q \in Proc : wchan'[q] # NoChan => wchan'[q] = wchan[q] /\ cnt[wchan[q]] > 0
  BY <1>1, <1>2 DEF SInv, SleeperInv, SleepTypes
<1>4. Gentle BY <1>1, <1>2, <1>3 DEF Gentle, SleepTypes
<1> QED BY <1>4, WakeStep DEF Signal, Premature

-----------------------------------------------------------------------------
(* seminit: nobody is in semop and there are no sets.                      *)
THEOREM InitSInv == Init => SInv
<1> SUFFICES ASSUME Init PROVE SInv OBVIOUS
<1>1. SleepTypes
  <2>1. 1 \in Sem /\ 0 \in 0 .. MaxSeq BY SemConstants DEF Sem
  <2> QED BY <2>1, NoIdType, SemConstants DEF Init, SleepTypes
<1>2. SetsInv BY DEF Init, SetsInv
<1>3. \A p \in Proc : ProcInv(p) /\ SleeperInv(p)
  BY DEF Init, ProcInv, SleeperInv, Inside
<1> QED BY <1>1, <1>2, <1>3 DEF SInv

(* Every step of semget, semctl, semop and semexit, every signal and every *)
(* early return from sleep preserves the invariant.                        *)
THEOREM NextSInv == ASSUME ~AllocSleeps PROVE SInv /\ [Next]_vars => SInv'
<1> SUFFICES ASSUME SInv, [Next]_vars PROVE SInv' OBVIOUS
<1>1. CASE UNCHANGED vars
  BY <1>1, UnchangedGentle, WakeStep DEF vars
<1>2. ASSUME NEW p \in Proc, UserStep(p) PROVE SInv'
  <2>1. ASSUME NEW h \in Slot, NEW n \in SetSizes, NEW b \in Sem, semget(p, h, n, b)
        PROVE  SInv'
    BY <2>1, SemgetStep
  <2>2. ASSUME NEW d \in Id, semctl_RMID(p, d) PROVE SInv' BY <2>2, RmidStep
  <2>3. ASSUME NEW d \in Id, NEW num \in Num, NEW v \in SetVals,
               semctl_SETVAL(p, d, num, v)
        PROVE  SInv'
    BY <2>3, WakeupGentle, WakeStep DEF semctl_SETVAL
  <2>4. ASSUME NEW d \in Id, semctl_SETALL(p, d) PROVE SInv' BY <2>4, EnterActions
  <2>5. ASSUME NEW d \in Id, NEW ops \in OpLists, semop(p, d, ops) PROVE SInv'
    BY <2>5, EnterActions
  <2>6. CASE semexit(p) BY <2>6, WakeupGentle, WakeStep DEF semexit
  <2> QED BY <1>2, <2>1, <2>2, <2>3, <2>4, <2>5, <2>6 DEF UserStep
<1>3. ASSUME NEW p \in Proc, KernelStep(p) PROVE SInv'
  BY <1>3, ReturnActions, OpActions, LoopActions DEF KernelStep
<1>4. ASSUME NEW p \in Proc, Signal(p) \/ Premature(p) PROVE SInv'
  BY <1>4, EarlyActions
<1> QED BY <1>1, <1>2, <1>3, <1>4 DEF Next

(* Ids, sleepers and their counts are consistent in every state, for any   *)
(* number of processes and sets, when kmem_alloc and copyin do not sleep   *)
(* under semop and SETALL.                                                 *)
THEOREM SInductive == ASSUME ~AllocSleeps PROVE Spec => []SInv
BY InitSInv, NextSInv, PTL DEF Spec

(* No sleeper in semop is forgotten: its count is not 0, in spite of the   *)
(* resets by wakers and of the correction an interrupted sleeper makes,    *)
(* and IPC_RMID leaves nobody asleep on a removed set.                     *)
THEOREM NoSleeperForgotten == ASSUME ~AllocSleeps PROVE Spec => []SleepersCounted
<1>1. SInv => SleepersCounted
  BY DEF SInv, SleeperInv, ProcInv, SleepersCounted
<1> QED BY <1>1, SInductive, PTL

(* semop works on the semaphores of its own set only: looking the id up    *)
(* again after each sleep is enough, when nothing else sleeps.             *)
THEOREM OwnSet == ASSUME ~AllocSleeps PROVE Spec => []OwnSetOnly
<1>1. SInv => OwnSetOnly BY DEF SInv, ProcInv, OwnSetOnly
<1> QED BY <1>1, SInductive, PTL

-----------------------------------------------------------------------------
(* The undo structures                                                     *)

KeysOf(e) == {k \in UndoKey : e[k] # 0}

UndoTypes ==
    /\ sem_undo \in [Proc -> Undo \cup {NoUndo}]
    /\ un_ent \in [Undo -> [UndoKey -> -SEMAEM .. SEMAEM]]
    /\ semunp \subseteq Undo /\ semfup \subseteq Undo
    /\ \A u \in Undo : IsFiniteSet(KeysOf(un_ent[u]))

UndoInv == UndoTypes /\ UndoPool

(* A structure is empty if and only if it counts no entries.               *)
LEMMA EmptyKeys ==
    ASSUME NEW e \in [UndoKey -> -SEMAEM .. SEMAEM]
    PROVE  /\ e = NoEntries <=> KeysOf(e) = {}
           /\ IsFiniteSet(KeysOf(e)) => (e = NoEntries <=> Cardinality(KeysOf(e)) = 0)
<1>1. e = NoEntries => KeysOf(e) = {} BY DEF NoEntries, KeysOf
<1>2. ASSUME KeysOf(e) = {} PROVE e = NoEntries
  <2>1. \A k \in UndoKey : e[k] = 0 BY <1>2 DEF KeysOf
  <2> QED BY <2>1 DEF NoEntries
<1> QED BY <1>1, <1>2, FS_EmptySet

(* Fewer entries are still finitely many, and no more.                     *)
LEMMA FewerKeys ==
    ASSUME NEW e, NEW f, IsFiniteSet(KeysOf(e)), KeysOf(f) \subseteq KeysOf(e),
           Cardinality(KeysOf(e)) <= SEMUME
    PROVE  IsFiniteSet(KeysOf(f)) /\ Cardinality(KeysOf(f)) <= SEMUME
<1>1. IsFiniteSet(KeysOf(f)) /\ Cardinality(KeysOf(f)) <= Cardinality(KeysOf(e))
  BY FS_Subset
<1>2. Cardinality(KeysOf(f)) \in Nat /\ Cardinality(KeysOf(e)) \in Nat
  BY <1>1, FS_CardinalityType
<1> QED BY <1>1, <1>2, SemConstants

(* A step that leaves the undo structures and removes no set.              *)
LEMMA UndoFrame ==
    ASSUME UndoInv, UNCHANGED undovars,
           \A d \in Id : semconv(d) => semconv(d)'
    PROVE  UndoInv'
<1>1. UndoTypes' BY DEF UndoInv, UndoTypes, undovars
<1>2. \A u \in Undo, k \in UndoKey : un_ent'[u][k] # 0 => semconv(k[1])'
  BY DEF UndoInv, UndoPool, undovars, UndoKey
<1>3. \A u \in Undo : un_cnt(u)' <= SEMUME
  BY DEF UndoInv, UndoPool, undovars, un_cnt
<1> QED BY <1>1, <1>2, <1>3 DEF UndoInv, UndoPool, undovars

(* An operation, or its undoing, is entered for a set that exists.         *)
LEMMA SemaoeStep ==
    ASSUME UndoInv, NEW p \in Proc, NEW val \in Int, NEW k \in UndoKey,
           semconv(k[1]), UNCHANGED sema,
           ~SemaoeFails(p, val, k), semaoe(p, val, k)
    PROVE  UndoInv'
<1> DEFINE R == -SEMAEM .. SEMAEM
<1>1. UndoTypes /\ UndoPool BY DEF UndoInv
<1>2. PICK u \in IF sem_undo[p] = NoUndo THEN semfup ELSE {sem_undo[p]} :
         /\ sem_undo' = [sem_undo EXCEPT ![p] = u]
         /\ semfup' = semfup \ {u}
         /\ un_ent' = [un_ent EXCEPT ![u][k] = @ - val]
         /\ semunp' = IF un_ent'[u] = NoEntries THEN semunp \ {u} ELSE Linked(u, k)
  BY DEF semaoe
<1>3. u \in Undo BY <1>1, <1>2 DEF UndoTypes
<1> DEFINE e == un_ent[u]
           f == un_ent'[u]
<1>4. e \in [UndoKey -> R] /\ IsFiniteSet(KeysOf(e)) /\ Cardinality(KeysOf(e)) <= SEMUME
  BY <1>1, <1>3 DEF UndoTypes, UndoPool, un_cnt, KeysOf
<1>5. /\ un_ent' = [un_ent EXCEPT ![u] = f]
      /\ f = [e EXCEPT ![k] = e[k] - val]
  BY <1>1, <1>2, <1>3 DEF UndoTypes
<1>6. f[k] \in R /\ (e[k] = 0 => Cardinality(KeysOf(e)) < SEMUME)
  <2>1. CASE sem_undo[p] = NoUndo
    <3>1. u \in semfup BY <1>2, <2>1
    <3>2. e = NoEntries BY <1>1, <1>3, <3>1 DEF UndoPool
    <3>3. e[k] = 0 /\ Cardinality(KeysOf(e)) = 0
      BY <1>4, <3>2, EmptyKeys DEF NoEntries
    <3>4. val \in R BY DEF SemaoeFails
    <3> QED BY <1>4, <1>5, <3>3, <3>4, SemConstants
  <2>2. CASE sem_undo[p] # NoUndo
    <3>1. u = sem_undo[p] BY <1>2, <2>2
    <3>2. Cardinality(KeysOf(e)) = un_cnt(u) /\ Cardinality(KeysOf(e)) \in Nat
      BY <1>4, FS_CardinalityType DEF un_cnt, KeysOf
    <3>3. val \in R BY DEF SemaoeFails
    <3>4. CASE e[k] = 0
      BY <1>4, <1>5, <2>2, <3>1, <3>2, <3>3, <3>4, SemConstants DEF SemaoeFails
    <3>5. CASE e[k] # 0
      BY <1>4, <1>5, <2>2, <3>1, <3>5, SemConstants DEF SemaoeFails
    <3> QED BY <3>4, <3>5
  <2> QED BY <2>1, <2>2
<1>7. f \in [UndoKey -> R] BY <1>4, <1>5, <1>6
<1>8. IsFiniteSet(KeysOf(f)) /\ Cardinality(KeysOf(f)) <= SEMUME
  <2>1. KeysOf(f) \subseteq KeysOf(e) \cup {k} BY <1>4, <1>5 DEF KeysOf
  <2>2. CASE e[k] # 0
    <3>1. KeysOf(f) \subseteq KeysOf(e) BY <2>1, <2>2 DEF KeysOf
    <3> QED BY <1>4, <3>1, FewerKeys
  <2>3. CASE e[k] = 0
    <3>1. k \notin KeysOf(e) BY <2>3 DEF KeysOf
    <3>2. /\ IsFiniteSet(KeysOf(e) \cup {k})
          /\ Cardinality(KeysOf(e) \cup {k}) = Cardinality(KeysOf(e)) + 1
      BY <1>4, <3>1, FS_AddElement
    <3>3. /\ IsFiniteSet(KeysOf(f))
          /\ Cardinality(KeysOf(f)) <= Cardinality(KeysOf(e) \cup {k})
      BY <2>1, <3>2, FS_Subset
    <3>4. Cardinality(KeysOf(f)) \in Nat /\ Cardinality(KeysOf(e)) \in Nat
      BY <1>4, <3>3, FS_CardinalityType
    <3> QED BY <1>6, <2>3, <3>2, <3>3, <3>4, SemConstants
  <2> QED BY <2>2, <2>3
<1>9. \A w \in Undo : w # u => un_ent'[w] = un_ent[w] BY <1>1, <1>5 DEF UndoTypes
<1>10. semunp' = {w \in Undo : un_ent'[w] # NoEntries}
  <2>1. semunp = {w \in Undo : un_ent[w] # NoEntries} BY <1>1 DEF UndoPool
  <2>2. Linked(u, k) = semunp \cup {u}
    <3>1. un_cnt(u) = 0 => e = NoEntries BY <1>4, EmptyKeys DEF un_cnt, KeysOf
    <3>2. e[k] # 0 => e # NoEntries BY DEF NoEntries
    <3>3. e # NoEntries => u \in semunp BY <1>3, <2>1
    <3>4. e = NoEntries => e[k] = 0 /\ un_cnt(u) = 0
      BY <1>4, EmptyKeys DEF un_cnt, KeysOf, NoEntries
    <3> QED BY <3>1, <3>2, <3>3, <3>4 DEF Linked
  <2> QED BY <1>2, <1>3, <1>9, <2>1, <2>2
<1>11. UndoTypes'
  <2>1. un_ent' \in [Undo -> [UndoKey -> R]] BY <1>1, <1>3, <1>5, <1>7 DEF UndoTypes
  <2>2. \A w \in Undo : IsFiniteSet(KeysOf(un_ent'[w]))
    BY <1>1, <1>8, <1>9 DEF UndoTypes
  <2>3. sem_undo' \in [Proc -> Undo \cup {NoUndo}] BY <1>1, <1>2, <1>3 DEF UndoTypes
  <2>4. semunp' \subseteq Undo /\ semfup' \subseteq Undo
    BY <1>1, <1>2, <1>10 DEF UndoTypes
  <2> QED BY <2>1, <2>2, <2>3, <2>4 DEF UndoTypes, KeysOf
<1>12. /\ \A w \in Undo : w \in semfup' <=> \A q \in Proc : sem_undo'[q] # w
       /\ \A q, r \in Proc :
             sem_undo'[q] = sem_undo'[r] /\ sem_undo'[q] # NoUndo => q = r
  <2>1. \A q \in Proc : sem_undo'[q] = IF q = p THEN u ELSE sem_undo[q]
    BY <1>1, <1>2 DEF UndoTypes
  <2>2. CASE sem_undo[p] = NoUndo
    <3>1. u \in semfup BY <1>2, <2>2
    <3> QED BY <1>1, <1>2, <1>3, <2>1, <2>2, <3>1, SemConstants DEF UndoPool
  <2>3. CASE sem_undo[p] # NoUndo
    <3>1. u = sem_undo[p] BY <1>2, <2>3
    <3>2. u \notin semfup BY <1>1, <1>3, <3>1 DEF UndoPool
    <3>3. semfup' = semfup /\ \A q \in Proc : sem_undo'[q] = sem_undo[q]
      BY <1>2, <2>1, <3>1, <3>2
    <3> QED BY <1>1, <3>3 DEF UndoPool
  <2> QED BY <2>2, <2>3
<1>13. semunp' \cap semfup' = {}
  <2>1. semunp' \subseteq semunp \cup {u}
    <3>1. Linked(u, k) \subseteq semunp \cup {u} BY DEF Linked
    <3> QED BY <1>2, <3>1
  <2> QED BY <1>1, <1>2, <2>1 DEF UndoPool
<1>14. \A w \in Undo, j \in UndoKey : un_ent'[w][j] # 0 => semconv(j[1])'
  <2>1. \A d : semconv(d)' <=> semconv(d) BY DEF semconv
  <2>2. \A j \in UndoKey : j # k => f[j] = e[j] BY <1>4, <1>5
  <2> QED BY <1>1, <1>3, <1>9, <2>1, <2>2 DEF UndoPool
<1>15. ASSUME NEW w \in Undo PROVE un_cnt(w)' <= SEMUME
  <2>1. un_cnt(w)' = Cardinality(KeysOf(un_ent'[w])) BY DEF un_cnt, KeysOf
  <2>2. CASE w = u BY <1>8, <2>1, <2>2
  <2>3. CASE w # u BY <1>1, <1>9, <2>3 DEF UndoPool, un_cnt
  <2> QED BY <2>2, <2>3
<1> QED BY <1>10, <1>11, <1>12, <1>13, <1>14, <1>15 DEF UndoInv, UndoPool

(* Structures only lose entries, at least those of removed sets.           *)
LEMMA UndoShrinks ==
    ASSUME UndoInv,
           un_ent' \in [Undo -> [UndoKey -> -SEMAEM .. SEMAEM]],
           \A u \in Undo, k \in UndoKey :
              /\ un_ent'[u][k] # 0 => un_ent[u][k] # 0
              /\ un_ent'[u][k] # 0 /\ semconv(k[1]) => semconv(k[1])',
           semunp' = {u \in Undo : un_ent'[u] # NoEntries}
    PROVE  /\ \A u \in Undo : IsFiniteSet(KeysOf(un_ent'[u]))
           /\ \A u \in Undo : un_cnt(u)' <= SEMUME
           /\ \A u \in Undo, k \in UndoKey : un_ent'[u][k] # 0 => semconv(k[1])'
           /\ semunp' \subseteq semunp
<1>1. ASSUME NEW u \in Undo
      PROVE  /\ IsFiniteSet(KeysOf(un_ent'[u])) /\ un_cnt(u)' <= SEMUME
             /\ un_ent'[u] # NoEntries => u \in semunp
  <2>1. KeysOf(un_ent'[u]) \subseteq KeysOf(un_ent[u]) BY DEF KeysOf
  <2>2. /\ IsFiniteSet(KeysOf(un_ent[u])) /\ Cardinality(KeysOf(un_ent[u])) <= SEMUME
        /\ un_ent[u] \in [UndoKey -> -SEMAEM .. SEMAEM]
        /\ un_ent'[u] \in [UndoKey -> -SEMAEM .. SEMAEM]
    BY DEF UndoInv, UndoTypes, UndoPool, un_cnt, KeysOf
  <2>3. un_cnt(u)' = Cardinality(KeysOf(un_ent'[u])) BY DEF un_cnt, KeysOf
  <2>4. IsFiniteSet(KeysOf(un_ent'[u])) /\ Cardinality(KeysOf(un_ent'[u])) <= SEMUME
    BY <2>1, <2>2, FewerKeys
  <2>5. un_ent'[u] # NoEntries => KeysOf(un_ent[u]) # {} BY <2>1, <2>2, EmptyKeys
  <2>6. KeysOf(un_ent[u]) # {} => un_ent[u] # NoEntries BY <2>2, EmptyKeys
  <2>7. un_ent[u] # NoEntries => u \in semunp BY DEF UndoInv, UndoPool
  <2> QED BY <2>3, <2>4, <2>5, <2>6, <2>7
<1>2. \A u \in Undo, k \in UndoKey : un_ent'[u][k] # 0 => semconv(k[1])'
  BY DEF UndoInv, UndoPool
<1> QED BY <1>1, <1>2

(* semunrm takes the entries of a removed or overwritten semaphore out.    *)
LEMMA SemunrmStep ==
    ASSUME UndoInv, NEW K, semunrm(K),
           \A k \in UndoKey \ K : semconv(k[1]) => semconv(k[1])'
    PROVE  UndoInv'
<1>1. UndoTypes /\ UndoPool BY DEF UndoInv
<1>2. un_ent' \in [Undo -> [UndoKey -> -SEMAEM .. SEMAEM]]
  BY <1>1, SemConstants DEF semunrm, UndoTypes
<1>3. ASSUME NEW u \in Undo, NEW k \in UndoKey
      PROVE  /\ un_ent'[u][k] # 0 => un_ent[u][k] # 0
             /\ un_ent'[u][k] # 0 => k \notin K
  <2>1. CASE u \in semunp BY <2>1 DEF semunrm
  <2>2. CASE u \notin semunp
    <3>1. un_ent[u] = NoEntries BY <1>1, <2>2 DEF UndoPool
    <3>2. un_ent'[u][k] = 0 BY <2>2, <3>1 DEF semunrm, NoEntries
    <3> QED BY <3>2
  <2> QED BY <2>1, <2>2
<1>4. semunp' = {u \in Undo : un_ent'[u] # NoEntries}
  <2>1. semunp = {u \in Undo : un_ent[u] # NoEntries} BY <1>1 DEF UndoPool
  <2>2. \A u \in Undo \ semunp : un_ent'[u] = un_ent[u] BY DEF semunrm
  <2> QED BY <2>1, <2>2 DEF semunrm
<1>5. /\ \A u \in Undo : IsFiniteSet(KeysOf(un_ent'[u]))
      /\ \A u \in Undo : un_cnt(u)' <= SEMUME
      /\ \A u \in Undo, k \in UndoKey : un_ent'[u][k] # 0 => semconv(k[1])'
      /\ semunp' \subseteq semunp
  BY <1>2, <1>3, <1>4, UndoShrinks
<1>6. UndoTypes' BY <1>1, <1>2, <1>5 DEF UndoTypes, semunrm, KeysOf
<1> QED BY <1>1, <1>4, <1>5, <1>6 DEF UndoInv, UndoPool, semunrm

(* A process exits and its structure becomes free.                         *)
LEMMA SemexitUndo ==
    ASSUME UndoInv, NEW p \in Proc, semexit(p) PROVE UndoInv'
<1> DEFINE u == sem_undo[p]
<1>1. UndoTypes /\ UndoPool BY DEF UndoInv
<1>2. u \in Undo BY <1>1 DEF semexit, UndoTypes
<1>3. /\ un_ent' = [un_ent EXCEPT ![u] = NoEntries]
      /\ semunp' = semunp \ {u}
      /\ sem_undo' = [sem_undo EXCEPT ![p] = NoUndo]
      /\ semfup' = semfup \cup {u} /\ sema' = sema
  BY DEF semexit
<1>4. NoEntries \in [UndoKey -> -SEMAEM .. SEMAEM] BY SemConstants DEF NoEntries
<1>5. /\ un_ent' \in [Undo -> [UndoKey -> -SEMAEM .. SEMAEM]]
      /\ \A w \in Undo : un_ent'[w] = IF w = u THEN NoEntries ELSE un_ent[w]
  BY <1>1, <1>2, <1>3, <1>4 DEF UndoTypes
<1>6. semunp' = {w \in Undo : un_ent'[w] # NoEntries}
  BY <1>1, <1>3, <1>5 DEF UndoPool
<1>7. \A w \in Undo, k \in UndoKey : un_ent'[w][k] # 0 => un_ent[w][k] # 0
  BY <1>5 DEF NoEntries
<1>8. \A d : semconv(d)' <=> semconv(d) BY <1>3 DEF semconv
<1>9. /\ \A w \in Undo : IsFiniteSet(KeysOf(un_ent'[w]))
      /\ \A w \in Undo : un_cnt(w)' <= SEMUME
      /\ \A w \in Undo, k \in UndoKey : un_ent'[w][k] # 0 => semconv(k[1])'
      /\ semunp' \subseteq semunp
  BY <1>5, <1>6, <1>7, <1>8, UndoShrinks
<1>10. \A q \in Proc : sem_undo'[q] = IF q = p THEN NoUndo ELSE sem_undo[q]
  BY <1>1, <1>3 DEF UndoTypes
<1>11. UndoTypes' BY <1>1, <1>2, <1>3, <1>5, <1>9 DEF UndoTypes, KeysOf
<1>12. /\ \A w \in Undo : w \in semfup' <=> \A q \in Proc : sem_undo'[q] # w
       /\ \A q, r \in Proc :
             sem_undo'[q] = sem_undo'[r] /\ sem_undo'[q] # NoUndo => q = r
  <2>1. \A q, r \in Proc : sem_undo[q] = sem_undo[r] /\ sem_undo[q] # NoUndo => q = r
    BY <1>1 DEF UndoPool
  <2>2. u # NoUndo BY <1>2, SemConstants
  <2>3. \A q \in Proc : sem_undo'[q] # u BY <1>10, <2>1, <2>2
  <2>4. ASSUME NEW w \in Undo
        PROVE  w \in semfup' <=> \A q \in Proc : sem_undo'[q] # w
    <3>1. CASE w = u BY <1>3, <2>3, <3>1
    <3>2. CASE w # u
      <4>1. w # NoUndo BY SemConstants
      <4>2. w \in semfup <=> \A q \in Proc : sem_undo[q] # w BY <1>1 DEF UndoPool
      <4> QED BY <1>3, <1>10, <3>2, <4>1, <4>2
    <3> QED BY <3>1, <3>2
  <2> QED BY <1>10, <2>1, <2>4
<1>13. semunp' \cap semfup' = {} BY <1>1, <1>3 DEF UndoPool
<1> QED BY <1>6, <1>9, <1>11, <1>12, <1>13 DEF UndoInv, UndoPool

-----------------------------------------------------------------------------
(* What semop does to the undo structures.                                 *)
LEMMA SemopUndo ==
    ASSUME SInv, UndoInv, NEW p \in Proc,
           OpUp(p) \/ OpDown(p) \/ UndoOp(p)
    PROVE  UndoInv'
<1>1. SleepTypes /\ ProcInv(p) BY DEF SInv
<1>2. sema' = sema BY DEF OpUp, OpDown, UndoOp, Apply
<1>3. \A d : semconv(d)' <=> semconv(d) BY <1>2 DEF semconv
<1>4. semid[p] \in Id BY <1>1 DEF SleepTypes
<1>5. ASSUME AtOp(p), NEW S, Apply(p, S), ~UndoFails(p) PROVE UndoInv'
  <2>1. CurOp(p) \in sembuf BY <1>5, CurSemIn
  <2>2. CurKey(p) \in UndoKey /\ CurOp(p).sem_op \in Int /\ CurKey(p)[1] = semid[p]
    BY <1>4, <2>1 DEF sembuf, CurKey, UndoKey
  <2>3. semconv(CurKey(p)[1]) BY <1>1, <1>5, <2>2 DEF AtOp, At, ProcInv
  <2>4. CASE CurOp(p).SEM_UNDO
    BY <1>2, <1>5, <2>2, <2>3, <2>4, SemaoeStep DEF Apply, UndoFails
  <2>5. CASE ~CurOp(p).SEM_UNDO
    BY <1>3, <1>5, <2>5, UndoFrame DEF Apply
  <2> QED BY <2>4, <2>5
<1>6. CASE OpUp(p) BY <1>5, <1>6 DEF OpUp
<1>7. CASE OpDown(p) BY <1>5, <1>7 DEF OpDown
<1>8. CASE UndoOp(p)
  <2> DEFINE op == uops[p][done[p]]
             k == <<semid[p], op.sem_num>>
  <2>1. semundo(p, op) /\ pc[p] = "undo" /\ done[p] > 0 BY <1>8 DEF UndoOp, At
  <2>2. uops[p] \in Seq(sembuf) BY <1>1, UopsType
  <2>3. done[p] \in 1 .. Len(uops[p])
    BY <1>1, <2>1, <2>2 DEF ProcInv, SleepTypes
  <2>4. op \in sembuf BY <2>2, <2>3
  <2>5. op.sem_op \in Int /\ -op.sem_op \in Int /\ op.sem_num \in Num
    BY <2>4 DEF sembuf
  <2>6. k \in UndoKey /\ semconv(k[1]) BY <1>1, <1>4, <2>1, <2>5 DEF UndoKey, ProcInv
  <2>7. CASE UNCHANGED undovars BY <1>3, <2>7, UndoFrame
  <2>8. CASE ~SemaoeFails(p, -op.sem_op, k) /\ semaoe(p, -op.sem_op, k)
    BY <1>2, <2>5, <2>6, <2>8, SemaoeStep
  <2> QED BY <2>1, <2>7, <2>8 DEF semundo
<1> QED BY <1>6, <1>7, <1>8

(* Every step preserves the pool of undo structures: semaoe and semundo    *)
(* enter adjustments for sets that exist only, semunrm clears them with    *)
(* the set, semexit frees the structure.                                   *)
THEOREM NextUndo == SInv /\ UndoInv /\ [Next]_vars => UndoInv'
<1> SUFFICES ASSUME SInv, UndoInv, [Next]_vars PROVE UndoInv' OBVIOUS
<1>1. ASSUME UNCHANGED undovars, UNCHANGED sema PROVE UndoInv'
  BY <1>1, UndoFrame DEF semconv
<1>2. CASE UNCHANGED vars BY <1>1, <1>2 DEF vars
<1>3. ASSUME NEW p \in Proc, UserStep(p) PROVE UndoInv'
  <2>1. ASSUME NEW h \in Slot, NEW n \in SetSizes, NEW b \in Sem, semget(p, h, n, b)
        PROVE  UndoInv'
    <3>1. \A d \in Id : semconv(d) => semconv(d)'
      BY <2>1 DEF semget, semconv, SInv, SleepTypes, Id
    <3> QED BY <2>1, <3>1, UndoFrame DEF semget
  <2>2. ASSUME NEW d \in Id, semctl_RMID(p, d) PROVE UndoInv'
    <3>1. \A k \in UndoKey \ ({d} \X Num) : semconv(k[1]) => semconv(k[1])'
      <4>1. SUFFICES ASSUME NEW k \in UndoKey, k \notin {d} \X Num, semconv(k[1])
                     PROVE  semconv(k[1])'
        OBVIOUS
      <4>2. k[1] \in Id /\ k[1] # d BY <4>1 DEF UndoKey
      <4>3. k[1].slot # d.slot
        BY <2>2, <4>1, <4>2 DEF semctl_RMID, semconv, Id
      <4> QED BY <2>2, <4>1, <4>2, <4>3 DEF semctl_RMID, semconv, SInv, SleepTypes, Id
    <3> QED BY <2>2, <3>1, SemunrmStep DEF semctl_RMID
  <2>3. ASSUME NEW d \in Id, NEW num \in Num, NEW v \in SetVals,
               semctl_SETVAL(p, d, num, v)
        PROVE  UndoInv'
    <3>1. \A k : semconv(k[1])' <=> semconv(k[1]) BY <2>3 DEF semctl_SETVAL, semconv
    <3> QED BY <2>3, <3>1, SemunrmStep DEF semctl_SETVAL
  <2>4. ASSUME NEW d \in Id, semctl_SETALL(p, d) PROVE UndoInv'
    BY <1>1, <2>4 DEF semctl_SETALL
  <2>5. ASSUME NEW d \in Id, NEW ops \in OpLists, semop(p, d, ops) PROVE UndoInv'
    BY <1>1, <2>5 DEF semop
  <2>6. CASE semexit(p) BY <2>6, SemexitUndo
  <2> QED BY <1>3, <2>1, <2>2, <2>3, <2>4, <2>5, <2>6 DEF UserStep
<1>4. ASSUME NEW p \in Proc, KernelStep(p) PROVE UndoInv'
  <2>1. ASSUME NEW vals \in [Sem -> SetVals], SetAll(p, vals) PROVE UndoInv'
    <3>1. \A k : semconv(k[1])' <=> semconv(k[1]) BY <2>1 DEF SetAll, semconv
    <3> QED BY <2>1, <3>1, SemunrmStep DEF SetAll
  <2>2. ASSUME NEW vals \in [Sem -> SetVals], SetAllFails(p, vals) PROVE UndoInv'
    BY <1>1, <2>2 DEF SetAllFails
  <2>3. CASE OpUp(p) \/ OpDown(p) \/ UndoOp(p) BY <2>3, SemopUndo
  <2>4. CASE \/ Start(p) \/ Check(p) \/ Reject(p) \/ OpZero(p) \/ OpBlocks(p)
             \/ OpFails(p) \/ SemopDone(p) \/ UndoneFails(p) \/ UndoneSleeps(p)
             \/ Retry(p) \/ Interrupted(p)
    BY <1>1, <2>4 DEF Start, Check, Reject, OpZero, OpBlocks, OpFails, SemopDone,
       UndoneFails, UndoneSleeps, Retry, Interrupted
  <2> QED BY <1>4, <2>1, <2>2, <2>3, <2>4 DEF KernelStep
<1>5. ASSUME NEW p \in Proc, Signal(p) \/ Premature(p) PROVE UndoInv'
  BY <1>1, <1>5 DEF Signal, Premature
<1> QED BY <1>2, <1>3, <1>4, <1>5 DEF Next

(* At first all structures are free and empty.                             *)
LEMMA InitUndo == Init => UndoInv
<1> SUFFICES ASSUME Init PROVE UndoInv OBVIOUS
<1>1. NoEntries \in [UndoKey -> -SEMAEM .. SEMAEM] BY SemConstants DEF NoEntries
<1>2. IsFiniteSet(KeysOf(NoEntries)) /\ Cardinality(KeysOf(NoEntries)) = 0
  BY <1>1, EmptyKeys, FS_EmptySet
<1>3. UndoTypes BY <1>1, <1>2 DEF Init, UndoTypes
<1>4. \A u \in Undo : un_cnt(u) <= SEMUME
  BY <1>2, SemConstants DEF Init, un_cnt, KeysOf
<1>5. \A u \in Undo, k \in UndoKey : un_ent[u][k] = 0 BY DEF Init, NoEntries
<1> QED BY <1>3, <1>4, <1>5, SemConstants DEF UndoInv, UndoPool, Init

(* Sleepers and undo structures are consistent in every state.             *)
LEMMA UndoInductive == ASSUME ~AllocSleeps PROVE Spec => [](SInv /\ UndoInv)
BY InitSInv, NextSInv, InitUndo, NextUndo, PTL DEF Spec

(* The undo structures stay consistent: one owner each, linked if and only *)
(* if not empty, within SEMUME, and without entries for a removed set,     *)
(* which a later set with the same semaphores would inherit at semexit.    *)
THEOREM UndoKept == ASSUME ~AllocSleeps PROVE Spec => []UndoPool
<1>1. UndoInv => UndoPool BY DEF UndoInv
<1> QED BY <1>1, UndoInductive, PTL

-----------------------------------------------------------------------------
(***************************************************************************)
(* semop is atomic, for any processes, sets and operations: what it does   *)
(* before it finds that it cannot go on is undone exactly, with SEM_UNDO   *)
(* and without, whatever runs out in the middle.  The argument: from the   *)
(* start of an attempt there is a trail of values and entries, one for     *)
(* each operation done, each made from the one before by that operation;   *)
(* semundo walks it back.                                                  *)
(***************************************************************************)

Values == [Sem -> 0 .. SEMVMX]
Entries ==
    {e \in [Undo -> [UndoKey -> -SEMAEM .. SEMAEM]] :
        \A u \in Undo : IsFiniteSet(KeysOf(e[u])) /\ Cardinality(KeysOf(e[u])) <= SEMUME}

(* The operation leaves a trace in the undo structure.                     *)
Adjusts(op) == op.SEM_UNDO /\ op.sem_op # 0

(* What operation op on set d makes of the values and the entries a, with  *)
(* undo structure u.                                                       *)
After(d, u, op, a) ==
    <<[a[1] EXCEPT ![SemOf(d, op.sem_num)] = @ + op.sem_op],
      IF Adjusts(op) THEN [a[2] EXCEPT ![u][<<d, op.sem_num>>] = @ - op.sem_op] ELSE a[2]>>

(* h is the trail of p's attempt.                                          *)
Trail(p, h) ==
    /\ h \in [0 .. done[p] -> Values \X Entries]
    /\ h[done[p]] = <<semval, un_ent>>
    /\ \A i \in 1 .. done[p] :
          /\ h[i] = After(semid[p], sem_undo[p], uops[p][i], h[i - 1])
          /\ Adjusts(uops[p][i]) => /\ sem_undo[p] \in Undo
                                    /\ uops[p][i].sem_op \in -SEMAEM .. SEMAEM

(* p's attempt began with b.                                               *)
Began(p, b) == \E h : Trail(p, h) /\ h[0] = b

(* The values are in range, and each attempt has its trail.                *)
ValInv ==
    /\ sig \in [Proc -> BOOLEAN]
    /\ semval \in Values
    /\ \A p \in Proc : pc[p] \in {"op", "undo"} => \E b : Began(p, b)

-----------------------------------------------------------------------------
(* The entries of the model are entries.                                   *)
LEMMA EntriesType == ASSUME UndoInv PROVE un_ent \in Entries
BY DEF UndoInv, UndoTypes, UndoPool, un_cnt, KeysOf, Entries

(* A step that touches nothing of p's attempt.                             *)
LEMMA TrailKept ==
    ASSUME NEW p \in Proc, NEW b, Began(p, b),
           done'[p] = done[p], uops'[p] = uops[p], semid'[p] = semid[p],
           UNCHANGED <<sema, sem_undo, semval, un_ent>>
    PROVE  Began(p, b)'
BY DEF Began, Trail, After, SemOf

(* An attempt begins.                                                      *)
LEMMA TrailBegins ==
    ASSUME SInv, UndoInv, semval \in Values, NEW p \in Proc,
           Start(p) \/ Check(p)
    PROVE  Began(p, <<semval, un_ent>>)'
<1>1. done'[p] = 0 BY DEF SInv, ProcInv, Start, Check, At
<1>2. semval' = semval /\ un_ent' = un_ent BY DEF Start, Check, undovars
<1>3. PICK n \in {0} : n = done'[p] BY <1>1
<1> DEFINE h == [i \in 0 .. n |-> <<semval, un_ent>>]
<1>4. un_ent \in Entries BY EntriesType
<1>5. Trail(p, h)' BY <1>1, <1>2, <1>3, <1>4 DEF Trail
<1>6. h[0] = <<semval, un_ent>> BY <1>3
<1> QED BY <1>2, <1>5, <1>6 DEF Began

(* An operation is done: the trail grows by what it made.                  *)
LEMMA TrailLonger ==
    ASSUME NEW p \in Proc, NEW b, Began(p, b), NEW n \in Nat, n = done[p],
           done'[p] = n + 1, uops'[p] = uops[p], semid'[p] = semid[p], UNCHANGED sema,
           semval' \in Values, un_ent' \in Entries,
           <<semval', un_ent'>> =
              After(semid[p], sem_undo'[p], uops[p][n + 1], <<semval, un_ent>>),
           Adjusts(uops[p][n + 1]) => /\ sem_undo'[p] \in Undo
                                      /\ uops[p][n + 1].sem_op \in -SEMAEM .. SEMAEM,
           sem_undo[p] \in Undo => sem_undo'[p] = sem_undo[p]
    PROVE  Began(p, b)'
<1>1. PICK h : Trail(p, h) /\ h[0] = b BY DEF Began
<1>2. /\ h \in [0 .. n -> Values \X Entries] /\ h[n] = <<semval, un_ent>>
      /\ \A i \in 1 .. n :
            /\ h[i] = After(semid[p], sem_undo[p], uops[p][i], h[i - 1])
            /\ Adjusts(uops[p][i]) => /\ sem_undo[p] \in Undo
                                      /\ uops[p][i].sem_op \in -SEMAEM .. SEMAEM
  BY <1>1 DEF Trail
<1>0. PICK g : g = [i \in 0 .. n + 1 |-> IF i = n + 1 THEN <<semval', un_ent'>> ELSE h[i]]
  OBVIOUS
<1>3. g \in [0 .. n + 1 -> Values \X Entries] BY <1>0, <1>2
<1>4. g[n + 1] = <<semval', un_ent'>> /\ \A i \in 0 .. n : g[i] = h[i] BY <1>0
<1>5. \A d, u, op, a : After(d, u, op, a)' = After(d, u, op, a) BY DEF After, SemOf
<1>6. ASSUME NEW i \in 1 .. n + 1
      PROVE  /\ g[i] = After(semid[p], sem_undo'[p], uops[p][i], g[i - 1])
             /\ Adjusts(uops[p][i]) => /\ sem_undo'[p] \in Undo
                                       /\ uops[p][i].sem_op \in -SEMAEM .. SEMAEM
  <2>1. CASE i = n + 1
    <3>1. g[i - 1] = <<semval, un_ent>> BY <1>2, <1>4, <2>1
    <3> QED BY <1>4, <2>1, <3>1
  <2>2. CASE i # n + 1
    <3>1. i \in 1 .. n /\ i - 1 \in 0 .. n /\ i \in 0 .. n BY <2>2
    <3>2. g[i] = h[i] /\ g[i - 1] = h[i - 1] BY <1>4, <3>1
    <3>3. CASE Adjusts(uops[p][i])
      <4>1. sem_undo'[p] = sem_undo[p] BY <1>2, <3>1, <3>3
      <4> QED BY <1>2, <3>1, <3>2, <4>1
    <3>4. CASE ~Adjusts(uops[p][i])
      <4>1. After(semid[p], sem_undo[p], uops[p][i], h[i - 1])
            = After(semid[p], sem_undo'[p], uops[p][i], h[i - 1])
        BY <3>4 DEF After
      <4> QED BY <1>2, <3>1, <3>2, <3>4, <4>1
    <3> QED BY <3>3, <3>4
  <2> QED BY <2>1, <2>2
<1>7. Trail(p, g)' BY <1>3, <1>4, <1>5, <1>6 DEF Trail
<1>8. g[0] = b BY <1>1, <1>4
<1> QED BY <1>7, <1>8 DEF Began

(* OpUp and OpDown leave the value in range.                               *)
LEMMA ApplyTrail ==
    ASSUME SInv, UndoInv, UndoInv', semval \in Values, NEW p \in Proc, NEW b, Began(p, b),
           OpUp(p) \/ OpDown(p)
    PROVE  semval' \in Values /\ Began(p, b)'
<1>1. AtOp(p) BY DEF OpUp, OpDown
<1>2. CurSem(p) \in Sem /\ CurOp(p) \in sembuf BY <1>1, CurSemIn
<1>3. PICK n \in Nat : n = done[p] BY DEF SInv, SleepTypes
<1>4. PICK op \in sembuf : op = CurOp(p) BY <1>2
<1>5. PICK s \in Sem : s = CurSem(p) BY <1>2
<1>6. PICK k \in UndoKey : k = CurKey(p)
  <2>1. CurOp(p).sem_num \in Num BY <1>2 DEF sembuf
  <2> QED BY <2>1 DEF CurKey, UndoKey, SInv, SleepTypes
<1>7. op.sem_op \in Int /\ op.SEM_UNDO \in BOOLEAN BY <1>4 DEF sembuf
<1>8. op.sem_op # 0 /\ semval[s] + op.sem_op \in 0 .. SEMVMX
  <2>1. semval[s] \in 0 .. SEMVMX BY DEF Values
  <2>2. CASE OpUp(p) BY <1>4, <1>5, <1>7, <2>1, <2>2, SemConstants DEF OpUp, CanAdd
  <2>3. CASE OpDown(p) BY <1>4, <1>5, <1>7, <2>1, <2>3, SemConstants DEF OpDown
  <2> QED BY <2>2, <2>3
<1>9. /\ semval' = [semval EXCEPT ![s] = semval[s] + op.sem_op]
      /\ done' = [done EXCEPT ![p] = done[p] + 1]
      /\ uops' = uops /\ semid' = semid /\ sema' = sema
      /\ IF op.SEM_UNDO THEN semaoe(p, op.sem_op, k) ELSE UNCHANGED undovars
  <2>1. PICK S : Apply(p, S) BY DEF OpUp, OpDown
  <2> QED BY <1>4, <1>5, <1>6, <2>1 DEF Apply, procvars
<1>10. ~UndoFails(p) BY DEF OpUp, OpDown
<1>11. semval' \in Values BY <1>8, <1>9 DEF Values
<1>12. un_ent' \in Entries
  BY DEF UndoInv, UndoTypes, UndoPool, un_cnt, KeysOf, Entries
<1>13. op = uops[p][n + 1] /\ s = SemOf(semid[p], op.sem_num) /\ k = <<semid[p], op.sem_num>>
  BY <1>3, <1>4, <1>5, <1>6 DEF CurOp, CurSem, CurKey
<1>14. /\ un_ent' = IF Adjusts(op) THEN [un_ent EXCEPT ![sem_undo'[p]][k] = @ - op.sem_op]
                    ELSE un_ent
       /\ Adjusts(op) => sem_undo'[p] \in Undo
       /\ sem_undo[p] \in Undo => sem_undo'[p] = sem_undo[p]
  <2>1. UndoTypes BY DEF UndoInv
  <2>2. CASE op.SEM_UNDO
    <3>1. PICK u \in IF sem_undo[p] = NoUndo THEN semfup ELSE {sem_undo[p]} :
             /\ sem_undo' = [sem_undo EXCEPT ![p] = u]
             /\ un_ent' = [un_ent EXCEPT ![u][k] = @ - op.sem_op]
      BY <1>9, <2>2 DEF semaoe
    <3>2. u \in Undo /\ sem_undo'[p] = u /\ (sem_undo[p] \in Undo => u = sem_undo[p])
      BY <2>1, <3>1, SemConstants DEF UndoTypes
    <3> QED BY <1>8, <2>2, <3>1, <3>2 DEF Adjusts
  <2>3. CASE ~op.SEM_UNDO BY <1>9, <2>3 DEF undovars, Adjusts
  <2> QED BY <2>2, <2>3
<1>15. Adjusts(op) => op.sem_op \in -SEMAEM .. SEMAEM
  BY <1>4, <1>10 DEF UndoFails, SemaoeFails, Adjusts
<1>16. <<semval', un_ent'>> = After(semid[p], sem_undo'[p], op, <<semval, un_ent>>)
  BY <1>9, <1>13, <1>14 DEF After
<1>17. done'[p] = n + 1 BY <1>3, <1>9 DEF SInv, SleepTypes
<1>18. Began(p, b)'
  BY <1>3, <1>9, <1>11, <1>12, <1>13, <1>14, <1>15, <1>16, <1>17, TrailLonger
<1> QED BY <1>11, <1>18

(* An operation that waits for zero changes nothing.                       *)
LEMMA ZeroTrail ==
    ASSUME SInv, UndoInv, semval \in Values, NEW p \in Proc, NEW b, Began(p, b), OpZero(p)
    PROVE  Began(p, b)'
<1>1. AtOp(p) BY DEF OpZero
<1>2. CurSem(p) \in Sem /\ CurOp(p) \in sembuf BY <1>1, CurSemIn
<1>3. PICK n \in Nat : n = done[p] BY DEF SInv, SleepTypes
<1>4. PICK op \in sembuf : op = CurOp(p) BY <1>2
<1>5. op = uops[p][n + 1] /\ op.sem_op = 0 BY <1>3, <1>4 DEF CurOp, OpZero
<1>6. /\ semval' = semval /\ un_ent' = un_ent /\ sem_undo' = sem_undo
      /\ uops' = uops /\ semid' = semid /\ sema' = sema
  BY DEF OpZero, procvars, undovars
<1>7. done'[p] = n + 1 BY <1>3 DEF OpZero, SInv, SleepTypes
<1>8. semval = [semval EXCEPT ![SemOf(semid[p], op.sem_num)] = @ + op.sem_op]
  <2>1. semval[CurSem(p)] + 0 = semval[CurSem(p)] BY <1>2, SemConstants DEF Values
  <2> QED BY <1>4, <1>5, <2>1 DEF CurSem, Values
<1>9. <<semval, un_ent>> = After(semid[p], sem_undo[p], op, <<semval, un_ent>>)
  BY <1>5, <1>8 DEF After, Adjusts
<1>10. un_ent \in Entries BY EntriesType
<1> QED BY <1>3, <1>5, <1>6, <1>7, <1>9, <1>10, TrailLonger DEF Adjusts

(* An entry is taken back: semaoe cannot fail where it has just succeeded, *)
(* as the old entry was in range and there was room for it.                *)
LEMMA EntryBack ==
    ASSUME UndoInv, NEW p \in Proc, NEW u \in Undo, u = sem_undo[p], NEW k \in UndoKey,
           NEW v \in -SEMAEM .. SEMAEM, v # 0, NEW e \in Entries,
           un_ent = [e EXCEPT ![u][k] = @ - v]
    PROVE  /\ ~SemaoeFails(p, -v, k)
           /\ semaoe(p, -v, k) => un_ent' = e /\ sem_undo' = sem_undo
<1> DEFINE R == -SEMAEM .. SEMAEM
<1>1. e \in [Undo -> [UndoKey -> R]] BY DEF Entries
<1>2. e[u] \in [UndoKey -> R] /\ e[u][k] \in R /\ u # NoUndo BY <1>1, SemConstants
<1>3. un_ent[u] = [e[u] EXCEPT ![k] = e[u][k] - v] /\ un_ent = [e EXCEPT ![u] = un_ent[u]]
  BY <1>1
<1>4. un_ent[u][k] = e[u][k] - v BY <1>2, <1>3
<1>5. -v \in R /\ un_ent[u][k] - (-v) = e[u][k] BY <1>2, <1>4, SemConstants
<1>6. un_ent[u][k] = 0 => un_cnt(u) < SEMUME
  <2> SUFFICES ASSUME un_ent[u][k] = 0 PROVE un_cnt(u) < SEMUME OBVIOUS
  <2>1. e[u][k] # 0 BY <1>2, <1>4, SemConstants
  <2>2. un_cnt(u) = Cardinality(KeysOf(e[u]) \ {k})
    <3>1. {j \in UndoKey : un_ent[u][j] # 0} = KeysOf(e[u]) \ {k}
      BY <1>2, <1>3 DEF KeysOf
    <3> QED BY <3>1 DEF un_cnt
  <2>3. IsFiniteSet(KeysOf(e[u])) /\ Cardinality(KeysOf(e[u])) <= SEMUME BY DEF Entries
  <2>4. k \in KeysOf(e[u]) BY <2>1 DEF KeysOf
  <2>5. Cardinality(KeysOf(e[u]) \ {k}) = Cardinality(KeysOf(e[u])) - 1
    BY <2>3, <2>4, FS_RemoveElement
  <2>6. Cardinality(KeysOf(e[u])) \in Nat BY <2>3, FS_CardinalityType
  <2> QED BY <2>2, <2>3, <2>5, <2>6, SemConstants
<1>7. un_cnt(u) \in Nat
  BY FS_CardinalityType DEF un_cnt, UndoInv, UndoTypes, KeysOf
<1>8. ~SemaoeFails(p, -v, k)
  <2>1. ~(sem_undo[p] = NoUndo) BY <1>2
  <2>2. CASE un_ent[u][k] = 0
    <3>1. ~(un_cnt(u) >= SEMUME) BY <1>6, <1>7, <2>2, SemConstants
    <3> QED BY <1>5, <2>1, <2>2, <3>1 DEF SemaoeFails
  <2>3. CASE un_ent[u][k] # 0
    <3>1. un_ent[u][k] - (-v) \in R BY <1>2, <1>5
    <3> QED BY <1>5, <2>1, <2>3, <3>1 DEF SemaoeFails
  <2> QED BY <2>2, <2>3
<1>9. ASSUME semaoe(p, -v, k) PROVE un_ent' = e /\ sem_undo' = sem_undo
  <2>1. /\ sem_undo' = [sem_undo EXCEPT ![p] = u]
        /\ un_ent' = [un_ent EXCEPT ![u][k] = @ - (-v)]
    BY <1>2, <1>9 DEF semaoe
  <2>2. sem_undo' = sem_undo BY <2>1 DEF UndoInv, UndoTypes
  <2>3. un_ent' = [un_ent EXCEPT ![u] = [un_ent[u] EXCEPT ![k] = e[u][k]]]
    BY <1>1, <1>3, <1>5, <2>1
  <2>4. [un_ent[u] EXCEPT ![k] = e[u][k]] = e[u] BY <1>2, <1>3
  <2>5. un_ent' = [un_ent EXCEPT ![u] = e[u]] BY <2>3, <2>4
  <2>6. un_ent' = e BY <1>1, <1>3, <2>5
  <2> QED BY <2>2, <2>6
<1> QED BY <1>8, <1>9

(* semundo walks the trail back by one operation.                          *)
LEMMA TrailBack ==
    ASSUME SInv, UndoInv, NEW p \in Proc, NEW b, Began(p, b), UndoOp(p)
    PROVE  semval' \in Values /\ Began(p, b)'
<1>1. PICK h : Trail(p, h) /\ h[0] = b BY DEF Began
<1>2. PICK n \in Nat : n = done[p] /\ n > 0 BY DEF SInv, SleepTypes, UndoOp
<1>3. /\ SleepTypes /\ semconv(semid[p]) /\ InRange(p) /\ n <= Len(uops[p])
      /\ uops[p] \in Seq(sembuf) /\ semid[p] \in Id
  <2>1. SleepTypes /\ ProcInv(p) /\ pc[p] = "undo" BY DEF SInv, UndoOp, At
  <2> QED BY <1>2, <2>1, UopsType DEF ProcInv, SleepTypes
<1>4. n \in 1 .. Len(uops[p]) BY <1>2, <1>3
<1>5. PICK op \in sembuf : op = uops[p][n] BY <1>3, <1>4
<1>6. op.sem_num \in Num /\ op.sem_op \in Int /\ op.SEM_UNDO \in BOOLEAN
  BY <1>5 DEF sembuf
<1>7. PICK s \in Sem : s = SemOf(semid[p], op.sem_num)
  <2>1. semid[p].slot \in Slot BY <1>3 DEF Id
  <2>2. op.sem_num < sema[semid[p].slot].nsems BY <1>3, <1>4, <1>5 DEF InRange
  <2>3. op.sem_num \in Nat BY <1>6, SemConstants DEF Num
  <2>4. sema[semid[p].slot].base \in Nat /\ sema[semid[p].slot].nsems \in Nat
    BY <1>3, <2>1, SemConstants DEF SleepTypes, Sem
  <2>5. SetOf(sema[semid[p].slot]) \subseteq Sem
    BY <1>3, <2>1 DEF SInv, SetsInv, semconv
  <2> QED BY <2>2, <2>3, <2>4, <2>5 DEF SemOf, SetOf
<1>8. PICK k \in UndoKey : k = <<semid[p], op.sem_num>> BY <1>3, <1>6 DEF UndoKey
<1>9. PICK a \in Values \X Entries : a = h[n - 1]
  <2>1. n - 1 \in 0 .. done[p] BY <1>2
  <2> QED BY <1>1, <2>1 DEF Trail
<1>10. /\ <<semval, un_ent>> = After(semid[p], sem_undo[p], op, a)
       /\ Adjusts(op) => sem_undo[p] \in Undo /\ op.sem_op \in -SEMAEM .. SEMAEM
  <2>1. n \in 1 .. done[p] BY <1>2
  <2> QED BY <1>1, <1>2, <1>5, <1>9, <2>1 DEF Trail
<1>11. /\ semval = [a[1] EXCEPT ![s] = a[1][s] + op.sem_op]
       /\ un_ent = IF Adjusts(op) THEN [a[2] EXCEPT ![sem_undo[p]][k] = @ - op.sem_op]
                   ELSE a[2]
       /\ a[1] \in Values /\ a[2] \in Entries
  BY <1>7, <1>8, <1>10 DEF After
<1>12. /\ semval' = [semval EXCEPT ![s] = semval[s] - op.sem_op]
       /\ semundo(p, op) /\ done' = [done EXCEPT ![p] = done[p] - 1]
       /\ uops' = uops /\ semid' = semid /\ sema' = sema
  BY <1>2, <1>5, <1>7 DEF UndoOp, procvars
<1>13. semval' = a[1]
  <2>1. a[1] \in [Sem -> 0 .. SEMVMX] BY <1>11 DEF Values
  <2>2. semval[s] - op.sem_op = a[1][s] BY <1>6, <1>11, <2>1, SemConstants
  <2> QED BY <1>11, <1>12, <2>1, <2>2
<1>14. un_ent' = a[2] /\ sem_undo' = sem_undo
  <2>1. CASE Adjusts(op)
    <3>1. /\ ~SemaoeFails(p, -op.sem_op, k)
          /\ semaoe(p, -op.sem_op, k) => un_ent' = a[2] /\ sem_undo' = sem_undo
      BY <1>10, <1>11, <2>1, EntryBack DEF Adjusts
    <3> QED BY <1>8, <1>12, <2>1, <3>1 DEF semundo, Adjusts
  <2>2. CASE ~Adjusts(op) BY <1>11, <1>12, <2>2 DEF semundo, Adjusts, undovars
  <2> QED BY <2>1, <2>2
<1>15. PICK g : g = [i \in 0 .. n - 1 |-> h[i]] OBVIOUS
<1>16. done'[p] = n - 1 BY <1>2, <1>3, <1>12 DEF SleepTypes
<1>17. Trail(p, g)'
  <2>1. /\ h \in [0 .. n -> Values \X Entries]
        /\ \A i \in 1 .. n :
              /\ h[i] = After(semid[p], sem_undo[p], uops[p][i], h[i - 1])
              /\ Adjusts(uops[p][i]) => /\ sem_undo[p] \in Undo
                                        /\ uops[p][i].sem_op \in -SEMAEM .. SEMAEM
    BY <1>1, <1>2 DEF Trail
  <2>2. g \in [0 .. n - 1 -> Values \X Entries] /\ \A i \in 0 .. n - 1 : g[i] = h[i]
    BY <1>15, <2>1
  <2>3. g[n - 1] = <<semval', un_ent'>>
    <3>1. n - 1 \in 0 .. n - 1 BY <1>2
    <3>2. a = <<a[1], a[2]>> OBVIOUS
    <3> QED BY <1>9, <1>13, <1>14, <2>2, <3>1, <3>2
  <2>4. \A d, u, o, c : After(d, u, o, c)' = After(d, u, o, c) BY <1>12 DEF After, SemOf
  <2>5. \A i \in 1 .. n - 1 : g[i] = h[i] /\ g[i - 1] = h[i - 1] /\ i \in 1 .. n
    BY <2>2
  <2> QED BY <1>12, <1>14, <1>16, <2>1, <2>2, <2>3, <2>4, <2>5 DEF Trail
<1>18. g[0] = b BY <1>1, <1>2, <1>15
<1>19. Began(p, b)' BY <1>17, <1>18 DEF Began
<1> QED BY <1>11, <1>13, <1>19

-----------------------------------------------------------------------------
(* Whoever moves in the kernel has the CPU, or nobody has.                 *)
LEMMA MoverRuns ==
    ASSUME NEW q \in Proc
    PROVE  /\ UserStep(q) => At(q, "user")
           /\ KernelStep(q) => cpu \in {q, NoProc} /\ pc[q] # "user"
<1>1. UserStep(q) => At(q, "user")
  BY DEF UserStep, semget, semctl_RMID, semctl_SETVAL, semctl_SETALL, semop, semexit
<1>2. KernelStep(q) => cpu \in {q, NoProc} /\ pc[q] # "user"
  BY DEF KernelStep, SetAll, SetAllFails, Start, Check, Reject, OpUp, OpDown, OpZero,
     OpBlocks, OpFails, SemopDone, UndoOp, UndoneFails, UndoneSleeps, Retry, Interrupted,
     AtOp, At
<1> QED BY <1>1, <1>2

(* A signal or an early return from sleep touches no attempt.              *)
LEMMA EarlyTrail ==
    ASSUME NEW q \in Proc, Signal(q) \/ Premature(q)
    PROVE  /\ UNCHANGED <<pc, done, uops, semid, sema, sem_undo, semval, un_ent>>
BY DEF Signal, Premature, procvars, undovars

(* The attempt goes on: its trail still leads back to where it began.      *)
LEMMA AttemptGoesOn ==
    ASSUME SInv, UndoInv, UndoInv', semval \in Values, [Next]_vars, NEW p \in Proc,
           pc[p] \in {"op", "undo"}, pc'[p] \in {"op", "undo"}, NEW b, Began(p, b)
    PROVE  Began(p, b)'
<1>1. cpu = p /\ p # NoProc BY SemConstants DEF SInv, ProcInv, Inside
<1>2. CASE UNCHANGED vars BY <1>2, TrailKept DEF vars, procvars, undovars
<1>3. ASSUME NEW q \in Proc, Signal(q) \/ Premature(q) PROVE Began(p, b)'
  BY <1>3, EarlyTrail, TrailKept
<1>4. ASSUME NEW q \in Proc, UserStep(q) PROVE FALSE
  BY <1>1, <1>4, MoverRuns DEF At
<1>5. ASSUME NEW q \in Proc, KernelStep(q) PROVE Began(p, b)'
  <2>1. q = p BY <1>1, <1>5, MoverRuns
  <2>2. pc \in [Proc -> {"user", "setall", "copyin", "check", "op", "undo", "asleep"}]
    BY DEF SInv, SleepTypes
  <2>3. CASE OpUp(p) \/ OpDown(p) BY <2>3, ApplyTrail
  <2>4. CASE OpZero(p) BY <2>4, ZeroTrail
  <2>5. CASE UndoOp(p) BY <2>5, TrailBack
  <2>6. CASE OpBlocks(p) \/ OpFails(p)
    BY <2>6, TrailKept DEF OpBlocks, OpFails, procvars, undovars
  <2>7. CASE \E vals \in [Sem -> SetVals] : SetAll(p, vals) \/ SetAllFails(p, vals)
    BY <2>7 DEF SetAll, SetAllFails, At
  <2>8. CASE Start(p) \/ Check(p) \/ Reject(p) \/ Retry(p) \/ Interrupted(p)
    BY <2>8 DEF Start, Check, Reject, Retry, Interrupted, At
  <2>9. CASE SemopDone(p) \/ UndoneFails(p) BY <2>2, <2>9 DEF SemopDone, UndoneFails, Return
  <2>10. CASE UndoneSleeps(p) BY <2>2, <2>10 DEF UndoneSleeps
  <2> QED BY <1>5, <2>1, <2>3, <2>4, <2>5, <2>6, <2>7, <2>8, <2>9, <2>10 DEF KernelStep
<1> QED BY <1>2, <1>3, <1>4, <1>5 DEF Next

(* An attempt begins in Start and Check only, which change no value.       *)
LEMMA AttemptStarts ==
    ASSUME SInv, UndoInv, semval \in Values, [Next]_vars, NEW p \in Proc,
           pc[p] \notin {"op", "undo"}, pc'[p] \in {"op", "undo"}
    PROVE  /\ pc[p] \in {"copyin", "check"} /\ pc'[p] = "op"
           /\ semval' = semval /\ un_ent' = un_ent
           /\ Began(p, <<semval, un_ent>>)'
<1>1. pc \in [Proc -> {"user", "setall", "copyin", "check", "op", "undo", "asleep"}]
  BY DEF SInv, SleepTypes
<1>2. Start(p) \/ Check(p)
  <2>1. ASSUME NEW q \in Proc, UserStep(q) PROVE FALSE
    <3>1. CASE UNCHANGED pc BY <3>1
    <3>2. ASSUME NEW d \in Id,
                 semctl_SETALL(q, d) \/ \E ops \in OpLists : semop(q, d, ops)
          PROVE  FALSE
      BY <1>1, <3>2 DEF semctl_SETALL, semop
    <3> QED BY <2>1, <3>1, <3>2
            DEF UserStep, semget, semctl_RMID, semctl_SETVAL, semexit
  <2>2. ASSUME NEW q \in Proc, KernelStep(q), q # p PROVE FALSE
    <3>1. pc'[p] = pc[p]
      BY <1>1, <2>2 DEF KernelStep, SetAll, SetAllFails, Start, Check, Reject, OpUp, OpDown,
         Apply, OpZero, OpBlocks, OpFails, SemopDone, UndoOp, UndoneFails, UndoneSleeps,
         Retry, Interrupted, Goto, Return
    <3> QED BY <3>1
  <2>3. ASSUME KernelStep(p) PROVE Start(p) \/ Check(p)
    <3>1. CASE \/ OpUp(p) \/ OpDown(p) \/ OpZero(p) \/ OpBlocks(p) \/ OpFails(p)
               \/ SemopDone(p) \/ UndoOp(p) \/ UndoneFails(p) \/ UndoneSleeps(p)
      BY <3>1 DEF OpUp, OpDown, OpZero, OpBlocks, OpFails, SemopDone, UndoOp, UndoneFails,
         UndoneSleeps, AtOp, At
    <3>2. CASE \/ \E vals \in [Sem -> SetVals] : SetAll(p, vals) \/ SetAllFails(p, vals)
               \/ Reject(p) \/ Interrupted(p)
      BY <1>1, <3>2 DEF SetAll, SetAllFails, Reject, Interrupted, Return
    <3>3. CASE Retry(p) BY <1>1, <3>3 DEF Retry, Goto
    <3> QED BY <2>3, <3>1, <3>2, <3>3 DEF KernelStep
  <2>4. ASSUME NEW q \in Proc, Signal(q) \/ Premature(q) PROVE FALSE
    BY <2>4, EarlyTrail
  <2>5. CASE UNCHANGED vars BY <2>5 DEF vars
  <2> QED BY <2>1, <2>2, <2>3, <2>4, <2>5 DEF Next
<1>3. Began(p, <<semval, un_ent>>)' BY <1>2, TrailBegins
<1>4. /\ pc[p] \in {"copyin", "check"} /\ pc'[p] = "op"
      /\ semval' = semval /\ un_ent' = un_ent
  BY <1>1, <1>2 DEF Start, Check, At, Goto, undovars
<1> QED BY <1>3, <1>4

-----------------------------------------------------------------------------
(* semctl and semexit leave the values in range.                           *)
LEMMA UserValues ==
    ASSUME SInv, UndoInv, semval \in Values, NEW p \in Proc, UserStep(p)
    PROVE  semval' \in Values
<1>1. CASE UNCHANGED semval BY <1>1
<1>2. ASSUME NEW d \in Id, semctl_RMID(p, d) PROVE semval' \in Values
  BY <1>2, SemConstants DEF semctl_RMID, Values
<1>3. ASSUME NEW d \in Id, NEW num \in Num, NEW v \in SetVals, semctl_SETVAL(p, d, num, v)
      PROVE  semval' \in Values
  <2>1. v \in 0 .. SEMVMX BY <1>3, SemConstants DEF semctl_SETVAL
  <2> QED BY <1>3, <2>1 DEF semctl_SETVAL, Values
<1>4. CASE semexit(p)
  <2> DEFINE u == sem_undo[p]
             Val(k) == semval[SemOf(k[1], k[2])] + un_ent[u][k]
             K == {k \in UndoKey : /\ un_ent[u][k] # 0 /\ semconv(k[1])
                                   /\ Val(k) \in 0 .. SEMVMX}
  <2>1. semval' = [s \in Sem |->
           IF \E k \in K : SemOf(k[1], k[2]) = s
           THEN Val(CHOOSE k \in K : SemOf(k[1], k[2]) = s) ELSE semval[s]]
    BY <1>4 DEF semexit
  <2>2. \A k \in K : Val(k) \in 0 .. SEMVMX OBVIOUS
  <2>3. \A s \in Sem : (\E k \in K : SemOf(k[1], k[2]) = s)
           => (CHOOSE k \in K : SemOf(k[1], k[2]) = s) \in K
    OBVIOUS
  <2> HIDE DEF K, Val
  <2>4. \A s \in Sem : (\E k \in K : SemOf(k[1], k[2]) = s)
           => Val(CHOOSE k \in K : SemOf(k[1], k[2]) = s) \in 0 .. SEMVMX
    BY <2>2, <2>3
  <2> QED BY <2>1, <2>4 DEF Values
<1> QED BY <1>1, <1>2, <1>3, <1>4
        DEF UserStep, semget, semctl_SETALL, semop

(* So do SETALL and semop.                                                 *)
LEMMA KernelValues ==
    ASSUME SInv, UndoInv, UndoInv', ValInv, NEW p \in Proc, KernelStep(p)
    PROVE  semval' \in Values
<1>1. semval \in Values BY DEF ValInv
<1>2. ASSUME NEW vals \in [Sem -> SetVals], SetAll(p, vals) PROVE semval' \in Values
  <2> DEFINE S == SetOf(sema[semid[p].slot])
  <2>1. \A s \in Sem : s \in S => vals[s] \in 0 .. SEMVMX
    <3>1. \A s \in S : vals[s] <= SEMVMX BY <1>2 DEF SetAll
    <3>2. \A s \in Sem : vals[s] \in Nat BY SemConstants
    <3> QED BY <3>1, <3>2, SemConstants
  <2>2. semval' = [s \in Sem |-> IF s \in S THEN vals[s] ELSE semval[s]]
    BY <1>2 DEF SetAll
  <2> QED BY <1>1, <2>1, <2>2 DEF Values
<1>3. CASE OpUp(p) \/ OpDown(p) \/ UndoOp(p)
  <2>1. pc[p] \in {"op", "undo"} BY <1>3 DEF OpUp, OpDown, UndoOp, AtOp, At
  <2>2. PICK b : Began(p, b) BY <2>1 DEF ValInv
  <2> QED BY <1>1, <1>3, <2>2, ApplyTrail, TrailBack
<1>4. CASE UNCHANGED semval BY <1>1, <1>4
<1> QED BY <1>2, <1>3, <1>4 DEF KernelStep, SetAllFails, Start, Check, Reject, OpZero,
        OpBlocks, OpFails, SemopDone, UndoneFails, UndoneSleeps, Retry, Interrupted

(* Signals are pending or not.                                             *)
LEMMA SigType ==
    ASSUME sig \in [Proc -> BOOLEAN], [Next]_vars PROVE sig' \in [Proc -> BOOLEAN]
<1>1. CASE UNCHANGED vars BY <1>1 DEF vars
<1>2. ASSUME NEW p \in Proc, Signal(p) PROVE sig' \in [Proc -> BOOLEAN] BY <1>2 DEF Signal
<1>3. ASSUME NEW p \in Proc, Return(p) PROVE sig' \in [Proc -> BOOLEAN] BY <1>3 DEF Return
<1>4. ASSUME NEW p \in Proc, UserStep(p) \/ Premature(p) PROVE sig' = sig
  BY <1>4 DEF UserStep, Premature, semget, semctl_RMID, semctl_SETVAL, semctl_SETALL,
     semop, semexit
<1>5. ASSUME NEW p \in Proc, KernelStep(p), ~Return(p) PROVE sig' = sig
  BY <1>5 DEF KernelStep, SetAll, SetAllFails, Start, Check, Reject, OpUp, OpDown, Apply,
     OpZero, OpBlocks, OpFails, SemopDone, UndoOp, UndoneFails, UndoneSleeps, Retry,
     Interrupted
<1> QED BY <1>1, <1>2, <1>3, <1>4, <1>5 DEF Next

(* Every step keeps the values in range and the trails complete.           *)
THEOREM NextVal ==
    SInv /\ UndoInv /\ UndoInv' /\ ValInv /\ [Next]_vars => ValInv'
<1> SUFFICES ASSUME SInv, UndoInv, UndoInv', ValInv, [Next]_vars PROVE ValInv' OBVIOUS
<1>1. semval \in Values BY DEF ValInv
<1>2. sig' \in [Proc -> BOOLEAN] BY SigType DEF ValInv
<1>3. semval' \in Values
  <2>1. CASE UNCHANGED vars BY <1>1, <2>1 DEF vars
  <2>2. ASSUME NEW p \in Proc, Signal(p) \/ Premature(p) PROVE semval' \in Values
    BY <1>1, <2>2, EarlyTrail
  <2> QED BY <1>1, <2>1, <2>2, UserValues, KernelValues DEF Next
<1>4. ASSUME NEW p \in Proc, pc'[p] \in {"op", "undo"} PROVE \E b : Began(p, b)'
  <2>1. CASE pc[p] \in {"op", "undo"}
    <3>1. PICK b : Began(p, b) BY <2>1 DEF ValInv
    <3> QED BY <1>1, <1>4, <2>1, <3>1, AttemptGoesOn
  <2>2. CASE pc[p] \notin {"op", "undo"}
    <3>1. PICK c : c = <<semval', un_ent'>> OBVIOUS
    <3>2. Began(p, <<semval, un_ent>>)' BY <1>1, <1>4, <2>2, AttemptStarts
    <3>3. Began(p, c)' BY <3>1, <3>2 DEF Began
    <3> QED BY <3>3
  <2> QED BY <2>1, <2>2
<1> QED BY <1>2, <1>3, <1>4 DEF ValInv

(* Before the first call all values are 0 and nobody is in semop.          *)
LEMMA InitVal == Init => ValInv
BY SemConstants DEF Init, ValInv, Values

(* Every variable keeps its type; in particular no semaphore leaves the    *)
(* range 0 .. SEMVMX at any point of any semop, although semundo checks    *)
(* nothing when it adds and subtracts.                                     *)
THEOREM ValuesInRange == ASSUME ~AllocSleeps PROVE Spec => []TypeOK
<1>1. SInv /\ UndoInv /\ ValInv => TypeOK
  BY DEF SInv, SleepTypes, UndoInv, UndoTypes, ValInv, Values, TypeOK
<1> QED BY <1>1, UndoInductive, InitVal, NextVal, PTL DEF Spec

-----------------------------------------------------------------------------
(* start is where the attempt of the process in semop began.               *)
StartInv == \A p \in Proc : pc[p] \in {"op", "undo"} => Began(p, start)

(* Every step keeps start up to date.                                      *)
THEOREM NextStart ==
    SInv /\ UndoInv /\ UndoInv' /\ ValInv /\ StartInv /\ [MCNext]_<<vars, start>>
       => StartInv'
<1> SUFFICES ASSUME SInv, UndoInv, UndoInv', ValInv, StartInv, [MCNext]_<<vars, start>>,
                    NEW p \in Proc, pc'[p] \in {"op", "undo"}
             PROVE  Began(p, start)'
  BY DEF StartInv
<1>1. [Next]_vars BY DEF MCNext
<1>2. semval \in Values BY DEF ValInv
<1>3. CASE pc[p] \in {"op", "undo"}
  <2>1. PICK b : b = start OBVIOUS
  <2>2. Began(p, b) BY <1>3, <2>1 DEF StartInv, Began
  <2>3. Began(p, b)' BY <1>1, <1>2, <1>3, <2>2, AttemptGoesOn
  <2>4. start' = start
    <3>1. ASSUME NEW q \in Proc, pc[q] \in {"copyin", "check"}, pc'[q] = "op" PROVE FALSE
      <4>1. cpu = p /\ cpu = q BY <1>3, <3>1 DEF SInv, ProcInv, Inside
      <4> QED BY <1>3, <3>1, <4>1
    <3> QED BY <3>1 DEF MCNext
  <2> QED BY <2>1, <2>3, <2>4 DEF Began
<1>4. CASE pc[p] \notin {"op", "undo"}
  <2>1. /\ pc[p] \in {"copyin", "check"} /\ pc'[p] = "op"
        /\ semval' = semval /\ un_ent' = un_ent
        /\ Began(p, <<semval, un_ent>>)'
    BY <1>1, <1>2, <1>4, AttemptStarts
  <2>2. start' = <<semval, un_ent>>
    <3>1. MCNext BY <1>4, <2>1 DEF vars
    <3> QED BY <2>1, <3>1 DEF MCNext
  <2> QED BY <2>1, <2>2 DEF Began
<1> QED BY <1>3, <1>4

(* semop is atomic: whenever semundo has finished, before semop sleeps or  *)
(* fails, all values and all undo entries are what they were when the      *)
(* attempt began, although each semaoe in the middle may have taken an     *)
(* undo structure, used the last entry or met the limit of an adjustment.  *)
THEOREM SemopAtomic == ASSUME ~AllocSleeps PROVE MCSpec => []UndoExact
<1>1. MCInit => StartInv BY DEF MCInit, Init, StartInv
<1>2. StartInv => UndoExact
  <2> SUFFICES ASSUME StartInv, NEW p \in Proc, pc[p] = "undo", done[p] = 0
               PROVE  <<semval, un_ent>> = start
    BY DEF UndoExact
  <2>1. PICK h : Trail(p, h) /\ h[0] = start BY DEF StartInv, Began
  <2> QED BY <2>1 DEF Trail
<1>3. MCSpec => Spec
  <2>1. MCInit => Init BY DEF MCInit
  <2>2. [MCNext]_<<vars, start>> => [Next]_vars BY DEF MCNext
  <2> QED BY <2>1, <2>2, PTL DEF MCSpec, Spec
<1>4. Spec => [](SInv /\ UndoInv) BY UndoInductive
<1>5. Spec => []ValInv BY UndoInductive, InitVal, NextVal, PTL DEF Spec
<1> QED BY <1>1, <1>2, <1>3, <1>4, <1>5, NextStart, PTL DEF MCSpec

-----------------------------------------------------------------------------
(* Sleepers whose operations can be done                                   *)

(* No semop names a semaphore twice.                                       *)
Distinct ==
    \A ops \in OpLists : \A i, j \in 1 .. Len(ops) :
       ops[i].sem_num = ops[j].sem_num => i = j

(* The semaphore of p's i-th operation.                                    *)
OpSem(p, i) == SemOf(semid[p], uops[p][i].sem_num)

(* p's i-th operation is impossible at value v, and p is to sleep for it.  *)
Stuck(p, i, v) ==
    LET op == uops[p][i].sem_op IN
    \/ op < 0 /\ v < -op /\ semp[p] = <<OpSem(p, i), "semncnt">>
    \/ op = 0 /\ v # 0 /\ semp[p] = <<OpSem(p, i), "semzcnt">>

(* Operation i keeps p asleep: at the present value of its semaphore, and  *)
(* at the one to which semundo of a process in semop may yet bring it      *)
(* back, as semundo wakes nobody.                                          *)
Held(p, i) ==
    /\ Stuck(p, i, semval[OpSem(p, i)])
    /\ \A q \in Proc : pc[q] \in {"op", "undo"} =>
          \A j \in 1 .. done[q] : OpSem(q, j) = OpSem(p, i) =>
             Stuck(p, i, semval[OpSem(p, i)] - uops[q][j].sem_op)

WaitInv ==
    /\ \A p \in Proc : wchan[p] # NoChan => \E i \in 1 .. Len(uops[p]) : Held(p, i)
    /\ \A p \in Proc : pc[p] = "undo" /\ semp[p] # NoChan =>
          \E i \in done[p] + 1 .. Len(uops[p]) : Stuck(p, i, semval[OpSem(p, i)])

(* A changed value is announced by a wakeup of S: to those who wait for    *)
(* zero if it became zero, to the others if it grew.                       *)
Announced(S) ==
    \A s \in Sem : semval'[s] # semval[s] =>
       /\ semval'[s] = 0 => <<s, "semzcnt">> \in S
       /\ semval'[s] > semval[s] => <<s, "semncnt">> \in S

(* The operations and semaphores of a process in semop, or asleep, are     *)
(* operations and semaphores of its set, one for each.                     *)
LEMMA OpSemIn ==
    ASSUME SInv, Distinct, NEW p \in Proc, semconv(semid[p]),
           pc[p] \in {"op", "undo", "asleep"}
    PROVE  /\ uops[p] \in Seq(sembuf)
           /\ \A i \in 1 .. Len(uops[p]) :
                 OpSem(p, i) \in Sem /\ uops[p][i].sem_op \in Int
           /\ \A i, j \in 1 .. Len(uops[p]) : OpSem(p, i) = OpSem(p, j) => i = j
<1>1. SleepTypes /\ InRange(p) /\ semid[p] \in Id /\ semid[p].slot \in Slot
  <2>1. SleepTypes /\ ProcInv(p) BY DEF SInv
  <2> QED BY <2>1 DEF SleepTypes, ProcInv, Id
<1>2. uops[p] \in Seq(sembuf) BY <1>1, UopsType
<1>3. PICK h \in [alloc : BOOLEAN, seq : 0 .. MaxSeq, base : Sem, nsems : Nat] :
         h = sema[semid[p].slot]
  BY <1>1 DEF SleepTypes
<1>4. SetOf(h) \subseteq Sem BY <1>1, <1>3 DEF SInv, SetsInv, semconv
<1>5. h.base \in Nat /\ h.nsems \in Nat BY <1>3, SemConstants DEF Sem
<1>6. ASSUME NEW i \in 1 .. Len(uops[p])
      PROVE  /\ OpSem(p, i) = h.base + uops[p][i].sem_num
             /\ uops[p][i].sem_num \in Nat /\ uops[p][i].sem_num < h.nsems
             /\ uops[p][i].sem_op \in Int
  <2>1. uops[p][i] \in sembuf BY <1>2
  <2>2. uops[p][i].sem_num \in Nat /\ uops[p][i].sem_op \in Int
    BY <2>1, SemConstants DEF sembuf, Num
  <2> QED BY <1>1, <1>3, <2>2 DEF OpSem, SemOf, InRange
<1>7. \A i \in 1 .. Len(uops[p]) : OpSem(p, i) \in Sem /\ uops[p][i].sem_op \in Int
  <2> SUFFICES ASSUME NEW i \in 1 .. Len(uops[p]) PROVE OpSem(p, i) \in SetOf(h)
    BY <1>4, <1>6
  <2>1. PICK m \in Nat : m = uops[p][i].sem_num BY <1>6
  <2>2. OpSem(p, i) = h.base + m /\ m < h.nsems BY <1>6, <2>1
  <2> QED BY <1>5, <2>2 DEF SetOf
<1>8. ASSUME NEW i \in 1 .. Len(uops[p]), NEW j \in 1 .. Len(uops[p]),
             OpSem(p, i) = OpSem(p, j)
      PROVE  i = j
  <2>1. uops[p][i].sem_num = uops[p][j].sem_num BY <1>5, <1>6, <1>8
  <2>2. uops[p] \in OpLists
    <3>1. uops[p] \in OpLists \cup {<< >>} BY <1>1 DEF SleepTypes
    <3>2. uops[p] # << >> OBVIOUS
    <3> QED BY <3>1, <3>2
  <2> QED BY <2>1, <2>2 DEF Distinct
<1> QED BY <1>2, <1>7, <1>8

(* What p sleeps for does not change when its own variables do not.        *)
LEMMA StuckKept ==
    ASSUME NEW p \in Proc, uops'[p] = uops[p], semid'[p] = semid[p], semp'[p] = semp[p],
           sema'[semid[p].slot].base = sema[semid[p].slot].base
    PROVE  /\ \A i : OpSem(p, i)' = OpSem(p, i)
           /\ \A i, v : Stuck(p, i, v)' <=> Stuck(p, i, v)
BY DEF OpSem, Stuck, SemOf

(* Who still sleeps after a wakeup was not on one of its counts.           *)
LEMMA NotWoken ==
    ASSUME SInv, NEW S, Wakeup(S), NEW p \in Proc, wchan'[p] # NoChan
    PROVE  wchan'[p] = wchan[p] /\ wchan[p] \notin S
<1>1. wchan[p] # NoChan /\ wchan'[p] = wchan[p] BY DEF Wakeup
<1>2. wchan[p] \in Chan /\ cnt \in [Chan -> Nat] /\ cnt[wchan[p]] > 0
  BY <1>1 DEF SInv, SleepTypes, SleeperInv
<1>3. cnt[wchan[p]] # 0 BY <1>2
<1> QED BY <1>1, <1>3 DEF Wakeup

(* A sleeper that an announced change leaves asleep is still stuck.        *)
LEMMA StillStuck ==
    ASSUME SInv, NEW S, Wakeup(S), Announced(S), semval \in Values, semval' \in Values,
           NEW p \in Proc, wchan'[p] # NoChan,
           NEW i, uops[p][i].sem_op \in Int, OpSem(p, i) \in Sem,
           Stuck(p, i, semval[OpSem(p, i)])
    PROVE  Stuck(p, i, semval'[OpSem(p, i)])
<1>1. wchan[p] # NoChan /\ wchan[p] \notin S BY NotWoken
<1>2. wchan[p] = semp[p] BY <1>1 DEF SInv, SleeperInv
<1>3. PICK s \in Sem : s = OpSem(p, i) OBVIOUS
<1>4. PICK o \in Int : o = uops[p][i].sem_op OBVIOUS
<1>5. semval[s] \in Nat /\ semval'[s] \in Nat BY SemConstants DEF Values
<1>6. \/ o < 0 /\ semval[s] < -o /\ semp[p] = <<s, "semncnt">>
      \/ o = 0 /\ semval[s] # 0 /\ semp[p] = <<s, "semzcnt">>
  BY <1>3, <1>4 DEF Stuck
<1>7. \/ o < 0 /\ semval'[s] < -o /\ semp[p] = <<s, "semncnt">>
      \/ o = 0 /\ semval'[s] # 0 /\ semp[p] = <<s, "semzcnt">>
  <2>1. CASE o < 0 /\ semval[s] < -o /\ semp[p] = <<s, "semncnt">>
    <3>1. <<s, "semncnt">> \notin S BY <1>1, <1>2, <2>1
    <3>2. semval'[s] # semval[s] => ~(semval'[s] > semval[s]) BY <3>1 DEF Announced
    <3> QED BY <1>5, <2>1, <3>2
  <2>2. CASE o = 0 /\ semval[s] # 0 /\ semp[p] = <<s, "semzcnt">>
    <3>1. semval'[s] # 0 BY <1>1, <1>2, <2>2 DEF Announced
    <3> QED BY <2>2, <3>1
  <2> QED BY <1>6, <2>1, <2>2
<1> QED BY <1>3, <1>4, <1>7 DEF Stuck

(* The variables that say what process q is doing are left alone.          *)
Apart(q) ==
    /\ uops'[q] = uops[q] /\ semid'[q] = semid[q] /\ semp'[q] = semp[q]
    /\ done'[q] = done[q] /\ pc'[q] = pc[q]

(* The set of q, in semop or asleep, stays where it is.                    *)
BaseKept(q) ==
    wchan[q] # NoChan \/ pc[q] \in {"op", "undo"} =>
       sema'[semid[q].slot].base = sema[semid[q].slot].base

(* p moves and no value changes.                                           *)
LEMMA QuietWait ==
    ASSUME WaitInv, UNCHANGED semval, NEW p \in Proc, wchan'[p] = NoChan,
           \A q \in Proc : BaseKept(q) /\ (wchan'[q] # NoChan => wchan'[q] = wchan[q]),
           \A q \in Proc \ {p} : Apart(q),
           pc'[p] \in {"op", "undo"} =>
              \/ done'[p] = 0
              \/ /\ pc[p] \in {"op", "undo"} /\ done'[p] = done[p]
                 /\ uops'[p] = uops[p] /\ semid'[p] = semid[p],
           pc'[p] = "undo" /\ semp'[p] # NoChan =>
              \E i \in done'[p] + 1 .. Len(uops'[p]) : Stuck(p, i, semval[OpSem(p, i)])'
    PROVE  WaitInv'
<1>1. ASSUME NEW r \in Proc, wchan'[r] # NoChan
      PROVE  \E i \in 1 .. Len(uops'[r]) : Held(r, i)'
  <2>1. wchan[r] # NoChan /\ r # p BY <1>1
  <2>2. PICK i \in 1 .. Len(uops[r]) : Held(r, i) BY <2>1 DEF WaitInv
  <2>3. /\ uops'[r] = uops[r] /\ \A m : OpSem(r, m)' = OpSem(r, m)
        /\ \A m, v : Stuck(r, m, v)' <=> Stuck(r, m, v)
    BY <2>1, StuckKept DEF Apart, BaseKept
  <2>4. Stuck(r, i, semval[OpSem(r, i)])'
    <3>1. Stuck(r, i, semval[OpSem(r, i)]) BY <2>2 DEF Held
    <3>2. PICK v : v = semval[OpSem(r, i)] OBVIOUS
    <3>3. Stuck(r, i, v)' BY <2>3, <3>1, <3>2
    <3> QED BY <2>3, <3>2, <3>3 DEF Stuck
  <2>5. ASSUME NEW q \in Proc, pc'[q] \in {"op", "undo"}, NEW j \in 1 .. done'[q],
               OpSem(q, j)' = OpSem(r, i)'
        PROVE  Stuck(r, i, semval[OpSem(r, i)] - uops[q][j].sem_op)'
    <3>1. /\ pc[q] \in {"op", "undo"} /\ done'[q] = done[q] /\ uops'[q] = uops[q]
          /\ semid'[q] = semid[q]
      <4>1. CASE q = p
        <5>1. done'[q] # 0 BY <2>5
        <5> QED BY <2>5, <4>1, <5>1
      <4>2. CASE q # p BY <2>5, <4>2 DEF Apart
      <4> QED BY <4>1, <4>2
    <3>2. OpSem(q, j)' = OpSem(q, j) BY <3>1 DEF BaseKept, OpSem, SemOf
    <3>3. Stuck(r, i, semval[OpSem(r, i)] - uops[q][j].sem_op)
      BY <2>2, <2>3, <2>5, <3>1, <3>2 DEF Held
    <3>4. PICK v : v = semval[OpSem(r, i)] - uops[q][j].sem_op OBVIOUS
    <3>5. Stuck(r, i, v)' BY <2>3, <3>3, <3>4
    <3> QED BY <2>3, <3>1, <3>4, <3>5 DEF Stuck
  <2>6. Held(r, i)' BY <2>4, <2>5 DEF Held
  <2> QED BY <2>3, <2>6
<1>2. ASSUME NEW q \in Proc, pc'[q] = "undo", semp'[q] # NoChan
      PROVE  \E i \in done'[q] + 1 .. Len(uops'[q]) : Stuck(q, i, semval[OpSem(q, i)])'
  <2>1. CASE q = p BY <1>2, <2>1
  <2>2. CASE q # p
    <3>1. Apart(q) /\ pc[q] = "undo" BY <1>2, <2>2 DEF Apart
    <3>2. PICK i \in done[q] + 1 .. Len(uops[q]) : Stuck(q, i, semval[OpSem(q, i)])
      BY <1>2, <3>1 DEF WaitInv, Apart
    <3>3. /\ OpSem(q, i)' = OpSem(q, i) /\ \A v : Stuck(q, i, v)' <=> Stuck(q, i, v)
      BY <3>1, StuckKept DEF Apart, BaseKept
    <3>4. PICK v : v = semval[OpSem(q, i)] OBVIOUS
    <3>5. Stuck(q, i, v)' BY <3>2, <3>3, <3>4
    <3>6. Stuck(q, i, semval[OpSem(q, i)])' BY <3>3, <3>4, <3>5 DEF Stuck
    <3> QED BY <3>1, <3>6 DEF Apart
  <2> QED BY <2>1, <2>2
<1> QED BY <1>1, <1>2 DEF WaitInv

(* p changes values in one go, with nobody in semop.                       *)
LEMMA CallWait ==
    ASSUME SInv, Distinct, WaitInv, semval \in Values, semval' \in Values,
           NEW p \in Proc, wchan[p] = NoChan, NEW S, Wakeup(S), Announced(S),
           \A q \in Proc : pc'[q] \notin {"op", "undo"},
           \A q \in Proc : wchan'[q] # NoChan => BaseKept(q),
           \A q \in Proc \ {p} : Apart(q)
    PROVE  WaitInv'
<1>1. ASSUME NEW r \in Proc, wchan'[r] # NoChan
      PROVE  \E i \in 1 .. Len(uops'[r]) : Held(r, i)'
  <2>1. wchan[r] # NoChan /\ r # p BY <1>1, NotWoken
  <2>2. PICK i \in 1 .. Len(uops[r]) : Held(r, i) BY <2>1 DEF WaitInv
  <2>3. /\ uops'[r] = uops[r] /\ OpSem(r, i)' = OpSem(r, i)
        /\ \A v : Stuck(r, i, v)' <=> Stuck(r, i, v)
    BY <1>1, <2>1, StuckKept DEF Apart, BaseKept
  <2>4. OpSem(r, i) \in Sem /\ uops[r][i].sem_op \in Int
    <3>1. pc[r] = "asleep" /\ semconv(semid[r]) BY <2>1 DEF SInv, SleeperInv
    <3> QED BY <3>1, OpSemIn
  <2>5. Stuck(r, i, semval'[OpSem(r, i)]) BY <1>1, <2>2, <2>4, StillStuck DEF Held
  <2>6. PICK v : v = semval'[OpSem(r, i)] OBVIOUS
  <2>7. Stuck(r, i, v)' BY <2>3, <2>5, <2>6
  <2>8. Stuck(r, i, semval[OpSem(r, i)])' BY <2>3, <2>6, <2>7 DEF Stuck
  <2>9. Held(r, i)' BY <2>8 DEF Held
  <2> QED BY <2>3, <2>9
<1> QED BY <1>1 DEF WaitInv

(* An operation of p is done: the sleepers that it does not wake are held  *)
(* at the new value, and at the old one, to which semundo may return.      *)
LEMMA OpWait ==
    ASSUME SInv, Distinct, WaitInv, semval \in Values, semval' \in Values,
           NEW p \in Proc, AtOp(p), NEW S, Wakeup(S), Announced(S),
           semval' = [semval EXCEPT ![CurSem(p)] = @ + CurOp(p).sem_op],
           done' = [done EXCEPT ![p] = @ + 1], Goto(p, "op"), UNCHANGED <<procvars, sema>>
    PROVE  WaitInv'
<1>1. SleepTypes /\ ProcInv(p) BY DEF SInv
<1>2. /\ cpu = p /\ wchan[p] = NoChan /\ pc[p] = "op" /\ semconv(semid[p])
      /\ p # NoProc /\ semp[p] = NoChan
  BY <1>1, SemConstants DEF AtOp, At, ProcInv, Inside
<1>3. PICK n \in Nat : n = done[p] /\ n < Len(uops[p]) BY <1>1 DEF SleepTypes, AtOp
<1>4. PICK t \in Sem : t = CurSem(p) BY CurSemIn
<1>5. PICK o \in Int : o = CurOp(p).sem_op BY CurSemIn DEF sembuf
<1>6. /\ semval' = [semval EXCEPT ![t] = semval[t] + o] /\ done'[p] = n + 1
      /\ uops' = uops /\ semid' = semid /\ semp' = semp /\ sema' = sema
      /\ t = OpSem(p, n + 1) /\ o = uops[p][n + 1].sem_op
      /\ \A q \in Proc \ {p} : pc'[q] = pc[q] /\ done'[q] = done[q]
  BY <1>1, <1>3, <1>4, <1>5 DEF SleepTypes, procvars, CurSem, CurOp, OpSem, Goto
<1>7. \A s \in Sem : semval[s] \in Int /\ semval'[s] \in Int BY SemConstants DEF Values
<1>8. \A q \in Proc : pc'[q] \in {"op", "undo"} => q = p
  <2>1. \A q \in Proc : pc[q] \in {"op", "undo"} => cpu = q BY DEF SInv, ProcInv, Inside
  <2> QED BY <1>2, <1>6, <2>1
<1>9. ASSUME NEW r \in Proc, wchan'[r] # NoChan
      PROVE  \E i \in 1 .. Len(uops'[r]) : Held(r, i)'
  <2>1. wchan[r] # NoChan /\ r # p BY <1>2, <1>9, NotWoken
  <2>2. PICK i \in 1 .. Len(uops[r]) : Held(r, i) BY <2>1 DEF WaitInv
  <2>3. /\ \A q \in Proc : \A m : OpSem(q, m)' = OpSem(q, m)
        /\ \A m, v : Stuck(r, m, v)' <=> Stuck(r, m, v)
    BY <1>6, StuckKept
  <2>4. PICK s \in Sem : s = OpSem(r, i) /\ uops[r][i].sem_op \in Int
    <3>1. pc[r] = "asleep" /\ semconv(semid[r]) BY <2>1 DEF SInv, SleeperInv
    <3> QED BY <3>1, OpSemIn
  <2>5. Stuck(r, i, semval[s]) BY <2>2, <2>4 DEF Held
  <2>6. Stuck(r, i, semval'[s]) BY <1>9, <2>4, <2>5, StillStuck
  <2>7. ASSUME NEW j \in 1 .. n + 1, OpSem(p, j) = s
        PROVE  Stuck(r, i, semval'[s] - uops[p][j].sem_op)
    <3>1. CASE j = n + 1
      <4>1. s = t /\ uops[p][j].sem_op = o BY <1>6, <2>7, <3>1
      <4>2. semval'[s] = semval[s] + o BY <1>6, <4>1 DEF Values
      <4>3. semval'[s] - uops[p][j].sem_op = semval[s] BY <1>7, <4>1, <4>2
      <4> QED BY <2>5, <4>3
    <3>2. CASE j # n + 1
      <4>1. j \in 1 .. n /\ j \in 1 .. Len(uops[p]) /\ n + 1 \in 1 .. Len(uops[p])
        BY <1>3, <3>2
      <4>2. s # t BY <1>2, <1>6, <2>7, <3>2, <4>1, OpSemIn
      <4>3. semval'[s] = semval[s] BY <1>6, <4>2 DEF Values
      <4>4. Stuck(r, i, semval[s] - uops[p][j].sem_op)
        BY <1>2, <1>3, <2>2, <2>4, <2>7, <4>1 DEF Held
      <4> QED BY <4>3, <4>4
    <3> QED BY <3>1, <3>2
  <2>8. PICK v : v = semval'[s] OBVIOUS
  <2>9. Stuck(r, i, v)' BY <2>3, <2>6, <2>8
  <2>10. Stuck(r, i, semval[OpSem(r, i)])' BY <2>3, <2>4, <2>8, <2>9 DEF Stuck
  <2>11. ASSUME NEW q \in Proc, pc'[q] \in {"op", "undo"}, NEW j \in 1 .. done'[q],
                OpSem(q, j)' = OpSem(r, i)'
         PROVE  Stuck(r, i, semval[OpSem(r, i)] - uops[q][j].sem_op)'
    <3>1. q = p /\ j \in 1 .. n + 1 BY <1>6, <1>8, <2>11
    <3>2. OpSem(p, j) = s BY <2>3, <2>4, <2>11, <3>1
    <3>3. PICK w : w = semval'[s] - uops[p][j].sem_op OBVIOUS
    <3>4. Stuck(r, i, w)' BY <2>3, <2>7, <3>1, <3>2, <3>3
    <3> QED BY <1>6, <2>3, <2>4, <3>1, <3>3, <3>4 DEF Stuck
  <2>12. Held(r, i)' BY <2>10, <2>11 DEF Held
  <2> QED BY <1>6, <2>12
<1>10. ASSUME NEW q \in Proc, pc'[q] = "undo", semp'[q] # NoChan PROVE FALSE
  <2>1. q = p BY <1>8, <1>10
  <2> QED BY <1>2, <1>6, <1>10, <2>1
<1> QED BY <1>9, <1>10 DEF WaitInv

(* semundo takes an operation back, to a value at which all sleepers are   *)
(* held; what p itself is going to wait for is another semaphore.          *)
LEMMA BackWait ==
    ASSUME SInv, Distinct, WaitInv, semval \in Values, semval' \in Values,
           NEW p \in Proc, UndoOp(p)
    PROVE  WaitInv'
<1>1. SleepTypes /\ ProcInv(p) BY DEF SInv
<1>2. /\ cpu = p /\ wchan[p] = NoChan /\ pc[p] = "undo" /\ semconv(semid[p])
      /\ p # NoProc
  BY <1>1, SemConstants DEF UndoOp, At, ProcInv, Inside
<1>3. PICK n \in Nat : n = done[p] /\ n > 0 /\ n <= Len(uops[p])
  BY <1>1, <1>2 DEF SleepTypes, UndoOp, ProcInv
<1>4. n \in 1 .. Len(uops[p])
  <2>1. uops[p] \in Seq(sembuf) BY <1>1, UopsType
  <2> QED BY <1>3, <2>1
<1>5. PICK t \in Sem : t = OpSem(p, n) BY <1>2, <1>4, OpSemIn
<1>6. PICK o \in Int : o = uops[p][n].sem_op BY <1>2, <1>4, OpSemIn
<1>7. /\ semval' = [semval EXCEPT ![t] = semval[t] - o] /\ done'[p] = n - 1
      /\ uops' = uops /\ semid' = semid /\ semp' = semp /\ sema' = sema /\ wchan' = wchan
      /\ \A q \in Proc \ {p} : pc'[q] = pc[q] /\ done'[q] = done[q]
  BY <1>1, <1>3, <1>5, <1>6 DEF SleepTypes, procvars, OpSem, UndoOp, Goto
<1>8. \A q \in Proc : pc'[q] \in {"op", "undo"} => q = p
  <2>1. \A q \in Proc : pc[q] \in {"op", "undo"} => cpu = q BY DEF SInv, ProcInv, Inside
  <2> QED BY <1>2, <1>7, <2>1
<1>9. ASSUME NEW r \in Proc, wchan'[r] # NoChan
      PROVE  \E i \in 1 .. Len(uops'[r]) : Held(r, i)'
  <2>1. wchan[r] # NoChan /\ r # p BY <1>2, <1>7, <1>9
  <2>2. PICK i \in 1 .. Len(uops[r]) : Held(r, i) BY <2>1 DEF WaitInv
  <2>3. /\ \A q \in Proc : \A m : OpSem(q, m)' = OpSem(q, m)
        /\ \A m, v : Stuck(r, m, v)' <=> Stuck(r, m, v)
    BY <1>7, StuckKept
  <2>4. PICK s \in Sem : s = OpSem(r, i)
    <3>1. pc[r] = "asleep" /\ semconv(semid[r]) BY <2>1 DEF SInv, SleeperInv
    <3> QED BY <3>1, OpSemIn
  <2>5. /\ Stuck(r, i, semval[s])
        /\ \A j \in 1 .. n : OpSem(p, j) = s => Stuck(r, i, semval[s] - uops[p][j].sem_op)
    BY <1>2, <1>3, <2>2, <2>4 DEF Held
  <2>6. Stuck(r, i, semval'[s])
    <3>1. CASE s = t
      <4>1. semval'[s] = semval[s] - uops[p][n].sem_op BY <1>6, <1>7, <3>1 DEF Values
      <4>2. n \in 1 .. n BY <1>3
      <4> QED BY <1>5, <2>5, <3>1, <4>1, <4>2
    <3>2. CASE s # t
      <4>1. semval'[s] = semval[s] BY <1>7, <3>2 DEF Values
      <4> QED BY <2>5, <4>1
    <3> QED BY <3>1, <3>2
  <2>7. ASSUME NEW j \in 1 .. n - 1, OpSem(p, j) = s
        PROVE  Stuck(r, i, semval'[s] - uops[p][j].sem_op)
    <3>1. j # n /\ j \in 1 .. n /\ j \in 1 .. Len(uops[p]) BY <1>3, <1>4
    <3>2. s # t BY <1>2, <1>4, <1>5, <2>7, <3>1, OpSemIn
    <3>3. semval'[s] = semval[s] BY <1>7, <3>2 DEF Values
    <3> QED BY <2>5, <2>7, <3>1, <3>3
  <2>8. PICK v : v = semval'[s] OBVIOUS
  <2>9. Stuck(r, i, v)' BY <2>3, <2>6, <2>8
  <2>10. Stuck(r, i, semval[OpSem(r, i)])' BY <2>3, <2>4, <2>8, <2>9 DEF Stuck
  <2>11. ASSUME NEW q \in Proc, pc'[q] \in {"op", "undo"}, NEW j \in 1 .. done'[q],
                OpSem(q, j)' = OpSem(r, i)'
         PROVE  Stuck(r, i, semval[OpSem(r, i)] - uops[q][j].sem_op)'
    <3>1. q = p /\ j \in 1 .. n - 1 BY <1>7, <1>8, <2>11
    <3>2. OpSem(p, j) = s BY <2>3, <2>4, <2>11, <3>1
    <3>3. PICK w : w = semval'[s] - uops[p][j].sem_op OBVIOUS
    <3>4. Stuck(r, i, w)' BY <2>3, <2>7, <3>1, <3>2, <3>3
    <3> QED BY <1>7, <2>3, <2>4, <3>1, <3>3, <3>4 DEF Stuck
  <2>12. Held(r, i)' BY <2>10, <2>11 DEF Held
  <2> QED BY <1>7, <2>12
<1>10. ASSUME NEW q \in Proc, pc'[q] = "undo", semp'[q] # NoChan
       PROVE  \E i \in done'[q] + 1 .. Len(uops'[q]) : Stuck(q, i, semval[OpSem(q, i)])'
  <2>1. q = p BY <1>8, <1>10
  <2>2. PICK i \in n + 1 .. Len(uops[p]) : Stuck(p, i, semval[OpSem(p, i)])
    BY <1>2, <1>3, <1>7, <1>10, <2>1 DEF WaitInv
  <2>3. i # n /\ i \in n .. Len(uops[p]) /\ i \in 1 .. Len(uops[p]) BY <1>3, <1>4
  <2>4. OpSem(p, i) # t BY <1>2, <1>4, <1>5, <2>3, OpSemIn
  <2>5. semval'[OpSem(p, i)] = semval[OpSem(p, i)]
    <3>1. OpSem(p, i) \in Sem BY <1>2, <2>3, OpSemIn
    <3> QED BY <1>7, <2>4, <3>1 DEF Values
  <2>6. OpSem(p, i)' = OpSem(p, i) /\ \A v : Stuck(p, i, v)' <=> Stuck(p, i, v)
    BY <1>7, StuckKept
  <2>7. PICK v : v = semval[OpSem(p, i)] OBVIOUS
  <2>8. Stuck(p, i, v)' BY <2>2, <2>6, <2>7
  <2>9. Stuck(p, i, semval[OpSem(p, i)])' BY <2>5, <2>6, <2>7, <2>8 DEF Stuck
  <2>10. i \in done'[p] + 1 .. Len(uops'[p]) BY <1>3, <1>7, <2>3
  <2> QED BY <2>1, <2>9, <2>10
<1> QED BY <1>9, <1>10 DEF WaitInv

(* While somebody else may move, nobody is in semop.                       *)
LEMMA NobodyIn ==
    ASSUME SInv, NEW p \in Proc, cpu \in {p, NoProc}, pc[p] \notin {"op", "undo"}
    PROVE  \A q \in Proc : pc[q] \notin {"op", "undo"}
BY SemConstants DEF SInv, ProcInv, Inside

(* One operation of semop.                                                 *)
LEMMA OpsWait ==
    ASSUME SInv, UndoInv, UndoInv', ValInv, Distinct, WaitInv, NEW p \in Proc,
           OpUp(p) \/ OpDown(p) \/ OpZero(p) \/ UndoOp(p)
    PROVE  WaitInv'
<1>1. semval \in Values /\ semval' \in Values
  BY KernelValues DEF ValInv, KernelStep
<1>2. CASE OpUp(p) \/ OpDown(p)
  <2>1. AtOp(p) BY <1>2 DEF OpUp, OpDown
  <2>2. PICK t \in Sem : t = CurSem(p) BY <2>1, CurSemIn
  <2>3. PICK o \in Int : o = CurOp(p).sem_op BY <2>1, CurSemIn DEF sembuf
  <2>4. semval[t] \in Nat /\ SEMVMX \in Nat BY <1>1, SemConstants DEF Values
  <2>5. CASE OpUp(p)
    <3>1. Apply(p, {<<t, "semncnt">>}) /\ o > 0 BY <2>2, <2>3, <2>5 DEF OpUp
    <3>2. semval' = [semval EXCEPT ![t] = semval[t] + o] BY <2>2, <2>3, <3>1 DEF Apply
    <3>3. semval[t] + o # 0 BY <2>4, <3>1
    <3>4. Announced({<<t, "semncnt">>}) BY <1>1, <3>2, <3>3 DEF Announced, Values
    <3> QED BY <1>1, <2>1, <3>1, <3>4, OpWait DEF Apply
  <2>6. CASE OpDown(p)
    <3> DEFINE S == IF semval[t] + o = 0 THEN {<<t, "semzcnt">>} ELSE {}
    <3>1. Apply(p, S) /\ o < 0 BY <2>2, <2>3, <2>6 DEF OpDown
    <3>2. semval' = [semval EXCEPT ![t] = semval[t] + o] BY <2>2, <2>3, <3>1 DEF Apply
    <3>3. ~(semval[t] + o > semval[t]) BY <2>4, <3>1
    <3>4. Announced(S) BY <1>1, <3>2, <3>3 DEF Announced, Values
    <3> QED BY <1>1, <2>1, <3>1, <3>4, OpWait DEF Apply
  <2> QED BY <1>2, <2>5, <2>6
<1>3. CASE OpZero(p)
  <2>1. AtOp(p) /\ semval' = semval /\ wchan' = wchan /\ cnt' = cnt BY <1>3 DEF OpZero
  <2>2. CurSem(p) \in Sem /\ CurOp(p).sem_op = 0 BY <1>3, <2>1, CurSemIn DEF OpZero
  <2>3. semval[CurSem(p)] + 0 = semval[CurSem(p)] BY <1>1, <2>2, SemConstants DEF Values
  <2>4. semval' = [semval EXCEPT ![CurSem(p)] = @ + CurOp(p).sem_op]
    BY <1>1, <2>1, <2>2, <2>3 DEF Values
  <2>5. Wakeup({}) BY <2>1 DEF Wakeup, SInv, SleepTypes
  <2>6. Announced({}) BY <2>1 DEF Announced
  <2> QED BY <1>1, <1>3, <2>1, <2>4, <2>5, <2>6, OpWait DEF OpZero
<1>4. CASE UndoOp(p) BY <1>1, <1>4, BackWait
<1> QED BY <1>2, <1>3, <1>4

(* semop counts itself and sleeps: it is held, and nobody is in semop.     *)
LEMMA SleepWait ==
    ASSUME SInv, WaitInv, NEW p \in Proc, UndoneSleeps(p) PROVE WaitInv'
<1>1. SleepTypes BY DEF SInv
<1>2. /\ uops' = uops /\ semid' = semid /\ semp' = semp /\ sema' = sema
      /\ semval' = semval /\ done' = done
      /\ pc[p] = "undo" /\ done[p] = 0 /\ semp[p] # NoChan /\ cpu \in {p, NoProc}
  BY DEF UndoneSleeps, procvars, At
<1>3. \A q \in Proc \ {p} : wchan'[q] = wchan[q] BY <1>1 DEF UndoneSleeps, SleepTypes
<1>4. \A q \in Proc : pc'[q] \notin {"op", "undo"}
  <2>1. \A q \in Proc \ {p} : pc[q] \notin {"op", "undo"}
    BY <1>2, SemConstants DEF SInv, ProcInv, Inside
  <2> QED BY <1>1, <2>1 DEF UndoneSleeps, SleepTypes
<1>5. ASSUME NEW r \in Proc, wchan'[r] # NoChan
      PROVE  \E i \in 1 .. Len(uops'[r]) : Held(r, i)'
  <2>1. PICK i \in 1 .. Len(uops[r]) : Stuck(r, i, semval[OpSem(r, i)])
    <3>1. CASE r = p
      <4>1. PICK i \in done[p] + 1 .. Len(uops[p]) : Stuck(p, i, semval[OpSem(p, i)])
        BY <1>2 DEF WaitInv
      <4>2. i \in 1 .. Len(uops[p]) BY <1>2, <4>1
      <4> QED BY <3>1, <4>1, <4>2
    <3>2. CASE r # p BY <1>3, <1>5, <3>2 DEF WaitInv, Held
    <3> QED BY <3>1, <3>2
  <2>2. OpSem(r, i)' = OpSem(r, i) /\ \A v : Stuck(r, i, v)' <=> Stuck(r, i, v)
    BY <1>2, StuckKept
  <2>3. PICK v : v = semval[OpSem(r, i)] OBVIOUS
  <2>4. Stuck(r, i, v)' BY <2>1, <2>2, <2>3
  <2>5. Stuck(r, i, semval[OpSem(r, i)])' BY <1>2, <2>2, <2>3, <2>4 DEF Stuck
  <2>6. Held(r, i)' BY <1>4, <2>5 DEF Held
  <2> QED BY <1>2, <2>6
<1> QED BY <1>4, <1>5 DEF WaitInv

(* An operation cannot be done: p goes to semundo, to sleep for it or not. *)
LEMMA BlockWait ==
    ASSUME SInv, WaitInv, semval \in Values, NEW p \in Proc, OpBlocks(p) \/ OpFails(p)
    PROVE  WaitInv'
<1>1. SleepTypes /\ ProcInv(p) BY DEF SInv
<1>2. AtOp(p) BY DEF OpBlocks, OpFails
<1>3. /\ wchan[p] = NoChan /\ pc[p] = "op" /\ semp[p] = NoChan
  BY <1>1, <1>2 DEF AtOp, At, ProcInv
<1>4. PICK n \in Nat : n = done[p] /\ n < Len(uops[p]) BY <1>1, <1>2 DEF SleepTypes, AtOp
<1>5. /\ uops' = uops /\ semid' = semid /\ sema' = sema /\ semval' = semval
      /\ done' = done /\ wchan' = wchan
      /\ \A q \in Proc \ {p} : pc'[q] = pc[q] /\ semp'[q] = semp[q]
  BY <1>1 DEF OpBlocks, OpFails, procvars, Goto, SleepTypes
<1>6. ASSUME semp'[p] # NoChan PROVE Stuck(p, n + 1, semval[OpSem(p, n + 1)])'
  <2>1. OpBlocks(p) BY <1>3, <1>6 DEF OpFails, procvars
  <2>2. CurOp(p) = uops[p][n + 1] /\ CurSem(p) = OpSem(p, n + 1)
    BY <1>4 DEF CurOp, CurSem, OpSem
  <2>3. PICK o \in Int : o = uops[p][n + 1].sem_op
    BY <1>2, <2>2, CurSemIn DEF sembuf
  <2>4. PICK s \in Sem : s = OpSem(p, n + 1) BY <1>2, <2>2, CurSemIn
  <2>5. semp'[p] = <<s, IF o < 0 THEN "semncnt" ELSE "semzcnt">>
    <3>1. semp' = [semp EXCEPT ![p] = IF CurOp(p).IPC_NOWAIT THEN NoChan
                     ELSE <<s, IF o < 0 THEN "semncnt" ELSE "semzcnt">>]
      BY <2>1, <2>2, <2>3, <2>4 DEF OpBlocks
    <3> QED BY <1>1, <1>6, <3>1 DEF SleepTypes
  <2>6. \/ o < 0 /\ semval[s] < -o
        \/ o = 0 /\ semval[s] # 0
    <3>1. MustWait(p) BY <2>1 DEF OpBlocks
    <3>2. CurOp(p).sem_op = o /\ CurSem(p) = s BY <2>2, <2>3, <2>4
    <3>3. semval[s] \in Int BY <2>4, SemConstants DEF Values
    <3> QED BY <3>1, <3>2, <3>3 DEF MustWait
  <2>7. OpSem(p, n + 1)' = s BY <1>5, <2>4 DEF OpSem, SemOf
  <2> QED BY <1>5, <2>3, <2>5, <2>6, <2>7 DEF Stuck
<1>7. n + 1 \in done'[p] + 1 .. Len(uops'[p])
  <2>1. Len(uops[p]) \in Nat BY <1>1, UopsType
  <2> QED BY <1>4, <1>5, <2>1
<1>8. /\ \A q \in Proc : BaseKept(q) /\ (wchan'[q] # NoChan => wchan'[q] = wchan[q])
      /\ \A q \in Proc \ {p} : Apart(q)
  BY <1>5 DEF BaseKept, Apart
<1> QED BY <1>3, <1>5, <1>6, <1>7, <1>8, QuietWait

(* semget, semctl and semexit.                                             *)
LEMMA UserWait ==
    ASSUME SInv, UndoInv, ValInv, Distinct, WaitInv, NEW p \in Proc, UserStep(p)
    PROVE  WaitInv'
<1>1. SleepTypes BY DEF SInv
<1>2. semval \in Values /\ semval' \in Values BY UserValues DEF ValInv
<1>3. /\ pc[p] = "user" /\ wchan[p] = NoChan /\ cpu \in {p, NoProc}
      /\ \A q \in Proc : pc[q] \notin {"op", "undo"}
  <2>1. At(p, "user") BY MoverRuns
  <2> QED BY <2>1, NobodyIn DEF At
<1>4. \A q \in Proc : wchan[q] # NoChan =>
         /\ semconv(semid[q]) /\ semid[q].slot \in Slot
         /\ wchan[q] = semp[q] /\ semp[q][1] \in SetOf(sema[semid[q].slot])
         /\ semp[q] \in Chan
  <2> SUFFICES ASSUME NEW q \in Proc, wchan[q] # NoChan
               PROVE  /\ semconv(semid[q]) /\ semid[q].slot \in Slot
                      /\ wchan[q] = semp[q] /\ semp[q][1] \in SetOf(sema[semid[q].slot])
                      /\ semp[q] \in Chan
    OBVIOUS
  <2>1. SleeperInv(q) /\ ProcInv(q) BY DEF SInv
  <2>2. semid[q] \in Id /\ wchan[q] \in Chan \cup {NoChan} BY <1>1 DEF SleepTypes
  <2>3. semid[q].slot \in Slot BY <2>2 DEF Id
  <2> QED BY <2>1, <2>2, <2>3 DEF SleeperInv, ProcInv
<1>5. ASSUME UNCHANGED <<sema, pc, procvars, done, semval, wchan>> PROVE WaitInv'
  BY <1>3, <1>5, QuietWait DEF BaseKept, Apart, procvars
<1>6. ASSUME NEW S, Wakeup(S), Announced(S), UNCHANGED <<sema, pc, procvars, done>>
      PROVE  WaitInv'
  <2>1. \A q \in Proc : BaseKept(q) /\ Apart(q) BY <1>6 DEF BaseKept, Apart, procvars
  <2>2. \A q \in Proc : pc'[q] \notin {"op", "undo"} BY <1>3, <1>6
  <2> QED BY <1>2, <1>3, <1>6, <2>1, <2>2, CallWait
<1>7. ASSUME NEW h \in Slot, NEW n \in SetSizes, NEW b \in Sem, semget(p, h, n, b)
      PROVE  WaitInv'
  <2>1. \A q \in Proc : BaseKept(q)
    <3>1. \A q \in Proc : wchan[q] # NoChan => semid[q].slot # h
      BY <1>4, <1>7 DEF semget, semconv
    <3>2. \A k \in Slot : k # h => sema'[k] = sema[k] BY <1>1, <1>7 DEF semget, SleepTypes
    <3> QED BY <1>3, <1>4, <3>1, <3>2 DEF BaseKept
  <2>2. /\ \A q \in Proc : Apart(q) /\ wchan'[q] = wchan[q]
        /\ semval' = semval /\ pc' = pc
    BY <1>7 DEF semget, Apart, procvars
  <2> QED BY <1>3, <2>1, <2>2, QuietWait
<1>8. ASSUME NEW d \in Id, semctl_RMID(p, d) PROVE WaitInv'
  <2>1. d.slot \in Slot BY DEF Id
  <2>2. \A k \in Slot : sema'[k].base = sema[k].base
    <3>1. sema' = [sema EXCEPT ![d.slot].seq = @ + 1, ![d.slot].alloc = FALSE]
      BY <1>8 DEF semctl_RMID
    <3>2. sema[d.slot] \in [alloc : BOOLEAN, seq : 0 .. MaxSeq, base : Sem, nsems : Nat]
      BY <1>1, <2>1 DEF SleepTypes
    <3>3. sema'[d.slot].base = sema[d.slot].base BY <1>1, <2>1, <3>1, <3>2 DEF SleepTypes
    <3>4. \A k \in Slot : k # d.slot => sema'[k] = sema[k] BY <1>1, <3>1 DEF SleepTypes
    <3> QED BY <3>3, <3>4
  <2>3. \A q \in Proc : BaseKept(q) BY <1>3, <1>4, <2>2 DEF BaseKept
  <2>4. Announced(RmidChans(sema[d.slot]))
    BY <1>2, <1>8 DEF Announced, RmidChans, semctl_RMID
  <2>5. Wakeup(RmidChans(sema[d.slot])) BY <1>8 DEF semctl_RMID
  <2>6. pc' = pc /\ \A q \in Proc : Apart(q) BY <1>8 DEF semctl_RMID, Apart, procvars
  <2> QED BY <1>2, <1>3, <2>3, <2>4, <2>5, <2>6, CallWait
<1>9. ASSUME NEW d \in Id, NEW num \in Num, NEW v \in SetVals, semctl_SETVAL(p, d, num, v)
      PROVE  WaitInv'
  <2>1. PICK s : s = SemOf(d, num) OBVIOUS
  <2>2. semval' = [semval EXCEPT ![s] = v] /\ Wakeup({SetChan(s, v)})
    BY <1>9, <2>1 DEF semctl_SETVAL
  <2>3. v \in Nat BY SemConstants
  <2>4. \A x \in Sem : semval[x] \in Nat BY <1>2, SemConstants DEF Values
  <2>5. Announced({SetChan(s, v)})
    <3> SUFFICES ASSUME NEW x \in Sem, semval'[x] # semval[x]
                 PROVE  /\ semval'[x] = 0 => <<x, "semzcnt">> = SetChan(s, v)
                        /\ semval'[x] > semval[x] => <<x, "semncnt">> = SetChan(s, v)
      BY DEF Announced
    <3>1. x = s /\ semval'[x] = v BY <1>2, <2>2 DEF Values
    <3>2. v > semval[x] => v # 0 BY <2>3, <2>4
    <3> QED BY <3>1, <3>2 DEF SetChan
  <2> QED BY <1>6, <1>9, <2>2, <2>5 DEF semctl_SETVAL
<1>10. ASSUME NEW d \in Id, semctl_SETALL(p, d) \/ \E ops \in OpLists : semop(p, d, ops)
       PROVE  WaitInv'
  <2>1. /\ \A q \in Proc \ {p} : Apart(q)
        /\ semval' = semval /\ wchan' = wchan /\ sema' = sema
        /\ pc'[p] \in {"setall", "copyin"}
    BY <1>1, <1>10 DEF semctl_SETALL, semop, Apart, SleepTypes
  <2>2. \A q \in Proc : BaseKept(q) BY <2>1 DEF BaseKept
  <2> QED BY <1>3, <2>1, <2>2, QuietWait
<1>11. CASE semexit(p)
  <2> DEFINE u == sem_undo[p]
             Val(k) == semval[SemOf(k[1], k[2])] + un_ent[u][k]
             K == {k \in UndoKey : /\ un_ent[u][k] # 0 /\ semconv(k[1])
                                   /\ Val(k) \in 0 .. SEMVMX}
             S == UNION {ExitChans(k, un_ent[u][k], Val(k)) : k \in K}
  <2>1. /\ semval' = [s \in Sem |->
              IF \E k \in K : SemOf(k[1], k[2]) = s
              THEN Val(CHOOSE k \in K : SemOf(k[1], k[2]) = s) ELSE semval[s]]
        /\ Wakeup(S)
    BY <1>11 DEF semexit
  <2>2. u \in Undo BY <1>11 DEF semexit, UndoInv, UndoTypes
  <2>3. \A k \in UndoKey : un_ent[u][k] \in Int
    BY <2>2, SemConstants DEF UndoInv, UndoTypes
  <2>4. Announced(S)
    <3> SUFFICES ASSUME NEW s \in Sem, semval'[s] # semval[s]
                 PROVE  /\ semval'[s] = 0 => <<s, "semzcnt">> \in S
                        /\ semval'[s] > semval[s] => <<s, "semncnt">> \in S
      BY DEF Announced
    <3>1. \E k \in K : SemOf(k[1], k[2]) = s BY <2>1
    <3>2. PICK k : k = (CHOOSE e \in K : SemOf(e[1], e[2]) = s) OBVIOUS
    <3>3. k \in K /\ SemOf(k[1], k[2]) = s BY <3>1, <3>2
    <3>4. semval'[s] = Val(k) BY <2>1, <3>1, <3>2
    <3>5. PICK a \in Int : a = un_ent[u][k] BY <2>3, <3>3
    <3>6. semval'[s] = semval[s] + a BY <3>3, <3>4, <3>5
    <3>7. semval[s] \in Int BY <1>2, SemConstants DEF Values
    <3>8. semval'[s] > semval[s] => a > 0 BY <3>6, <3>7
    <3>9. ExitChans(k, a, Val(k)) \subseteq S BY <3>3, <3>5
    <3>10. /\ semval'[s] = 0 => <<s, "semzcnt">> \in ExitChans(k, a, Val(k))
           /\ a > 0 => <<s, "semncnt">> \in ExitChans(k, a, Val(k))
      BY <3>3, <3>4 DEF ExitChans
    <3> QED BY <3>8, <3>9, <3>10
  <2> HIDE DEF S
  <2> QED BY <1>6, <1>11, <2>1, <2>4 DEF semexit
<1> QED BY <1>7, <1>8, <1>9, <1>10, <1>11 DEF UserStep

(* SETALL, and the steps of semop between its operations.                  *)
LEMMA OtherWait ==
    ASSUME SInv, UndoInv, UndoInv', ValInv, Distinct, WaitInv, NEW p \in Proc,
           \/ \E vals \in [Sem -> SetVals] : SetAll(p, vals) \/ SetAllFails(p, vals)
           \/ Start(p) \/ Check(p) \/ Reject(p) \/ SemopDone(p) \/ UndoneFails(p)
           \/ Retry(p) \/ Interrupted(p)
    PROVE  WaitInv'
<1>1. SleepTypes /\ ProcInv(p) BY DEF SInv
<1>2. wchan[p] = NoChan /\ cpu \in {p, NoProc} /\ sema' = sema
  BY DEF SetAll, SetAllFails, Start, Check, Reject, SemopDone, UndoneFails, Retry,
     Interrupted, At
<1>3. \A q \in Proc : BaseKept(q) BY <1>2 DEF BaseKept
<1>4. ASSUME Return(p) PROVE /\ \A q \in Proc \ {p} : Apart(q)
                             /\ pc'[p] = "user"
  BY <1>1, <1>4 DEF Return, Apart, SleepTypes
<1>5. ASSUME NEW vals \in [Sem -> SetVals], SetAll(p, vals) PROVE WaitInv'
  <2> DEFINE T == SetOf(sema[semid[p].slot])
             S == {SetChan(s, vals[s]) : s \in T}
  <2>1. Wakeup(S) /\ Return(p) /\ pc[p] = "setall" BY <1>5 DEF SetAll, At
  <2>2. semval' = [s \in Sem |-> IF s \in T THEN vals[s] ELSE semval[s]]
    BY <1>5 DEF SetAll
  <2>3. semval \in Values /\ semval' \in Values
    BY <1>5, KernelValues DEF ValInv, KernelStep
  <2>4. Announced(S)
    <3> SUFFICES ASSUME NEW x \in Sem, semval'[x] # semval[x]
                 PROVE  /\ semval'[x] = 0 => <<x, "semzcnt">> \in S
                        /\ semval'[x] > semval[x] => <<x, "semncnt">> \in S
      BY DEF Announced
    <3>1. x \in T /\ semval'[x] = vals[x] BY <2>2
    <3>2. SetChan(x, vals[x]) \in S BY <3>1
    <3>3. semval[x] \in Nat /\ semval'[x] \in Nat BY <2>3, SemConstants DEF Values
    <3>4. semval'[x] > semval[x] => vals[x] # 0 BY <3>1, <3>3
    <3> QED BY <3>1, <3>2, <3>4 DEF SetChan
  <2>5. \A q \in Proc : pc'[q] \notin {"op", "undo"}
    <3>1. \A q \in Proc : pc[q] \notin {"op", "undo"} BY <1>2, <2>1, NobodyIn
    <3> QED BY <1>4, <2>1, <3>1 DEF Apart
  <2> HIDE DEF S
  <2> QED BY <1>2, <1>3, <1>4, <2>1, <2>3, <2>4, <2>5, CallWait
<1>6. ASSUME Return(p), UNCHANGED <<semval, wchan>> PROVE WaitInv'
  BY <1>2, <1>3, <1>4, <1>6, QuietWait
<1>7. CASE \/ \E vals \in [Sem -> SetVals] : SetAllFails(p, vals)
           \/ Reject(p) \/ SemopDone(p) \/ UndoneFails(p)
  BY <1>6, <1>7 DEF SetAllFails, Reject, SemopDone, UndoneFails
<1>8. CASE Interrupted(p)
  <2>1. Return(p) /\ semval' = semval /\ Uncount(semp[p]) BY <1>8 DEF Interrupted
  <2>2. \A q \in Proc : wchan'[q] # NoChan => wchan'[q] = wchan[q]
    <3>1. CASE cnt[semp[p]] <= 1 BY <2>1, <3>1 DEF Uncount
    <3>2. CASE ~(cnt[semp[p]] <= 1) BY <2>1, <3>2 DEF Uncount
    <3> QED BY <3>1, <3>2
  <2> QED BY <1>2, <1>3, <1>4, <2>1, <2>2, QuietWait
<1>9. CASE Start(p) \/ Check(p) \/ Retry(p)
  <2>1. /\ \A q \in Proc \ {p} : Apart(q)
        /\ semval' = semval /\ wchan' = wchan /\ done' = done
        /\ pc'[p] \in {"op", "check"}
    BY <1>1, <1>9 DEF Start, Check, Retry, Goto, Apart, SleepTypes, procvars
  <2>2. done'[p] = 0 BY <1>1, <1>9, <2>1 DEF Start, Check, Retry, At, ProcInv
  <2> QED BY <1>2, <1>3, <2>1, <2>2, QuietWait
<1> QED BY <1>5, <1>7, <1>8, <1>9

(* Every step keeps every sleeper held.                                    *)
THEOREM NextWait ==
    SInv /\ UndoInv /\ UndoInv' /\ ValInv /\ Distinct /\ WaitInv /\ [Next]_vars
       => WaitInv'
<1> SUFFICES ASSUME SInv, UndoInv, UndoInv', ValInv, Distinct, WaitInv, [Next]_vars
             PROVE  WaitInv'
  OBVIOUS
<1>1. semval \in Values BY DEF ValInv
<1>2. CASE UNCHANGED vars
  BY <1>2 DEF vars, procvars, WaitInv, Held, Stuck, OpSem, SemOf
<1>3. ASSUME NEW p \in Proc, Signal(p) \/ Premature(p) PROVE WaitInv'
  <2>1. /\ UNCHANGED <<pc, done, uops, semid, sema, semval>> /\ semp' = semp
        /\ wchan' = [wchan EXCEPT ![p] = NoChan]
    BY <1>3, EarlyTrail DEF Signal, Premature, procvars
  <2>2. /\ wchan'[p] = NoChan
        /\ \A q \in Proc : wchan'[q] # NoChan => wchan'[q] = wchan[q]
    BY <2>1 DEF SInv, SleepTypes
  <2>3. \A q \in Proc : BaseKept(q) /\ Apart(q) BY <2>1 DEF BaseKept, Apart
  <2>4. ASSUME pc'[p] = "undo", semp'[p] # NoChan
        PROVE  \E i \in done'[p] + 1 .. Len(uops'[p]) : Stuck(p, i, semval[OpSem(p, i)])'
    <3>1. PICK i \in done[p] + 1 .. Len(uops[p]) : Stuck(p, i, semval[OpSem(p, i)])
      BY <2>1, <2>4 DEF WaitInv
    <3>2. Stuck(p, i, semval[OpSem(p, i)])'
      BY <2>1, <3>1 DEF Stuck, OpSem, SemOf
    <3> QED BY <2>1, <3>2
  <2> QED BY <2>1, <2>2, <2>3, <2>4, QuietWait DEF Apart
<1>4. ASSUME NEW p \in Proc, KernelStep(p) PROVE WaitInv'
  BY <1>1, <1>4, OpsWait, SleepWait, BlockWait, OtherWait DEF KernelStep
<1> QED BY <1>2, <1>3, <1>4, UserWait DEF Next

(* Where no semaphore is named twice, no operation stands on another.      *)
LEMMA NothingBefore ==
    ASSUME NEW ops, NEW i, {j \in 1 .. i - 1 : ops[j].sem_num = ops[i].sem_num} = {}
    PROVE  Before(ops, i) = 0
<1> DEFINE S == {j \in 1 .. i - 1 : ops[j].sem_num = ops[i].sem_num}
           F(f) == f = [s \in SUBSET S |->
                          IF s = {} THEN 0
                          ELSE ops[CHOOSE x \in s : TRUE].sem_op
                               + f[s \ {CHOOSE x \in s : TRUE}]]
           iter == CHOOSE f : F(f)
<1>1. Before(ops, i) = iter[S] BY DEF Before, MapThenSumSet, MapThenFoldSet
<1>2. F([s \in SUBSET S |-> 0]) OBVIOUS
<1>3. F(iter) BY <1>2
<1> QED BY <1>1, <1>3

(* A held sleeper cannot run.                                              *)
LEMMA HeldCannotRun ==
    ASSUME SInv, ValInv, Distinct, WaitInv, NEW p \in Proc, wchan[p] # NoChan
    PROVE  ~CanRun(p)
<1>1. PICK i \in 1 .. Len(uops[p]) : Stuck(p, i, semval[OpSem(p, i)])
  BY DEF WaitInv, Held
<1>2. pc[p] = "asleep" /\ semconv(semid[p]) BY DEF SInv, SleeperInv
<1>3. /\ uops[p] \in Seq(sembuf) /\ OpSem(p, i) \in Sem /\ uops[p][i].sem_op \in Int
      /\ \A j, k \in 1 .. Len(uops[p]) : OpSem(p, j) = OpSem(p, k) => j = k
  BY <1>2, OpSemIn
<1>4. PICK v \in Int : v = semval[OpSem(p, i)] BY <1>3, SemConstants DEF ValInv, Values
<1>5. PICK o \in Int : o = uops[p][i].sem_op BY <1>3
<1>6. (o < 0 /\ v < -o) \/ (o = 0 /\ v # 0) BY <1>1, <1>4, <1>5 DEF Stuck
<1>7. Before(uops[p], i) = 0
  <2>1. ASSUME NEW j \in 1 .. i - 1, uops[p][j].sem_num = uops[p][i].sem_num PROVE FALSE
    <3>1. j \in 1 .. Len(uops[p]) /\ j # i
      <4>1. Len(uops[p]) \in Nat BY <1>3
      <4> QED BY <4>1
    <3>2. OpSem(p, j) = OpSem(p, i) BY <2>1 DEF OpSem
    <3> QED BY <1>3, <3>1, <3>2
  <2>2. {j \in 1 .. i - 1 : uops[p][j].sem_num = uops[p][i].sem_num} = {} BY <2>1
  <2> QED BY <2>2, NothingBefore
<1>8. ASSUME CanRun(p) PROVE IF o = 0 THEN v = 0 ELSE v + o \in 0 .. SEMVMX
  <2>1. semval[SemOf(semid[p], uops[p][i].sem_num)] + Before(uops[p], i) = v
    BY <1>4, <1>7 DEF OpSem
  <2> QED BY <1>5, <1>8, <2>1 DEF CanRun
<1> QED BY <1>6, <1>8, SemConstants

(* No process sleeps in semop although all its operations could be done,   *)
(* as long as no semop names a semaphore twice: every change that may make *)
(* an operation possible is followed by a wakeup, and what semundo brings  *)
(* back without one was possible for no sleeper before.                    *)
THEOREM NoChanceMissed ==
    ASSUME ~AllocSleeps, Distinct PROVE Spec => []NoMissedChance
<1>1. Init => WaitInv BY DEF Init, WaitInv
<1>2. SInv /\ UndoInv /\ UndoInv' /\ ValInv /\ WaitInv /\ [Next]_vars => WaitInv'
  BY NextWait
<1>3. SInv /\ ValInv /\ WaitInv => NoMissedChance BY HeldCannotRun DEF NoMissedChance
<1> QED BY <1>1, <1>2, <1>3, UndoInductive, InitVal, NextVal, PTL DEF Spec
=============================================================================
