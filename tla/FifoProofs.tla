---------------------------- MODULE FifoProofs ----------------------------
(***************************************************************************)
(* Proofs about Fifo, for any number of processes and fifos and all sizes: *)
(* the counts of openers, the transfers and the selectors first, then that *)
(* no wakeup is lost and the memory of the fifos is counted exactly.       *)
(***************************************************************************)
EXTENDS Fifo, FiniteSetTheorems, TLAPS

Label == {"user", "wtop", "rtop"} \cup Holders \cup Sleepers

(* The types of what open, close, select and the lock depend on.           *)
CallTypes ==
    /\ pc \in [Proc -> Label]
    /\ wchan \in [Proc -> Chan \cup {NoChan}]
    /\ fd \in [Proc -> Fd \cup {NoFd}]
    /\ lock \in [Node -> Proc \cup {NoProc}]
    /\ rcnt \in [Node -> Nat] /\ wcnt \in [Node -> Nat]
    /\ blk \in [Node -> SUBSET {"RBLK", "WBLK"}]
    /\ sel \in [Node -> [Kind -> Proc \cup {NoProc}]]
    /\ coll \in [Node -> SUBSET Kind]

(* Only a process with an open descriptor is in a call; each descriptor    *)
(* reads or writes.                                                        *)
DescInv ==
    \A p \in Proc : /\ pc[p] # "user" => fd[p] # NoFd
                    /\ fd[p] # NoFd => fd[p].r \/ fd[p].w

-----------------------------------------------------------------------------
(* Sleeping, waking and the lock                                           *)

LEMMA LabelFacts ==
    /\ Kind \subseteq Label
    /\ \A l \in {"user", "wtop", "rtop", "walloc", "kmem", "wcopy", "rcopy",
                 "oread", "owrite", "wsleep", "rsleep"} : l \in Label
BY DEF Label, Kind, Holders, Sleepers

LEMMA ChanFacts ==
    /\ memory \in Chan /\ selwait \in Chan
    /\ \A f \in Node : <<f, "fn_rcnt">> \in Chan /\ <<f, "fn_wcnt">> \in Chan
BY DEF Chan, memory, selwait

LEMMA GotoTypes ==
    ASSUME pc \in [Proc -> Label], wchan \in [Proc -> Chan \cup {NoChan}],
           NEW p \in Proc, NEW l \in Label, NEW c \in Chan \cup {NoChan}, NEW C, NEW Q,
           Goto(p, l, c, C, Q)
    PROVE  /\ pc' \in [Proc -> Label]
           /\ wchan' \in [Proc -> Chan \cup {NoChan}]
           /\ pc'[p] = l
           /\ \A q \in Proc \ {p} : pc'[q] = pc[q]
BY DEF Goto

LEMMA EndCallLock ==
    ASSUME lock \in [Node -> Proc \cup {NoProc}], NEW p \in Proc, EndCall(p)
    PROVE  lock' \in [Node -> Proc \cup {NoProc}]
BY DEF EndCall

LEMMA DeselectTypes ==
    ASSUME sel \in [Node -> [Kind -> Proc \cup {NoProc}]], coll \in [Node -> SUBSET Kind],
           NEW f \in Node, NEW K, Deselect(f, K)
    PROVE  /\ sel' \in [Node -> [Kind -> Proc \cup {NoProc}]]
           /\ coll' \in [Node -> SUBSET Kind]
BY DEF Deselect

LEMMA FdFields ==
    ASSUME NEW d \in Fd
    PROVE  d.f \in Node /\ d.r \in BOOLEAN /\ d.w \in BOOLEAN /\ d.nd \in BOOLEAN
BY DEF Fd

LEMMA FdOfCaller ==
    ASSUME CallTypes, DescInv, NEW p \in Proc, pc[p] # "user"
    PROVE  fd[p] \in Fd /\ fd[p].f \in Node
BY FdFields DEF CallTypes, DescInv

CallInv == CallTypes /\ DescInv /\ EndsCounted /\ LockHeld

LEMMA CallInit == Init => CallInv
<1>. SUFFICES ASSUME Init PROVE CallInv
  OBVIOUS
<1>1. CallTypes  BY LabelFacts DEF Init, CallTypes
<1>2. DescInv  BY DEF Init, DescInv
<1>3. EndsCounted
  <2>1. \A f \in Node : Readers(f) = {} /\ Writers(f) = {}  BY DEF Init, Readers, Writers
  <2>. QED  BY <2>1, FS_EmptySet DEF Init, EndsCounted
<1>4. LockHeld  BY DEF Init, LockHeld, Holders
<1>. QED  BY <1>1, <1>2, <1>3, <1>4 DEF CallInv

LEMMA EndsKept ==
    ASSUME EndsCounted, UNCHANGED <<fd, rcnt, wcnt>>
    PROVE  EndsCounted'
BY DEF EndsCounted, Readers, Writers

LEMMA EndsFinite ==
    ASSUME NEW f \in Node
    PROVE  IsFiniteSet(Readers(f)) /\ IsFiniteSet(Writers(f))
<1>1. Readers(f) \subseteq Proc /\ Writers(f) \subseteq Proc  BY DEF Readers, Writers
<1>. QED  BY <1>1, FS_Subset, FifoConstants

(* A process without a descriptor gets one.                                *)
LEMMA EndsAdded ==
    ASSUME CallTypes, EndsCounted, NEW p \in Proc, fd[p] = NoFd, NEW d \in Fd,
           fd' = [fd EXCEPT ![p] = d],
           rcnt' = [rcnt EXCEPT ![d.f] = rcnt[d.f] + Ends(d.r)],
           wcnt' = [wcnt EXCEPT ![d.f] = wcnt[d.f] + Ends(d.w)]
    PROVE  EndsCounted'
<1>1. d # NoFd /\ d.f \in Node /\ d.r \in BOOLEAN /\ d.w \in BOOLEAN
  BY FdFields, FifoConstants
<1>2. fd' \in [Proc -> Fd \cup {NoFd}] /\ fd'[p] = d /\ \A q \in Proc \ {p} : fd'[q] = fd[q]
  BY DEF CallTypes
<1>. SUFFICES ASSUME NEW f \in Node
              PROVE  rcnt'[f] = Cardinality(Readers(f)') /\ wcnt'[f] = Cardinality(Writers(f)')
  BY DEF EndsCounted
<1>3. /\ IsFiniteSet(Readers(f)) /\ IsFiniteSet(Writers(f))
      /\ rcnt[f] = Cardinality(Readers(f)) /\ wcnt[f] = Cardinality(Writers(f))
      /\ p \notin Readers(f) /\ p \notin Writers(f)
  BY EndsFinite DEF EndsCounted, Readers, Writers
<1>4. Readers(f)' = IF d.f = f /\ d.r THEN Readers(f) \cup {p} ELSE Readers(f)
  BY <1>1, <1>2 DEF Readers
<1>5. Writers(f)' = IF d.f = f /\ d.w THEN Writers(f) \cup {p} ELSE Writers(f)
  BY <1>1, <1>2 DEF Writers
<1>6. rcnt'[f] = IF d.f = f /\ d.r THEN rcnt[f] + 1 ELSE rcnt[f]
  BY <1>1 DEF CallTypes, Ends
<1>7. wcnt'[f] = IF d.f = f /\ d.w THEN wcnt[f] + 1 ELSE wcnt[f]
  BY <1>1 DEF CallTypes, Ends
<1>8. /\ Cardinality(Readers(f) \cup {p}) = Cardinality(Readers(f)) + 1
      /\ Cardinality(Writers(f) \cup {p}) = Cardinality(Writers(f)) + 1
  BY <1>3, FS_AddElement
<1>9. rcnt'[f] = Cardinality(Readers(f)')
  BY <1>3, <1>4, <1>6, <1>8, Zenon
<1>10. wcnt'[f] = Cardinality(Writers(f)')
  BY <1>3, <1>5, <1>7, <1>8, Zenon
<1>. QED  BY <1>9, <1>10

(* A process with a descriptor gives it back.                              *)
LEMMA EndsRemoved ==
    ASSUME CallTypes, EndsCounted, NEW p \in Proc, fd[p] # NoFd,
           fd' = [fd EXCEPT ![p] = NoFd],
           rcnt' = [rcnt EXCEPT ![fd[p].f] = rcnt[fd[p].f] - Ends(fd[p].r)],
           wcnt' = [wcnt EXCEPT ![fd[p].f] = wcnt[fd[p].f] - Ends(fd[p].w)]
    PROVE  EndsCounted' /\ rcnt' \in [Node -> Nat] /\ wcnt' \in [Node -> Nat]
<1>. DEFINE d == fd[p]
<1>1. d \in Fd /\ d.f \in Node /\ d.r \in BOOLEAN /\ d.w \in BOOLEAN
  BY FdFields DEF CallTypes
<1>2. fd'[p] = NoFd /\ \A q \in Proc \ {p} : fd'[q] = fd[q]
  BY DEF CallTypes
<1>. SUFFICES ASSUME NEW f \in Node
              PROVE  /\ rcnt'[f] = Cardinality(Readers(f)') /\ rcnt'[f] \in Nat
                     /\ wcnt'[f] = Cardinality(Writers(f)') /\ wcnt'[f] \in Nat
  BY DEF EndsCounted, CallTypes
<1>3. /\ IsFiniteSet(Readers(f)) /\ IsFiniteSet(Writers(f))
      /\ rcnt[f] = Cardinality(Readers(f)) /\ wcnt[f] = Cardinality(Writers(f))
      /\ p \in Readers(f) <=> d.f = f /\ d.r
      /\ p \in Writers(f) <=> d.f = f /\ d.w
  BY EndsFinite DEF EndsCounted, Readers, Writers
<1>4. Readers(f)' = Readers(f) \ {p} /\ Writers(f)' = Writers(f) \ {p}
  BY <1>2 DEF Readers, Writers
<1>5. rcnt'[f] = IF p \in Readers(f) THEN rcnt[f] - 1 ELSE rcnt[f]
  BY <1>1, <1>3 DEF CallTypes, Ends
<1>6. wcnt'[f] = IF p \in Writers(f) THEN wcnt[f] - 1 ELSE wcnt[f]
  BY <1>1, <1>3 DEF CallTypes, Ends
<1>. DEFINE Less(S) == IF p \in S THEN Cardinality(S) - 1 ELSE Cardinality(S)
<1>9. Cardinality(Readers(f) \ {p}) = Less(Readers(f))
  BY <1>3, FS_RemoveElement
<1>10. Cardinality(Writers(f) \ {p}) = Less(Writers(f))
  BY <1>3, FS_RemoveElement
<1>7. rcnt'[f] = Cardinality(Readers(f)') /\ wcnt'[f] = Cardinality(Writers(f)')
  BY <1>3, <1>4, <1>5, <1>6, <1>9, <1>10, Zenon
<1>8. IsFiniteSet(Readers(f)') /\ IsFiniteSet(Writers(f)')
  BY <1>3, <1>4, FS_RemoveElement
<1>. QED  BY <1>7, <1>8, FS_CardinalityType

(* A process only takes a lock that is free, and only gives up its own.    *)
LEMMA LockKept ==
    ASSUME LockHeld, NEW p \in Proc, NEW l,
           \A q \in Proc \ {p} : pc'[q] = pc[q] /\ fd'[q] = fd[q],
           pc'[p] = l,
           \A q \in Proc : fd[q] # NoFd => fd[q].f \in Node,
           \A f \in Node : lock'[f] = lock[f] \/ lock[f] \in {NoProc, p},
           l \in Holders => fd'[p] # NoFd /\ lock'[fd'[p].f] = p
    PROVE  LockHeld'
<1>. SUFFICES ASSUME NEW q \in Proc, pc'[q] \in Holders
              PROVE  fd'[q] # NoFd /\ lock'[fd'[q].f] = q
  BY DEF LockHeld, Holders
<1>1. CASE q = p
  BY <1>1
<1>2. CASE q # p
  BY <1>2, FifoConstants DEF LockHeld
<1>. QED  BY <1>1, <1>2

(* A step of p that opens and closes nothing.                              *)
LEMMA PlainCall ==
    ASSUME CallInv, NEW p \in Proc, UNCHANGED <<fd, rcnt, wcnt>>,
           pc' \in [Proc -> Label], wchan' \in [Proc -> Chan \cup {NoChan}],
           \A q \in Proc \ {p} : pc'[q] = pc[q],
           pc'[p] # "user" => fd[p] # NoFd,
           lock' \in [Node -> Proc \cup {NoProc}],
           \A f \in Node : lock'[f] = lock[f] \/ lock[f] \in {NoProc, p},
           pc'[p] \in Holders => lock'[fd[p].f] = p,
           blk' \in [Node -> SUBSET {"RBLK", "WBLK"}],
           sel' \in [Node -> [Kind -> Proc \cup {NoProc}]],
           coll' \in [Node -> SUBSET Kind]
    PROVE  CallInv'
<1>1. CallTypes'  BY DEF CallInv, CallTypes
<1>2. DescInv'  BY DEF CallInv, DescInv
<1>3. EndsCounted'  BY EndsKept DEF CallInv
<1>4. LockHeld'
  <2>1. \A q \in Proc : fd[q] # NoFd => fd[q].f \in Node
    BY FdFields DEF CallInv, CallTypes
  <2>2. pc'[p] \in Holders => fd'[p] # NoFd /\ lock'[fd'[p].f] = p
    BY DEF Holders
  <2>. QED  BY <2>1, <2>2, LockKept DEF CallInv
<1>. QED  BY <1>1, <1>2, <1>3, <1>4 DEF CallInv

LEMMA OpenWaitsTypes ==
    ASSUME CallTypes, NEW p \in Proc, NEW d \in Fd, NEW rc, NEW wc, NEW C,
           OpenWaits(p, d, rc, wc, C)
    PROVE  /\ pc' \in [Proc -> Label] /\ wchan' \in [Proc -> Chan \cup {NoChan}]
           /\ \A q \in Proc \ {p} : pc'[q] = pc[q]
           /\ pc'[p] \notin Holders
<1>1. d.f \in Node  BY FdFields
<1>2. \E l \in {"oread", "owrite", "user"} : \E c \in Chan \cup {NoChan} : Goto(p, l, c, C, {})
  BY <1>1, ChanFacts DEF OpenWaits
<1>3. PICK l \in {"oread", "owrite", "user"} : \E c \in Chan \cup {NoChan} : Goto(p, l, c, C, {})
  BY <1>2
<1>4. l \in Label /\ l \notin Holders  BY LabelFacts DEF Holders
<1>. QED  BY <1>3, <1>4, GotoTypes DEF CallTypes

LEMMA OpenCall ==
    ASSUME CallInv, NEW p \in Proc, NEW f \in Node, NEW m \in Modes[p], fifo_open(p, f, m)
    PROVE  CallInv'
<1>. DEFINE d == [f |-> f, r |-> m.r, w |-> m.w, nd |-> m.nd]
<1>1. m.r \in BOOLEAN /\ m.w \in BOOLEAN /\ m.nd \in BOOLEAN /\ (m.r \/ m.w)
  BY FifoConstants
<1>2. d \in Fd /\ d # NoFd /\ (d.r \/ d.w) /\ d.f = f
  BY <1>1, FifoConstants DEF Fd
<1>3. /\ pc[p] = "user" /\ fd[p] = NoFd /\ fd' = [fd EXCEPT ![p] = d]
      /\ rcnt' = [rcnt EXCEPT ![d.f] = rcnt[d.f] + Ends(d.r)]
      /\ wcnt' = [wcnt EXCEPT ![d.f] = wcnt[d.f] + Ends(d.w)]
      /\ UNCHANGED <<lock, blk, sel, coll>>
  BY DEF fifo_open, selvars
<1>4. /\ pc' \in [Proc -> Label] /\ wchan' \in [Proc -> Chan \cup {NoChan}]
      /\ \A q \in Proc \ {p} : pc'[q] = pc[q]
      /\ pc'[p] \notin Holders
  BY <1>2, OpenWaitsTypes DEF fifo_open, CallInv
<1>5. fd' \in [Proc -> Fd \cup {NoFd}] /\ fd'[p] = d /\ \A q \in Proc \ {p} : fd'[q] = fd[q]
  BY <1>2, <1>3 DEF CallInv, CallTypes
<1>6. rcnt' \in [Node -> Nat] /\ wcnt' \in [Node -> Nat]
  BY <1>2, <1>3 DEF CallInv, CallTypes, Ends
<1>7. CallTypes'  BY <1>3, <1>4, <1>5, <1>6 DEF CallInv, CallTypes
<1>8. DescInv'  BY <1>2, <1>4, <1>5 DEF CallInv, DescInv
<1>9. EndsCounted'  BY <1>2, <1>3, EndsAdded DEF CallInv
<1>10. LockHeld'
  <2>1. \A q \in Proc : fd[q] # NoFd => fd[q].f \in Node
    BY FdFields DEF CallInv, CallTypes
  <2>. QED  BY <1>3, <1>4, <1>5, <2>1, LockKept DEF CallInv
<1>. QED  BY <1>7, <1>8, <1>9, <1>10 DEF CallInv

LEMMA CloseCall ==
    ASSUME CallInv, NEW p \in Proc, fd[p] # NoFd, CloseEnds(p)
    PROVE  CallInv'
<1>1. fd[p] \in Fd /\ fd[p].f \in Node  BY FdFields DEF CallInv, CallTypes
<1>2. /\ fd' = [fd EXCEPT ![p] = NoFd]
      /\ rcnt' = [rcnt EXCEPT ![fd[p].f] = rcnt[fd[p].f] - Ends(fd[p].r)]
      /\ wcnt' = [wcnt EXCEPT ![fd[p].f] = wcnt[fd[p].f] - Ends(fd[p].w)]
      /\ lock' = lock
  BY DEF CloseEnds
<1>3. EndsCounted' /\ rcnt' \in [Node -> Nat] /\ wcnt' \in [Node -> Nat]
  BY <1>2, EndsRemoved DEF CallInv
<1>4. /\ pc' \in [Proc -> Label] /\ wchan' \in [Proc -> Chan \cup {NoChan}]
      /\ pc'[p] = "user" /\ \A q \in Proc \ {p} : pc'[q] = pc[q]
  <2>1. \E C, Q : Goto(p, "user", NoChan, C, Q)  BY DEF CloseEnds
  <2>. QED  BY <2>1, GotoTypes, LabelFacts DEF CallInv, CallTypes
<1>5. /\ sel' \in [Node -> [Kind -> Proc \cup {NoProc}]] /\ coll' \in [Node -> SUBSET Kind]
  <2>1. \E K : Deselect(fd[p].f, K)  BY DEF CloseEnds
  <2>. QED  BY <1>1, <2>1, DeselectTypes DEF CallInv, CallTypes
<1>6. blk' \in [Node -> SUBSET {"RBLK", "WBLK"}]
  <2>1. \E B : blk' = [blk EXCEPT ![fd[p].f] = @ \ B]  BY DEF CloseEnds
  <2>. QED  BY <1>1, <2>1 DEF CallInv, CallTypes
<1>7. fd' \in [Proc -> Fd \cup {NoFd}] /\ fd'[p] = NoFd /\ \A q \in Proc \ {p} : fd'[q] = fd[q]
  BY <1>2 DEF CallInv, CallTypes
<1>8. CallTypes'
  BY <1>2, <1>3, <1>4, <1>5, <1>6, <1>7 DEF CallInv, CallTypes
<1>9. DescInv'  BY <1>4, <1>7 DEF CallInv, DescInv
<1>10. LockHeld'
  <2>1. \A q \in Proc : fd[q] # NoFd => fd[q].f \in Node
    BY FdFields DEF CallInv, CallTypes
  <2>. QED  BY <1>2, <1>4, <1>7, <2>1, LockKept DEF CallInv, Holders
<1>. QED  BY <1>3, <1>8, <1>9, <1>10 DEF CallInv

LEMMA GotoAny ==
    ASSUME CallTypes, NEW p \in Proc, NEW l \in Label,
           \E c \in Chan \cup {NoChan} : \E C, Q : Goto(p, l, c, C, Q)
    PROVE  /\ pc' \in [Proc -> Label] /\ wchan' \in [Proc -> Chan \cup {NoChan}]
           /\ pc'[p] = l
           /\ \A q \in Proc \ {p} : pc'[q] = pc[q]
BY GotoTypes DEF CallTypes

(* A call that returns.                                                    *)
LEMMA EndCallCall ==
    ASSUME CallInv, NEW p \in Proc, \E C, Q : Goto(p, "user", NoChan, C, Q), EndCall(p),
           UNCHANGED <<fd, rcnt, wcnt>>,
           blk' \in [Node -> SUBSET {"RBLK", "WBLK"}],
           sel' \in [Node -> [Kind -> Proc \cup {NoProc}]],
           coll' \in [Node -> SUBSET Kind]
    PROVE  CallInv'
<1>1. /\ pc' \in [Proc -> Label] /\ wchan' \in [Proc -> Chan \cup {NoChan}]
      /\ pc'[p] = "user" /\ \A q \in Proc \ {p} : pc'[q] = pc[q]
  BY GotoAny, LabelFacts DEF CallInv
<1>2. lock' \in [Node -> Proc \cup {NoProc}] /\ \A f \in Node : lock'[f] = lock[f] \/ lock[f] = p
  BY EndCallLock DEF CallInv, CallTypes, EndCall
<1>. QED  BY <1>1, <1>2, PlainCall DEF Holders

LEMMA EntryCall ==
    ASSUME CallInv, NEW p \in Proc, NEW n, Write(p, n) \/ Read(p, n)
    PROVE  CallInv'
<1>1. \E l \in {"wtop", "rtop"} : pc' = [pc EXCEPT ![p] = l]
  BY DEF Write, Read
<1>2. /\ fd[p] # NoFd
      /\ UNCHANGED <<wchan, fd, rcnt, wcnt, lock, blk, sel, coll>>
  BY DEF Write, Read, selvars
<1>3. pc' \in [Proc -> Label] /\ (\A q \in Proc \ {p} : pc'[q] = pc[q]) /\ pc'[p] \notin Holders
  BY <1>1, LabelFacts DEF CallInv, CallTypes, Holders
<1>. QED  BY <1>2, <1>3, PlainCall DEF CallInv, CallTypes

LEMMA OpenAgainCall ==
    ASSUME CallInv, NEW p \in Proc, OpenAgain(p)
    PROVE  CallInv'
<1>1. pc[p] \in {"oread", "owrite"}  BY DEF OpenAgain, Awake
<1>2. fd[p] \in Fd /\ fd[p] # NoFd  BY <1>1, FdOfCaller DEF CallInv, DescInv
<1>3. /\ pc' \in [Proc -> Label] /\ wchan' \in [Proc -> Chan \cup {NoChan}]
      /\ \A q \in Proc \ {p} : pc'[q] = pc[q]
      /\ pc'[p] \notin Holders
  BY <1>2, OpenWaitsTypes DEF OpenAgain, CallInv
<1>. QED
  BY <1>2, <1>3, PlainCall DEF OpenAgain, CallInv, CallTypes, selvars

(* A step of p to l that moves at most the lock of its own fifo.           *)
LEMMA MoveCall ==
    ASSUME CallInv, NEW p \in Proc, pc[p] # "user", NEW l \in Label,
           \E c \in Chan \cup {NoChan} : \E C, Q : Goto(p, l, c, C, Q),
           UNCHANGED <<fd, rcnt, wcnt>>,
           \/ UNCHANGED lock /\ (l \in Holders => pc[p] \in Holders)
           \/ Free(fd[p].f, p) /\ Unlock(fd[p].f) /\ l \notin Holders
           \/ Free(fd[p].f, p) /\ Lock(fd[p].f, p),
           blk' \in [Node -> SUBSET {"RBLK", "WBLK"}],
           sel' \in [Node -> [Kind -> Proc \cup {NoProc}]],
           coll' \in [Node -> SUBSET Kind]
    PROVE  CallInv'
<1>1. fd[p] # NoFd /\ fd[p].f \in Node  BY FdOfCaller DEF CallInv, DescInv
<1>2. /\ pc' \in [Proc -> Label] /\ wchan' \in [Proc -> Chan \cup {NoChan}]
      /\ pc'[p] = l /\ \A q \in Proc \ {p} : pc'[q] = pc[q]
  BY GotoAny DEF CallInv
<1>3. /\ lock' \in [Node -> Proc \cup {NoProc}]
      /\ \A f \in Node : lock'[f] = lock[f] \/ lock[f] \in {NoProc, p}
      /\ l \in Holders => lock'[fd[p].f] = p
  BY <1>1 DEF CallInv, CallTypes, LockHeld, Free, Lock, Unlock
<1>. QED  BY <1>1, <1>2, <1>3, PlainCall

LEMMA WriteCalls ==
    ASSUME CallInv, NEW p \in Proc,
           WriteFails(p) \/ WriteSleeps(p) \/ WriteStarts(p) \/ AllocSleeps(p)
           \/ AllocReserves(p) \/ fifo_bufalloc(p) \/ WriteCopies(p)
    PROVE  CallInv'
<1>. USE LabelFacts, ChanFacts DEF selvars
<1>0. pc[p] # "user" /\ fd[p].f \in Node /\ CallTypes
  <2>1. pc[p] # "user"
    BY DEF WriteFails, WriteSleeps, WriteStarts, AtWriteTop, Awake, AllocSleeps,
           AllocReserves, fifo_bufalloc, WriteCopies
  <2>. QED  BY <2>1, FdOfCaller DEF CallInv
<1>1. CASE WriteFails(p)
  BY <1>0, <1>1, EndCallCall DEF WriteFails, CallTypes
<1>2. CASE WriteSleeps(p)
  <2>1. blk' \in [Node -> SUBSET {"RBLK", "WBLK"}]
    BY <1>0, <1>2 DEF WriteSleeps, CallTypes
  <2>2. "wsleep" \notin Holders /\ Free(fd[p].f, p)
    BY <1>2 DEF WriteSleeps, AtWriteTop, Holders
  <2>. QED  BY <1>0, <1>2, <2>1, <2>2, MoveCall DEF WriteSleeps, CallTypes
<1>3. CASE WriteStarts(p)
  BY <1>0, <1>3, MoveCall DEF WriteStarts, AtWriteTop, CallTypes
<1>4. CASE AllocSleeps(p)
  <2>1. "wsleep" \notin Holders /\ Free(fd[p].f, p)
    BY <1>4 DEF AllocSleeps, Holders, CallInv, LockHeld, Free
  <2>. QED  BY <1>0, <1>4, <2>1, MoveCall DEF AllocSleeps, CallTypes
<1>5. CASE AllocReserves(p)
  BY <1>0, <1>5, MoveCall DEF AllocReserves, CallTypes, Holders
<1>6. CASE fifo_bufalloc(p)
  BY <1>0, <1>6, MoveCall DEF fifo_bufalloc, CallTypes, Holders
<1>7. CASE WriteCopies(p)
  BY <1>0, <1>7, MoveCall DEF WriteCopies, CallTypes, Holders
<1>. QED  BY <1>1, <1>2, <1>3, <1>4, <1>5, <1>6, <1>7

LEMMA CopyInCall ==
    ASSUME CallInv, NEW p \in Proc, CopyIn(p)
    PROVE  CallInv'
<1>. USE LabelFacts
<1>. DEFINE f == fd[p].f
            i == Chunk(p, wptr[f])
<1>1. pc[p] = "wcopy" /\ pc[p] \in Holders  BY DEF CopyIn, Holders
<1>2. CallTypes /\ f \in Node /\ fd[p] # NoFd  BY <1>1, FdOfCaller DEF CallInv, DescInv
<1>3. UNCHANGED <<fd, rcnt, wcnt>>  BY DEF CopyIn
<1>4. CASE count[p] > i
  <2>1. UNCHANGED <<pc, wchan, lock, blk, sel, coll>>
    BY <1>4 DEF CopyIn, selvars
  <2>2. pc'[p] \in Holders => lock'[fd[p].f] = p
    BY <1>1, <2>1 DEF CallInv, LockHeld
  <2>. QED  BY <1>2, <1>3, <2>1, <2>2, PlainCall DEF CallTypes
<1>5. CASE ~(count[p] > i)
  <2>1. blk' = [blk EXCEPT ![f] = @ \ {"RBLK"}] /\ Deselect(f, {"selR"})
    BY <1>5 DEF CopyIn
  <2>2. /\ sel' \in [Node -> [Kind -> Proc \cup {NoProc}]] /\ coll' \in [Node -> SUBSET Kind]
        /\ blk' \in [Node -> SUBSET {"RBLK", "WBLK"}]
    BY <1>2, <2>1, DeselectTypes DEF CallTypes
  <2>3. CASE resid[p] > i
    <3>1. (\E C, Q : Goto(p, "wtop", NoChan, C, Q)) /\ UNCHANGED lock
      BY <1>5, <2>3 DEF CopyIn
    <3>. QED  BY <1>1, <1>3, <2>2, <3>1, MoveCall
  <2>4. CASE ~(resid[p] > i)
    <3>1. (\E C, Q : Goto(p, "user", NoChan, C, Q)) /\ EndCall(p)
      BY <1>5, <2>4 DEF CopyIn
    <3>. QED  BY <1>3, <2>2, <3>1, EndCallCall
  <2>. QED  BY <2>3, <2>4
<1>. QED  BY <1>4, <1>5

LEMMA ReadCalls ==
    ASSUME CallInv, NEW p \in Proc,
           ReadEnds(p) \/ ReadSleeps(p) \/ ReadStarts(p) \/ CopyFaults(p) \/ TransferInterrupted(p)
    PROVE  CallInv'
<1>. USE LabelFacts, ChanFacts DEF selvars
<1>0. pc[p] # "user" /\ fd[p].f \in Node /\ CallTypes
  <2>1. pc[p] # "user"
    BY DEF ReadEnds, ReadSleeps, ReadStarts, AtReadTop, Awake, CopyFaults, TransferInterrupted
  <2>. QED  BY <2>1, FdOfCaller DEF CallInv
<1>1. CASE ReadEnds(p)
  BY <1>0, <1>1, EndCallCall DEF ReadEnds, CallTypes
<1>2. CASE ReadSleeps(p)
  <2>1. blk' \in [Node -> SUBSET {"RBLK", "WBLK"}]
    BY <1>0, <1>2 DEF ReadSleeps, CallTypes
  <2>2. "rsleep" \notin Holders /\ Free(fd[p].f, p)
    BY <1>2 DEF ReadSleeps, AtReadTop, Holders
  <2>. QED  BY <1>0, <1>2, <2>1, <2>2, MoveCall DEF ReadSleeps, CallTypes
<1>3. CASE ReadStarts(p)
  BY <1>0, <1>3, MoveCall DEF ReadStarts, AtReadTop, CallTypes
<1>4. CASE CopyFaults(p)
  BY <1>0, <1>4, EndCallCall DEF CopyFaults, CallTypes
<1>5. CASE TransferInterrupted(p)
  BY <1>0, <1>5, EndCallCall DEF TransferInterrupted, CallTypes
<1>. QED  BY <1>1, <1>2, <1>3, <1>4, <1>5

LEMMA CopyOutCall ==
    ASSUME CallInv, NEW p \in Proc, CopyOut(p)
    PROVE  CallInv'
<1>. USE LabelFacts
<1>. DEFINE f == fd[p].f
            i == Chunk(p, rptr[f])
<1>1. pc[p] = "rcopy" /\ pc[p] \in Holders  BY DEF CopyOut, Holders
<1>2. CallTypes /\ f \in Node /\ fd[p] # NoFd  BY <1>1, FdOfCaller DEF CallInv, DescInv
<1>3. UNCHANGED <<fd, rcnt, wcnt>> /\ \E K : Deselect(f, K)  BY DEF CopyOut
<1>4. /\ sel' \in [Node -> [Kind -> Proc \cup {NoProc}]] /\ coll' \in [Node -> SUBSET Kind]
  BY <1>2, <1>3, DeselectTypes DEF CallTypes
<1>5. CASE count[p] = i
  <2>1. (\E C, Q : Goto(p, "user", NoChan, C, Q)) /\ EndCall(p)
        /\ blk' = [blk EXCEPT ![f] = @ \ {"WBLK"}]
    BY <1>5 DEF CopyOut
  <2>2. blk' \in [Node -> SUBSET {"RBLK", "WBLK"}]
    BY <1>2, <2>1 DEF CallTypes
  <2>. QED  BY <1>3, <1>4, <2>1, <2>2, EndCallCall
<1>6. CASE count[p] # i
  <2>1. (\E C, Q : Goto(p, "rcopy", NoChan, C, Q)) /\ UNCHANGED <<blk, lock>>
    BY <1>6 DEF CopyOut
  <2>. QED  BY <1>1, <1>2, <1>3, <1>4, <2>1, MoveCall DEF CallTypes
<1>. QED  BY <1>5, <1>6

LEMMA SelectCall ==
    ASSUME CallInv, NEW p \in Proc, NEW k \in Kind, select(p, k)
    PROVE  CallInv'
<1>. USE LabelFacts, ChanFacts
<1>1. fd[p] # NoFd /\ UNCHANGED <<fd, rcnt, wcnt, lock, blk>>
  BY DEF select
<1>2. CallTypes /\ fd[p].f \in Node  BY <1>1, FdFields DEF CallInv, CallTypes
<1>3. "user" \notin Holders /\ k \notin Holders /\ k \in Label  BY DEF Holders, Kind
<1>4. \E l \in {"user", k} : \E c \in Chan \cup {NoChan} : \E C, Q : Goto(p, l, c, C, Q)
  BY DEF select
<1>5. /\ pc' \in [Proc -> Label] /\ wchan' \in [Proc -> Chan \cup {NoChan}]
      /\ pc'[p] \in {"user", k} /\ \A q \in Proc \ {p} : pc'[q] = pc[q]
  BY <1>2, <1>3, <1>4, GotoAny
<1>6. /\ sel' \in [Node -> [Kind -> Proc \cup {NoProc}]] /\ coll' \in [Node -> SUBSET Kind]
  <2>1. CASE UNCHANGED <<sel, coll>>
    BY <1>2, <2>1 DEF CallTypes
  <2>2. CASE /\ coll' = [coll EXCEPT ![fd[p].f] = IF Collides(fd[p].f, k) THEN @ \cup {k} ELSE @]
             /\ sel' = [sel EXCEPT ![fd[p].f][k] = IF Collides(fd[p].f, k) THEN @ ELSE p]
    BY <1>2, <2>2 DEF CallTypes
  <2>. QED  BY <2>1, <2>2 DEF select, selvars
<1>. QED  BY <1>1, <1>2, <1>3, <1>5, <1>6, PlainCall DEF CallTypes

LEMMA CallStep ==
    ASSUME CallInv, [Next]_vars
    PROVE  CallInv'
<1>1. CASE UNCHANGED vars
  <2>1. UNCHANGED <<pc, wchan, fd, lock, rcnt, wcnt, blk, sel, coll>>
    BY <1>1 DEF vars, selvars
  <2>2. EndsCounted'  BY <2>1, EndsKept DEF CallInv
  <2>3. CallTypes' /\ DescInv' /\ LockHeld'
    BY <2>1 DEF CallInv, CallTypes, DescInv, LockHeld
  <2>. QED  BY <2>2, <2>3 DEF CallInv
<1>2. ASSUME NEW p \in Proc, UserStep(p) PROVE CallInv'
  <2>1. CASE fifo_close(p)
    BY <2>1, CloseCall DEF fifo_close
  <2>. QED
    BY <1>2, <2>1, OpenCall, EntryCall, SelectCall, FifoConstants DEF UserStep
<1>3. ASSUME NEW p \in Proc, KernelStep(p) PROVE CallInv'
  <2>1. CASE OpenAgain(p)  BY <2>1, OpenAgainCall
  <2>2. CASE CopyIn(p)  BY <2>2, CopyInCall
  <2>3. CASE CopyOut(p)  BY <2>3, CopyOutCall
  <2>4. CASE ReadEnds(p) \/ ReadSleeps(p) \/ ReadStarts(p)
    BY <2>4, ReadCalls
  <2>5. CASE \/ WriteFails(p) \/ WriteSleeps(p) \/ WriteStarts(p) \/ AllocSleeps(p)
             \/ AllocReserves(p) \/ fifo_bufalloc(p) \/ WriteCopies(p)
    BY <2>5, WriteCalls
  <2>. QED  BY <1>3, <2>1, <2>2, <2>3, <2>4, <2>5 DEF KernelStep
<1>4. ASSUME NEW p \in Proc, Disturb(p) PROVE CallInv'
  <2>1. CASE OpenInterrupted(p)
    BY <2>1, CloseCall DEF OpenInterrupted, CallInv, DescInv
  <2>2. CASE SelectEnds(p)
    <3>1. pc[p] # "user" /\ "user" \notin Holders  BY <2>2 DEF SelectEnds, Kind, Holders
    <3>. QED  BY <2>2, <3>1, MoveCall, LabelFacts DEF SelectEnds, CallInv, CallTypes, selvars
  <2>. QED  BY <1>4, <2>1, <2>2, ReadCalls DEF Disturb
<1>. QED  BY <1>1, <1>2, <1>3, <1>4 DEF Next

(* fn_rcnt and fn_wcnt are exact at every step: neither an open that is    *)
(* interrupted nor a close loses or repeats a count.                       *)
THEOREM CountsExact == Spec => []EndsCounted
<1>1. CallInv => EndsCounted  BY DEF CallInv
<1>. QED  BY <1>1, CallInit, CallStep, PTL DEF Spec

-----------------------------------------------------------------------------
(* The data                                                                *)

DataTypes ==
    /\ ocnt \in [Proc -> Nat] /\ resid \in [Proc -> Nat] /\ count \in [Proc -> Nat]
    /\ buf \in [Node -> Seq([1 .. PIPE_BSZ -> Cell])]
    /\ rptr \in [Node -> Nat] /\ wptr \in [Node -> Nat] /\ size \in [Node -> Nat]

(* What p's transfer needs is there until it is done: room for the bytes   *)
(* it will write, in the fifo and then in the buffers, or the bytes it     *)
(* will read.                                                              *)
Transfer(p) ==
    /\ pc[p] \in {"wtop", "wsleep", "rtop", "rsleep"} => resid[p] > 0
    /\ pc[p] \in WriteCall => ocnt[p] \in WriteSizes /\ resid[p] <= ocnt[p]
    /\ pc[p] \in Holders => count[p] > 0 /\ count[p] <= resid[p]
    /\ pc[p] \in {"walloc", "kmem", "wcopy"} => size[fd[p].f] + count[p] <= PIPE_BUF
    /\ pc[p] = "wcopy" => wptr[fd[p].f] + count[p] <= nbuf(fd[p].f) * PIPE_BSZ
    /\ pc[p] = "rcopy" => count[p] <= size[fd[p].f]

DataInv == DataTypes /\ Pointers /\ \A p \in Proc : Transfer(p)

LEMMA Sizes ==
    /\ PIPE_BSZ \in Nat /\ PIPE_BSZ > 0 /\ PIPE_BUF \in Nat
    /\ WriteSizes \subseteq Nat \ {0} /\ ReadSizes \subseteq Nat \ {0}
BY FifoConstants

LEMMA DataInit == Init => DataInv
<1>. SUFFICES ASSUME Init PROVE DataInv
  OBVIOUS
<1>1. DataTypes  BY DEF Init, DataTypes
<1>2. Pointers
  <2>. SUFFICES ASSUME NEW f \in Node
                PROVE  /\ wptr[f] - rptr[f] = size[f] /\ rptr[f] < PIPE_BSZ
                       /\ wptr[f] <= nbuf(f) * PIPE_BSZ /\ size[f] <= PIPE_BUF
    BY DEF Pointers
  <2>1. wptr[f] = 0 /\ rptr[f] = 0 /\ size[f] = 0 /\ nbuf(f) = 0
    BY DEF Init, nbuf
  <2>. QED  BY <2>1, Sizes
<1>3. \A p \in Proc : Transfer(p)  BY DEF Init, Transfer, WriteCall, Holders
<1>. QED  BY <1>1, <1>2, <1>3 DEF DataInv

(* What the others are doing does not change when p takes a step, if p     *)
(* changes no fifo or one that no other process transfers on.              *)
LEMMA OthersKept ==
    ASSUME CallInv, DataInv, NEW p \in Proc,
           \A q \in Proc \ {p} : /\ pc'[q] = pc[q] /\ fd'[q] = fd[q] /\ ocnt'[q] = ocnt[q]
                                 /\ resid'[q] = resid[q] /\ count'[q] = count[q],
           \A q \in Proc \ {p} : pc[q] \in Holders =>
              /\ size'[fd[q].f] = size[fd[q].f] /\ wptr'[fd[q].f] = wptr[fd[q].f]
              /\ buf'[fd[q].f] = buf[fd[q].f]
    PROVE  \A q \in Proc \ {p} : Transfer(q)'
<1>. SUFFICES ASSUME NEW q \in Proc \ {p} PROVE Transfer(q)'
  OBVIOUS
<1>1. Transfer(q)  BY DEF DataInv
<1>2. CASE pc[q] \in Holders
  BY <1>1, <1>2 DEF Transfer, nbuf
<1>3. CASE pc[q] \notin Holders
  BY <1>1, <1>3 DEF Transfer, Holders
<1>. QED  BY <1>2, <1>3

(* A step that leaves the fifos alone.                                     *)
LEMMA PlainData ==
    ASSUME CallInv, DataInv, NEW p \in Proc, UNCHANGED <<fd, buf, rptr, wptr, size>>,
           ocnt' \in [Proc -> Nat], resid' \in [Proc -> Nat], count' \in [Proc -> Nat],
           \A q \in Proc \ {p} : /\ pc'[q] = pc[q] /\ ocnt'[q] = ocnt[q]
                                 /\ resid'[q] = resid[q] /\ count'[q] = count[q],
           Transfer(p)'
    PROVE  DataInv'
<1>1. \A q \in Proc \ {p} : Transfer(q)'  BY OthersKept
<1>2. Pointers'  BY DEF DataInv, Pointers, nbuf
<1>. QED  BY <1>1, <1>2 DEF DataInv, DataTypes

(* A call that returns without having changed the fifo in this step.       *)
LEMMA EndCallTypes ==
    ASSUME DataTypes, NEW p \in Proc, EndCall(p)
    PROVE  /\ ocnt' \in [Proc -> Nat] /\ resid' \in [Proc -> Nat] /\ count' \in [Proc -> Nat]
           /\ \A q \in Proc \ {p} : ocnt'[q] = ocnt[q] /\ resid'[q] = resid[q] /\ count'[q] = count[q]
BY DEF DataTypes, EndCall

LEMMA UserIdle ==
    ASSUME NEW p \in Proc, pc'[p] \in {"user", "oread", "owrite"} \cup Kind
    PROVE  Transfer(p)'
BY DEF Transfer, WriteCall, Holders, Kind

LEMMA EndCallData ==
    ASSUME CallInv, DataInv, NEW p \in Proc, \E C, Q : Goto(p, "user", NoChan, C, Q), EndCall(p),
           UNCHANGED <<fd, buf, rptr, wptr, size>>
    PROVE  DataInv'
<1>1. pc'[p] = "user" /\ \A q \in Proc \ {p} : pc'[q] = pc[q]
  BY GotoAny, LabelFacts DEF CallInv
<1>2. Transfer(p)'  BY <1>1, UserIdle
<1>. QED  BY <1>1, <1>2, EndCallTypes, PlainData DEF DataInv

LEMMA OpenData ==
    ASSUME CallInv, DataInv, NEW p \in Proc, NEW f \in Node, NEW m \in Modes[p], fifo_open(p, f, m)
    PROVE  DataInv'
<1>. DEFINE d == [f |-> f, r |-> m.r, w |-> m.w, nd |-> m.nd]
<1>1. d \in Fd  BY FifoConstants DEF Fd
<1>2. /\ fd' = [fd EXCEPT ![p] = d]
      /\ UNCHANGED <<ocnt, resid, count, buf, rptr, wptr, size>>
      /\ \E rc, wc, C : OpenWaits(p, d, rc, wc, C)
  BY DEF fifo_open, callvars, datavars
<1>3. pc'[p] \in {"oread", "owrite", "user"} /\ \A q \in Proc \ {p} : pc'[q] = pc[q]
  BY <1>2, GotoAny, LabelFacts, ChanFacts, FdFields, <1>1 DEF OpenWaits, CallInv
<1>4. \A q \in Proc \ {p} : fd'[q] = fd[q]  BY <1>2 DEF CallInv, CallTypes
<1>5. \A q \in Proc \ {p} : Transfer(q)'  BY <1>2, <1>3, <1>4, OthersKept
<1>6. Transfer(p)'  BY <1>3, UserIdle
<1>7. Pointers'  BY <1>2 DEF DataInv, Pointers, nbuf
<1>8. DataTypes'  BY <1>2 DEF DataInv, DataTypes
<1>. QED  BY <1>5, <1>6, <1>7, <1>8 DEF DataInv

LEMMA OpenAgainData ==
    ASSUME CallInv, DataInv, NEW p \in Proc, OpenAgain(p)
    PROVE  DataInv'
<1>1. pc[p] \in {"oread", "owrite"}  BY DEF OpenAgain, Awake
<1>2. fd[p] \in Fd /\ fd[p].f \in Node  BY <1>1, FdOfCaller DEF CallInv
<1>3. pc'[p] \in {"oread", "owrite", "user"} /\ \A q \in Proc \ {p} : pc'[q] = pc[q]
  <2>1. \E rc, wc, C : OpenWaits(p, fd[p], rc, wc, C)  BY DEF OpenAgain
  <2>. QED  BY <1>2, <2>1, GotoAny, LabelFacts, ChanFacts DEF OpenWaits, CallInv
<1>4. Transfer(p)'  BY <1>3, UserIdle
<1>. QED
  BY <1>3, <1>4, PlainData DEF OpenAgain, callvars, datavars, DataInv, DataTypes

(* Whoever closes the last end of a fifo is the only one to have it open.  *)
LEMMA LastClose ==
    ASSUME CallInv, NEW p \in Proc, fd[p] # NoFd, CloseEnds(p), NEW f \in Node, f = fd[p].f,
           rcnt[f] - Ends(fd[p].r) = 0, wcnt[f] - Ends(fd[p].w) = 0
    PROVE  \A q \in Proc \ {p} : fd[q] # NoFd => fd[q].f # f
<1>1. CallInv'  BY CloseCall
<1>3. rcnt'[f] = 0 /\ wcnt'[f] = 0  BY DEF CloseEnds, CallInv, CallTypes
<1>4. /\ rcnt'[f] = Cardinality(Readers(f)') /\ wcnt'[f] = Cardinality(Writers(f)')
  BY <1>1 DEF CallInv, EndsCounted
<1>5. IsFiniteSet(Readers(f)') /\ IsFiniteSet(Writers(f)')
  <2>1. Readers(f)' \subseteq Proc /\ Writers(f)' \subseteq Proc  BY DEF Readers, Writers
  <2>. QED  BY <2>1, FS_Subset, FifoConstants
<1>6. Readers(f)' = {} /\ Writers(f)' = {}
  BY <1>3, <1>4, <1>5, FS_EmptySet
<1>. SUFFICES ASSUME NEW q \in Proc \ {p}, fd[q] # NoFd, fd[q].f = f PROVE FALSE
  OBVIOUS
<1>7. fd'[q] = fd[q]  BY DEF CloseEnds, CallInv, CallTypes
<1>8. q \notin Readers(f)' /\ q \notin Writers(f)'  BY <1>6
<1>9. ~fd[q].r /\ ~fd[q].w  BY <1>7, <1>8 DEF Readers, Writers
<1>. QED  BY <1>9 DEF CallInv, DescInv

LEMMA CloseData ==
    ASSUME CallInv, DataInv, NEW p \in Proc, fd[p] # NoFd, CloseEnds(p)
    PROVE  DataInv'
<1>. DEFINE f == fd[p].f
            last == rcnt[f] - Ends(fd[p].r) = 0 /\ wcnt[f] - Ends(fd[p].w) = 0
<1>1. f \in Node  BY FdFields DEF CallInv, CallTypes
<1>2. pc'[p] = "user" /\ \A q \in Proc \ {p} : pc'[q] = pc[q]
  <2>1. \E C, Q : Goto(p, "user", NoChan, C, Q)  BY DEF CloseEnds
  <2>. QED  BY <2>1, GotoAny, LabelFacts DEF CallInv
<1>3. UNCHANGED <<ocnt, resid, count>> /\ \A q \in Proc \ {p} : fd'[q] = fd[q]
  BY DEF CloseEnds, callvars, CallInv, CallTypes
<1>4. Transfer(p)'  BY <1>2, UserIdle
<1>5. CASE ~last
  <2>1. UNCHANGED <<buf, rptr, wptr, size>>  BY <1>5 DEF CloseEnds, datavars
  <2>2. \A q \in Proc \ {p} : Transfer(q)'  BY <1>2, <1>3, <2>1, OthersKept
  <2>3. Pointers' /\ DataTypes'  BY <1>3, <2>1 DEF DataInv, DataTypes, Pointers, nbuf
  <2>. QED  BY <1>4, <2>2, <2>3 DEF DataInv
<1>6. CASE last
  <2>1. /\ buf' = [buf EXCEPT ![f] = << >>] /\ rptr' = [rptr EXCEPT ![f] = 0]
        /\ wptr' = [wptr EXCEPT ![f] = 0] /\ size' = [size EXCEPT ![f] = 0]
    BY <1>6 DEF CloseEnds
  <2>2. \A q \in Proc \ {p} : fd[q] # NoFd => fd[q].f # f
    BY <1>1, <1>6, LastClose
  <2>3. \A q \in Proc \ {p} : pc[q] \in Holders => fd[q].f # f /\ fd[q].f \in Node
    BY <2>2, FdFields DEF CallInv, CallTypes, DescInv, Holders
  <2>4. \A q \in Proc \ {p} : Transfer(q)'
    <3>1. \A q \in Proc \ {p} : pc[q] \in Holders =>
             /\ size'[fd[q].f] = size[fd[q].f] /\ wptr'[fd[q].f] = wptr[fd[q].f]
             /\ buf'[fd[q].f] = buf[fd[q].f]
      BY <2>1, <2>3 DEF DataInv, DataTypes
    <3>. QED  BY <1>2, <1>3, <3>1, OthersKept
  <2>5. DataTypes'  BY <1>1, <1>3, <2>1 DEF DataInv, DataTypes
  <2>6. Pointers'
    <3>. SUFFICES ASSUME NEW g \in Node
                  PROVE  (/\ wptr[g] - rptr[g] = size[g] /\ rptr[g] < PIPE_BSZ
                          /\ wptr[g] <= nbuf(g) * PIPE_BSZ /\ size[g] <= PIPE_BUF)'
      BY DEF Pointers
    <3>1. CASE g = f
      <4>1. wptr'[g] = 0 /\ rptr'[g] = 0 /\ size'[g] = 0 /\ nbuf(g)' = 0
        BY <3>1, <2>1 DEF DataInv, DataTypes, nbuf
      <4>. QED  BY <4>1, Sizes
    <3>2. CASE g # f
      <4>1. wptr'[g] = wptr[g] /\ rptr'[g] = rptr[g] /\ size'[g] = size[g] /\ nbuf(g)' = nbuf(g)
        BY <3>2, <2>1 DEF DataInv, DataTypes, nbuf
      <4>. QED  BY <4>1 DEF DataInv, Pointers
    <3>. QED  BY <3>1, <3>2
  <2>. QED  BY <1>4, <2>4, <2>5, <2>6 DEF DataInv
<1>. QED  BY <1>5, <1>6

(* read and write start.                                                   *)
LEMMA EntryData ==
    ASSUME CallInv, DataInv, NEW p \in Proc,
           \/ \E n \in WriteSizes : Write(p, n)
           \/ \E n \in ReadSizes : Read(p, n)
    PROVE  DataInv'
<1>1. \E n \in Nat \ {0} : \E l \in {"wtop", "rtop"} :
         /\ pc' = [pc EXCEPT ![p] = l] /\ (l = "wtop" => n \in WriteSizes)
         /\ ocnt' = [ocnt EXCEPT ![p] = n] /\ resid' = [resid EXCEPT ![p] = n]
  BY Sizes DEF Write, Read
<1>2. UNCHANGED <<fd, count, buf, rptr, wptr, size>>  BY DEF Write, Read, datavars
<1>3. PICK n \in Nat \ {0}, l \in {"wtop", "rtop"} :
         /\ pc' = [pc EXCEPT ![p] = l] /\ (l = "wtop" => n \in WriteSizes)
         /\ ocnt' = [ocnt EXCEPT ![p] = n] /\ resid' = [resid EXCEPT ![p] = n]
  BY <1>1
<1>4. /\ ocnt' \in [Proc -> Nat] /\ resid' \in [Proc -> Nat] /\ count' \in [Proc -> Nat]
      /\ \A q \in Proc \ {p} : /\ pc'[q] = pc[q] /\ ocnt'[q] = ocnt[q]
                               /\ resid'[q] = resid[q] /\ count'[q] = count[q]
      /\ pc'[p] = l /\ ocnt'[p] = n /\ resid'[p] = n
  BY <1>2, <1>3 DEF DataInv, DataTypes, CallInv, CallTypes
<1>5. Transfer(p)'  BY <1>3, <1>4 DEF Transfer, WriteCall, Holders
<1>. QED  BY <1>2, <1>4, <1>5, PlainData

(* The steps of a call that move p and nothing of the data but count.      *)
LEMMA MoveData ==
    ASSUME CallInv, DataInv, NEW p \in Proc, NEW l \in Label,
           \E c \in Chan \cup {NoChan} : \E C, Q : Goto(p, l, c, C, Q),
           UNCHANGED <<fd, ocnt, resid, buf, rptr, wptr, size>>,
           NEW n \in Nat, count' = [count EXCEPT ![p] = n],
           (pc'[p] = l /\ count'[p] = n /\ UNCHANGED <<fd, ocnt, resid, buf, rptr, wptr, size>>)
             => Transfer(p)'
    PROVE  DataInv'
<1>1. pc'[p] = l /\ \A q \in Proc \ {p} : pc'[q] = pc[q]
  BY GotoAny DEF CallInv
<1>2. count' \in [Proc -> Nat] /\ count'[p] = n /\ \A q \in Proc \ {p} : count'[q] = count[q]
  BY DEF DataInv, DataTypes
<1>3. Transfer(p)'  BY <1>1, <1>2
<1>. QED  BY <1>1, <1>2, <1>3, PlainData DEF DataInv, DataTypes

LEMMA WriteData ==
    ASSUME CallInv, DataInv, NEW p \in Proc,
           WriteFails(p) \/ WriteSleeps(p) \/ WriteStarts(p) \/ AllocSleeps(p)
           \/ AllocReserves(p) \/ WriteCopies(p)
    PROVE  DataInv'
<1>. USE LabelFacts, ChanFacts DEF callvars, datavars
<1>0. /\ pc[p] \in WriteCall /\ fd[p].f \in Node /\ Transfer(p) /\ DataTypes
      /\ ocnt[p] \in Nat /\ resid[p] \in Nat /\ count[p] \in Nat /\ size[fd[p].f] \in Nat
      /\ wptr[fd[p].f] \in Nat /\ nbuf(fd[p].f) \in Nat
  <2>1. pc[p] \in WriteCall /\ pc[p] # "user"
    BY DEF WriteFails, WriteSleeps, WriteStarts, AtWriteTop, Awake, AllocSleeps,
           AllocReserves, WriteCopies, WriteCall
  <2>. QED  BY <2>1, FdOfCaller DEF CallInv, DataInv, DataTypes, nbuf
<1>1. CASE WriteFails(p)
  BY <1>1, EndCallData DEF WriteFails
<1>2. count = [count EXCEPT ![p] = count[p]]
  BY DEF DataInv, DataTypes
<1>3. CASE WriteSleeps(p)
  <2>1. (pc'[p] = "wsleep" /\ UNCHANGED <<fd, ocnt, resid>>) => Transfer(p)'
    BY <1>0, <1>3 DEF WriteSleeps, AtWriteTop, Awake, Transfer, WriteCall, Holders
  <2>. QED  BY <1>0, <1>2, <1>3, <2>1, MoveData DEF WriteSleeps
<1>4. CASE WriteStarts(p)
  <2>1. resid[p] > 0 /\ WriteNow(p) # 0
    BY <1>0, <1>4 DEF WriteStarts, AtWriteTop, Awake, Transfer
  <2>2. WriteNow(p) \in Nat /\ WriteNow(p) <= resid[p] /\ size[fd[p].f] + WriteNow(p) <= PIPE_BUF
    BY <1>0, <2>1, Sizes DEF WriteNow, Fits, Full
  <2>3. (pc'[p] = "walloc" /\ count'[p] = WriteNow(p) /\ UNCHANGED <<fd, ocnt, resid, size>>) => Transfer(p)'
    BY <1>0, <2>1, <2>2 DEF Transfer, WriteCall, Holders
  <2>. QED  BY <1>0, <1>4, <2>2, <2>3, MoveData DEF WriteStarts
<1>5. CASE AllocSleeps(p)
  <2>1. (pc'[p] = "wsleep" /\ UNCHANGED <<fd, ocnt, resid>>) => Transfer(p)'
    BY <1>0, <1>5 DEF AllocSleeps, Transfer, WriteCall, Holders
  <2>. QED  BY <1>0, <1>2, <1>5, <2>1, MoveData DEF AllocSleeps
<1>6. CASE AllocReserves(p)
  <2>1. (pc'[p] = "kmem" /\ count'[p] = count[p] /\ UNCHANGED <<fd, ocnt, resid, size>>) => Transfer(p)'
    BY <1>0, <1>6 DEF AllocReserves, Transfer, WriteCall, Holders
  <2>. QED  BY <1>0, <1>2, <1>6, <2>1, MoveData DEF AllocReserves
<1>7. CASE WriteCopies(p)
  <2>1. wptr[fd[p].f] + count[p] <= nbuf(fd[p].f) * PIPE_BSZ
    <3>1. nbuf(fd[p].f) * PIPE_BSZ \in Nat  BY <1>0, Sizes
    <3>. QED  BY <1>0, <1>7, <3>1 DEF WriteCopies, NeedsBuffer
  <2>2. (pc'[p] = "wcopy" /\ count'[p] = count[p] /\ UNCHANGED <<fd, ocnt, resid, buf, wptr, size>>) => Transfer(p)'
    BY <1>0, <1>7, <2>1 DEF WriteCopies, Transfer, WriteCall, Holders, nbuf
  <2>. QED  BY <1>0, <1>2, <1>7, <2>2, MoveData DEF WriteCopies
<1>. QED  BY <1>1, <1>3, <1>4, <1>5, <1>6, <1>7

(* Nobody else transfers on the fifo of a lock holder.                     *)
LEMMA HeldAlone ==
    ASSUME CallInv, NEW p \in Proc, pc[p] \in Holders
    PROVE  \A q \in Proc \ {p} : pc[q] \in Holders => fd[q].f \in Node /\ fd[q].f # fd[p].f
<1>1. \A q \in Proc : pc[q] \in Holders => fd[q] # NoFd /\ lock[fd[q].f] = q
  BY DEF CallInv, LockHeld
<1>. QED  BY <1>1, FdFields DEF CallInv, CallTypes

(* A lock holder's step that changes its own fifo.                         *)
LEMMA HolderData ==
    ASSUME CallInv, DataInv, NEW p \in Proc, pc[p] \in Holders, NEW f \in Node, f = fd[p].f,
           fd' = fd, DataTypes',
           \A q \in Proc \ {p} : /\ pc'[q] = pc[q] /\ ocnt'[q] = ocnt[q]
                                 /\ resid'[q] = resid[q] /\ count'[q] = count[q],
           \A g \in Node \ {f} : /\ buf'[g] = buf[g] /\ rptr'[g] = rptr[g]
                                 /\ wptr'[g] = wptr[g] /\ size'[g] = size[g],
           /\ wptr'[f] - rptr'[f] = size'[f] /\ rptr'[f] < PIPE_BSZ
           /\ wptr'[f] <= nbuf(f)' * PIPE_BSZ /\ size'[f] <= PIPE_BUF,
           Transfer(p)'
    PROVE  DataInv'
<1>1. \A q \in Proc \ {p} : Transfer(q)'
  BY HeldAlone, OthersKept
<1>2. Pointers'
  <2>. SUFFICES ASSUME NEW g \in Node
                PROVE  (/\ wptr[g] - rptr[g] = size[g] /\ rptr[g] < PIPE_BSZ
                        /\ wptr[g] <= nbuf(g) * PIPE_BSZ /\ size[g] <= PIPE_BUF)'
    BY DEF Pointers
  <2>1. CASE g = f  BY <2>1
  <2>2. CASE g # f
    <3>1. wptr'[g] = wptr[g] /\ rptr'[g] = rptr[g] /\ size'[g] = size[g] /\ nbuf(g)' = nbuf(g)
      BY <2>2 DEF nbuf
    <3>. QED  BY <3>1 DEF DataInv, Pointers
  <2>. QED  BY <2>1, <2>2
<1>. QED  BY <1>1, <1>2 DEF DataInv

LEMMA OneMoreBuffer ==
    ASSUME NEW n \in Nat
    PROVE  /\ n * PIPE_BSZ \in Nat
           /\ (n + 1) * PIPE_BSZ = n * PIPE_BSZ + PIPE_BSZ
           /\ n > 0 => (n - 1) * PIPE_BSZ = n * PIPE_BSZ - PIPE_BSZ
BY Sizes

(* kmem_alloc's buffer is added at the end of f.                           *)
LEMMA GrownByOne ==
    ASSUME CallInv, DataTypes, NEW p \in Proc, NEW f \in Node, f = fd[p].f, fifo_bufalloc(p)
    PROVE  /\ buf' \in [Node -> Seq([1 .. PIPE_BSZ -> Cell])]
           /\ nbuf(f)' = nbuf(f) + 1 /\ nbuf(f) \in Nat
           /\ \A g \in Node \ {f} : buf'[g] = buf[g] /\ nbuf(g)' = nbuf(g)
<1>. DEFINE Buffer == [1 .. PIPE_BSZ -> Cell]
<1>3. Fresh \in Buffer  BY DEF Fresh, Cell
<1>4. buf[f] \in Seq(Buffer) /\ nbuf(f) \in Nat /\ nbuf(f) = Len(buf[f])
  BY DEF DataTypes, nbuf
<1>5. \A b \in Buffer : Linked(b) \in Buffer
  BY FifoConstants DEF Linked, Cell
<1>6. buf' = [buf EXCEPT ![f] = Grown(f)]  BY DEF fifo_bufalloc
<1>7. Grown(f) \in Seq(Buffer) /\ Len(Grown(f)) = nbuf(f) + 1
  <2>1. CASE buf[f] = << >>
    <3>1. Grown(f) = <<Fresh>> /\ nbuf(f) = 0  BY <1>4, <2>1 DEF Grown
    <3>2. <<Fresh>> \in Seq(Buffer) /\ Len(<<Fresh>>) = 1  BY <1>3
    <3>. QED  BY <3>1, <3>2
  <2>2. CASE buf[f] # << >>
    <3>. DEFINE old == [buf[f] EXCEPT ![nbuf(f)] = Linked(@)]
    <3>1. nbuf(f) \in 1 .. Len(buf[f]) /\ buf[f][nbuf(f)] \in Buffer
      BY <1>4, <2>2
    <3>2. Linked(buf[f][nbuf(f)]) \in Buffer  BY <1>5, <3>1
    <3>3. old \in Seq(Buffer) /\ Len(old) = nbuf(f)
      BY <1>4, <3>1, <3>2
    <3>4. Grown(f) = Append(old, Fresh)  BY <2>2 DEF Grown
    <3>. HIDE DEF old, Buffer
    <3>5. Append(old, Fresh) \in Seq(Buffer) /\ Len(Append(old, Fresh)) = Len(old) + 1
      BY <1>3, <3>3
    <3>. QED  BY <3>3, <3>4, <3>5
  <2>. QED  BY <2>1, <2>2
<1>8. /\ buf' \in [Node -> Seq(Buffer)] /\ nbuf(f)' = nbuf(f) + 1
      /\ \A g \in Node \ {f} : buf'[g] = buf[g] /\ nbuf(g)' = nbuf(g)
  BY <1>6, <1>7 DEF DataTypes, nbuf
<1>. QED  BY <1>4, <1>8

LEMMA BufallocData ==
    ASSUME CallInv, DataInv, NEW p \in Proc, fifo_bufalloc(p)
    PROVE  DataInv'
<1>1. pc[p] = "kmem" /\ pc[p] \in Holders /\ pc[p] # "user"  BY DEF fifo_bufalloc, Holders
<1>2. PICK f \in Node : f = fd[p].f  BY <1>1, FdOfCaller DEF CallInv
<1>4. nbuf(f) \in Nat  BY DEF DataInv, DataTypes, nbuf
<1>8. /\ buf' \in [Node -> Seq([1 .. PIPE_BSZ -> Cell])] /\ nbuf(f)' = nbuf(f) + 1
      /\ \A g \in Node \ {f} : buf'[g] = buf[g]
  BY <1>2, GrownByOne DEF DataInv
<1>9. UNCHANGED <<fd, ocnt, resid, count, rptr, wptr, size>>
  BY DEF fifo_bufalloc, callvars
<1>10. pc'[p] = "walloc" /\ \A q \in Proc \ {p} : pc'[q] = pc[q]
  BY GotoAny, LabelFacts DEF fifo_bufalloc, CallInv
<1>11. DataTypes'  BY <1>8, <1>9 DEF DataInv, DataTypes
<1>12. wptr'[f] <= nbuf(f)' * PIPE_BSZ
  <2>1. wptr[f] <= nbuf(f) * PIPE_BSZ /\ wptr[f] \in Nat  BY DEF DataInv, DataTypes, Pointers
  <2>2. nbuf(f) * PIPE_BSZ \in Nat /\ (nbuf(f) + 1) * PIPE_BSZ = nbuf(f) * PIPE_BSZ + PIPE_BSZ
    BY <1>4, OneMoreBuffer
  <2>. QED  BY <1>8, <1>9, <2>1, <2>2, Sizes
<1>13. Transfer(p)'
  BY <1>1, <1>9, <1>10 DEF DataInv, Transfer, WriteCall, Holders
<1>14. wptr'[f] - rptr'[f] = size'[f] /\ rptr'[f] < PIPE_BSZ /\ size'[f] <= PIPE_BUF
  BY <1>9 DEF DataInv, Pointers
<1>. QED
  BY <1>1, <1>2, <1>8, <1>9, <1>10, <1>11, <1>12, <1>13, <1>14, HolderData

(* A chunk is not empty, not more than is asked for, and ends in its       *)
(* buffer.                                                                 *)
LEMMA ChunkFacts ==
    ASSUME NEW p \in Proc, count[p] \in Nat, count[p] > 0, NEW o \in Nat
    PROVE  /\ OffOf(o) \in 0 .. PIPE_BSZ - 1
           /\ Chunk(p, o) \in Nat /\ Chunk(p, o) > 0 /\ Chunk(p, o) <= count[p]
           /\ OffOf(o) + Chunk(p, o) <= PIPE_BSZ
<1>1. OffOf(o) \in 0 .. PIPE_BSZ - 1  BY Sizes DEF OffOf
<1>. QED  BY <1>1, Sizes DEF Chunk

LEMMA SmallOffset ==
    ASSUME NEW o \in Nat, o < PIPE_BSZ
    PROVE  OffOf(o) = o
BY Sizes DEF OffOf

(* uiomove writes bytes of p into cells of one buffer.                     *)
LEMMA StoredTypes ==
    ASSUME DataTypes, NEW p \in Proc, ocnt[p] \in WriteSizes, resid[p] <= ocnt[p],
           NEW f \in Node, NEW i \in Nat
    PROVE  /\ Stored(p, f, i) \in [Node -> Seq([1 .. PIPE_BSZ -> Cell])]
           /\ Len(Stored(p, f, i)[f]) = Len(buf[f])
           /\ \A g \in Node \ {f} : Stored(p, f, i)[g] = buf[g]
<1>. DEFINE Buffer == [1 .. PIPE_BSZ -> Cell]
            b == BufOf(wptr[f])
            off == OffOf(wptr[f])
            given == ocnt[p] - resid[p]
            put == [o \in 1 .. PIPE_BSZ |->
                       IF o \in off + 1 .. off + i
                       THEN [w |-> p, n |-> ocnt[p], i |-> given + o - off]
                       ELSE buf[f][b][o]]
<1>1. buf \in [Node -> Seq(Buffer)] /\ buf[f] \in Seq(Buffer)  BY DEF DataTypes
<1>2. given \in Nat /\ off \in Nat
  <2>1. ocnt[p] \in Nat /\ resid[p] \in Nat /\ wptr[f] \in Nat  BY DEF DataTypes
  <2>. QED  BY <2>1, Sizes DEF OffOf
<1>3. CASE ~Reached(f, b)
  <2>1. Stored(p, f, i) = buf  BY <1>3 DEF Stored
  <2>. QED  BY <1>1, <2>1
<1>4. CASE Reached(f, b)
  <2>1. Stored(p, f, i) = [buf EXCEPT ![f] = [buf[f] EXCEPT ![b] = put]]
    BY <1>1, <1>4 DEF Stored
  <2>2. CASE b \in 1 .. Len(buf[f])
    <3>1. buf[f][b] \in Buffer  BY <1>1, <2>2
    <3>2. put \in Buffer
      <4>. SUFFICES ASSUME NEW o \in 1 .. PIPE_BSZ PROVE put[o] \in Cell
        OBVIOUS
      <4>1. CASE o \in off + 1 .. off + i
        <5>1. given + o - off \in Nat \ {0}  BY <1>2, <4>1
        <5>2. [w |-> p, n |-> ocnt[p], i |-> given + o - off] \in Byte  BY <5>1 DEF Byte
        <5>. QED  BY <4>1, <5>2 DEF Cell
      <4>2. CASE o \notin off + 1 .. off + i
        BY <3>1, <4>2
      <4>. QED  BY <4>1, <4>2
    <3>. HIDE DEF put, b
    <3>3. [buf[f] EXCEPT ![b] = put] \in Seq(Buffer) /\ Len([buf[f] EXCEPT ![b] = put]) = Len(buf[f])
      BY <1>1, <2>2, <3>2
    <3>. QED  BY <1>1, <2>1, <3>3
  <2>3. CASE b \notin 1 .. Len(buf[f])
    <3>. HIDE DEF put, b
    <3>1. [buf[f] EXCEPT ![b] = put] = buf[f]  BY <1>1, <2>3
    <3>. QED  BY <1>1, <2>1, <3>1
  <2>. QED  BY <2>2, <2>3
<1>. QED  BY <1>3, <1>4

LEMMA CopyInData ==
    ASSUME CallInv, DataInv, NEW p \in Proc, CopyIn(p)
    PROVE  DataInv'
<1>. USE LabelFacts
<1>1. pc[p] = "wcopy" /\ pc[p] \in Holders /\ pc[p] \in WriteCall /\ pc[p] # "user"
  BY DEF CopyIn, Holders, WriteCall
<1>2. PICK f \in Node : f = fd[p].f  BY <1>1, FdOfCaller DEF CallInv
<1>3. /\ count[p] \in Nat /\ resid[p] \in Nat /\ ocnt[p] \in WriteSizes /\ resid[p] <= ocnt[p]
      /\ count[p] > 0 /\ count[p] <= resid[p] /\ size[f] + count[p] <= PIPE_BUF
      /\ wptr[f] + count[p] <= nbuf(f) * PIPE_BSZ
      /\ wptr[f] \in Nat /\ rptr[f] \in Nat /\ size[f] \in Nat /\ ocnt[p] \in Nat
      /\ wptr[f] - rptr[f] = size[f] /\ rptr[f] < PIPE_BSZ
  BY <1>1, <1>2 DEF DataInv, DataTypes, Transfer, Pointers
<1>4. PICK i \in Nat : i = Chunk(p, wptr[f]) /\ i > 0 /\ i <= count[p]
  BY <1>3, ChunkFacts
<1>5. /\ buf' = Stored(p, f, i) /\ size' = [size EXCEPT ![f] = @ + i]
      /\ wptr' = [wptr EXCEPT ![f] = @ + i] /\ UNCHANGED <<fd, rptr>>
  BY <1>2, <1>4 DEF CopyIn
<1>6. /\ buf' \in [Node -> Seq([1 .. PIPE_BSZ -> Cell])] /\ nbuf(f)' = nbuf(f)
      /\ \A g \in Node \ {f} : buf'[g] = buf[g]
  BY <1>3, <1>5, StoredTypes DEF DataInv, nbuf
<1>7. /\ size' \in [Node -> Nat] /\ wptr' \in [Node -> Nat] /\ rptr' \in [Node -> Nat]
      /\ size'[f] = size[f] + i /\ wptr'[f] = wptr[f] + i /\ rptr'[f] = rptr[f]
      /\ \A g \in Node \ {f} : size'[g] = size[g] /\ wptr'[g] = wptr[g] /\ rptr'[g] = rptr[g]
  <2>1. size \in [Node -> Nat] /\ wptr \in [Node -> Nat] /\ rptr \in [Node -> Nat]
    BY DEF DataInv, DataTypes
  <2>. QED  BY <1>3, <1>4, <1>5, <2>1
<1>8. /\ wptr'[f] - rptr'[f] = size'[f] /\ rptr'[f] < PIPE_BSZ
      /\ wptr'[f] <= nbuf(f)' * PIPE_BSZ /\ size'[f] <= PIPE_BUF
  <2>1. nbuf(f) * PIPE_BSZ \in Nat
    BY OneMoreBuffer DEF DataInv, DataTypes, nbuf
  <2>2. wptr[f] + i <= nbuf(f) * PIPE_BSZ  BY <1>3, <1>4, <2>1
  <2>3. wptr'[f] <= nbuf(f)' * PIPE_BSZ  BY <1>6, <1>7, <2>2
  <2>. QED  BY <1>3, <1>4, <1>7, <2>3, Sizes
<1>11. \A g \in Node \ {f} : /\ buf'[g] = buf[g] /\ rptr'[g] = rptr[g]
                              /\ wptr'[g] = wptr[g] /\ size'[g] = size[g]
  BY <1>6, <1>7
<1>. DEFINE Others == \A q \in Proc \ {p} : /\ pc'[q] = pc[q] /\ ocnt'[q] = ocnt[q]
                                           /\ resid'[q] = resid[q] /\ count'[q] = count[q]
<1>12. ASSUME DataTypes', Others, Transfer(p)' PROVE DataInv'
  BY <1>1, <1>2, <1>5, <1>8, <1>11, <1>12, HolderData
<1>9. CASE count[p] > i
  <2>1. /\ count' = [count EXCEPT ![p] = @ - i] /\ resid' = [resid EXCEPT ![p] = @ - i]
        /\ UNCHANGED <<pc, ocnt>>
    BY <1>2, <1>4, <1>9 DEF CopyIn
  <2>2. /\ count'[p] = count[p] - i /\ resid'[p] = resid[p] - i
        /\ count' \in [Proc -> Nat] /\ resid' \in [Proc -> Nat]
        /\ \A q \in Proc \ {p} : count'[q] = count[q] /\ resid'[q] = resid[q]
    <3>1. count \in [Proc -> Nat] /\ resid \in [Proc -> Nat]  BY DEF DataInv, DataTypes
    <3>2. count[p] - i \in Nat /\ resid[p] - i \in Nat  BY <1>3, <1>4
    <3>. QED  BY <2>1, <3>1, <3>2
  <2>3. DataTypes'  BY <1>6, <1>7, <2>1, <2>2 DEF DataInv, DataTypes
  <2>4. wptr'[f] + count'[p] <= nbuf(f)' * PIPE_BSZ
    <3>1. wptr'[f] + count'[p] = wptr[f] + count[p]  BY <1>3, <1>4, <1>7, <2>2
    <3>. QED  BY <1>3, <1>6, <3>1
  <2>5. fd'[p].f = f /\ pc'[p] = "wcopy" /\ ocnt'[p] = ocnt[p]  BY <1>1, <1>2, <1>5, <2>1
  <2>6. count'[p] > 0 /\ count'[p] <= resid'[p] /\ resid'[p] <= ocnt[p]
        /\ size'[f] + count'[p] <= PIPE_BUF
    BY <1>3, <1>4, <1>7, <1>9, <2>2, Sizes
  <2>7. Transfer(p)'
    BY <1>3, <2>4, <2>5, <2>6 DEF Transfer, WriteCall, Holders
  <2>8. Others  BY <2>1, <2>2
  <2>. QED  BY <1>12, <2>3, <2>7, <2>8
<1>10. CASE ~(count[p] > i)
  <2>0. count[p] = i  BY <1>3, <1>4, <1>10
  <2>1. CASE resid[p] > i
    <3>1. /\ count' = [count EXCEPT ![p] = 0] /\ resid' = [resid EXCEPT ![p] = @ - i]
          /\ UNCHANGED ocnt /\ \E C, Q : Goto(p, "wtop", NoChan, C, Q)
      BY <1>2, <1>4, <1>10, <2>1 DEF CopyIn
    <3>2. pc'[p] = "wtop" /\ \A q \in Proc \ {p} : pc'[q] = pc[q]
      BY <3>1, GotoAny DEF CallInv
    <3>3. /\ resid'[p] = resid[p] - i
          /\ count' \in [Proc -> Nat] /\ resid' \in [Proc -> Nat]
          /\ \A q \in Proc \ {p} : count'[q] = count[q] /\ resid'[q] = resid[q]
      BY <1>3, <1>4, <2>1, <3>1 DEF DataInv, DataTypes
    <3>4. DataTypes'  BY <1>6, <1>7, <3>1, <3>3 DEF DataInv, DataTypes
    <3>5. resid'[p] > 0 /\ resid'[p] <= ocnt[p] /\ ocnt'[p] = ocnt[p]
      BY <1>3, <1>4, <2>1, <3>1, <3>3
    <3>6. Transfer(p)'
      BY <1>3, <3>2, <3>5 DEF Transfer, WriteCall, Holders
    <3>7. Others  BY <3>1, <3>2, <3>3
    <3>. QED  BY <1>12, <3>4, <3>6, <3>7
  <2>2. CASE ~(resid[p] > i)
    <3>1. EndCall(p) /\ \E C, Q : Goto(p, "user", NoChan, C, Q)
      BY <1>2, <1>4, <1>10, <2>2 DEF CopyIn
    <3>2. pc'[p] = "user" /\ \A q \in Proc \ {p} : pc'[q] = pc[q]
      BY <3>1, GotoAny DEF CallInv
    <3>3. /\ ocnt' \in [Proc -> Nat] /\ resid' \in [Proc -> Nat] /\ count' \in [Proc -> Nat]
          /\ \A q \in Proc \ {p} : ocnt'[q] = ocnt[q] /\ resid'[q] = resid[q] /\ count'[q] = count[q]
      BY <3>1, EndCallTypes DEF DataInv
    <3>4. DataTypes'  BY <1>6, <1>7, <3>3 DEF DataInv, DataTypes
    <3>5. Transfer(p)'  BY <3>2, UserIdle
    <3>6. Others  BY <3>2, <3>3
    <3>. QED  BY <1>12, <3>4, <3>5, <3>6
  <2>. QED  BY <2>1, <2>2
<1>. QED  BY <1>9, <1>10

LEMMA ReadData ==
    ASSUME CallInv, DataInv, NEW p \in Proc,
           ReadEnds(p) \/ ReadSleeps(p) \/ ReadStarts(p) \/ CopyFaults(p) \/ TransferInterrupted(p)
    PROVE  DataInv'
<1>. USE LabelFacts, ChanFacts DEF callvars, datavars
<1>1. CASE ReadEnds(p) \/ CopyFaults(p) \/ TransferInterrupted(p)
  BY <1>1, EndCallData DEF ReadEnds, CopyFaults, TransferInterrupted
<1>2. CASE ReadSleeps(p) \/ ReadStarts(p)
  <2>1. pc[p] \in {"rtop", "rsleep"}  BY <1>2 DEF ReadSleeps, ReadStarts, AtReadTop, Awake
  <2>2. /\ fd[p].f \in Node /\ Transfer(p) /\ resid[p] \in Nat /\ resid[p] > 0
        /\ size[fd[p].f] \in Nat /\ count = [count EXCEPT ![p] = count[p]] /\ count[p] \in Nat
    BY <2>1, FdOfCaller DEF CallInv, DataInv, DataTypes, Transfer
  <2>3. CASE ReadSleeps(p)
    <3>1. (pc'[p] = "rsleep" /\ UNCHANGED resid) => Transfer(p)'
      BY <2>2 DEF Transfer, WriteCall, Holders
    <3>2. /\ \E C, Q : Goto(p, "rsleep", <<fd[p].f, "fn_rcnt">>, C, Q)
          /\ <<fd[p].f, "fn_rcnt">> \in Chan
          /\ UNCHANGED <<fd, ocnt, resid, count, buf, rptr, wptr, size>>
      BY <2>2, <2>3 DEF ReadSleeps, Chan
    <3>3. count' = [count EXCEPT ![p] = count[p]]  BY <2>2, <3>2
    <3>4. "rsleep" \in Label  BY DEF Label, Sleepers
    <3>. QED  BY <2>2, <3>1, <3>2, <3>3, <3>4, MoveData
  <2>4. CASE ReadStarts(p)
    <3>1. ReadNow(p) \in Nat /\ ReadNow(p) > 0 /\ ReadNow(p) <= resid[p] /\ ReadNow(p) <= size[fd[p].f]
      BY <2>2, <2>4 DEF ReadStarts, ReadNow
    <3>2. (pc'[p] = "rcopy" /\ count'[p] = ReadNow(p) /\ UNCHANGED <<fd, resid, size>>) => Transfer(p)'
      BY <3>1 DEF Transfer, WriteCall, Holders
    <3>. QED  BY <2>2, <2>4, <3>1, <3>2, MoveData DEF ReadStarts
  <2>. QED  BY <1>2, <2>3, <2>4
<1>. QED  BY <1>1, <1>2

LEMMA CopyOutData ==
    ASSUME CallInv, DataInv, NEW p \in Proc, CopyOut(p)
    PROVE  DataInv'
<1>. USE LabelFacts
<1>. DEFINE Buffer == [1 .. PIPE_BSZ -> Cell]
<1>1. pc[p] = "rcopy" /\ pc[p] \in Holders /\ pc[p] # "user"
  BY DEF CopyOut, Holders
<1>2. PICK f \in Node : f = fd[p].f  BY <1>1, FdOfCaller DEF CallInv
<1>3. /\ count[p] \in Nat /\ resid[p] \in Nat /\ count[p] > 0 /\ count[p] <= resid[p]
      /\ count[p] <= size[f] /\ size[f] <= PIPE_BUF
      /\ wptr[f] \in Nat /\ rptr[f] \in Nat /\ size[f] \in Nat
      /\ wptr[f] - rptr[f] = size[f] /\ rptr[f] < PIPE_BSZ
  BY <1>1, <1>2 DEF DataInv, DataTypes, Transfer, Pointers
<1>15. /\ wptr[f] <= nbuf(f) * PIPE_BSZ
       /\ buf[f] \in Seq(Buffer) /\ nbuf(f) \in Nat /\ nbuf(f) = Len(buf[f])
  BY <1>2 DEF DataInv, DataTypes, Pointers, nbuf
<1>4. PICK i \in Nat : i = Chunk(p, rptr[f]) /\ i > 0 /\ i <= count[p] /\ rptr[f] + i <= PIPE_BSZ
  <2>1. OffOf(rptr[f]) = rptr[f]  BY <1>3, SmallOffset
  <2>. QED  BY <1>3, <2>1, ChunkFacts
<1>5. PICK freed \in {0, 1} : freed = Drained(f, i)
  BY DEF Drained
<1>6. /\ size' = [size EXCEPT ![f] = @ - i]
      /\ rptr' = [rptr EXCEPT ![f] = IF freed = 1 THEN 0 ELSE @ + i]
      /\ wptr' = [wptr EXCEPT ![f] = @ - freed * PIPE_BSZ]
      /\ buf' = [buf EXCEPT ![f] = IF freed = 1 THEN Tail(@) ELSE @]
      /\ fd' = fd
  BY <1>2, <1>4, <1>5 DEF CopyOut
<1>7. /\ size \in [Node -> Nat] /\ wptr \in [Node -> Nat] /\ rptr \in [Node -> Nat]
      /\ buf \in [Node -> Seq(Buffer)]
  BY DEF DataInv, DataTypes
<1>8. size' \in [Node -> Nat] /\ size'[f] = size[f] - i
  <2>1. size[f] - i \in Nat  BY <1>3, <1>4
  <2>. QED  BY <1>6, <1>7, <2>1
<1>9. /\ wptr' \in [Node -> Nat] /\ rptr' \in [Node -> Nat] /\ buf' \in [Node -> Seq(Buffer)]
      /\ wptr'[f] - rptr'[f] = size'[f] /\ rptr'[f] < PIPE_BSZ
      /\ wptr'[f] <= nbuf(f)' * PIPE_BSZ
  <2>1. CASE freed = 1
    <3>1. rptr[f] + i = PIPE_BSZ  BY <1>5, <2>1 DEF Drained
    <3>2. wptr[f] - PIPE_BSZ \in Nat /\ wptr[f] >= PIPE_BSZ  BY <1>3, <1>4, <3>1, Sizes
    <3>3. freed * PIPE_BSZ = PIPE_BSZ  BY <2>1, Sizes
    <3>4. wptr' = [wptr EXCEPT ![f] = wptr[f] - PIPE_BSZ] /\ rptr' = [rptr EXCEPT ![f] = 0]
          /\ buf' = [buf EXCEPT ![f] = Tail(buf[f])]
      BY <1>6, <2>1, <3>3
    <3>5. nbuf(f) > 0
      <4>1. nbuf(f) = 0 => nbuf(f) * PIPE_BSZ = 0  BY Sizes
      <4>. QED  BY <1>3, <1>15, <3>2, <4>1, Sizes
    <3>6. Tail(buf[f]) \in Seq(Buffer) /\ Len(Tail(buf[f])) = nbuf(f) - 1
      BY <1>15, <3>5
    <3>7. /\ wptr' \in [Node -> Nat] /\ rptr' \in [Node -> Nat] /\ buf' \in [Node -> Seq(Buffer)]
          /\ wptr'[f] = wptr[f] - PIPE_BSZ /\ rptr'[f] = 0 /\ nbuf(f)' = nbuf(f) - 1
      BY <1>7, <3>2, <3>4, <3>6 DEF nbuf
    <3>8. nbuf(f) * PIPE_BSZ \in Nat /\ (nbuf(f) - 1) * PIPE_BSZ = nbuf(f) * PIPE_BSZ - PIPE_BSZ
      BY <1>15, <3>5, OneMoreBuffer
    <3>9. wptr'[f] <= nbuf(f)' * PIPE_BSZ
      BY <1>3, <1>15, <3>7, <3>8, Sizes
    <3>10. wptr[f] - PIPE_BSZ - 0 = size[f] - i  BY <1>3, <1>4, <3>1, Sizes
    <3>11. wptr'[f] - rptr'[f] = size'[f] /\ rptr'[f] < PIPE_BSZ
      BY <1>8, <3>7, <3>10, Sizes
    <3>. QED  BY <3>7, <3>9, <3>11
  <2>2. CASE freed = 0
    <3>1. rptr[f] + i # PIPE_BSZ  BY <1>5, <2>2 DEF Drained
    <3>2. freed * PIPE_BSZ = 0  BY <2>2, Sizes
    <3>4. wptr[f] - 0 = wptr[f] /\ rptr[f] + i \in Nat  BY <1>3, <1>4
    <3>3. /\ wptr' = [wptr EXCEPT ![f] = wptr[f]] /\ rptr' = [rptr EXCEPT ![f] = rptr[f] + i]
          /\ buf' = [buf EXCEPT ![f] = buf[f]]
      <4>1. wptr' = [wptr EXCEPT ![f] = wptr[f] - freed * PIPE_BSZ]  BY <1>6
      <4>2. wptr[f] - freed * PIPE_BSZ = wptr[f]  BY <3>2, <3>4
      <4>3. wptr' = [wptr EXCEPT ![f] = wptr[f]]  BY <4>1, <4>2, Zenon
      <4>4. rptr' = [rptr EXCEPT ![f] = IF freed = 1 THEN 0 ELSE rptr[f] + i]
            /\ buf' = [buf EXCEPT ![f] = IF freed = 1 THEN Tail(buf[f]) ELSE buf[f]]
        BY <1>6
      <4>5. freed # 1  BY <2>2
      <4>. QED  BY <4>3, <4>4, <4>5
    <3>5. /\ wptr' \in [Node -> Nat] /\ rptr' \in [Node -> Nat] /\ buf' \in [Node -> Seq(Buffer)]
          /\ wptr'[f] = wptr[f] /\ rptr'[f] = rptr[f] + i /\ nbuf(f)' = nbuf(f)
      BY <1>7, <3>3, <3>4 DEF nbuf
    <3>6. wptr'[f] <= nbuf(f)' * PIPE_BSZ
      BY <1>15, <3>5
    <3>7. wptr[f] - (rptr[f] + i) = size[f] - i /\ rptr[f] + i < PIPE_BSZ
      BY <1>3, <1>4, <3>1, Sizes
    <3>8. wptr'[f] - rptr'[f] = size'[f] /\ rptr'[f] < PIPE_BSZ
      BY <1>8, <3>5, <3>7
    <3>. QED  BY <3>5, <3>6, <3>8
  <2>. QED  BY <2>1, <2>2
<1>10. \A g \in Node \ {f} : /\ buf'[g] = buf[g] /\ rptr'[g] = rptr[g]
                              /\ wptr'[g] = wptr[g] /\ size'[g] = size[g]
  BY <1>6, <1>7
<1>11. size'[f] <= PIPE_BUF  BY <1>3, <1>4, <1>8, Sizes
<1>. DEFINE Others == \A q \in Proc \ {p} : /\ pc'[q] = pc[q] /\ ocnt'[q] = ocnt[q]
                                           /\ resid'[q] = resid[q] /\ count'[q] = count[q]
<1>12. ASSUME DataTypes', Others, Transfer(p)' PROVE DataInv'
  BY <1>1, <1>2, <1>6, <1>9, <1>10, <1>11, <1>12, HolderData
<1>13. CASE count[p] = i
  <2>1. EndCall(p) /\ \E C, Q : Goto(p, "user", NoChan, C, Q)
    BY <1>2, <1>4, <1>13 DEF CopyOut
  <2>2. pc'[p] = "user" /\ \A q \in Proc \ {p} : pc'[q] = pc[q]
    BY <2>1, GotoAny DEF CallInv
  <2>3. /\ ocnt' \in [Proc -> Nat] /\ resid' \in [Proc -> Nat] /\ count' \in [Proc -> Nat]
        /\ \A q \in Proc \ {p} : ocnt'[q] = ocnt[q] /\ resid'[q] = resid[q] /\ count'[q] = count[q]
    BY <2>1, EndCallTypes DEF DataInv
  <2>4. DataTypes'  BY <1>8, <1>9, <2>3 DEF DataTypes
  <2>5. Transfer(p)'  BY <2>2, UserIdle
  <2>6. Others  BY <2>2, <2>3
  <2>. QED  BY <1>12, <2>4, <2>5, <2>6
<1>14. CASE count[p] # i
  <2>1. /\ count' = [count EXCEPT ![p] = @ - i] /\ resid' = [resid EXCEPT ![p] = @ - i]
        /\ UNCHANGED ocnt /\ \E C, Q : Goto(p, "rcopy", NoChan, C, Q)
    BY <1>2, <1>4, <1>14 DEF CopyOut
  <2>2. pc'[p] = "rcopy" /\ \A q \in Proc \ {p} : pc'[q] = pc[q]
    BY <2>1, GotoAny DEF CallInv
  <2>3. /\ count'[p] = count[p] - i /\ resid'[p] = resid[p] - i
        /\ count' \in [Proc -> Nat] /\ resid' \in [Proc -> Nat]
        /\ \A q \in Proc \ {p} : count'[q] = count[q] /\ resid'[q] = resid[q]
    <3>1. count \in [Proc -> Nat] /\ resid \in [Proc -> Nat]  BY DEF DataInv, DataTypes
    <3>2. count[p] - i \in Nat /\ resid[p] - i \in Nat  BY <1>3, <1>4
    <3>. QED  BY <2>1, <3>1, <3>2
  <2>4. DataTypes'  BY <1>8, <1>9, <2>1, <2>3 DEF DataInv, DataTypes
  <2>5. count'[p] > 0 /\ count'[p] <= resid'[p] /\ count'[p] <= size'[f] /\ fd'[p].f = f
    BY <1>2, <1>3, <1>4, <1>6, <1>8, <1>14, <2>3
  <2>6. Transfer(p)'
    BY <2>2, <2>5 DEF Transfer, WriteCall, Holders
  <2>7. Others  BY <2>1, <2>2, <2>3
  <2>. QED  BY <1>12, <2>4, <2>6, <2>7
<1>. QED  BY <1>13, <1>14

LEMMA SelectData ==
    ASSUME CallInv, DataInv, NEW p \in Proc,
           (\E k \in Selects : select(p, k)) \/ SelectEnds(p)
    PROVE  DataInv'
<1>. USE LabelFacts, ChanFacts, FifoConstants
<1>1. UNCHANGED <<fd, ocnt, resid, count, buf, rptr, wptr, size>>
  BY DEF select, SelectEnds, callvars, datavars
<1>2. \E l \in {"user"} \cup Kind : \E c \in Chan \cup {NoChan} : \E C, Q : Goto(p, l, c, C, Q)
  <2>1. CASE SelectEnds(p)  BY <2>1 DEF SelectEnds
  <2>2. CASE \E k \in Selects : select(p, k)
    <3>1. PICK k \in Selects : select(p, k)  BY <2>2
    <3>2. k \in Kind  OBVIOUS
    <3>. QED  BY <3>1, <3>2 DEF select
  <2>. QED  BY <2>1, <2>2
<1>3. PICK l \in {"user"} \cup Kind : \E c \in Chan \cup {NoChan} : \E C, Q : Goto(p, l, c, C, Q)
  BY <1>2
<1>4. l \in Label  BY DEF Label, Sleepers
<1>5. pc'[p] = l /\ \A q \in Proc \ {p} : pc'[q] = pc[q]
  BY <1>3, <1>4, GotoAny DEF CallInv
<1>6. Transfer(p)'  BY <1>5, UserIdle
<1>. QED  BY <1>1, <1>5, <1>6, PlainData DEF DataInv, DataTypes

LEMMA DataStep ==
    ASSUME CallInv, DataInv, [Next]_vars
    PROVE  DataInv'
<1>1. CASE UNCHANGED vars
  <2>1. UNCHANGED <<pc, fd, ocnt, resid, count, buf, rptr, wptr, size>>
    BY <1>1 DEF vars, callvars, datavars
  <2>2. Pointers'  BY <2>1 DEF DataInv, Pointers, nbuf
  <2>3. \A p \in Proc : Transfer(p)'  BY <2>1 DEF DataInv, Transfer, nbuf
  <2>. QED  BY <2>1, <2>2, <2>3 DEF DataInv, DataTypes
<1>2. ASSUME NEW p \in Proc, UserStep(p) PROVE DataInv'
  <2>1. CASE fifo_close(p)  BY <2>1, CloseData DEF fifo_close
  <2>2. CASE \E n \in WriteSizes : Write(p, n)  BY <2>2, EntryData
  <2>3. CASE \E n \in ReadSizes : Read(p, n)  BY <2>3, EntryData
  <2>4. CASE \E k \in Selects : select(p, k)  BY <2>4, SelectData
  <2>. QED  BY <1>2, <2>1, <2>2, <2>3, <2>4, OpenData DEF UserStep
<1>3. ASSUME NEW p \in Proc, KernelStep(p) PROVE DataInv'
  <2>1. CASE OpenAgain(p)  BY <2>1, OpenAgainData
  <2>2. CASE CopyIn(p)  BY <2>2, CopyInData
  <2>3. CASE CopyOut(p)  BY <2>3, CopyOutData
  <2>4. CASE ReadEnds(p) \/ ReadSleeps(p) \/ ReadStarts(p)
    BY <2>4, ReadData
  <2>5. CASE fifo_bufalloc(p)  BY <2>5, BufallocData
  <2>6. CASE \/ WriteFails(p) \/ WriteSleeps(p) \/ WriteStarts(p) \/ AllocSleeps(p)
             \/ AllocReserves(p) \/ WriteCopies(p)
    BY <2>6, WriteData
  <2>. QED  BY <1>3, <2>1, <2>2, <2>3, <2>4, <2>5, <2>6 DEF KernelStep
<1>4. ASSUME NEW p \in Proc, Disturb(p) PROVE DataInv'
  <2>1. CASE OpenInterrupted(p)
    BY <2>1, CloseData DEF OpenInterrupted, CallInv, DescInv
  <2>2. CASE SelectEnds(p)  BY <2>2, SelectData
  <2>. QED  BY <1>4, <2>1, <2>2, ReadData DEF Disturb
<1>. QED  BY <1>1, <1>2, <1>3, <1>4 DEF Next

(* The conditions that fifo_rdwr tests under SANITY hold at every step,    *)
(* and no fifo holds more than PIPE_BUF bytes, for any sizes of buffers,   *)
(* fifos and requests: what open, close and select do without the lock     *)
(* never disturbs a transfer that sleeps.                                  *)
THEOREM TransfersFit == Spec => []Pointers
<1>1. CallInv /\ DataInv => Pointers  BY DEF DataInv
<1>. QED  BY <1>1, CallInit, CallStep, DataInit, DataStep, PTL DEF Spec

-----------------------------------------------------------------------------
(* Selectors                                                               *)

LEMMA StillSelects ==
    ASSUME CallInv, SelectorsKnown, NEW p \in Proc, NEW q \in Proc \ {p},
           NEW l, NEW c, NEW C, NEW Q, Goto(p, l, c, C, Q), fd'[q] = fd[q],
           pc'[q] \in Kind, wchan'[q] = selwait
    PROVE  /\ pc'[q] = pc[q] /\ wchan[q] = selwait /\ q \notin Q
           /\ fd[q].f \in Node /\ pc[q] \in Kind
           /\ sel[fd[q].f][pc[q]] # NoProc
           /\ sel[fd[q].f][pc[q]] = q \/ pc[q] \in coll[fd[q].f]
<1>1. pc'[q] = pc[q]  BY DEF Goto, CallInv, CallTypes
<1>2. wchan'[q] = IF wchan[q] \in C \/ q \in Q THEN NoChan ELSE wchan[q]  BY DEF Goto
<1>3. selwait # NoChan  BY FifoConstants DEF Chan
<1>4. wchan[q] = selwait /\ q \notin Q  BY <1>2, <1>3
<1>5. pc[q] # "user"  BY <1>1 DEF Kind
<1>. QED  BY <1>1, <1>4, <1>5, FdOfCaller DEF CallInv, SelectorsKnown

LEMMA SelKept ==
    ASSUME CallInv, SelectorsKnown, NEW p \in Proc, NEW l \in Label \ Kind,
           \E c \in Chan \cup {NoChan} : \E C, Q : Goto(p, l, c, C, Q),
           \A q \in Proc \ {p} : fd'[q] = fd[q], UNCHANGED <<sel, coll>>
    PROVE  SelectorsKnown'
<1>. SUFFICES ASSUME NEW q \in Proc, pc'[q] \in Kind, wchan'[q] = selwait
              PROVE  /\ sel'[fd'[q].f][pc'[q]] # NoProc
                     /\ sel'[fd'[q].f][pc'[q]] = q \/ pc'[q] \in coll'[fd'[q].f]
  BY DEF SelectorsKnown
<1>1. PICK c \in Chan \cup {NoChan} : \E C, Q : Goto(p, l, c, C, Q)  OBVIOUS
<1>2. PICK C, Q : Goto(p, l, c, C, Q)  BY <1>1
<1>3. pc'[p] = l  BY <1>2, GotoAny DEF CallInv
<1>4. q \in Proc \ {p}  BY <1>3
<1>. QED  BY <1>2, <1>4, StillSelects

(* Who is taken off the list is woken.                                     *)
LEMMA SelWoken ==
    ASSUME CallInv, SelectorsKnown, NEW p \in Proc, NEW l \in Label \ Kind, NEW f \in Node,
           NEW K, Deselect(f, K),
           \E c \in Chan \cup {NoChan} : \E C : Goto(p, l, c, C, Selected(f, K)),
           \A q \in Proc \ {p} : fd'[q] = fd[q]
    PROVE  SelectorsKnown'
<1>. SUFFICES ASSUME NEW q \in Proc, pc'[q] \in Kind, wchan'[q] = selwait
              PROVE  /\ sel'[fd'[q].f][pc'[q]] # NoProc
                     /\ sel'[fd'[q].f][pc'[q]] = q \/ pc'[q] \in coll'[fd'[q].f]
  BY DEF SelectorsKnown
<1>1. PICK c \in Chan \cup {NoChan} : \E C : Goto(p, l, c, C, Selected(f, K))  OBVIOUS
<1>2. PICK C : Goto(p, l, c, C, Selected(f, K))  BY <1>1
<1>3. pc'[p] = l  BY <1>2, GotoAny DEF CallInv
<1>4. q \in Proc \ {p} /\ fd'[q] = fd[q]  BY <1>3
<1>5. /\ pc'[q] = pc[q] /\ wchan[q] = selwait /\ q \notin Selected(f, K)
      /\ fd[q].f \in Node /\ pc[q] \in Kind
      /\ sel[fd[q].f][pc[q]] # NoProc
      /\ sel[fd[q].f][pc[q]] = q \/ pc[q] \in coll[fd[q].f]
  BY <1>2, <1>4, StillSelects
<1>6. ~(fd[q].f = f /\ pc[q] \in K)  BY <1>5 DEF Selected
<1>7. sel \in [Node -> [Kind -> Proc \cup {NoProc}]] /\ coll \in [Node -> SUBSET Kind]
  BY DEF CallInv, CallTypes
<1>8. sel'[fd[q].f][pc[q]] = sel[fd[q].f][pc[q]]
  <2>1. CASE fd[q].f # f  BY <1>5, <1>7, <2>1 DEF Deselect
  <2>2. CASE fd[q].f = f
    <3>1. sel'[f] = [k \in Kind |-> IF k \in K THEN NoProc ELSE sel[f][k]]  BY <1>7 DEF Deselect
    <3>. QED  BY <1>5, <1>6, <2>2, <3>1
  <2>. QED  BY <2>1, <2>2
<1>9. pc[q] \in coll[fd[q].f] => pc[q] \in coll'[fd[q].f]
  BY <1>5, <1>6, <1>7 DEF Deselect
<1>. QED  BY <1>4, <1>5, <1>8, <1>9

(* A new selector is entered, or it has seen that somebody else is.        *)
LEMMA SelEntered ==
    ASSUME CallInv, SelectorsKnown, NEW p \in Proc, NEW k \in Kind, select(p, k)
    PROVE  SelectorsKnown'
<1>. USE LabelFacts, ChanFacts
<1>1. fd[p] # NoFd /\ UNCHANGED fd  BY DEF select
<1>2. PICK f \in Node : f = fd[p].f  BY <1>1, FdFields DEF CallInv, CallTypes
<1>3. CASE Ready(f, k)
  <2>1. Goto(p, "user", NoChan, {}, {}) /\ UNCHANGED <<sel, coll>>
    BY <1>2, <1>3 DEF select, selvars
  <2>2. "user" \in Label \ Kind  BY DEF Kind
  <2>. QED  BY <1>1, <2>1, <2>2, SelKept
<1>4. CASE ~Ready(f, k)
  <2>1. /\ coll' = [coll EXCEPT ![f] = IF Collides(f, k) THEN @ \cup {k} ELSE @]
        /\ sel' = [sel EXCEPT ![f][k] = IF Collides(f, k) THEN @ ELSE p]
        /\ Goto(p, k, selwait, {}, {})
    BY <1>2, <1>4 DEF select
  <2>2. sel \in [Node -> [Kind -> Proc \cup {NoProc}]] /\ coll \in [Node -> SUBSET Kind]
    BY DEF CallInv, CallTypes
  <2>3. \A g \in Node, j \in Kind : sel'[g][j] = IF g = f /\ j = k /\ ~Collides(f, k)
                                                 THEN p ELSE sel[g][j]
    BY <2>1, <2>2
  <2>4. \A g \in Node : coll[g] \subseteq coll'[g]  BY <2>1, <2>2
  <2>5. Collides(f, k) => k \in coll'[f]  BY <2>1, <2>2
  <2>. SUFFICES ASSUME NEW q \in Proc, pc'[q] \in Kind, wchan'[q] = selwait
                PROVE  /\ sel'[fd'[q].f][pc'[q]] # NoProc
                       /\ sel'[fd'[q].f][pc'[q]] = q \/ pc'[q] \in coll'[fd'[q].f]
    BY DEF SelectorsKnown
  <2>6. p # NoProc  BY FifoConstants
  <2>7. CASE q = p
    <3>1. pc'[p] = k  BY <2>1, GotoAny DEF CallInv
    <3>2. Collides(f, k) => sel'[f][k] # NoProc  BY <2>3 DEF Collides
    <3>. QED  BY <1>1, <1>2, <2>3, <2>5, <2>6, <2>7, <3>1, <3>2
  <2>8. CASE q # p
    <3>1. /\ pc'[q] = pc[q] /\ wchan[q] = selwait
          /\ fd[q].f \in Node /\ pc[q] \in Kind
          /\ sel[fd[q].f][pc[q]] # NoProc
          /\ sel[fd[q].f][pc[q]] = q \/ pc[q] \in coll[fd[q].f]
      BY <1>1, <2>1, <2>8, StillSelects
    <3>2. CASE fd[q].f = f /\ pc[q] = k /\ ~Collides(f, k)
      <4>1. sel[f][k] # q  BY <3>1, <3>2 DEF Collides
      <4>2. k \in coll'[f]  BY <2>4, <3>1, <3>2, <4>1
      <4>. QED  BY <1>1, <2>3, <2>6, <3>1, <3>2, <4>2
    <3>3. CASE ~(fd[q].f = f /\ pc[q] = k /\ ~Collides(f, k))
      <4>1. sel'[fd[q].f][pc[q]] = sel[fd[q].f][pc[q]]  BY <2>3, <3>1, <3>3
      <4>. QED  BY <1>1, <2>4, <3>1, <4>1
    <3>. QED  BY <3>2, <3>3
  <2>. QED  BY <2>7, <2>8
<1>. QED  BY <1>3, <1>4

LEMMA SelInit == Init => SelectorsKnown
BY DEF Init, SelectorsKnown, Kind

LEMMA SelClose ==
    ASSUME CallInv, SelectorsKnown, NEW p \in Proc, fd[p] # NoFd, CloseEnds(p)
    PROVE  SelectorsKnown'
<1>. USE LabelFacts, ChanFacts
<1>1. PICK f \in Node : f = fd[p].f  BY FdFields DEF CallInv, CallTypes
<1>2. /\ \E K : Deselect(f, K) /\ \E C : Goto(p, "user", NoChan, C, Selected(f, K))
      /\ fd' = [fd EXCEPT ![p] = NoFd]
  BY <1>1 DEF CloseEnds
<1>3. PICK K : Deselect(f, K) /\ \E C : Goto(p, "user", NoChan, C, Selected(f, K))  BY <1>2
<1>4. \A q \in Proc \ {p} : fd'[q] = fd[q]  BY <1>2 DEF CallInv, CallTypes
<1>5. "user" \in Label \ Kind  BY DEF Kind
<1>. QED  BY <1>3, <1>4, <1>5, SelWoken

LEMMA SelCopy ==
    ASSUME CallInv, SelectorsKnown, NEW p \in Proc, CopyIn(p) \/ CopyOut(p)
    PROVE  SelectorsKnown'
<1>. USE LabelFacts, ChanFacts
<1>1. pc[p] \in {"wcopy", "rcopy"} /\ UNCHANGED fd  BY DEF CopyIn, CopyOut
<1>2. PICK f \in Node : f = fd[p].f  BY <1>1, FdOfCaller DEF CallInv
<1>3. {"user", "wtop", "rcopy"} \subseteq Label \ Kind  BY DEF Kind, Label, Holders
<1>4. CASE UNCHANGED <<pc, wchan, sel, coll>>
  BY <1>1, <1>4 DEF SelectorsKnown
<1>5. CASE \E K : /\ Deselect(f, K)
                  /\ \E l \in {"user", "wtop", "rcopy"} : \E C : Goto(p, l, NoChan, C, Selected(f, K))
  <2>1. PICK K : /\ Deselect(f, K)
                 /\ \E l \in {"user", "wtop", "rcopy"} : \E C : Goto(p, l, NoChan, C, Selected(f, K))
    BY <1>5
  <2>2. PICK l \in {"user", "wtop", "rcopy"} : \E C : Goto(p, l, NoChan, C, Selected(f, K))
    BY <2>1
  <2>. QED  BY <1>1, <1>3, <2>1, <2>2, SelWoken
<1>. QED  BY <1>2, <1>4, <1>5 DEF CopyIn, CopyOut, selvars

LEMMA SelOpen ==
    ASSUME CallInv, SelectorsKnown, NEW p \in Proc,
           (\E f \in Node, m \in Modes[p] : fifo_open(p, f, m)) \/ OpenAgain(p)
    PROVE  SelectorsKnown'
<1>. USE LabelFacts, ChanFacts
<1>1. \E d \in Fd : \E rc, wc, C : OpenWaits(p, d, rc, wc, C)
  <2>1. CASE OpenAgain(p)
    <3>1. fd[p] \in Fd  BY <2>1, FdOfCaller DEF CallInv, OpenAgain, Awake
    <3>. QED  BY <2>1, <3>1 DEF OpenAgain
  <2>2. ASSUME NEW f \in Node, NEW m \in Modes[p], fifo_open(p, f, m)
        PROVE  \E d \in Fd : \E rc, wc, C : OpenWaits(p, d, rc, wc, C)
    <3>1. [f |-> f, r |-> m.r, w |-> m.w, nd |-> m.nd] \in Fd  BY FifoConstants DEF Fd
    <3>. QED  BY <2>2, <3>1 DEF fifo_open
  <2>. QED  BY <2>1, <2>2
<1>2. PICK d \in Fd : \E rc, wc, C : OpenWaits(p, d, rc, wc, C)  BY <1>1
<1>3. \E l \in {"oread", "owrite", "user"} : \E c \in Chan \cup {NoChan} : \E C, Q : Goto(p, l, c, C, Q)
  BY <1>2, FdFields DEF OpenWaits
<1>4. {"oread", "owrite", "user"} \subseteq Label \ Kind  BY DEF Kind, Label, Sleepers
<1>5. (\A q \in Proc \ {p} : fd'[q] = fd[q]) /\ UNCHANGED <<sel, coll>>
  BY DEF fifo_open, OpenAgain, selvars, CallInv, CallTypes
<1>. QED  BY <1>3, <1>4, <1>5, SelKept

LEMMA SelMove ==
    ASSUME CallInv, SelectorsKnown, NEW p \in Proc,
           \/ WriteFails(p) \/ WriteSleeps(p) \/ WriteStarts(p) \/ AllocSleeps(p)
           \/ AllocReserves(p) \/ fifo_bufalloc(p) \/ WriteCopies(p)
           \/ ReadEnds(p) \/ ReadSleeps(p) \/ ReadStarts(p)
           \/ CopyFaults(p) \/ TransferInterrupted(p) \/ SelectEnds(p)
    PROVE  SelectorsKnown'
<1>. USE LabelFacts, ChanFacts
<1>. DEFINE L == {"user", "wsleep", "walloc", "kmem", "wcopy", "rsleep", "rcopy"}
<1>1. L \subseteq Label \ Kind  BY DEF Kind, Label, Holders, Sleepers
<1>2. fd[p].f \in Node
  <2>1. pc[p] # "user"
    BY DEF WriteFails, WriteSleeps, WriteStarts, AllocSleeps, AllocReserves, fifo_bufalloc, WriteCopies,
           ReadEnds, ReadSleeps, ReadStarts, CopyFaults, TransferInterrupted, SelectEnds,
           AtWriteTop, AtReadTop, Awake, Kind
  <2>. QED  BY <2>1, FdOfCaller DEF CallInv
<1>3. UNCHANGED <<fd, sel, coll>>
  BY DEF WriteFails, WriteSleeps, WriteStarts, AllocSleeps, AllocReserves, fifo_bufalloc, WriteCopies,
         ReadEnds, ReadSleeps, ReadStarts, CopyFaults, TransferInterrupted, SelectEnds, selvars
<1>4. \E l \in L : \E c \in Chan \cup {NoChan} : \E C, Q : Goto(p, l, c, C, Q)
  <2>1. <<fd[p].f, "fn_wcnt">> \in Chan /\ <<fd[p].f, "fn_rcnt">> \in Chan /\ memory \in Chan
    BY <1>2 DEF Chan
  <2>. QED
    BY <2>1 DEF WriteFails, WriteSleeps, WriteStarts, AllocSleeps, AllocReserves, fifo_bufalloc, WriteCopies,
           ReadEnds, ReadSleeps, ReadStarts, CopyFaults, TransferInterrupted, SelectEnds
<1>5. PICK l \in L : \E c \in Chan \cup {NoChan} : \E C, Q : Goto(p, l, c, C, Q)  BY <1>4
<1>. QED  BY <1>1, <1>3, <1>5, SelKept

LEMMA SelCallEntry ==
    ASSUME CallInv, SelectorsKnown, NEW p \in Proc,
           (\E n \in WriteSizes : Write(p, n)) \/ (\E n \in ReadSizes : Read(p, n))
    PROVE  SelectorsKnown'
<1>1. /\ \E l \in {"wtop", "rtop"} : pc' = [pc EXCEPT ![p] = l]
      /\ UNCHANGED <<wchan, fd, sel, coll>>
  BY DEF Write, Read, selvars
<1>2. \A q \in Proc : pc'[q] \in Kind => pc'[q] = pc[q]
  BY <1>1 DEF CallInv, CallTypes, Kind
<1>. QED  BY <1>1, <1>2 DEF SelectorsKnown

LEMMA SelStep ==
    ASSUME CallInv, SelectorsKnown, [Next]_vars
    PROVE  SelectorsKnown'
<1>1. CASE UNCHANGED vars
  BY <1>1 DEF vars, selvars, SelectorsKnown
<1>2. ASSUME NEW p \in Proc, UserStep(p) PROVE SelectorsKnown'
  <2>1. CASE fifo_close(p)  BY <2>1, SelClose DEF fifo_close
  <2>2. CASE \E k \in Selects : select(p, k)  BY <2>2, SelEntered, FifoConstants
  <2>3. CASE \E f \in Node, m \in Modes[p] : fifo_open(p, f, m)  BY <2>3, SelOpen
  <2>. QED  BY <1>2, <2>1, <2>2, <2>3, SelCallEntry DEF UserStep
<1>3. ASSUME NEW p \in Proc, KernelStep(p) PROVE SelectorsKnown'
  BY <1>3, SelOpen, SelCopy, SelMove DEF KernelStep
<1>4. ASSUME NEW p \in Proc, Disturb(p) PROVE SelectorsKnown'
  <2>1. CASE OpenInterrupted(p)
    BY <2>1, SelClose DEF OpenInterrupted, CallInv, DescInv
  <2>. QED  BY <1>4, <2>1, SelMove DEF Disturb
<1>. QED  BY <1>1, <1>2, <1>3, <1>4 DEF Next

(* Whoever sleeps in select on a fifo is named in fn_?sel, or FIFO_?COLL   *)
(* is set beside another name: the wakers, which look at nothing else,     *)
(* find every selector, however selects, timeouts and wakeups interleave.  *)
THEOREM SelectorsFound == Spec => []SelectorsKnown
BY CallInit, CallStep, SelInit, SelStep, PTL DEF Spec

-----------------------------------------------------------------------------
(* Sleepers                                                                *)

(* The holder of f's lock is at l of a transfer on f.                      *)
Busy(f, l) == lock[f] # NoProc /\ pc[lock[f]] = l /\ fd[lock[f]].f = f

(* Whoever is asleep is where the code sleeps, on the channel of that      *)
(* place, with the flag set that its waker looks at; the condition it      *)
(* waits for is false, or about to be announced by the holder of the lock. *)
Waits(p) ==
    LET f == fd[p].f IN
    \/ wchan[p] = NoChan
    \/ pc[p] = "oread" /\ wchan[p] = <<f, "fn_wcnt">> /\ wcnt[f] = 0 /\ size[f] = 0
    \/ pc[p] = "owrite" /\ wchan[p] = <<f, "fn_rcnt">> /\ rcnt[f] = 0
    \/ /\ pc[p] = "rsleep" /\ wchan[p] = <<f, "fn_rcnt">>
       /\ "RBLK" \in blk[f] /\ wcnt[f] # 0
       /\ size[f] = 0 \/ Faults \/ Busy(f, "wcopy")
    \/ pc[p] = "wsleep" /\ wchan[p] = memory /\ fifo_alloc >= PIPE_MNB
    \/ /\ pc[p] = "wsleep" /\ wchan[p] = <<f, "fn_wcnt">>
       /\ "WBLK" \in blk[f] /\ rcnt[f] # 0
       /\ WriteNow(p) = 0 \/ Faults \/ Busy(f, "rcopy")
    \/ /\ pc[p] \in Kind /\ wchan[p] = selwait
       /\ pc[p] = "selR" => size[f] = 0 \/ Faults \/ Busy(f, "wcopy")
       /\ pc[p] = "selX" => rcnt[f] # 0

(* Writers have the fifo open for writing, readers for reading.            *)
Directions ==
    \A p \in Proc : /\ pc[p] \in WriteCall => fd[p].w
                    /\ pc[p] \in ReadCall => fd[p].r

WakeInv == fifo_alloc \in Int /\ Directions /\ \A p \in Proc : Waits(p)

LEMMA WakeInit == Init => WakeInv
BY DEF Init, WakeInv, Directions, WriteCall, ReadCall, Waits

LEMMA WakeEnough ==
    ASSUME WakeInv, CallInv
    PROVE  NoLostWakeup
<1>. SUFFICES ASSUME NEW p \in Proc, wchan[p] \in Chan, fd[p] # NoFd, lock[fd[p].f] = NoProc
              PROVE  LET f == fd[p].f IN
                     /\ pc[p] = "oread" => wcnt[f] = 0 /\ size[f] = 0
                     /\ pc[p] = "owrite" => rcnt[f] = 0
                     /\ pc[p] = "rsleep" =>
                           "RBLK" \in blk[f] /\ wcnt[f] # 0 /\ (size[f] = 0 \/ Faults)
                     /\ pc[p] = "wsleep" =>
                           \/ wchan[p] = memory /\ fifo_alloc >= PIPE_MNB
                           \/ /\ "WBLK" \in blk[f] /\ rcnt[f] # 0
                              /\ WriteNow(p) = 0 \/ Faults
                     /\ pc[p] = "selR" => size[f] = 0 \/ Faults
                     /\ pc[p] = "selX" => rcnt[f] # 0
  BY DEF NoLostWakeup
<1>1. Waits(p) /\ wchan[p] # NoChan  BY FifoConstants DEF WakeInv
<1>. QED  BY <1>1 DEF Waits, Busy, Kind

LEMMA StillAsleep ==
    ASSUME CallTypes, NEW p \in Proc, NEW q \in Proc \ {p}, NEW l, NEW c, NEW C, NEW Q,
           Goto(p, l, c, C, Q)
    PROVE  /\ pc'[q] = pc[q]
           /\ \/ wchan'[q] = NoChan
              \/ wchan'[q] = wchan[q] /\ wchan[q] \notin C /\ q \notin Q
BY DEF CallTypes, Goto

(* A sleeper whose fifo does not change, as far as it is concerned.        *)
LEMMA WaitsKept ==
    ASSUME NEW q \in Proc, Waits(q), NEW f, f = fd[q].f,
           fd'[q] = fd[q], pc'[q] = pc[q], wchan'[q] \in {NoChan, wchan[q]}, resid'[q] = resid[q],
           blk[f] \subseteq blk'[f], size'[f] = size[f],
           (wcnt'[f] = 0) <=> (wcnt[f] = 0), (rcnt'[f] = 0) <=> (rcnt[f] = 0),
           fifo_alloc >= PIPE_MNB => fifo_alloc' >= PIPE_MNB,
           \A l \in {"wcopy", "rcopy"} : Busy(f, l) => Busy(f, l)'
    PROVE  Waits(q)'
<1>1. WriteNow(q)' = WriteNow(q)  BY DEF WriteNow, Fits, Full
<1>2. CASE wchan'[q] = NoChan  BY <1>2 DEF Waits
<1>3. CASE wchan'[q] = wchan[q]  BY <1>1, <1>3 DEF Waits
<1>. QED  BY <1>2, <1>3

(* The lock is only given up by its holder.                                *)
LEMMA BusyKept ==
    ASSUME CallTypes, NEW p \in Proc, pc[p] \notin {"wcopy", "rcopy"},
           \A q \in Proc \ {p} : pc'[q] = pc[q] /\ fd'[q] = fd[q],
           NEW f \in Node, lock'[f] = lock[f] \/ lock[f] \in {NoProc, p}
    PROVE  \A l \in {"wcopy", "rcopy"} : Busy(f, l) => Busy(f, l)'
BY DEF Busy, CallTypes

(* A step of p that changes no fifo, and wakes nobody for nothing.         *)
LEMMA PlainWake ==
    ASSUME CallInv, WakeInv, NEW p \in Proc, NEW l \in Label, NEW c, NEW C, NEW Q,
           Goto(p, l, c, C, Q), pc[p] \notin {"wcopy", "rcopy"},
           UNCHANGED <<fd, rcnt, wcnt, size>>, \A q \in Proc \ {p} : resid'[q] = resid[q],
           fifo_alloc' \in Int, fifo_alloc >= PIPE_MNB => fifo_alloc' >= PIPE_MNB,
           \A f \in Node : blk[f] \subseteq blk'[f],
           \A f \in Node : lock'[f] = lock[f] \/ lock[f] \in {NoProc, p},
           l \in WriteCall => fd[p].w, l \in ReadCall => fd[p].r,
           c = NoChan \/ Waits(p)'
    PROVE  WakeInv'
<1>1. pc'[p] = l /\ wchan'[p] = c  BY DEF CallInv, CallTypes, Goto
<1>2. \A q \in Proc \ {p} : pc'[q] = pc[q]  BY StillAsleep DEF CallInv
<1>3. Directions'  BY <1>1, <1>2 DEF WakeInv, Directions
<1>4. Waits(p)'  BY <1>1 DEF Waits
<1>5. ASSUME NEW q \in Proc \ {p} PROVE Waits(q)'
  <2>1. wchan'[q] \in {NoChan, wchan[q]} /\ pc'[q] = pc[q]  BY StillAsleep DEF CallInv
  <2>2. Waits(q)  BY DEF WakeInv
  <2>3. CASE wchan'[q] = NoChan  BY <2>3 DEF Waits
  <2>4. CASE wchan'[q] # NoChan
    <3>1. pc[q] # "user"  BY <2>1, <2>2, <2>4 DEF Waits, Kind
    <3>2. PICK f \in Node : f = fd[q].f  BY <3>1, FdOfCaller DEF CallInv
    <3>3. \A k \in {"wcopy", "rcopy"} : Busy(f, k) => Busy(f, k)'
      BY <1>2, BusyKept DEF CallInv
    <3>. QED  BY <2>1, <2>2, <3>2, <3>3, WaitsKept
  <2>. QED  BY <2>3, <2>4
<1>. QED  BY <1>3, <1>4, <1>5 DEF WakeInv

LEMMA EndCallFacts ==
    ASSUME DataTypes, NEW p \in Proc, EndCall(p)
    PROVE  /\ \A f \in Node : lock'[f] = lock[f] \/ lock[f] \in {NoProc, p}
           /\ \A q \in Proc \ {p} : resid'[q] = resid[q]
BY EndCallTypes DEF EndCall

LEMMA CallFacts ==
    ASSUME CallInv, NEW p \in Proc, pc[p] # "user"
    PROVE  fd[p] \in Fd /\ fd[p].f \in Node /\ CallTypes
BY FdOfCaller DEF CallInv

(* Calls that return without a transfer.                                   *)
LEMMA WakeEnd ==
    ASSUME CallInv, DataInv, WakeInv, NEW p \in Proc,
           WriteFails(p) \/ ReadEnds(p) \/ TransferInterrupted(p) \/ SelectEnds(p)
    PROVE  WakeInv'
<1>1. /\ Goto(p, "user", NoChan, {}, {}) /\ pc[p] \notin {"wcopy", "rcopy"}
      /\ UNCHANGED <<fd, rcnt, wcnt, size, fifo_alloc, blk>>
  BY DEF WriteFails, ReadEnds, TransferInterrupted, SelectEnds, AtWriteTop, AtReadTop, Awake,
         Kind, datavars
<1>2. /\ \A f \in Node : lock'[f] = lock[f] \/ lock[f] \in {NoProc, p}
      /\ \A q \in Proc \ {p} : resid'[q] = resid[q]
  <2>1. EndCall(p) \/ UNCHANGED <<lock, resid>>
    BY DEF WriteFails, ReadEnds, TransferInterrupted, SelectEnds, callvars
  <2>. QED  BY <2>1, EndCallFacts DEF DataInv
<1>3. "user" \in Label /\ "user" \notin WriteCall /\ "user" \notin ReadCall
  BY LabelFacts DEF WriteCall, ReadCall
<1>. QED  BY <1>1, <1>2, <1>3, PlainWake DEF WakeInv

(* Steps within a call that leave the fifo alone.                          *)
LEMMA WakeMove ==
    ASSUME CallInv, DataInv, WakeInv, NEW p \in Proc,
           \/ WriteStarts(p) \/ AllocReserves(p) \/ fifo_bufalloc(p) \/ WriteCopies(p)
           \/ ReadStarts(p)
    PROVE  WakeInv'
<1>0. /\ pc[p] \in {"wtop", "wsleep", "walloc", "kmem", "rtop", "rsleep"}
      /\ UNCHANGED <<fd, rcnt, wcnt, size, blk, resid>>
  BY DEF WriteStarts, AllocReserves, fifo_bufalloc, WriteCopies, ReadStarts, AtWriteTop, AtReadTop,
         Awake, datavars, callvars
<1>1. fd[p].f \in Node /\ CallTypes  BY <1>0, CallFacts
<1>2. \A f \in Node : lock'[f] = lock[f] \/ lock[f] \in {NoProc, p}
  BY <1>1 DEF WriteStarts, AllocReserves, fifo_bufalloc, WriteCopies, ReadStarts, AtWriteTop, AtReadTop,
              Lock, Free, CallTypes
<1>3. fifo_alloc' \in Int /\ (fifo_alloc >= PIPE_MNB => fifo_alloc' >= PIPE_MNB)
  BY FifoConstants
     DEF WriteStarts, AllocReserves, fifo_bufalloc, WriteCopies, ReadStarts, BufferSize, WakeInv
<1>4. \E l \in {"walloc", "kmem", "wcopy", "rcopy"} :
         /\ Goto(p, l, NoChan, {}, {})
         /\ IF l = "rcopy" THEN pc[p] \in ReadCall ELSE pc[p] \in WriteCall
  BY DEF WriteStarts, AllocReserves, fifo_bufalloc, WriteCopies, ReadStarts, AtWriteTop, AtReadTop,
         Awake, ReadCall, WriteCall
<1>5. PICK l \in {"walloc", "kmem", "wcopy", "rcopy"} :
         /\ Goto(p, l, NoChan, {}, {})
         /\ IF l = "rcopy" THEN pc[p] \in ReadCall ELSE pc[p] \in WriteCall
  BY <1>4
<1>6. (l \in WriteCall => fd[p].w) /\ (l \in ReadCall => fd[p].r)
  BY <1>5 DEF WakeInv, Directions, ReadCall, WriteCall
<1>7. l \in Label  BY LabelFacts
<1>. QED  BY <1>0, <1>2, <1>3, <1>5, <1>6, <1>7, PlainWake

(* Going to sleep: the condition was false under the lock.                 *)
LEMMA WakeSleep ==
    ASSUME CallInv, WakeInv, NEW p \in Proc, WriteSleeps(p) \/ ReadSleeps(p) \/ AllocSleeps(p)
    PROVE  WakeInv'
<1>0. /\ pc[p] \in {"wtop", "wsleep", "walloc", "rtop", "rsleep"}
      /\ UNCHANGED <<fd, rcnt, wcnt, size, resid, fifo_alloc>>
  BY DEF WriteSleeps, ReadSleeps, AllocSleeps, AtWriteTop, AtReadTop, Awake, datavars, callvars
<1>1. fd[p] \in Fd /\ CallTypes  BY <1>0, CallFacts
<1>2. PICK f \in Node : f = fd[p].f  BY <1>1, FdFields
<1>3. \A g \in Node : lock'[g] = lock[g] \/ lock[g] \in {NoProc, p}
  BY <1>1, <1>2 DEF WriteSleeps, ReadSleeps, AllocSleeps, AtWriteTop, AtReadTop, Unlock, Free,
                    CallTypes, CallInv, LockHeld, Holders
<1>4. \A g \in Node : blk[g] \subseteq blk'[g]
  BY <1>1, <1>2 DEF WriteSleeps, ReadSleeps, AllocSleeps, CallTypes
<1>5. WriteNow(p)' = WriteNow(p)  BY <1>0 DEF WriteNow, Fits, Full
<1>6. CASE WriteSleeps(p)
  <2>1. /\ Goto(p, "wsleep", <<f, "fn_wcnt">>, {}, {}) /\ "WBLK" \in blk'[f] /\ fd[p].w
        /\ rcnt[f] # 0 /\ WriteNow(p) = 0
    BY <1>1, <1>2, <1>6
       DEF WriteSleeps, AtWriteTop, Awake, CallTypes, WakeInv, Directions, WriteCall
  <2>2. pc'[p] = "wsleep" /\ wchan'[p] = <<f, "fn_wcnt">>  BY <1>1, <2>1 DEF Goto, CallTypes
  <2>3. Waits(p)'  BY <1>0, <1>2, <1>5, <2>1, <2>2 DEF Waits
  <2>4. "wsleep" \in Label /\ "wsleep" \notin ReadCall  BY LabelFacts DEF ReadCall
  <2>. QED  BY <1>0, <1>3, <1>4, <2>1, <2>3, <2>4, PlainWake DEF WakeInv
<1>7. CASE AllocSleeps(p)
  <2>1. /\ Goto(p, "wsleep", memory, {}, {}) /\ fd[p].w /\ fifo_alloc >= PIPE_MNB
    BY <1>7 DEF AllocSleeps, WakeInv, Directions, WriteCall
  <2>2. pc'[p] = "wsleep" /\ wchan'[p] = memory  BY <1>1, <2>1 DEF Goto, CallTypes
  <2>3. Waits(p)'  BY <1>0, <2>1, <2>2 DEF Waits
  <2>4. "wsleep" \in Label /\ "wsleep" \notin ReadCall  BY LabelFacts DEF ReadCall
  <2>. QED  BY <1>0, <1>3, <1>4, <2>1, <2>3, <2>4, PlainWake DEF WakeInv
<1>8. CASE ReadSleeps(p)
  <2>1. /\ Goto(p, "rsleep", <<f, "fn_rcnt">>, {}, {}) /\ "RBLK" \in blk'[f] /\ fd[p].r
        /\ wcnt[f] # 0 /\ size[f] = 0
    BY <1>1, <1>2, <1>8
       DEF ReadSleeps, AtReadTop, Awake, CallTypes, WakeInv, Directions, ReadCall
  <2>2. pc'[p] = "rsleep" /\ wchan'[p] = <<f, "fn_rcnt">>  BY <1>1, <2>1 DEF Goto, CallTypes
  <2>3. Waits(p)'  BY <1>0, <1>2, <2>1, <2>2 DEF Waits
  <2>4. "rsleep" \in Label /\ "rsleep" \notin WriteCall  BY LabelFacts DEF WriteCall
  <2>. QED  BY <1>0, <1>3, <1>4, <2>1, <2>3, <2>4, PlainWake DEF WakeInv
<1>. QED  BY <1>6, <1>7, <1>8

LEMMA WakeSelect ==
    ASSUME CallInv, WakeInv, NEW p \in Proc, NEW k \in Kind, select(p, k)
    PROVE  WakeInv'
<1>1. fd[p] # NoFd /\ UNCHANGED <<fd, rcnt, wcnt, lock, blk, size, resid, fifo_alloc>>
      /\ pc[p] \notin {"wcopy", "rcopy"}
  BY DEF select, callvars, datavars, Awake, Kind
<1>2. PICK f \in Node : f = fd[p].f  BY <1>1, FdFields DEF CallInv, CallTypes
<1>3. "user" \in Label /\ "user" \notin WriteCall \cup ReadCall
  BY LabelFacts DEF WriteCall, ReadCall
<1>4. k \in Label /\ k \notin WriteCall \cup ReadCall
  BY LabelFacts DEF WriteCall, ReadCall, Kind
<1>5. CASE Goto(p, "user", NoChan, {}, {})
  BY <1>1, <1>3, <1>5, PlainWake DEF WakeInv
<1>6. CASE ~Ready(f, k) /\ Goto(p, k, selwait, {}, {})
  <2>1. pc'[p] = k /\ wchan'[p] = selwait  BY <1>6 DEF Goto, CallInv, CallTypes
  <2>2. (k = "selR" => size[f] = 0) /\ (k = "selX" => rcnt[f] # 0)  BY <1>6 DEF Ready
  <2>3. Waits(p)'  BY <1>1, <1>2, <2>1, <2>2 DEF Waits
  <2>. QED  BY <1>1, <1>4, <1>6, <2>3, PlainWake DEF WakeInv
<1>. QED  BY <1>2, <1>5, <1>6 DEF select

LEMMA WakeEntry ==
    ASSUME CallInv, DataTypes, WakeInv, NEW p \in Proc, NEW n, Write(p, n) \/ Read(p, n)
    PROVE  WakeInv'
<1>1. /\ pc[p] = "user" /\ UNCHANGED <<wchan, fd, rcnt, wcnt, lock, blk, size, fifo_alloc>>
      /\ \E l \in {"wtop", "rtop"} : /\ pc' = [pc EXCEPT ![p] = l]
                                     /\ IF l = "wtop" THEN fd[p].w ELSE fd[p].r
      /\ resid' = [resid EXCEPT ![p] = n]
  BY DEF Write, Read, datavars
<1>2. PICK l \in {"wtop", "rtop"} : /\ pc' = [pc EXCEPT ![p] = l]
                                    /\ IF l = "wtop" THEN fd[p].w ELSE fd[p].r
  BY <1>1
<1>3. pc'[p] = l /\ \A q \in Proc \ {p} : pc'[q] = pc[q]  BY <1>2 DEF CallInv, CallTypes
<1>4. Directions'  BY <1>1, <1>2, <1>3 DEF WakeInv, Directions, WriteCall, ReadCall
<1>5. wchan[p] = NoChan  BY <1>1 DEF WakeInv, Waits, Kind
<1>6. ASSUME NEW q \in Proc \ {p} PROVE Waits(q)'
  <2>1. CASE wchan[q] = NoChan  BY <1>1, <2>1 DEF Waits
  <2>2. CASE wchan[q] # NoChan
    <3>1. pc[q] # "user" /\ Waits(q)  BY <2>2 DEF WakeInv, Waits, Kind
    <3>2. PICK f \in Node : f = fd[q].f  BY <3>1, FdOfCaller DEF CallInv
    <3>3. \A k \in {"wcopy", "rcopy"} : Busy(f, k) => Busy(f, k)'
      BY <1>1, <1>3, BusyKept DEF CallInv
    <3>4. resid'[q] = resid[q]  BY <1>1 DEF DataTypes
    <3>. QED  BY <1>1, <1>3, <3>1, <3>2, <3>3, <3>4, WaitsKept
  <2>. QED  BY <2>1, <2>2
<1>7. Waits(p)'  BY <1>1, <1>5 DEF Waits
<1>. QED  BY <1>1, <1>4, <1>6, <1>7 DEF WakeInv
(* The end of open: p sleeps only while the other end is not there.        *)
LEMMA OpenWaitsSleeper ==
    ASSUME CallTypes, NEW p \in Proc, NEW d \in Fd, NEW C, fd'[p] = d, size' = size,
           OpenWaits(p, d, rcnt'[d.f], wcnt'[d.f], C)
    PROVE  /\ Waits(p)'
           /\ \E l \in {"oread", "owrite", "user"} : \E c : Goto(p, l, c, C, {}) /\ pc'[p] = l
<1>1. d.f \in Node  BY FdFields
<1>2. CASE wcnt'[d.f] = 0 /\ size[d.f] = 0 /\ Goto(p, "oread", <<d.f, "fn_wcnt">>, C, {})
  <2>1. pc'[p] = "oread" /\ wchan'[p] = <<d.f, "fn_wcnt">>  BY <1>2 DEF Goto, CallTypes
  <2>. QED  BY <1>2, <2>1 DEF Waits
<1>3. CASE rcnt'[d.f] = 0 /\ Goto(p, "owrite", <<d.f, "fn_rcnt">>, C, {})
  <2>1. pc'[p] = "owrite" /\ wchan'[p] = <<d.f, "fn_rcnt">>  BY <1>3 DEF Goto, CallTypes
  <2>. QED  BY <1>3, <2>1 DEF Waits
<1>4. CASE Goto(p, "user", NoChan, C, {})
  <2>1. pc'[p] = "user" /\ wchan'[p] = NoChan  BY <1>4 DEF Goto, CallTypes
  <2>. QED  BY <1>4, <2>1 DEF Waits
<1>. QED  BY <1>2, <1>3, <1>4 DEF OpenWaits

LEMMA WakeOpenAgain ==
    ASSUME CallInv, WakeInv, NEW p \in Proc, OpenAgain(p)
    PROVE  WakeInv'
<1>1. /\ pc[p] \in {"oread", "owrite"}
      /\ UNCHANGED <<fd, rcnt, wcnt, lock, blk, size, resid, fifo_alloc>>
      /\ OpenWaits(p, fd[p], rcnt[fd[p].f], wcnt[fd[p].f], {})
  BY DEF OpenAgain, Awake, callvars, datavars
<1>2. fd[p] \in Fd /\ CallTypes  BY <1>1, CallFacts
<1>3. /\ Waits(p)'
      /\ \E l \in {"oread", "owrite", "user"} : \E c : Goto(p, l, c, {}, {}) /\ pc'[p] = l
  BY <1>1, <1>2, OpenWaitsSleeper
<1>4. PICK l \in {"oread", "owrite", "user"} : \E c : Goto(p, l, c, {}, {})  BY <1>3
<1>5. PICK c : Goto(p, l, c, {}, {})  BY <1>4
<1>6. l \in Label /\ l \notin WriteCall \cup ReadCall  BY LabelFacts DEF WriteCall, ReadCall
<1>. QED  BY <1>1, <1>3, <1>5, <1>6, PlainWake DEF WakeInv

LEMMA WakeOpen ==
    ASSUME CallInv, WakeInv, NEW p \in Proc, NEW f \in Node, NEW m \in Modes[p], fifo_open(p, f, m)
    PROVE  WakeInv'
<1>. DEFINE d == [f |-> f, r |-> m.r, w |-> m.w, nd |-> m.nd]
            C == {c \in Node \X {"fn_rcnt", "fn_wcnt"} :
                     /\ c[1] = f
                     /\ IF c[2] = "fn_rcnt" THEN m.r /\ rcnt[f] = 0 ELSE m.w /\ wcnt[f] = 0}
<1>1. m.r \in BOOLEAN /\ m.w \in BOOLEAN /\ d \in Fd /\ d.f = f
  BY FifoConstants DEF Fd
<1>2. /\ pc[p] = "user" /\ fd[p] = NoFd /\ fd' = [fd EXCEPT ![p] = d]
      /\ rcnt' = [rcnt EXCEPT ![f] = rcnt[f] + Ends(m.r)]
      /\ wcnt' = [wcnt EXCEPT ![f] = wcnt[f] + Ends(m.w)]
      /\ UNCHANGED <<lock, blk, size, resid, fifo_alloc>>
      /\ OpenWaits(p, d, rcnt[f] + Ends(m.r), wcnt[f] + Ends(m.w), C)
  BY DEF fifo_open, callvars, datavars
<1>. HIDE DEF C, d
<1>3. CallTypes /\ rcnt[f] \in Nat /\ wcnt[f] \in Nat  BY DEF CallInv, CallTypes
<1>4. rcnt'[f] = rcnt[f] + Ends(m.r) /\ wcnt'[f] = wcnt[f] + Ends(m.w) /\ fd'[p] = d
  BY <1>2, <1>3 DEF CallTypes
<1>5. /\ Waits(p)'
      /\ \E l \in {"oread", "owrite", "user"} : \E c : Goto(p, l, c, C, {}) /\ pc'[p] = l
  BY <1>1, <1>2, <1>3, <1>4, OpenWaitsSleeper
<1>6. PICK l \in {"oread", "owrite", "user"} : \E c : Goto(p, l, c, C, {}) /\ pc'[p] = l  BY <1>5
<1>7. PICK c : Goto(p, l, c, C, {})  BY <1>6
<1>8. \A q \in Proc \ {p} : pc'[q] = pc[q] /\ fd'[q] = fd[q]
  BY <1>2, <1>3, <1>7, StillAsleep DEF CallTypes
<1>9. Directions'  BY <1>6, <1>8 DEF WakeInv, Directions, WriteCall, ReadCall
<1>10. ASSUME NEW q \in Proc \ {p} PROVE Waits(q)'
  <2>1. \/ wchan'[q] = NoChan
        \/ wchan'[q] = wchan[q] /\ wchan[q] \notin C
    BY <1>3, <1>7, StillAsleep
  <2>2. Waits(q)  BY DEF WakeInv
  <2>3. CASE wchan'[q] = NoChan \/ wchan[q] = NoChan  BY <2>1, <2>3 DEF Waits
  <2>4. CASE wchan'[q] # NoChan /\ wchan[q] # NoChan
    <3>1. pc[q] # "user"  BY <2>2, <2>4 DEF Waits, Kind
    <3>2. PICK g \in Node : g = fd[q].f  BY <3>1, FdOfCaller DEF CallInv
    <3>3. \A k \in {"wcopy", "rcopy"} : Busy(g, k) => Busy(g, k)'
      BY <1>2, <1>3, <1>8, BusyKept
    <3>4. wchan'[q] = wchan[q] /\ pc'[q] = pc[q] /\ fd'[q] = fd[q]
      BY <1>8, <2>1, <2>4
    <3>5. WriteNow(q)' = WriteNow(q)  BY <1>2, <3>4 DEF WriteNow, Fits, Full
    <3>6. (rcnt[g] # 0 => rcnt'[g] # 0) /\ (wcnt[g] # 0 => wcnt'[g] # 0)
      BY <1>2, <1>3, <1>1 DEF CallTypes, Ends
    <3>7. /\ wchan[q] = <<g, "fn_rcnt">> /\ rcnt[g] = 0 => rcnt'[g] = 0
          /\ wchan[q] = <<g, "fn_wcnt">> /\ wcnt[g] = 0 => wcnt'[g] = 0
      <4>1. CASE g # f  BY <1>2, <1>3, <4>1 DEF CallTypes
      <4>2. CASE g = f
        <5>1. wchan[q] = <<f, "fn_rcnt">> /\ rcnt[f] = 0 => ~m.r
          BY <2>1, <2>4 DEF C
        <5>2. wchan[q] = <<f, "fn_wcnt">> /\ wcnt[f] = 0 => ~m.w
          BY <2>1, <2>4 DEF C
        <5>. QED  BY <1>3, <1>4, <4>2, <5>1, <5>2 DEF Ends
      <4>. QED  BY <4>1, <4>2
    <3>. QED  BY <1>2, <2>2, <3>2, <3>3, <3>4, <3>5, <3>6, <3>7 DEF Waits
  <2>. QED  BY <2>3, <2>4
<1>. QED  BY <1>2, <1>5, <1>9, <1>10 DEF WakeInv

(* uiomove fails: nobody is promised anything then.                        *)
LEMMA WakeFault ==
    ASSUME CallInv, DataInv, WakeInv, NEW p \in Proc, CopyFaults(p)
    PROVE  WakeInv'
<1>1. /\ Faults /\ Goto(p, "user", NoChan, {}, {}) /\ EndCall(p)
      /\ UNCHANGED <<fd, rcnt, wcnt, size, fifo_alloc, blk>>
  BY DEF CopyFaults, datavars
<1>2. pc'[p] = "user" /\ wchan'[p] = NoChan  BY <1>1 DEF Goto, CallInv, CallTypes
<1>3. ASSUME NEW q \in Proc \ {p} PROVE Waits(q)' /\ pc'[q] = pc[q]
  <2>1. pc'[q] = pc[q] /\ wchan'[q] \in {NoChan, wchan[q]}  BY <1>1, StillAsleep DEF CallInv
  <2>2. Waits(q)  BY DEF WakeInv
  <2>. QED  BY <1>1, <2>1, <2>2 DEF Waits
<1>4. Directions'  BY <1>1, <1>2, <1>3 DEF WakeInv, Directions, WriteCall, ReadCall
<1>5. Waits(p)'  BY <1>2 DEF Waits
<1>. QED  BY <1>1, <1>3, <1>4, <1>5 DEF WakeInv
LEMMA KindOf ==
    ASSUME NEW q \in Proc, Waits(q), wchan[q] # NoChan
    PROVE  pc[q] \in {"oread", "owrite", "rsleep", "wsleep"} \cup Kind /\ pc[q] # "user"
BY DEF Waits, Kind

(* Somebody who sleeps for memory is woken when some becomes free.         *)
LEMMA MemoryFreed ==
    ASSUME NEW q \in Proc, Waits(q), wchan[q] = memory, pc[q] = "wsleep", fifo_alloc \in Int,
           NEW n \in Nat, memory \notin FreeWakes(n), fifo_alloc' = fifo_alloc - n * BufferSize
    PROVE  fifo_alloc >= PIPE_MNB => fifo_alloc' >= PIPE_MNB
<1>1. fifo_alloc >= PIPE_MNB => n = 0  BY DEF FreeWakes
<1>2. BufferSize \in Nat /\ PIPE_MNB \in Nat  BY FifoConstants DEF BufferSize
<1>3. 0 * BufferSize = 0  BY <1>2
<1>. QED  BY <1>1, <1>2, <1>3

(* A close wakes whom it lets go on, and nobody else loses his condition.  *)
LEMMA WakeClose ==
    ASSUME CallInv, DataInv, SelectorsKnown, WakeInv, NEW p \in Proc, fd[p] # NoFd,
           pc[p] \notin Holders, CloseEnds(p)
    PROVE  WakeInv'
<1>1. PICK f \in Node : f = fd[p].f  BY FdFields DEF CallInv, CallTypes
<1>2. PICK d \in Fd : d = fd[p]  BY DEF CallInv, CallTypes
<1>3. d.r \in BOOLEAN /\ d.w \in BOOLEAN /\ d.f = f  BY <1>1, <1>2, FdFields
<1>. DEFINE rc == rcnt[f] - Ends(d.r)
            wc == wcnt[f] - Ends(d.w)
            B == Unblocks(d, rc, wc)
            K == {k \in {"selX"} : d.r /\ rc = 0}
            freed == IF rc = 0 /\ wc = 0 THEN nbuf(f) ELSE 0
            C == {<<f, IF b = "WBLK" THEN "fn_wcnt" ELSE "fn_rcnt">> : b \in B} \cup FreeWakes(freed)
<1>4. /\ fd' = [fd EXCEPT ![p] = NoFd]
      /\ rcnt' = [rcnt EXCEPT ![f] = rc] /\ wcnt' = [wcnt EXCEPT ![f] = wc]
      /\ blk' = [blk EXCEPT ![f] = @ \ B]
      /\ Goto(p, "user", NoChan, C, Selected(f, K))
      /\ fifo_alloc' = fifo_alloc - freed * BufferSize
      /\ UNCHANGED <<resid, lock>>
      /\ IF rc = 0 /\ wc = 0 THEN size' = [size EXCEPT ![f] = 0] ELSE UNCHANGED size
  BY <1>1, <1>2 DEF CloseEnds, callvars, datavars
<1>5. CallTypes /\ CallTypes' /\ DataTypes /\ fifo_alloc \in Int
  BY CloseCall DEF CallInv, DataInv, WakeInv
<1>6. rcnt[f] \in Nat /\ wcnt[f] \in Nat /\ rcnt'[f] \in Nat /\ wcnt'[f] \in Nat
      /\ rcnt'[f] = rc /\ wcnt'[f] = wc
  BY <1>4, <1>5 DEF CallTypes
<1>7. freed \in Nat  BY <1>5 DEF nbuf, DataTypes
<1>8. \A q \in Proc \ {p} : pc'[q] = pc[q] /\ fd'[q] = fd[q]
  BY <1>4, <1>5, StillAsleep DEF CallTypes
<1>9. pc'[p] = "user" /\ wchan'[p] = NoChan  BY <1>4, <1>5 DEF Goto, CallTypes
<1>10. Directions'  BY <1>8, <1>9 DEF WakeInv, Directions, WriteCall, ReadCall
<1>11. Waits(p)'  BY <1>9 DEF Waits
<1>12. fifo_alloc' \in Int
  <2>1. BufferSize \in Nat  BY FifoConstants DEF BufferSize
  <2>2. freed * BufferSize \in Nat  BY <1>7, <2>1
  <2>. QED  BY <1>4, <1>5, <2>2
<1>13. ASSUME NEW q \in Proc \ {p} PROVE Waits(q)'
  <2>1. \/ wchan'[q] = NoChan
        \/ wchan'[q] = wchan[q] /\ wchan[q] \notin C /\ q \notin Selected(f, K)
    BY <1>4, <1>5, StillAsleep
  <2>2. Waits(q)  BY DEF WakeInv
  <2>3. CASE wchan'[q] = NoChan \/ wchan[q] = NoChan  BY <2>1, <2>3 DEF Waits
  <2>4. CASE wchan'[q] # NoChan /\ wchan[q] # NoChan
    <3>1. /\ wchan'[q] = wchan[q] /\ wchan[q] \notin C /\ q \notin Selected(f, K)
          /\ pc'[q] = pc[q] /\ fd'[q] = fd[q] /\ pc[q] # "user"
      BY <1>8, <2>1, <2>2, <2>4, KindOf
    <3>2. PICK g \in Node : g = fd[q].f  BY <3>1, FdOfCaller DEF CallInv
    <3>3. fd[q] # NoFd  BY <3>1 DEF CallInv, DescInv
    <3>4. \A k \in {"wcopy", "rcopy"} : Busy(g, k) => Busy(g, k)'
      BY <1>4, <1>5, <1>8, BusyKept DEF Holders
    <3>5. wchan[q] = memory /\ pc[q] = "wsleep" /\ fifo_alloc >= PIPE_MNB => fifo_alloc' >= PIPE_MNB
      BY <1>4, <1>5, <1>7, <2>2, <3>1, MemoryFreed
    <3>6. size'[g] = size[g]
      <4>1. CASE g # f  BY <1>4, <1>5, <4>1 DEF DataTypes
      <4>2. CASE g = f
        <5>1. ~(rc = 0 /\ wc = 0)  BY <1>1, <1>2, <3>2, <3>3, <4>2, LastClose
        <5>. QED  BY <1>4, <5>1
      <4>. QED  BY <4>1, <4>2
    <3>7. WriteNow(q)' = WriteNow(q)  BY <1>4, <3>1, <3>2, <3>6 DEF WriteNow, Fits, Full
    <3>8. (rcnt[g] = 0 => rcnt'[g] = 0) /\ (wcnt[g] = 0 => wcnt'[g] = 0)
      BY <1>3, <1>4, <1>5, <1>6 DEF CallTypes, Ends
    <3>9. wchan[q] = <<g, "fn_rcnt">> /\ "RBLK" \in blk[g] /\ wcnt[g] # 0 =>
             "RBLK" \in blk'[g] /\ wcnt'[g] # 0
      <4>1. CASE g # f  BY <1>4, <1>5, <4>1 DEF CallTypes
      <4>2. CASE g = f
        <5>1. wchan[q] = <<f, "fn_rcnt">> => "RBLK" \notin B  BY <3>1
        <5>2. "RBLK" \in blk[f] /\ wcnt[f] # 0 /\ wc = 0 => "RBLK" \in B
          BY <1>3, <1>6 DEF Unblocks, Ends
        <5>3. blk'[f] = blk[f] \ B  BY <1>4, <1>5 DEF CallTypes
        <5>. QED  BY <1>6, <4>2, <5>1, <5>2, <5>3
      <4>. QED  BY <4>1, <4>2
    <3>10. wchan[q] = <<g, "fn_wcnt">> /\ "WBLK" \in blk[g] /\ rcnt[g] # 0 =>
             "WBLK" \in blk'[g] /\ rcnt'[g] # 0
      <4>1. CASE g # f  BY <1>4, <1>5, <4>1 DEF CallTypes
      <4>2. CASE g = f
        <5>1. wchan[q] = <<f, "fn_wcnt">> => "WBLK" \notin B  BY <3>1
        <5>2. "WBLK" \in blk[f] /\ rcnt[f] # 0 /\ rc = 0 => "WBLK" \in B
          BY <1>3, <1>6 DEF Unblocks, Ends
        <5>3. blk'[f] = blk[f] \ B  BY <1>4, <1>5 DEF CallTypes
        <5>. QED  BY <1>6, <4>2, <5>1, <5>2, <5>3
      <4>. QED  BY <4>1, <4>2
    <3>11. pc[q] = "selX" /\ wchan[q] = selwait /\ rcnt[g] # 0 => rcnt'[g] # 0
      <4>1. CASE g # f  BY <1>4, <1>5, <4>1 DEF CallTypes
      <4>2. CASE g = f
        <5>. SUFFICES ASSUME pc[q] = "selX", wchan[q] = selwait, rcnt[f] # 0, rcnt'[f] = 0
                      PROVE  FALSE
          BY <4>2
        <5>1. "selX" \in K  BY <1>3, <1>6 DEF Ends
        <5>2. sel[f]["selX"] # NoProc /\ (sel[f]["selX"] = q \/ "selX" \in coll[f])
          BY <3>2, <4>2 DEF SelectorsKnown, Kind
        <5>3. q \in Selected(f, K)  BY <5>1, <5>2 DEF Selected
        <5>. QED  BY <3>1, <5>3
      <4>. QED  BY <4>1, <4>2
    <3>. HIDE DEF B, C, K, rc, wc, freed
    <3>. QED
      BY <2>2, <3>1, <3>2, <3>4, <3>5, <3>6, <3>7, <3>8, <3>9, <3>10, <3>11 DEF Waits
  <2>. QED  BY <2>3, <2>4
<1>. QED  BY <1>10, <1>11, <1>12, <1>13 DEF WakeInv
LEMMA OpenCounted ==
    ASSUME CallInv, NEW p \in Proc, fd[p] # NoFd, NEW f \in Node, f = fd[p].f
    PROVE  (fd[p].w => wcnt[f] # 0) /\ (fd[p].r => rcnt[f] # 0)
<1>1. /\ IsFiniteSet(Readers(f)) /\ IsFiniteSet(Writers(f))
      /\ rcnt[f] = Cardinality(Readers(f)) /\ wcnt[f] = Cardinality(Writers(f))
  BY EndsFinite DEF CallInv, EndsCounted
<1>2. (fd[p].w => Writers(f) # {}) /\ (fd[p].r => Readers(f) # {})  BY DEF Writers, Readers
<1>. QED  BY <1>1, <1>2, FS_EmptySet

(* More bytes in the fifo never make room for a writer.                    *)
LEMMA StillNoRoom ==
    ASSUME DataInv, NEW q \in Proc, pc[q] = "wsleep", NEW f \in Node, f = fd[q].f,
           fd'[q] = fd[q], resid'[q] = resid[q], size'[f] \in Nat, size'[f] >= size[f],
           WriteNow(q) = 0
    PROVE  WriteNow(q)' = 0
<1>1. resid[q] \in Nat /\ resid[q] > 0 /\ size[f] \in Nat /\ PIPE_BUF \in Nat
  BY Sizes DEF DataInv, DataTypes, Transfer
<1>2. ~(resid[q] + size[f] <= PIPE_BUF) /\ (resid[q] <= PIPE_BUF \/ size[f] >= PIPE_BUF)
  BY <1>1 DEF WriteNow, Fits, Full
<1>3. ~(resid[q] + size'[f] <= PIPE_BUF) /\ (resid[q] <= PIPE_BUF \/ size'[f] >= PIPE_BUF)
  BY <1>1, <1>2
<1>. QED  BY <1>3 DEF WriteNow, Fits, Full

(* A sleeper on another fifo than the one that is transferred on.          *)
LEMMA WaitsElsewhere ==
    ASSUME CallInv, NEW p \in Proc, pc[p] \in Holders, NEW f \in Node, f = fd[p].f,
           NEW q \in Proc \ {p}, Waits(q), NEW g \in Node, g = fd[q].f, g # f,
           fd' = fd, \A r \in Proc \ {p} : pc'[r] = pc[r],
           wchan'[q] = wchan[q], resid'[q] = resid[q],
           blk'[g] = blk[g], size'[g] = size[g], wcnt' = wcnt, rcnt' = rcnt,
           wchan[q] = memory /\ pc[q] = "wsleep" /\ fifo_alloc >= PIPE_MNB => fifo_alloc' >= PIPE_MNB,
           lock'[g] = lock[g] \/ lock[g] \in {NoProc, p}
    PROVE  Waits(q)'
<1>1. \A l \in {"wcopy", "rcopy"} : Busy(g, l) => Busy(g, l)'
  BY DEF Busy, CallInv, CallTypes
<1>2. WriteNow(q)' = WriteNow(q)  BY DEF WriteNow, Fits, Full
<1>. QED  BY <1>1, <1>2 DEF Waits

LEMMA HolderIsBusy ==
    ASSUME CallInv, NEW p \in Proc, pc[p] \in Holders, NEW f \in Node, f = fd[p].f
    PROVE  lock[f] = p /\ p # NoProc /\ \A l : Busy(f, l) <=> pc[p] = l
BY FifoConstants DEF CallInv, LockHeld, Busy

LEMMA WakeCopyIn ==
    ASSUME CallInv, DataInv, SelectorsKnown, WakeInv, NEW p \in Proc, CopyIn(p)
    PROVE  WakeInv'
<1>1. pc[p] = "wcopy" /\ pc[p] \in Holders /\ pc[p] # "user"  BY DEF CopyIn, Holders
<1>2. PICK f \in Node : f = fd[p].f  BY <1>1, FdOfCaller DEF CallInv
<1>3. PICK i \in Nat : i = Chunk(p, wptr[f]) /\ i > 0 /\ i <= count[p]
  <2>1. count[p] \in Nat /\ count[p] > 0 /\ wptr[f] \in Nat
    BY <1>1 DEF DataInv, DataTypes, Transfer
  <2>. QED  BY <2>1, ChunkFacts
<1>4. size' = [size EXCEPT ![f] = @ + i] /\ UNCHANGED <<fd, rcnt, wcnt, fifo_alloc>>
  BY <1>2, <1>3 DEF CopyIn
<1>5. CallTypes /\ DataTypes /\ DataTypes'  BY CopyInData DEF CallInv, DataInv
<1>6. /\ size[f] \in Nat /\ size'[f] \in Nat /\ size'[f] >= size[f]
      /\ \A g \in Node \ {f} : size'[g] = size[g]
  BY <1>4, <1>5 DEF DataTypes
<1>7. lock[f] = p /\ p # NoProc /\ \A l : Busy(f, l) <=> pc[p] = l
  BY <1>1, <1>2, HolderIsBusy
<1>8. wcnt[f] # 0
  <2>1. fd[p] # NoFd /\ fd[p].w
    BY <1>1 DEF CallInv, DescInv, WakeInv, Directions, WriteCall
  <2>. QED  BY <1>2, <2>1, OpenCounted
<1>9. CASE count[p] > i
  <2>1. /\ UNCHANGED <<pc, wchan, lock, blk>> /\ resid' = [resid EXCEPT ![p] = @ - i]
    BY <1>2, <1>3, <1>9 DEF CopyIn
  <2>2. Busy(f, "wcopy")'  BY <1>1, <1>2, <1>4, <1>7, <2>1 DEF Busy
  <2>3. Directions'  BY <1>4, <2>1 DEF WakeInv, Directions
  <2>4. wchan[p] = NoChan  BY <1>1 DEF WakeInv, Waits, Kind
  <2>5. ASSUME NEW q \in Proc \ {p} PROVE Waits(q)'
    <3>1. Waits(q) /\ resid'[q] = resid[q]  BY <1>5, <2>1 DEF WakeInv, DataTypes
    <3>2. CASE wchan[q] = NoChan  BY <2>1, <3>2 DEF Waits
    <3>3. CASE wchan[q] # NoChan
      <4>1. PICK g \in Node : g = fd[q].f  BY <3>1, <3>3, KindOf, FdOfCaller DEF CallInv
      <4>2. CASE g # f
        BY <1>1, <1>2, <1>4, <1>6, <2>1, <3>1, <4>1, <4>2, WaitsElsewhere
      <4>3. CASE g = f
        <5>1. pc[q] = "wsleep" /\ WriteNow(q) = 0 => WriteNow(q)' = 0
          BY <1>4, <1>6, <3>1, <4>1, <4>3, StillNoRoom
        <5>2. ~Busy(f, "rcopy")  BY <1>1, <1>7
        <5>. QED  BY <1>4, <1>8, <2>1, <2>2, <3>1, <4>1, <4>3, <5>1, <5>2 DEF Waits
      <4>. QED  BY <4>2, <4>3
    <3>. QED  BY <3>2, <3>3
  <2>6. Waits(p)'  BY <2>1, <2>4 DEF Waits
  <2>. QED  BY <1>4, <2>3, <2>5, <2>6 DEF WakeInv
<1>10. CASE ~(count[p] > i)
  <2>. DEFINE B == IF "RBLK" \in blk[f] THEN {<<f, "fn_rcnt">>} ELSE {}
  <2>1. /\ blk' = [blk EXCEPT ![f] = @ \ {"RBLK"}]
        /\ \/ /\ Goto(p, "wtop", NoChan, B, Selected(f, {"selR"}))
              /\ resid' = [resid EXCEPT ![p] = @ - i] /\ UNCHANGED lock
           \/ Goto(p, "user", NoChan, B, Selected(f, {"selR"})) /\ EndCall(p)
    BY <1>2, <1>3, <1>10 DEF CopyIn
  <2>2. PICK l \in {"wtop", "user"} : Goto(p, l, NoChan, B, Selected(f, {"selR"}))  BY <2>1
  <2>3. /\ \A g \in Node : lock'[g] = lock[g] \/ lock[g] \in {NoProc, p}
        /\ \A q \in Proc \ {p} : resid'[q] = resid[q]
    BY <1>5, <2>1, EndCallFacts DEF DataTypes
  <2>4. pc'[p] = l /\ wchan'[p] = NoChan  BY <1>5, <2>2 DEF Goto, CallTypes
  <2>5. \A q \in Proc \ {p} : pc'[q] = pc[q]  BY <1>5, <2>2, StillAsleep
  <2>6. Directions'
    BY <1>1, <1>4, <2>4, <2>5 DEF WakeInv, Directions, WriteCall, ReadCall
  <2>7. ASSUME NEW q \in Proc \ {p} PROVE Waits(q)'
    <3>1. Waits(q) /\ resid'[q] = resid[q]  BY <2>3 DEF WakeInv
    <3>2. \/ wchan'[q] = NoChan
          \/ wchan'[q] = wchan[q] /\ wchan[q] \notin B /\ q \notin Selected(f, {"selR"})
      BY <1>5, <2>2, StillAsleep
    <3>3. CASE wchan'[q] = NoChan \/ wchan[q] = NoChan  BY <3>2, <3>3 DEF Waits
    <3>4. CASE wchan'[q] # NoChan /\ wchan[q] # NoChan
      <4>1. PICK g \in Node : g = fd[q].f  BY <3>1, <3>4, KindOf, FdOfCaller DEF CallInv
      <4>2. wchan'[q] = wchan[q]  BY <3>2, <3>4
      <4>3. CASE g # f
        <5>1. blk'[g] = blk[g]  BY <1>5, <2>1, <4>3 DEF CallTypes
        <5>. QED
          BY <1>1, <1>2, <1>4, <1>6, <2>3, <2>5, <3>1, <4>1, <4>2, <4>3, <5>1, WaitsElsewhere
      <4>4. CASE g = f
        <5>1. pc[q] = "wsleep" /\ WriteNow(q) = 0 => WriteNow(q)' = 0
          BY <1>4, <1>6, <3>1, <4>1, <4>4, StillNoRoom
        <5>2. ~Busy(f, "rcopy")  BY <1>1, <1>7
        <5>3. "WBLK" \in blk[f] => "WBLK" \in blk'[f]  BY <1>5, <2>1 DEF CallTypes
        <5>4. ~(pc[q] = "rsleep" /\ wchan[q] = <<f, "fn_rcnt">> /\ "RBLK" \in blk[f])
          BY <3>2, <3>4
        <5>5. ~(pc[q] = "selR" /\ wchan[q] = selwait)
          <6>. SUFFICES ASSUME pc[q] = "selR", wchan[q] = selwait PROVE FALSE
            OBVIOUS
          <6>1. sel[f]["selR"] # NoProc /\ (sel[f]["selR"] = q \/ "selR" \in coll[f])
            BY <4>1, <4>4 DEF SelectorsKnown, Kind
          <6>2. q \in Selected(f, {"selR"})  BY <6>1 DEF Selected
          <6>. QED  BY <3>2, <3>4, <6>2
        <5>6. pc'[q] = pc[q]  BY <2>5
        <5>. HIDE DEF B
        <5>. QED
          BY <1>4, <1>8, <3>1, <4>1, <4>2, <4>4, <5>1, <5>2, <5>3, <5>4, <5>5, <5>6 DEF Waits
      <4>. QED  BY <4>3, <4>4
    <3>. QED  BY <3>3, <3>4
  <2>8. Waits(p)'  BY <2>4 DEF Waits
  <2>. QED  BY <1>4, <2>6, <2>7, <2>8 DEF WakeInv
<1>. QED  BY <1>9, <1>10
LEMMA WakeCopyOut ==
    ASSUME CallInv, DataInv, WakeInv, NEW p \in Proc, CopyOut(p)
    PROVE  WakeInv'
<1>1. pc[p] = "rcopy" /\ pc[p] \in Holders /\ pc[p] # "user"  BY DEF CopyOut, Holders
<1>2. PICK f \in Node : f = fd[p].f  BY <1>1, FdOfCaller DEF CallInv
<1>. DEFINE i == Chunk(p, rptr[f])
            freed == Drained(f, i)
            last == count[p] = i
            B == IF last /\ "WBLK" \in blk[f] THEN {<<f, "fn_wcnt">>} ELSE {}
            K == IF last THEN {"selW"} ELSE {}
            C == B \cup FreeWakes(freed)
<1>3. /\ size' = [size EXCEPT ![f] = @ - i] /\ UNCHANGED <<fd, rcnt, wcnt>>
      /\ fifo_alloc' = fifo_alloc - freed * BufferSize
      /\ Goto(p, IF last THEN "user" ELSE "rcopy", NoChan, C, Selected(f, K))
      /\ IF last THEN blk' = [blk EXCEPT ![f] = @ \ {"WBLK"}] /\ EndCall(p)
                 ELSE UNCHANGED <<blk, lock>> /\ resid' = [resid EXCEPT ![p] = @ - i]
  BY <1>2 DEF CopyOut
<1>4. CallTypes /\ DataTypes /\ DataTypes' /\ fifo_alloc \in Int
  BY CopyOutData DEF CallInv, DataInv, WakeInv
<1>5. freed \in Nat  BY DEF Drained
<1>6. \A g \in Node \ {f} : size'[g] = size[g]  BY <1>3, <1>4 DEF DataTypes
<1>7. size[f] # 0
  BY <1>1, <1>2 DEF DataInv, DataTypes, Transfer
<1>8. lock[f] = p /\ p # NoProc /\ \A l : Busy(f, l) <=> pc[p] = l
  BY <1>1, <1>2, HolderIsBusy
<1>9. fifo_alloc' \in Int
  <2>1. BufferSize \in Nat  BY FifoConstants DEF BufferSize
  <2>2. freed * BufferSize \in Nat  BY <1>5, <2>1
  <2>. QED  BY <1>3, <1>4, <2>2
<1>10. /\ \A g \in Node : lock'[g] = lock[g] \/ lock[g] \in {NoProc, p}
       /\ \A q \in Proc \ {p} : resid'[q] = resid[q]
  BY <1>3, <1>4, EndCallFacts DEF DataTypes
<1>11. pc'[p] \in {"user", "rcopy"} /\ wchan'[p] = NoChan /\ (~last => pc'[p] = "rcopy")
  BY <1>3, <1>4 DEF Goto, CallTypes
<1>12. \A q \in Proc \ {p} : pc'[q] = pc[q]  BY <1>3, <1>4, StillAsleep
<1>13. Directions'
  BY <1>1, <1>3, <1>11, <1>12 DEF WakeInv, Directions, WriteCall, ReadCall
<1>14. Waits(p)'  BY <1>11 DEF Waits
<1>15. ASSUME NEW q \in Proc \ {p} PROVE Waits(q)'
  <2>1. Waits(q) /\ resid'[q] = resid[q] /\ pc'[q] = pc[q]  BY <1>10, <1>12 DEF WakeInv
  <2>2. \/ wchan'[q] = NoChan
        \/ wchan'[q] = wchan[q] /\ wchan[q] \notin C
    BY <1>3, <1>4, StillAsleep
  <2>3. CASE wchan'[q] = NoChan \/ wchan[q] = NoChan  BY <2>2, <2>3 DEF Waits
  <2>4. CASE wchan'[q] # NoChan /\ wchan[q] # NoChan
    <3>1. PICK g \in Node : g = fd[q].f  BY <2>1, <2>4, KindOf, FdOfCaller DEF CallInv
    <3>2. wchan'[q] = wchan[q] /\ wchan[q] \notin C  BY <2>2, <2>4
    <3>3. wchan[q] = memory /\ pc[q] = "wsleep" /\ fifo_alloc >= PIPE_MNB => fifo_alloc' >= PIPE_MNB
      BY <1>3, <1>4, <1>5, <2>1, <3>2, MemoryFreed
    <3>4. CASE g # f
      <4>1. blk'[g] = blk[g] /\ size'[g] = size[g]  BY <1>3, <1>4, <1>6, <3>4 DEF CallTypes
      <4>. HIDE DEF C, B, K, freed, last
      <4>. QED
        BY <1>1, <1>2, <1>3, <1>10, <1>12, <2>1, <3>1, <3>2, <3>3, <3>4, <4>1, WaitsElsewhere
    <3>5. CASE g = f
      <4>1. ~Busy(f, "wcopy")  BY <1>1, <1>8
      <4>2. "RBLK" \in blk[f] => "RBLK" \in blk'[f]  BY <1>3, <1>4 DEF CallTypes
      <4>3. wchan[q] = <<f, "fn_wcnt">> /\ "WBLK" \in blk[f] => ~last  BY <3>2
      <4>4. ~last => Busy(f, "rcopy")' /\ blk' = blk
        BY <1>2, <1>3, <1>8, <1>11 DEF Busy
      <4>. HIDE DEF C, B, K, freed, last
      <4>. QED
        BY <1>3, <1>7, <2>1, <3>1, <3>2, <3>3, <3>5, <4>1, <4>2, <4>3, <4>4 DEF Waits
    <3>. QED  BY <3>4, <3>5
  <2>. QED  BY <2>3, <2>4
<1>. QED  BY <1>9, <1>13, <1>14, <1>15 DEF WakeInv

LEMMA WakeStep ==
    ASSUME CallInv, DataInv, SelectorsKnown, WakeInv, [Next]_vars
    PROVE  WakeInv'
<1>1. CASE UNCHANGED vars
  <2>1. UNCHANGED <<pc, wchan, fd, resid, lock, rcnt, wcnt, blk, size, fifo_alloc>>
    BY <1>1 DEF vars, callvars, datavars
  <2>. QED  BY <2>1 DEF WakeInv, Directions, Waits, Busy, WriteNow, Fits, Full
<1>2. ASSUME NEW p \in Proc, UserStep(p) PROVE WakeInv'
  <2>1. CASE fifo_close(p)  BY <2>1, WakeClose DEF fifo_close, Holders
  <2>2. CASE \E k \in Selects : select(p, k)  BY <2>2, WakeSelect, FifoConstants
  <2>3. CASE \E f \in Node, m \in Modes[p] : fifo_open(p, f, m)  BY <2>3, WakeOpen
  <2>. QED  BY <1>2, <2>1, <2>2, <2>3, WakeEntry DEF UserStep, DataInv
<1>3. ASSUME NEW p \in Proc, KernelStep(p) PROVE WakeInv'
  BY <1>3, WakeOpenAgain, WakeEnd, WakeMove, WakeSleep, WakeCopyIn, WakeCopyOut DEF KernelStep
<1>4. ASSUME NEW p \in Proc, Disturb(p) PROVE WakeInv'
  <2>1. CASE OpenInterrupted(p)
    BY <2>1, WakeClose DEF OpenInterrupted, CallInv, DescInv, Holders
  <2>. QED  BY <1>4, <2>1, WakeEnd, WakeFault DEF Disturb
<1>. QED  BY <1>1, <1>2, <1>3, <1>4 DEF Next

(* Nobody sleeps on a fifo whose state lets him go on, in open, read,      *)
(* write or select, for any number of processes and any sizes: every       *)
(* change that ends a wait is followed, before the lock is free again, by  *)
(* the wakeup of whoever waits for it, or is a fault of uiomove.           *)
THEOREM WakeupsKept == Spec => []NoLostWakeup
<1>1. CallInv /\ WakeInv => NoLostWakeup  BY WakeEnough
<1>. QED
  BY <1>1, CallInit, CallStep, DataInit, DataStep, SelInit, SelStep, WakeInit, WakeStep, PTL DEF Spec
-----------------------------------------------------------------------------
(* Memory                                                                  *)

Awaited == {p \in Proc : pc[p] = "kmem"}
MemInv == IsFiniteSet(Buffers) /\ MemoryCounted

LEMMA BufferSizes == BufferSize \in Nat /\ BufferSize > 0 /\ PIPE_MNB \in Nat
BY FifoConstants DEF BufferSize

LEMMA AwaitedFinite == IsFiniteSet(Awaited)
<1>1. Awaited \subseteq Proc  BY DEF Awaited
<1>. QED  BY <1>1, FS_Subset, FifoConstants

LEMMA BufferFacts ==
    ASSUME NEW x, DataTypes
    PROVE  x \in Buffers <=> \E f \in Node : \E n \in 1 .. nbuf(f) : x = <<f, n>>
BY DEF Buffers

(* Memory is not touched.                                                  *)
LEMMA MemKept ==
    ASSUME MemInv, fifo_alloc' = fifo_alloc,
           \A f \in Node : nbuf(f)' = nbuf(f),
           \A q \in Proc : (pc'[q] = "kmem") <=> (pc[q] = "kmem")
    PROVE  MemInv'
<1>1. Buffers' = Buffers  BY DEF Buffers
<1>2. Awaited' = Awaited  BY DEF Awaited
<1>. QED  BY <1>1, <1>2 DEF MemInv, MemoryCounted, Awaited

LEMMA Products ==
    ASSUME NEW s \in Nat, NEW m \in Int, NEW k \in Int
    PROVE  s * (m + k) = s * m + s * k /\ s * (m - k) = s * m - k * s /\ s * 1 = s
OBVIOUS

LEMMA MemInit == Init => MemInv
<1>. SUFFICES ASSUME Init PROVE MemInv
  OBVIOUS
<1>1. Buffers = {}
  <2>1. \A f \in Node : nbuf(f) = 0  BY DEF Init, nbuf
  <2>2. \A f \in Node : 1 .. nbuf(f) = {}  BY <2>1
  <2>. QED  BY <2>2 DEF Buffers
<1>2. Awaited = {}  BY DEF Awaited, Init
<1>3. Cardinality({}) = 0 /\ IsFiniteSet({})  BY FS_EmptySet
<1>4. fifo_alloc = 0  BY DEF Init
<1>5. BufferSize * (0 + 0) = 0  BY BufferSizes
<1>6. fifo_alloc < PIPE_MNB + BufferSize  BY <1>4, BufferSizes
<1>7. fifo_alloc = BufferSize * (Cardinality(Buffers) + Cardinality(Awaited))
  BY <1>1, <1>2, <1>3, <1>4, <1>5
<1>. QED  BY <1>1, <1>3, <1>6, <1>7 DEF MemInv, MemoryCounted, Awaited

LEMMA MemReserve ==
    ASSUME CallInv, MemInv, DataInv, NEW p \in Proc, AllocReserves(p)
    PROVE  MemInv'
<1>1. /\ fifo_alloc < PIPE_MNB /\ fifo_alloc' = fifo_alloc + BufferSize
      /\ pc[p] = "walloc" /\ pc' = [pc EXCEPT ![p] = "kmem"] /\ UNCHANGED buf
  BY DEF AllocReserves, Goto, datavars
<1>2. Buffers' = Buffers  BY <1>1 DEF Buffers, nbuf
<1>3. Awaited' = Awaited \cup {p} /\ p \notin Awaited
  BY <1>1 DEF Awaited, CallInv, CallTypes
<1>4. Cardinality(Awaited') = Cardinality(Awaited) + 1  BY <1>3, AwaitedFinite, FS_AddElement
<1>5. Cardinality(Buffers) \in Nat /\ Cardinality(Awaited) \in Nat
  BY AwaitedFinite, FS_CardinalityType DEF MemInv
<1>6. PICK b \in Nat, a \in Nat : b = Cardinality(Buffers) /\ a = Cardinality(Awaited)
  BY <1>5
<1>7. fifo_alloc = BufferSize * (b + a)  BY <1>6 DEF MemInv, MemoryCounted, Awaited
<1>8. BufferSize * (b + (a + 1)) = BufferSize * (b + a) + BufferSize
  BY <1>6, BufferSizes, Products
<1>9. fifo_alloc' = BufferSize * (Cardinality(Buffers') + Cardinality(Awaited'))
  BY <1>1, <1>2, <1>4, <1>6, <1>7, <1>8
<1>10. fifo_alloc' < PIPE_MNB + BufferSize
  <2>1. BufferSize * (b + a) \in Nat  BY <1>6, BufferSizes
  <2>. QED  BY <1>1, <1>7, <2>1, BufferSizes
<1>. QED  BY <1>2, <1>9, <1>10 DEF MemInv, MemoryCounted, Awaited

LEMMA MemDelivered ==
    ASSUME CallInv, MemInv, DataInv, NEW p \in Proc, fifo_bufalloc(p)
    PROVE  MemInv'
<1>1. pc[p] = "kmem" /\ pc' = [pc EXCEPT ![p] = "walloc"] /\ fifo_alloc' = fifo_alloc
  BY DEF fifo_bufalloc, Goto
<1>2. PICK f \in Node : f = fd[p].f  BY <1>1, FdOfCaller DEF CallInv
<1>3. /\ nbuf(f)' = nbuf(f) + 1 /\ nbuf(f) \in Nat
      /\ \A g \in Node \ {f} : nbuf(g)' = nbuf(g)
  BY <1>2, GrownByOne DEF DataInv
<1>4. Buffers' = Buffers \cup {<<f, nbuf(f) + 1>>} /\ <<f, nbuf(f) + 1>> \notin Buffers
  <2>1. DataTypes /\ DataTypes'  BY BufallocData DEF DataInv
  <2>2. <<f, nbuf(f) + 1>> \notin Buffers  BY <1>3, <2>1, BufferFacts
  <2>3. ASSUME NEW x PROVE x \in Buffers' <=> x \in Buffers \cup {<<f, nbuf(f) + 1>>}
    <3>1. x \in Buffers' <=> \E g \in Node : \E n \in 1 .. nbuf(g)' : x = <<g, n>>
      BY DEF Buffers
    <3>2. \A g \in Node : \A n \in 1 .. nbuf(g)' : n \in 1 .. nbuf(g) \/ (g = f /\ n = nbuf(f) + 1)
      BY <1>3
    <3>3. \A g \in Node : \A n \in 1 .. nbuf(g) : n \in 1 .. nbuf(g)'
      <4>. SUFFICES ASSUME NEW g \in Node, NEW n \in 1 .. nbuf(g) PROVE n \in 1 .. nbuf(g)'
        OBVIOUS
      <4>1. CASE g = f  BY <1>3, <4>1
      <4>2. CASE g # f  BY <1>3, <4>2
      <4>. QED  BY <4>1, <4>2
    <3>4. nbuf(f) + 1 \in 1 .. nbuf(f)'  BY <1>3
    <3>5. x \in Buffers <=> \E g \in Node : \E n \in 1 .. nbuf(g) : x = <<g, n>>
      BY <2>1, BufferFacts
    <3>. QED  BY <3>1, <3>2, <3>3, <3>4, <3>5, Zenon
  <2>. QED  BY <2>2, <2>3
<1>5. Awaited' = Awaited \ {p} /\ p \in Awaited
  BY <1>1 DEF Awaited, CallInv, CallTypes
<1>6. IsFiniteSet(Buffers') /\ Cardinality(Buffers') = Cardinality(Buffers) + 1
  BY <1>4, FS_AddElement DEF MemInv
<1>7. Cardinality(Awaited') = Cardinality(Awaited) - 1  BY <1>5, AwaitedFinite, FS_RemoveElement
<1>8. Cardinality(Buffers) \in Nat /\ Cardinality(Awaited) \in Nat
  BY AwaitedFinite, FS_CardinalityType DEF MemInv
<1>9. Cardinality(Buffers') + Cardinality(Awaited') = Cardinality(Buffers) + Cardinality(Awaited)
  BY <1>6, <1>7, <1>8
<1>. QED  BY <1>1, <1>6, <1>9 DEF MemInv, MemoryCounted, Awaited

(* n buffers of f go: those from place m on.                               *)
LEMMA MemFreed ==
    ASSUME DataTypes, MemInv, NEW f \in Node, NEW n \in Nat, NEW m \in Nat,
           nbuf(f) = m + n, nbuf(f)' = m, \A g \in Node \ {f} : nbuf(g)' = nbuf(g),
           \A q \in Proc : (pc'[q] = "kmem") <=> (pc[q] = "kmem"),
           fifo_alloc' = fifo_alloc - n * BufferSize
    PROVE  MemInv'
<1>. DEFINE Gone == {f} \X (m + 1 .. m + n)
<1>1. Awaited' = Awaited  BY DEF Awaited
<1>2. Buffers' = Buffers \ Gone /\ Gone \subseteq Buffers
  <2>1. ASSUME NEW x \in Gone PROVE x \in Buffers
    <3>1. PICK k \in m + 1 .. m + n : x = <<f, k>>  OBVIOUS
    <3>2. k \in 1 .. nbuf(f)  OBVIOUS
    <3>. QED  BY <3>1, <3>2, BufferFacts
  <2>2. ASSUME NEW x PROVE x \in Buffers' <=> x \in Buffers \ Gone
    <3>1. x \in Buffers' <=> \E g \in Node : \E k \in 1 .. nbuf(g)' : x = <<g, k>>
      BY DEF Buffers
    <3>2. \A g \in Node : \A k : k \in 1 .. nbuf(g)' <=> k \in 1 .. nbuf(g) /\ ~(g = f /\ k \in m + 1 .. m + n)
      <4>. SUFFICES ASSUME NEW g \in Node, NEW k
                    PROVE  k \in 1 .. nbuf(g)' <=> k \in 1 .. nbuf(g) /\ ~(g = f /\ k \in m + 1 .. m + n)
        OBVIOUS
      <4>1. CASE g = f  BY <4>1
      <4>2. CASE g # f  BY <4>2
      <4>. QED  BY <4>1, <4>2
    <3>3. \A g, k : <<g, k>> \in Gone <=> g = f /\ k \in m + 1 .. m + n  OBVIOUS
    <3>4. x \in Buffers <=> \E g \in Node : \E k \in 1 .. nbuf(g) : x = <<g, k>>  BY BufferFacts
    <3>. HIDE DEF Gone
    <3>5. ASSUME x \in Buffers' PROVE x \in Buffers \ Gone
      <4>1. PICK g \in Node : \E k \in 1 .. nbuf(g)' : x = <<g, k>>  BY <3>1, <3>5
      <4>2. PICK k \in 1 .. nbuf(g)' : x = <<g, k>>  BY <4>1
      <4>3. k \in 1 .. nbuf(g) /\ ~(g = f /\ k \in m + 1 .. m + n)  BY <3>2
      <4>. QED  BY <3>3, <3>4, <4>2, <4>3
    <3>6. ASSUME x \in Buffers, x \notin Gone PROVE x \in Buffers'
      <4>1. PICK g \in Node : \E k \in 1 .. nbuf(g) : x = <<g, k>>  BY <3>4, <3>6
      <4>2. PICK k \in 1 .. nbuf(g) : x = <<g, k>>  BY <4>1
      <4>3. k \in 1 .. nbuf(g)'  BY <3>2, <3>3, <3>6, <4>2
      <4>. QED  BY <3>1, <4>2, <4>3
    <3>. QED  BY <3>5, <3>6
  <2>. QED  BY <2>1, <2>2
<1>3. Cardinality(Gone) = n
  <2>1. IsFiniteSet({f}) /\ Cardinality({f}) = 1  BY FS_Singleton
  <2>2. IsFiniteSet(m + 1 .. m + n)  BY FS_Interval
  <2>3. Cardinality(m + 1 .. m + n) = IF m + 1 > m + n THEN 0 ELSE (m + n) - (m + 1) + 1
    BY FS_Interval
  <2>4. Cardinality(m + 1 .. m + n) = n  BY <2>3
  <2>5. Cardinality(Gone) = Cardinality({f}) * Cardinality(m + 1 .. m + n)
    BY <2>1, <2>2, FS_Product, Zenon
  <2>6. Cardinality(Gone) = 1 * n  BY <2>1, <2>4, <2>5
  <2>. QED  BY <2>6
<1>4. IsFiniteSet(Buffers') /\ Cardinality(Buffers') = Cardinality(Buffers) - n
  <2>1. Buffers \cap Gone = Gone  BY <1>2
  <2>. HIDE DEF Gone
  <2>2. /\ IsFiniteSet(Buffers \ Gone)
        /\ Cardinality(Buffers \ Gone) = Cardinality(Buffers) - Cardinality(Buffers \cap Gone)
    BY FS_Difference, Zenon DEF MemInv
  <2>. QED  BY <1>2, <1>3, <2>1, <2>2
<1>5. Cardinality(Buffers) \in Nat /\ Cardinality(Awaited) \in Nat
  BY AwaitedFinite, FS_CardinalityType DEF MemInv
<1>6. PICK b \in Nat, a \in Nat : b = Cardinality(Buffers) /\ a = Cardinality(Awaited)
  BY <1>5
<1>7. fifo_alloc = BufferSize * (b + a) /\ fifo_alloc < PIPE_MNB + BufferSize
  BY <1>6 DEF MemInv, MemoryCounted, Awaited
<1>8. BufferSize * ((b - n) + a) = BufferSize * (b + a) - n * BufferSize
  <2>1. (b - n) + a = (b + a) - n  OBVIOUS
  <2>. QED  BY <2>1, BufferSizes, Products
<1>9. fifo_alloc' = BufferSize * (Cardinality(Buffers') + Cardinality(Awaited'))
  BY <1>1, <1>4, <1>6, <1>7, <1>8
<1>10. fifo_alloc' < PIPE_MNB + BufferSize
  <2>1. BufferSize * (b + a) \in Nat /\ n * BufferSize \in Nat  BY <1>6, BufferSizes
  <2>. QED  BY <1>7, <2>1, BufferSizes
<1>. QED  BY <1>4, <1>9, <1>10 DEF MemInv, MemoryCounted, Awaited

(* CopyOut frees the first buffer or none.                                 *)
LEMMA FirstBufferGone ==
    ASSUME CallInv, DataInv, NEW p \in Proc, NEW f \in Node, f = fd[p].f, CopyOut(p),
           NEW freed, freed = Drained(f, Chunk(p, rptr[f]))
    PROVE  /\ freed \in Nat /\ nbuf(f)' \in Nat /\ nbuf(f) = nbuf(f)' + freed
           /\ \A g \in Node \ {f} : nbuf(g)' = nbuf(g)
<1>1. /\ freed \in {0, 1} /\ buf \in [Node -> Seq([1 .. PIPE_BSZ -> Cell])]
      /\ buf' = [buf EXCEPT ![f] = IF freed = 1 THEN Tail(@) ELSE @]
  BY DEF Drained, CopyOut, DataInv, DataTypes
<1>2. nbuf(f) \in Nat /\ nbuf(f) # 0
  <2>1. pc[p] = "rcopy" /\ pc[p] \in Holders  BY DEF CopyOut, Holders
  <2>2. /\ size[f] \in Nat /\ size[f] > 0 /\ wptr[f] \in Nat /\ rptr[f] \in Nat
        /\ wptr[f] - rptr[f] = size[f] /\ wptr[f] <= nbuf(f) * PIPE_BSZ /\ nbuf(f) \in Nat
    BY <2>1 DEF DataInv, DataTypes, Pointers, Transfer, nbuf
  <2>3. nbuf(f) = 0 => nbuf(f) * PIPE_BSZ = 0  BY Sizes
  <2>. QED  BY <2>2, <2>3
<1>3. CASE freed = 1
  <2>1. nbuf(f)' = Len(Tail(buf[f]))  BY <1>1, <1>3 DEF nbuf
  <2>2. Len(Tail(buf[f])) = nbuf(f) - 1  BY <1>1, <1>2 DEF nbuf
  <2>. QED  BY <1>1, <1>2, <1>3, <2>1, <2>2 DEF nbuf
<1>4. CASE freed = 0
  BY <1>1, <1>2, <1>4 DEF nbuf
<1>. QED  BY <1>1, <1>3, <1>4

LEMMA MemCopyOut ==
    ASSUME CallInv, DataInv, MemInv, NEW p \in Proc, CopyOut(p)
    PROVE  MemInv'
<1>1. pc[p] = "rcopy" /\ pc[p] # "user"  BY DEF CopyOut
<1>2. PICK f \in Node : f = fd[p].f  BY <1>1, FdOfCaller DEF CallInv
<1>3. PICK freed : freed = Drained(f, Chunk(p, rptr[f]))  OBVIOUS
<1>4. fifo_alloc' = fifo_alloc - freed * BufferSize
  BY <1>2, <1>3 DEF CopyOut
<1>5. \A q \in Proc : (pc'[q] = "kmem") <=> (pc[q] = "kmem")
  BY <1>1 DEF CopyOut, Goto, CallInv, CallTypes
<1>6. /\ freed \in Nat /\ nbuf(f)' \in Nat /\ nbuf(f) = nbuf(f)' + freed
      /\ \A g \in Node \ {f} : nbuf(g)' = nbuf(g)
  BY <1>2, <1>3, FirstBufferGone
<1>7. PICK m \in Nat : m = nbuf(f)'  BY <1>6
<1>. QED  BY <1>4, <1>5, <1>6, <1>7, MemFreed DEF DataInv

LEMMA MemClose ==
    ASSUME CallInv, DataInv, MemInv, NEW p \in Proc, fd[p] # NoFd, pc[p] # "kmem", CloseEnds(p)
    PROVE  MemInv'
<1>1. PICK f \in Node : f = fd[p].f  BY FdFields DEF CallInv, CallTypes
<1>. DEFINE last == rcnt[f] - Ends(fd[p].r) = 0 /\ wcnt[f] - Ends(fd[p].w) = 0
<1>2. \A q \in Proc : (pc'[q] = "kmem") <=> (pc[q] = "kmem")
  BY DEF CloseEnds, Goto, CallInv, CallTypes
<1>3. buf \in [Node -> Seq([1 .. PIPE_BSZ -> Cell])] /\ nbuf(f) \in Nat
  BY DEF DataInv, DataTypes, nbuf
<1>4. CASE last
  <2>1. buf' = [buf EXCEPT ![f] = << >>] /\ fifo_alloc' = fifo_alloc - nbuf(f) * BufferSize
    BY <1>1, <1>4 DEF CloseEnds
  <2>2. nbuf(f)' = 0 /\ \A g \in Node \ {f} : nbuf(g)' = nbuf(g)
    BY <1>3, <2>1 DEF nbuf
  <2>3. nbuf(f) = 0 + nbuf(f)  BY <1>3
  <2>4. PICK n \in Nat : n = nbuf(f)  BY <1>3
  <2>. QED  BY <1>2, <2>1, <2>2, <2>3, <2>4, MemFreed DEF DataInv
<1>5. CASE ~last
  <2>1. buf' = buf /\ fifo_alloc' = fifo_alloc - 0 * BufferSize
    BY <1>1, <1>5 DEF CloseEnds, datavars
  <2>2. nbuf(f) = nbuf(f) + 0 /\ nbuf(f)' = nbuf(f) /\ \A g \in Node \ {f} : nbuf(g)' = nbuf(g)
    BY <1>3, <2>1 DEF nbuf
  <2>3. PICK m \in Nat : m = nbuf(f)  BY <1>3
  <2>. QED  BY <1>2, <2>1, <2>2, <2>3, MemFreed DEF DataInv
<1>. QED  BY <1>4, <1>5

LEMMA MemCopyIn ==
    ASSUME CallInv, DataInv, MemInv, NEW p \in Proc, CopyIn(p)
    PROVE  MemInv'
<1>1. pc[p] = "wcopy" /\ pc[p] \in Holders /\ pc[p] \in WriteCall /\ pc[p] # "user"
  BY DEF CopyIn, Holders, WriteCall
<1>2. PICK f \in Node : f = fd[p].f  BY <1>1, FdOfCaller DEF CallInv
<1>3. /\ count[p] \in Nat /\ count[p] > 0 /\ ocnt[p] \in WriteSizes /\ resid[p] <= ocnt[p]
      /\ wptr[f] \in Nat
  BY <1>1 DEF DataInv, DataTypes, Transfer
<1>4. Chunk(p, wptr[f]) \in Nat  BY <1>3, ChunkFacts
<1>5. buf' = Stored(p, f, Chunk(p, wptr[f])) /\ fifo_alloc' = fifo_alloc
  BY <1>2 DEF CopyIn
<1>6. \A g \in Node : nbuf(g)' = nbuf(g)
  <2>1. PICK i \in Nat : i = Chunk(p, wptr[f])  BY <1>4
  <2>2. Len(Stored(p, f, i)[f]) = Len(buf[f]) /\ \A g \in Node \ {f} : Stored(p, f, i)[g] = buf[g]
    BY <1>3, StoredTypes DEF DataInv
  <2>3. nbuf(f)' = nbuf(f)  BY <1>5, <2>1, <2>2 DEF nbuf
  <2>4. \A g \in Node \ {f} : nbuf(g)' = nbuf(g)  BY <1>5, <2>1, <2>2 DEF nbuf
  <2>. QED  BY <2>3, <2>4
<1>7. \A q \in Proc : (pc'[q] = "kmem") <=> (pc[q] = "kmem")
  BY <1>1 DEF CopyIn, Goto, CallInv, CallTypes
<1>. QED  BY <1>5, <1>6, <1>7, MemKept

(* A step of p that neither starts nor ends an allocation.                 *)
LEMMA MemPlain ==
    ASSUME CallInv, MemInv, NEW p \in Proc, UNCHANGED <<buf, fifo_alloc>>, pc[p] # "kmem",
           NEW l, l # "kmem", pc' = [pc EXCEPT ![p] = l]
    PROVE  MemInv'
<1>1. \A q \in Proc : (pc'[q] = "kmem") <=> (pc[q] = "kmem")
  BY DEF CallInv, CallTypes
<1>. QED  BY <1>1, MemKept DEF nbuf

LEMMA MemUser ==
    ASSUME CallInv, MemInv, NEW p \in Proc,
           \/ \E f \in Node, m \in Modes[p] : fifo_open(p, f, m)
           \/ \E n \in WriteSizes : Write(p, n)
           \/ \E n \in ReadSizes : Read(p, n)
           \/ \E k \in Selects : select(p, k)
           \/ OpenAgain(p) \/ SelectEnds(p)
    PROVE  MemInv'
<1>. USE DEF Goto, Awake, Kind, datavars
<1>1. ASSUME NEW f \in Node, NEW m \in Modes[p], fifo_open(p, f, m) PROVE MemInv'
  <2>1. \E l \in {"oread", "owrite", "user"} : pc' = [pc EXCEPT ![p] = l]
    BY <1>1 DEF fifo_open, OpenWaits
  <2>2. UNCHANGED <<buf, fifo_alloc>> /\ pc[p] # "kmem"  BY <1>1 DEF fifo_open
  <2>. QED  BY <2>1, <2>2, MemPlain
<1>2. CASE OpenAgain(p)
  <2>1. \E l \in {"oread", "owrite", "user"} : pc' = [pc EXCEPT ![p] = l]
    BY <1>2 DEF OpenAgain, OpenWaits
  <2>2. UNCHANGED <<buf, fifo_alloc>> /\ pc[p] # "kmem"  BY <1>2 DEF OpenAgain
  <2>. QED  BY <2>1, <2>2, MemPlain
<1>3. ASSUME NEW n, Write(p, n) \/ Read(p, n) PROVE MemInv'
  BY <1>3, MemPlain DEF Write, Read
<1>4. ASSUME NEW k \in Selects, select(p, k) PROVE MemInv'
  <2>1. \E l \in {"user", k} : pc' = [pc EXCEPT ![p] = l]  BY <1>4 DEF select
  <2>2. k # "kmem"  BY FifoConstants
  <2>3. UNCHANGED <<buf, fifo_alloc>> /\ pc[p] # "kmem"  BY <1>4, <2>2 DEF select
  <2>. QED  BY <2>1, <2>2, <2>3, MemPlain
<1>5. CASE SelectEnds(p)
  BY <1>5, MemPlain DEF SelectEnds
<1>. QED  BY <1>1, <1>2, <1>3, <1>4, <1>5

LEMMA MemTransfer ==
    ASSUME CallInv, MemInv, NEW p \in Proc,
           \/ WriteFails(p) \/ WriteSleeps(p) \/ WriteStarts(p) \/ AllocSleeps(p)
           \/ WriteCopies(p) \/ ReadEnds(p) \/ ReadSleeps(p) \/ ReadStarts(p)
           \/ TransferInterrupted(p) \/ CopyFaults(p)
    PROVE  MemInv'
<1>. USE DEF Goto, Awake, datavars
<1>1. CASE WriteFails(p) \/ WriteSleeps(p) \/ WriteStarts(p)
  <2>1. /\ UNCHANGED <<buf, fifo_alloc>> /\ pc[p] # "kmem"
        /\ \E l \in {"user", "wsleep", "walloc"} : pc' = [pc EXCEPT ![p] = l]
    BY <1>1 DEF WriteFails, WriteSleeps, WriteStarts, AtWriteTop
  <2>. QED  BY <2>1, MemPlain
<1>2. CASE AllocSleeps(p) \/ WriteCopies(p)
  <2>1. /\ UNCHANGED <<buf, fifo_alloc>> /\ pc[p] # "kmem"
        /\ \E l \in {"wsleep", "wcopy"} : pc' = [pc EXCEPT ![p] = l]
    BY <1>2 DEF AllocSleeps, WriteCopies
  <2>. QED  BY <2>1, MemPlain
<1>3. CASE ReadEnds(p) \/ ReadSleeps(p) \/ ReadStarts(p)
  <2>1. /\ UNCHANGED <<buf, fifo_alloc>> /\ pc[p] # "kmem"
        /\ \E l \in {"user", "rsleep", "rcopy"} : pc' = [pc EXCEPT ![p] = l]
    BY <1>3 DEF ReadEnds, ReadSleeps, ReadStarts, AtReadTop
  <2>. QED  BY <2>1, MemPlain
<1>4. CASE TransferInterrupted(p) \/ CopyFaults(p)
  <2>1. UNCHANGED <<buf, fifo_alloc>> /\ pc[p] # "kmem" /\ pc' = [pc EXCEPT ![p] = "user"]
    BY <1>4 DEF TransferInterrupted, CopyFaults
  <2>. QED  BY <2>1, MemPlain
<1>. QED  BY <1>1, <1>2, <1>3, <1>4

LEMMA MemStep ==
    ASSUME CallInv, DataInv, MemInv, [Next]_vars
    PROVE  MemInv'
<1>1. CASE UNCHANGED vars
  <2>1. UNCHANGED <<pc, buf, fifo_alloc>>  BY <1>1 DEF vars, datavars
  <2>. QED  BY <2>1, MemKept DEF nbuf
<1>2. ASSUME NEW p \in Proc, UserStep(p) PROVE MemInv'
  <2>1. CASE fifo_close(p)  BY <2>1, MemClose DEF fifo_close
  <2>. QED  BY <1>2, <2>1, MemUser DEF UserStep
<1>3. ASSUME NEW p \in Proc, KernelStep(p) PROVE MemInv'
  BY <1>3, MemUser, MemTransfer, MemReserve, MemDelivered, MemCopyIn, MemCopyOut DEF KernelStep
<1>4. ASSUME NEW p \in Proc, Disturb(p) PROVE MemInv'
  <2>1. CASE OpenInterrupted(p)
    BY <2>1, MemClose DEF OpenInterrupted, CallInv, DescInv
  <2>. QED  BY <1>4, <2>1, MemUser, MemTransfer DEF Disturb
<1>. QED  BY <1>1, <1>2, <1>3, <1>4 DEF Next

(* fifo_alloc is exactly what the buffers of all fifos take, those being   *)
(* allocated included, and stays within one buffer of PIPE_MNB, for any    *)
(* number of fifos: neither a read that drains a buffer nor the last close *)
(* gives back more or less than was taken.                                 *)
THEOREM MemoryExact == Spec => []MemoryCounted
<1>1. MemInv => MemoryCounted  BY DEF MemInv
<1>. QED  BY <1>1, CallInit, CallStep, DataInit, DataStep, MemInit, MemStep, PTL DEF Spec

(* Every variable keeps its type; in particular no counter, offset or size *)
(* ever becomes negative.                                                  *)
THEOREM TypesKept == Spec => []TypeOK
<1>1. CallInv /\ DataInv /\ MemInv => TypeOK
  <2>. SUFFICES ASSUME CallInv, DataInv, MemInv PROVE TypeOK
    OBVIOUS
  <2>1. fifo_alloc \in Nat
    <3>1. Cardinality(Buffers) \in Nat /\ Cardinality(Awaited) \in Nat
      BY AwaitedFinite, FS_CardinalityType DEF MemInv
    <3>2. PICK n \in Nat : n = Cardinality(Buffers) + Cardinality(Awaited)  BY <3>1
    <3>3. fifo_alloc = BufferSize * n  BY <3>2 DEF MemInv, MemoryCounted, Awaited
    <3>. QED  BY <3>3, BufferSizes
  <2>. QED  BY <2>1 DEF TypeOK, CallInv, CallTypes, DataInv, DataTypes, Label
<1>. QED  BY <1>1, CallInit, CallStep, DataInit, DataStep, MemInit, MemStep, PTL DEF Spec
=============================================================================
