-------------------------------- MODULE Fifo --------------------------------
(***************************************************************************)
(* Named pipes: specfs/fifo_vnodeops.c with fifo.h and fifonode.h, and the *)
(* part of select (sys/sys_generic.c) that they use.                       *)
(*                                                                         *)
(* The bytes of a fifo lie in a list of buffers of PIPE_BSZ bytes each,    *)
(* from fn_rptr in the first one to fn_wptr, counted over the whole list.  *)
(* read and write hold the fifonode's lock, also while kmem_alloc and      *)
(* uiomove sleep; open, close and select take no lock.                     *)
(*                                                                         *)
(* An action runs from one place where the process may sleep to the next,  *)
(* or to the next place where only a lock holder goes: what other          *)
(* processes may do there they may also do while it sleeps in uiomove.     *)
(*                                                                         *)
(* A write of n bytes by p consists of the bytes [w |-> p, n |-> n,        *)
(* i |-> 1..n].  Where FIFOBUF = FIFOBSZ, the link to the next buffer lies *)
(* over the first PTR bytes of a buffer (the union of fifo.h).             *)
(*                                                                         *)
(* Abstracted: SLOCKED and SWANT (the lock is a mutex), the time stamps,   *)
(* writes of more than PIPE_MAX = ~0 bytes, transfers of no bytes; a       *)
(* process has one descriptor at a time and selects only on it, so that    *)
(* nselcoll never changes between a scan and its sleep.                    *)
(***************************************************************************)
EXTENDS Integers, Sequences, FiniteSets

CONSTANTS
    Proc, NoProc,
    Node,           \* the fifonodes
    Modes,          \* the flags each process may open with
    Selects,        \* the kinds of select there are
    WriteSizes, ReadSizes,
    PIPE_BUF,       \* FIFOBUF: most bytes in a fifo
    PIPE_BSZ,       \* FIFOBSZ: bytes in a buffer
    PIPE_MNB,       \* FIFOMNB: fifo_alloc is kept around this
    PTR,            \* the size of a pointer
    Faults,         \* may uiomove fail?
    Signals,        \* are there signals?
    NoFd, NoChan, Garbage, Link

Kind == {"selR", "selW", "selX"}    \* FREAD, FWRITE and 0 of fifo_select
memory == <<"fifo_alloc">>
selwait == <<"selwait">>
Chan == (Node \X {"fn_rcnt", "fn_wcnt"}) \cup {memory, selwait}
Byte == [w : Proc, n : WriteSizes, i : Nat \ {0}]
Cell == Byte \cup {Garbage, Link}
Fd == [f : Node, r : BOOLEAN, w : BOOLEAN, nd : BOOLEAN]

(* FIFO_BUFFER_SIZE, and whether a buffer has a header of its own.         *)
LinkInData == PIPE_BUF = PIPE_BSZ
BufferSize == IF LinkInData THEN PIPE_BSZ ELSE PIPE_BSZ + PTR

ASSUME FifoConstants ==
    /\ IsFiniteSet(Proc)
    /\ NoProc \notin Proc /\ NoFd \notin Fd /\ NoChan \notin Chan
    /\ Modes \in [Proc -> SUBSET {m \in [r : BOOLEAN, w : BOOLEAN, nd : BOOLEAN] : m.r \/ m.w}]
    /\ Selects \subseteq Kind
    /\ WriteSizes \subseteq Nat \ {0} /\ ReadSizes \subseteq Nat \ {0}
    /\ PIPE_BSZ \in Nat \ {0} /\ PIPE_BUF \in Nat /\ PIPE_BUF >= PIPE_BSZ
    /\ PIPE_MNB \in Nat \ {0} /\ PTR \in 1 .. PIPE_BSZ
    /\ Faults \in BOOLEAN /\ Signals \in BOOLEAN
    /\ Garbage \notin Byte /\ Link \notin Byte \cup {Garbage}

VARIABLES
    pc, wchan,      \* where each process is; what it sleeps on
    fd,             \* its descriptor
    ocnt,           \* the size of its request
    resid,          \* uio_resid
    count,          \* bytes left of the piece it transfers
    lock,           \* FIFOLOCK
    rcnt, wcnt,     \* fn_rcnt, fn_wcnt
    blk,            \* FIFO_RBLK and FIFO_WBLK of fn_flag
    sel, coll,      \* fn_rsel, fn_wsel, fn_xsel; FIFO_?COLL
    buf,            \* the buffers, fn_buf to fn_bufend
    rptr, wptr, size,
    fifo_alloc      \* bytes reserved for all fifos

callvars == <<ocnt, resid, count>>
selvars == <<sel, coll>>
datavars == <<buf, rptr, wptr, size>>
vars == <<pc, wchan, fd, callvars, lock, rcnt, wcnt, blk, selvars, datavars, fifo_alloc>>

nbuf(f) == Len(buf[f])

Init ==
    /\ pc = [p \in Proc |-> "user"]
    /\ wchan = [p \in Proc |-> NoChan]
    /\ fd = [p \in Proc |-> NoFd]
    /\ ocnt = [p \in Proc |-> 0]
    /\ resid = [p \in Proc |-> 0]
    /\ count = [p \in Proc |-> 0]
    /\ lock = [f \in Node |-> NoProc]
    /\ rcnt = [f \in Node |-> 0]
    /\ wcnt = [f \in Node |-> 0]
    /\ blk = [f \in Node |-> {}]
    /\ sel = [f \in Node |-> [k \in Kind |-> NoProc]]
    /\ coll = [f \in Node |-> {}]
    /\ buf = [f \in Node |-> << >>]
    /\ rptr = [f \in Node |-> 0]
    /\ wptr = [f \in Node |-> 0]
    /\ size = [f \in Node |-> 0]
    /\ fifo_alloc = 0

-----------------------------------------------------------------------------
(* Sleeping and waking                                                     *)

Awake(p, l) == pc[p] = l /\ wchan[p] = NoChan

(* Mutant: selwakeup forgets the others that wait.                         *)
Selected_Named(f, K) ==
    {q \in Proc : wchan[q] = selwait /\ \E k \in K : q = sel[f][k]}

(* The processes that selwakeup(fn_?sel, fn_flag & FIFO_?COLL) wakes.      *)
Selected(f, K) ==
    {q \in Proc : /\ wchan[q] = selwait
                  /\ \E k \in K : /\ sel[f][k] # NoProc
                                  /\ q = sel[f][k] \/ k \in coll[f]}

(* p goes to l and sleeps on c (or NoChan); the sleepers of the channels   *)
(* in C and the processes in Q wake up.                                    *)
Goto(p, l, c, C, Q) ==
    /\ pc' = [pc EXCEPT ![p] = l]
    /\ wchan' = [q \in Proc |-> IF q = p THEN c
                                ELSE IF wchan[q] \in C \/ q \in Q THEN NoChan
                                ELSE wchan[q]]

(* selwakeup and the reset of fn_?sel and FIFO_?COLL.                      *)
Deselect(f, K) ==
    /\ sel' = [sel EXCEPT ![f] = [k \in Kind |-> IF k \in K THEN NoProc ELSE @[k]]]
    /\ coll' = [coll EXCEPT ![f] = @ \ K]

(* Mutant: wakeup only if there was more than PIPE_MNB.                    *)
FreeWakes_Above(n) == IF n > 0 /\ fifo_alloc > PIPE_MNB THEN {memory} ELSE {}

(* wakeup((caddr_t) &fifo_alloc) of fifo_buffree, for n buffers.           *)
FreeWakes(n) == IF n > 0 /\ fifo_alloc >= PIPE_MNB THEN {memory} ELSE {}

(* The call returns and lets go of the lock, if p has it.                  *)
EndCall(p) ==
    /\ lock' = [f \in Node |-> IF lock[f] = p THEN NoProc ELSE lock[f]]
    /\ ocnt' = [ocnt EXCEPT ![p] = 0]
    /\ resid' = [resid EXCEPT ![p] = 0]
    /\ count' = [count EXCEPT ![p] = 0]

-----------------------------------------------------------------------------
(* fifo_open and fifo_close                                                *)

(* The loops at the end of fifo_open, with rc readers and wc writers: p    *)
(* sleeps or returns.  C are the channels it has woken.                    *)
OpenWaits(p, d, rc, wc, C) ==
    \/ /\ d.r /\ wc = 0 /\ ~d.nd /\ size[d.f] = 0
       /\ Goto(p, "oread", <<d.f, "fn_wcnt">>, C, {})
    \/ /\ ~d.r /\ rc = 0
       /\ Goto(p, "owrite", <<d.f, "fn_rcnt">>, C, {})
    \/ /\ d.r => wc # 0 \/ d.nd \/ size[d.f] # 0
       /\ d.r \/ rc # 0
       /\ Goto(p, "user", NoChan, C, {})

Refused(d) == d.w /\ ~d.r /\ d.nd /\ rcnt[d.f] = 0     \* ENXIO

(* The counts of ends that a descriptor holds open.                        *)
Ends(b) == IF b THEN 1 ELSE 0

fifo_open(p, f, m) ==
    LET d == [f |-> f, r |-> m.r, w |-> m.w, nd |-> m.nd]
        rc == rcnt[f] + Ends(m.r)
        wc == wcnt[f] + Ends(m.w)
        C == {c \in Node \X {"fn_rcnt", "fn_wcnt"} :
                 /\ c[1] = f
                 /\ IF c[2] = "fn_rcnt" THEN m.r /\ rcnt[f] = 0 ELSE m.w /\ wcnt[f] = 0}
    IN
    /\ pc[p] = "user" /\ fd[p] = NoFd
    /\ ~Refused(d)
    /\ fd' = [fd EXCEPT ![p] = d]
    /\ rcnt' = [rcnt EXCEPT ![f] = rc]
    /\ wcnt' = [wcnt EXCEPT ![f] = wc]
    /\ OpenWaits(p, d, rc, wc, C)
    /\ UNCHANGED <<callvars, lock, blk, selvars, datavars, fifo_alloc>>

OpenAgain(p) ==
    /\ Awake(p, "oread") \/ Awake(p, "owrite")
    /\ OpenWaits(p, fd[p], rcnt[fd[p].f], wcnt[fd[p].f], {})
    /\ UNCHANGED <<fd, callvars, lock, rcnt, wcnt, blk, selvars, datavars, fifo_alloc>>

(* Mutant: the last writer does not wake the readers.                      *)
Unblocks_Writers(d, rc, wc) == {b \in blk[d.f] : b = "WBLK" /\ d.r /\ rc = 0}

(* The flags that a close resets, waking who set them.                     *)
Unblocks(d, rc, wc) ==
    {b \in blk[d.f] : \/ b = "WBLK" /\ d.r /\ rc = 0
                      \/ b = "RBLK" /\ d.w /\ wc = 0}

(* fifo_close, by an opener that was interrupted too.                      *)
CloseEnds(p) ==
    LET d == fd[p]
        f == d.f
        rc == rcnt[f] - Ends(d.r)
        wc == wcnt[f] - Ends(d.w)
        B == Unblocks(d, rc, wc)
        K == {k \in {"selX"} : d.r /\ rc = 0}
        freed == IF rc = 0 /\ wc = 0 THEN nbuf(f) ELSE 0
    IN
    /\ fd' = [fd EXCEPT ![p] = NoFd]
    /\ rcnt' = [rcnt EXCEPT ![f] = rc]
    /\ wcnt' = [wcnt EXCEPT ![f] = wc]
    /\ blk' = [blk EXCEPT ![f] = @ \ B]
    /\ Deselect(f, K)
    /\ Goto(p, "user", NoChan,
            {<<f, IF b = "WBLK" THEN "fn_wcnt" ELSE "fn_rcnt">> : b \in B} \cup FreeWakes(freed),
            Selected(f, K))
    /\ IF rc = 0 /\ wc = 0
       THEN /\ buf' = [buf EXCEPT ![f] = << >>]
            /\ rptr' = [rptr EXCEPT ![f] = 0]
            /\ wptr' = [wptr EXCEPT ![f] = 0]
            /\ size' = [size EXCEPT ![f] = 0]
       ELSE UNCHANGED datavars
    /\ fifo_alloc' = fifo_alloc - freed * BufferSize
    /\ UNCHANGED <<callvars, lock>>

fifo_close(p) == pc[p] = "user" /\ fd[p] # NoFd /\ CloseEnds(p)

(* Mutant: an interrupted open does not give its ends back.                *)
OpenInterrupted_Keeps(p) ==
    /\ Signals /\ pc[p] \in {"oread", "owrite"}
    /\ fd' = [fd EXCEPT ![p] = NoFd]
    /\ Goto(p, "user", NoChan, {}, {})
    /\ UNCHANGED <<callvars, lock, rcnt, wcnt, blk, selvars, datavars, fifo_alloc>>

OpenInterrupted(p) == Signals /\ pc[p] \in {"oread", "owrite"} /\ CloseEnds(p)

-----------------------------------------------------------------------------
(* fifo_rdwr, UIO_WRITE                                                    *)

Free(f, p) == lock[f] \in {NoProc, p}
Lock(f, p) == lock' = [lock EXCEPT ![f] = p]
Unlock(f) == lock' = [lock EXCEPT ![f] = NoProc]

Write(p, n) ==
    /\ pc[p] = "user" /\ fd[p] # NoFd /\ fd[p].w
    /\ pc' = [pc EXCEPT ![p] = "wtop"]
    /\ ocnt' = [ocnt EXCEPT ![p] = n]
    /\ resid' = [resid EXCEPT ![p] = n]
    /\ UNCHANGED <<wchan, fd, count, lock, rcnt, wcnt, blk, selvars, datavars, fifo_alloc>>

(* The top of the loop, with the lock.                                     *)
AtWriteTop(p) ==
    /\ Awake(p, "wtop") \/ Awake(p, "wsleep")
    /\ Free(fd[p].f, p)

Fits(p) == resid[p] + size[fd[p].f] <= PIPE_BUF
Full(p) == size[fd[p].f] >= PIPE_BUF

(* Mutant: whatever fits is written.                                       *)
WriteNow_Part(p) == IF Fits(p) THEN resid[p] ELSE PIPE_BUF - size[fd[p].f]

(* The part of the request that can be written now; 0 if none can.         *)
WriteNow(p) ==
    IF Fits(p) THEN resid[p]
    ELSE IF resid[p] <= PIPE_BUF \/ Full(p) THEN 0
    ELSE PIPE_BUF - size[fd[p].f]

(* EPIPE, or EWOULDBLOCK or a short count for IO_NDELAY.                   *)
WriteFails(p) ==
    /\ AtWriteTop(p)
    /\ \/ rcnt[fd[p].f] = 0
       \/ WriteNow(p) = 0 /\ fd[p].nd
    /\ EndCall(p)
    /\ Goto(p, "user", NoChan, {}, {})
    /\ UNCHANGED <<fd, rcnt, wcnt, blk, selvars, datavars, fifo_alloc>>

WriteSleeps(p) ==
    LET f == fd[p].f IN
    /\ AtWriteTop(p)
    /\ rcnt[f] # 0 /\ WriteNow(p) = 0 /\ ~fd[p].nd
    /\ blk' = [blk EXCEPT ![f] = @ \cup {"WBLK"}]
    /\ Unlock(f)
    /\ Goto(p, "wsleep", <<f, "fn_wcnt">>, {}, {})
    /\ UNCHANGED <<fd, callvars, rcnt, wcnt, selvars, datavars, fifo_alloc>>

WriteStarts(p) ==
    /\ AtWriteTop(p)
    /\ rcnt[fd[p].f] # 0 /\ WriteNow(p) # 0
    /\ count' = [count EXCEPT ![p] = WriteNow(p)]
    /\ Lock(fd[p].f, p)
    /\ Goto(p, "walloc", NoChan, {}, {})
    /\ UNCHANGED <<fd, ocnt, resid, rcnt, wcnt, blk, selvars, datavars, fifo_alloc>>

NeedsBuffer(p) == nbuf(fd[p].f) * PIPE_BSZ - wptr[fd[p].f] < count[p]

(* fifo_bufalloc: beyond PIPE_MNB it unlocks, sleeps and returns NULL.     *)
AllocSleeps(p) ==
    /\ pc[p] = "walloc" /\ NeedsBuffer(p)
    /\ fifo_alloc >= PIPE_MNB
    /\ Unlock(fd[p].f)
    /\ Goto(p, "wsleep", memory, {}, {})
    /\ UNCHANGED <<fd, callvars, rcnt, wcnt, blk, selvars, datavars, fifo_alloc>>

(* Mutant: only the data are counted.                                      *)
AllocReserves_Data(p) ==
    /\ pc[p] = "walloc" /\ NeedsBuffer(p)
    /\ fifo_alloc < PIPE_MNB
    /\ fifo_alloc' = fifo_alloc + PIPE_BSZ
    /\ Goto(p, "kmem", NoChan, {}, {})
    /\ UNCHANGED <<fd, callvars, lock, rcnt, wcnt, blk, selvars, datavars>>

AllocReserves(p) ==
    /\ pc[p] = "walloc" /\ NeedsBuffer(p)
    /\ fifo_alloc < PIPE_MNB
    /\ fifo_alloc' = fifo_alloc + BufferSize
    /\ Goto(p, "kmem", NoChan, {}, {})
    /\ UNCHANGED <<fd, callvars, lock, rcnt, wcnt, blk, selvars, datavars>>

(* kmem_alloc returns; fn_bufend->fb_next = bp.                            *)
Fresh == [o \in 1 .. PIPE_BSZ |-> Garbage]
Linked(b) ==
    IF LinkInData THEN [o \in 1 .. PIPE_BSZ |-> IF o <= PTR THEN Link ELSE b[o]] ELSE b

Grown(f) ==
    IF buf[f] = << >> THEN <<Fresh>>
    ELSE Append([buf[f] EXCEPT ![nbuf(f)] = Linked(@)], Fresh)

fifo_bufalloc(p) ==
    LET f == fd[p].f IN
    /\ pc[p] = "kmem"
    /\ buf' = [buf EXCEPT ![f] = Grown(f)]
    /\ Goto(p, "walloc", NoChan, {}, {})
    /\ UNCHANGED <<fd, callvars, lock, rcnt, wcnt, blk, selvars, rptr, wptr, size, fifo_alloc>>

WriteCopies(p) ==
    /\ pc[p] = "walloc" /\ ~NeedsBuffer(p)
    /\ Goto(p, "wcopy", NoChan, {}, {})
    /\ UNCHANGED <<fd, callvars, lock, rcnt, wcnt, blk, selvars, datavars, fifo_alloc>>

(* Offset o from the start of the first buffer is cell o % PIPE_BSZ + 1 of *)
(* buffer o \div PIPE_BSZ + 1, if the links up to it are whole; a link    *)
(* that was written over leads nowhere.                                    *)
BufOf(o) == o \div PIPE_BSZ + 1
OffOf(o) == o % PIPE_BSZ
Reached(f, b) ==
    LinkInData => \A a \in 1 .. b - 1 : \A o \in 1 .. PTR : buf[f][a][o] = Link

(* What uiomove can transfer in one buffer from offset o.                  *)
Chunk(p, o) == IF count[p] <= PIPE_BSZ - OffOf(o) THEN count[p] ELSE PIPE_BSZ - OffOf(o)

(* uiomove(&bp->fb_data[off], i, UIO_WRITE, uiop)                          *)
Stored(p, f, i) ==
    LET b == BufOf(wptr[f])
        off == OffOf(wptr[f])
        given == ocnt[p] - resid[p]
    IN IF Reached(f, b)
       THEN [buf EXCEPT ![f][b] =
                [o \in 1 .. PIPE_BSZ |->
                    IF o \in off + 1 .. off + i
                    THEN [w |-> p, n |-> ocnt[p], i |-> given + o - off]
                    ELSE @[o]]]
       ELSE buf

CopyIn(p) ==
    LET f == fd[p].f
        i == Chunk(p, wptr[f])
        B == IF "RBLK" \in blk[f] THEN {<<f, "fn_rcnt">>} ELSE {}
    IN
    /\ pc[p] = "wcopy"
    /\ buf' = Stored(p, f, i)
    /\ size' = [size EXCEPT ![f] = @ + i]
    /\ wptr' = [wptr EXCEPT ![f] = @ + i]
    /\ IF count[p] > i
       THEN /\ count' = [count EXCEPT ![p] = @ - i]
            /\ resid' = [resid EXCEPT ![p] = @ - i]
            /\ UNCHANGED <<pc, wchan, ocnt, lock, blk, selvars>>
       ELSE /\ blk' = [blk EXCEPT ![f] = @ \ {"RBLK"}]
            /\ Deselect(f, {"selR"})
            /\ IF resid[p] > i
               THEN /\ Goto(p, "wtop", NoChan, B, Selected(f, {"selR"}))
                    /\ count' = [count EXCEPT ![p] = 0]
                    /\ resid' = [resid EXCEPT ![p] = @ - i]
                    /\ UNCHANGED <<ocnt, lock>>
               ELSE /\ Goto(p, "user", NoChan, B, Selected(f, {"selR"}))
                    /\ EndCall(p)
    /\ UNCHANGED <<fd, rcnt, wcnt, rptr, fifo_alloc>>

-----------------------------------------------------------------------------
(* fifo_rdwr, UIO_READ                                                     *)

Read(p, n) ==
    /\ pc[p] = "user" /\ fd[p] # NoFd /\ fd[p].r
    /\ pc' = [pc EXCEPT ![p] = "rtop"]
    /\ ocnt' = [ocnt EXCEPT ![p] = n]
    /\ resid' = [resid EXCEPT ![p] = n]
    /\ UNCHANGED <<wchan, fd, count, lock, rcnt, wcnt, blk, selvars, datavars, fifo_alloc>>

AtReadTop(p) ==
    /\ Awake(p, "rtop") \/ Awake(p, "rsleep")
    /\ Free(fd[p].f, p)

(* End of file, or EWOULDBLOCK for IO_NDELAY.                              *)
ReadEnds(p) ==
    /\ AtReadTop(p)
    /\ size[fd[p].f] = 0 /\ (wcnt[fd[p].f] = 0 \/ fd[p].nd)
    /\ EndCall(p)
    /\ Goto(p, "user", NoChan, {}, {})
    /\ UNCHANGED <<fd, rcnt, wcnt, blk, selvars, datavars, fifo_alloc>>

ReadSleeps(p) ==
    LET f == fd[p].f IN
    /\ AtReadTop(p)
    /\ size[f] = 0 /\ wcnt[f] # 0 /\ ~fd[p].nd
    /\ blk' = [blk EXCEPT ![f] = @ \cup {"RBLK"}]
    /\ Unlock(f)
    /\ Goto(p, "rsleep", <<f, "fn_rcnt">>, {}, {})
    /\ UNCHANGED <<fd, callvars, rcnt, wcnt, selvars, datavars, fifo_alloc>>

(* What a read transfers; the mutant asks for all of the request.          *)
ReadNow_Asked(p) == resid[p]
ReadNow(p) == IF resid[p] <= size[fd[p].f] THEN resid[p] ELSE size[fd[p].f]

ReadStarts(p) ==
    LET f == fd[p].f IN
    /\ AtReadTop(p)
    /\ size[f] # 0
    /\ count' = [count EXCEPT ![p] = ReadNow(p)]
    /\ Lock(f, p)
    /\ Goto(p, "rcopy", NoChan, {}, {})
    /\ UNCHANGED <<fd, ocnt, resid, rcnt, wcnt, blk, selvars, datavars, fifo_alloc>>

(* Is the first buffer read to its end, i bytes further?  The mutant frees *)
(* it when the fifo is empty.                                              *)
Drained_Empty(f, i) == IF size[f] = i THEN 1 ELSE 0
Drained(f, i) == IF rptr[f] + i = PIPE_BSZ THEN 1 ELSE 0

CopyOut(p) ==
    LET f == fd[p].f
        i == Chunk(p, rptr[f])
        freed == Drained(f, i)
        last == count[p] = i
        B == IF last /\ "WBLK" \in blk[f] THEN {<<f, "fn_wcnt">>} ELSE {}
        K == IF last THEN {"selW"} ELSE {}
    IN
    /\ pc[p] = "rcopy"
    /\ size' = [size EXCEPT ![f] = @ - i]
    /\ rptr' = [rptr EXCEPT ![f] = IF freed = 1 THEN 0 ELSE @ + i]
    /\ wptr' = [wptr EXCEPT ![f] = @ - freed * PIPE_BSZ]
    /\ buf' = [buf EXCEPT ![f] = IF freed = 1 THEN Tail(@) ELSE @]
    /\ fifo_alloc' = fifo_alloc - freed * BufferSize
    /\ Deselect(f, K)
    /\ Goto(p, IF last THEN "user" ELSE "rcopy", NoChan, B \cup FreeWakes(freed), Selected(f, K))
    /\ IF last
       THEN /\ blk' = [blk EXCEPT ![f] = @ \ {"WBLK"}]
            /\ EndCall(p)
       ELSE /\ count' = [count EXCEPT ![p] = @ - i]
            /\ resid' = [resid EXCEPT ![p] = @ - i]
            /\ UNCHANGED <<blk, ocnt, lock>>
    /\ UNCHANGED <<fd, rcnt, wcnt>>

(* uiomove fails: the chunks before it stay done and nobody is woken.      *)
CopyFaults(p) ==
    /\ Faults /\ pc[p] \in {"wcopy", "rcopy"}
    /\ EndCall(p)
    /\ Goto(p, "user", NoChan, {}, {})
    /\ UNCHANGED <<fd, rcnt, wcnt, blk, selvars, datavars, fifo_alloc>>

(* longjmp out of a sleep at PPIPE: the lock is not held.  A process that  *)
(* was woken is interrupted as well: sleep looks for signals again when it *)
(* gets the CPU (kern_synch.c:157), before the process waits for the lock. *)
TransferInterrupted(p) ==
    /\ Signals /\ pc[p] \in {"wsleep", "rsleep"}
    /\ EndCall(p)
    /\ Goto(p, "user", NoChan, {}, {})
    /\ UNCHANGED <<fd, rcnt, wcnt, blk, selvars, datavars, fifo_alloc>>

-----------------------------------------------------------------------------
(* select on one descriptor                                                *)

Ready(f, k) ==
    CASE k = "selR" -> size[f] # 0
      [] k = "selW" -> size[f] < PIPE_BUF /\ rcnt[f] > 0
      [] k = "selX" -> rcnt[f] = 0

(* Does fn_?sel name somebody who sleeps in select?  The mutant does not   *)
(* look.                                                                   *)
Collides_Never(f, k) == FALSE
Collides(f, k) == sel[f][k] # NoProc /\ wchan[sel[f][k]] = selwait

(* fifo_select, then the sleep of select, for a first or a further scan.   *)
select(p, k) ==
    LET f == fd[p].f IN
    /\ fd[p] # NoFd /\ (Awake(p, "user") \/ Awake(p, k))
    /\ \/ /\ Ready(f, k)
          /\ Goto(p, "user", NoChan, {}, {})
          /\ UNCHANGED selvars
       \/ /\ ~Ready(f, k)
          /\ coll' = [coll EXCEPT ![f] = IF Collides(f, k) THEN @ \cup {k} ELSE @]
          /\ sel' = [sel EXCEPT ![f][k] = IF Collides(f, k) THEN @ ELSE p]
          /\ Goto(p, k, selwait, {}, {})
    /\ UNCHANGED <<fd, callvars, lock, rcnt, wcnt, blk, datavars, fifo_alloc>>

(* A signal, or select's timeout.                                          *)
SelectEnds(p) ==
    /\ pc[p] \in Kind
    /\ Goto(p, "user", NoChan, {}, {})
    /\ UNCHANGED <<fd, callvars, lock, rcnt, wcnt, blk, selvars, datavars, fifo_alloc>>

-----------------------------------------------------------------------------
UserStep(p) ==
    \/ \E f \in Node, m \in Modes[p] : fifo_open(p, f, m)
    \/ fifo_close(p)
    \/ \E n \in WriteSizes : Write(p, n)
    \/ \E n \in ReadSizes : Read(p, n)
    \/ \E k \in Selects : select(p, k)

KernelStep(p) ==
    \/ OpenAgain(p)
    \/ WriteFails(p) \/ WriteSleeps(p) \/ WriteStarts(p)
    \/ AllocSleeps(p) \/ AllocReserves(p) \/ fifo_bufalloc(p)
    \/ WriteCopies(p) \/ CopyIn(p)
    \/ ReadEnds(p) \/ ReadSleeps(p) \/ ReadStarts(p) \/ CopyOut(p)

Disturb(p) ==
    OpenInterrupted(p) \/ TransferInterrupted(p) \/ SelectEnds(p) \/ CopyFaults(p)

Next == \E p \in Proc : UserStep(p) \/ KernelStep(p) \/ Disturb(p)

Spec == Init /\ [][Next]_vars

(* A process in the kernel that can run does run; kmem_alloc and uiomove   *)
(* return.  Nothing is assumed of the users.                               *)
FairSpec == Spec /\ \A p \in Proc : WF_vars(KernelStep(p))

-----------------------------------------------------------------------------
(* Correctness                                                             *)

Holders == {"walloc", "kmem", "wcopy", "rcopy"}
Sleepers == {"oread", "owrite", "wsleep", "rsleep"} \cup Kind
WriteCall == {"wtop", "wsleep", "walloc", "kmem", "wcopy"}
ReadCall == {"rtop", "rsleep", "rcopy"}
Writing(p, f) == fd[p] # NoFd /\ fd[p].f = f /\ pc[p] \in WriteCall
Reading(p, f) == fd[p] # NoFd /\ fd[p].f = f /\ pc[p] \in ReadCall
Readers(f) == {p \in Proc : fd[p] # NoFd /\ fd[p].f = f /\ fd[p].r}
Writers(f) == {p \in Proc : fd[p] # NoFd /\ fd[p].f = f /\ fd[p].w}

(* The types of the variables.  Whoever sleeps sleeps where the code       *)
(* sleeps, and holds no lock.                                              *)
TypeOK ==
    /\ pc \in [Proc -> {"user", "wtop", "rtop"} \cup Holders \cup Sleepers]
    /\ wchan \in [Proc -> Chan \cup {NoChan}]
    /\ fd \in [Proc -> Fd \cup {NoFd}]
    /\ ocnt \in [Proc -> Nat] /\ resid \in [Proc -> Nat] /\ count \in [Proc -> Nat]
    /\ lock \in [Node -> Proc \cup {NoProc}]
    /\ rcnt \in [Node -> Nat] /\ wcnt \in [Node -> Nat]
    /\ blk \in [Node -> SUBSET {"RBLK", "WBLK"}]
    /\ sel \in [Node -> [Kind -> Proc \cup {NoProc}]]
    /\ coll \in [Node -> SUBSET Kind]
    /\ buf \in [Node -> Seq([1 .. PIPE_BSZ -> Cell])]
    /\ rptr \in [Node -> Nat] /\ wptr \in [Node -> Nat] /\ size \in [Node -> Nat]
    /\ fifo_alloc \in Nat

(* The lock of a fifo is held by the process that is in the middle of a    *)
(* transfer on it, which has it open; it keeps everyone else out.          *)
LockHeld ==
    \A p \in Proc : pc[p] \in Holders => fd[p] # NoFd /\ lock[fd[p].f] = p

(* The checks that fifo_rdwr makes under SANITY (fifo_vnodeops.c:292-301,  *)
(* 392-402, 426) hold at every step of every process, and a fifo never     *)
(* holds more than PIPE_BUF bytes.                                         *)
Pointers ==
    \A f \in Node :
        /\ wptr[f] - rptr[f] = size[f]
        /\ rptr[f] < PIPE_BSZ
        /\ wptr[f] <= nbuf(f) * PIPE_BSZ
        /\ size[f] <= PIPE_BUF

(* fn_rcnt and fn_wcnt are the numbers of processes that have the fifo     *)
(* open for reading and for writing, those that are still in open          *)
(* included: an interrupted open gives back exactly what it took.          *)
EndsCounted ==
    \A f \in Node :
        /\ rcnt[f] = Cardinality(Readers(f))
        /\ wcnt[f] = Cardinality(Writers(f))

(* Nobody sleeps on a fifo whose state lets him go on: each sleeper's      *)
(* condition, read off the loop it sleeps in, is false whenever the lock   *)
(* is free.  After a fault of uiomove a reader may sleep though bytes came *)
(* in, and a writer though bytes went out; but their flag stays set, so    *)
(* the next transfer or the last close of the other side wakes them.  (A   *)
(* select for writing is left out: a reader's open does not wake it.)      *)
NoLostWakeup ==
    \A p \in Proc :
        LET f == fd[p].f IN
        wchan[p] \in Chan /\ fd[p] # NoFd /\ lock[f] = NoProc =>
            /\ pc[p] = "oread" => wcnt[f] = 0 /\ size[f] = 0
            /\ pc[p] = "owrite" => rcnt[f] = 0
            /\ pc[p] = "rsleep" =>
                  "RBLK" \in blk[f] /\ wcnt[f] # 0 /\ (size[f] = 0 \/ Faults)
            /\ pc[p] = "wsleep" =>
                  \/ wchan[p] = memory /\ fifo_alloc >= PIPE_MNB
                  \/ /\ "WBLK" \in blk[f] /\ rcnt[f] # 0
                     /\ WriteNow(p) = 0 \/ Faults
            /\ pc[p] = "selR" => size[f] = 0 \/ Faults
            /\ pc[p] = "selX" => rcnt[f] # 0

(* The buffers of all fifos, each named by its fifo and its place in it.   *)
Buffers == UNION {{f} \X (1 .. nbuf(f)) : f \in Node}

(* The memory of all fifos together: fifo_alloc counts every buffer, those *)
(* kmem_alloc has not delivered yet included, and exceeds PIPE_MNB by less *)
(* than one buffer.                                                        *)
MemoryCounted ==
    /\ fifo_alloc = BufferSize * (Cardinality(Buffers) + Cardinality({p \in Proc : pc[p] = "kmem"}))
    /\ fifo_alloc < PIPE_MNB + BufferSize

(* A process that sleeps in select is known to the fifo: it is the one     *)
(* that fn_?sel names, or FIFO_?COLL says that there are more.             *)
SelectorsKnown ==
    \A p \in Proc : pc[p] \in Kind /\ wchan[p] = selwait =>
        LET f == fd[p].f IN
        sel[f][pc[p]] # NoProc /\ (sel[f][pc[p]] = p \/ pc[p] \in coll[f])

(* The other side's leaving is always noticed: a process in read returns   *)
(* once the writers are gone, and one in write once the readers are gone,  *)
(* unless it waits for memory (which no close of its own readers ends).    *)
HangupSeen ==
    \A p \in Proc, f \in Node :
        /\ (Reading(p, f) /\ wcnt[f] = 0) ~> (pc[p] = "user" \/ wcnt[f] # 0)
        /\ (Writing(p, f) /\ rcnt[f] = 0) ~>
              (pc[p] = "user" \/ rcnt[f] # 0 \/ wchan[p] = memory)

-----------------------------------------------------------------------------
(* The fifo as a stream of bytes                                           *)

ByteAt(f, o) == IF Reached(f, BufOf(o)) THEN buf[f][BufOf(o)][OffOf(o) + 1] ELSE Garbage
Contents(f) == [k \in 1 .. size[f] |-> ByteAt(f, rptr[f] + k - 1)]

(* What lies between fn_rptr and fn_wptr are bytes that somebody wrote.    *)
Intact == \A f \in Node : \A k \in 1 .. size[f] : Contents(f)[k] \in Byte

(* A write of at most PIPE_BUF bytes is not seen before its last chunk is  *)
(* in: until then its writer has the lock.                                 *)
Unseen(f) ==
    IF \E p \in Proc : lock[f] = p /\ pc[p] = "wcopy" /\ ocnt[p] <= PIPE_BUF
    THEN ocnt[lock[f]] - resid[lock[f]] ELSE 0
Visible(f) == SubSeq(Contents(f), 1, size[f] - Unseen(f))

Handed(f) ==
    [p \in Proc |-> IF Writing(p, f) /\ resid[p] < ocnt[p] /\ ocnt[p] > PIPE_BUF
                    THEN <<ocnt[p], ocnt[p] - resid[p]>> ELSE <<0, 0>>]
=============================================================================
