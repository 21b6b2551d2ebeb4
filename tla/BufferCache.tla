---------------------------- MODULE BufferCache ----------------------------
(***************************************************************************)
(* The block buffer cache of the SunOS 3.4 kernel: sys/vfs_bio.c with the  *)
(* memory allocator of sun/ufs_machdep.c.                                  *)
(*                                                                         *)
(* The kernel is uniprocessor and non-preemptive.  A process that entered  *)
(* it keeps the CPU (variable cpu) until it sleeps or is back in its       *)
(* client; the only activity that can come between two of its steps is the *)
(* disk interrupt (Biodone).  A step below is the code between two places  *)
(* where that interrupt, or a sleep, can be told from anything else.       *)
(*                                                                         *)
(* Abstracted: the order inside a free list or hash chain (a step takes    *)
(* any eligible buffer; the preference AGE before LRU is kept), the hash   *)
(* function (buffers that overlap are always on one chain, since BUFHASH   *)
(* drops the offset inside MAXBSIZE and no request crosses such a          *)
(* boundary), accounting and tracing.  B_LOCKED is set nowhere in this     *)
(* kernel, so BQ_LOCKED stays empty and its branches are left out; B_CALL  *)
(* belongs to swap I/O, whose headers are not in this pool.  VN_HOLD and   *)
(* VN_RELE are taken not to sleep.                                         *)
(*                                                                         *)
(* Sizes and block numbers count fragments.  Contents are abstracted to    *)
(* "is this the last value written": mem[b] is the set of fragments whose  *)
(* last value buffer b's memory holds, disk those the disk holds.          *)
(***************************************************************************)
EXTENDS Integers, FiniteSets

CONSTANTS
    Proc,       \* processes inside the kernel
    Buf,        \* buffer headers (nbuf)
    Vnode,      \* vnodes with blocks in the cache
    BlkNo,      \* fragment numbers of a vnode
    BufSize0,   \* binit's share of buffer memory, in fragments, per header
    CL,         \* CLBYTES, in fragments
    ReadReqs,   \* [vp, blkno, size] that clients bread
    WriteReqs,  \* [vp, blkno, size] that clients getblk and overwrite whole
    RaReqs,     \* the read-ahead blocks breada is called with
    FlushReqs,  \* the extents blkflush is called with
    EblkSizes,  \* sizes geteblk is called with
    GrowBy,     \* fragments realloccg adds to a block it holds
    FlushVnodes, InvalVnodes,   \* arguments of bflush and binvalfree
    RelFlags, WriteFlags,       \* flags clients set before brelse, bwrite
    IOErrors,   \* may the driver report an error?
    NoProc, NoBuf, NoVnode, NoChan, FreeList

Request == [vp : Vnode, blkno : BlkNo, size : Nat \ {0}]
Request0 == [vp : Vnode \cup {NoVnode}, blkno : Nat, size : Nat \ {0}]
BlockRequest(n) == [vp |-> NoVnode, blkno |-> 0, size |-> n]
VnodeRequest(v) == [vp |-> v, blkno |-> 0, size |-> 1]

Ext(vp, blkno, n) == {vp} \X (blkno .. blkno + n - 1)
(* Mutant: the last fragment of a request is forgotten.                    *)
ReqExt_OneLess(r) == Ext(r.vp, r.blkno, r.size - 1)

ReqExt(r) == Ext(r.vp, r.blkno, r.size)

ASSUME ConstantTypes ==
    /\ BlkNo \subseteq Nat
    /\ CL \in Nat \ {0}
    /\ BufSize0 \in [Buf -> Nat]
    /\ ReadReqs \subseteq Request /\ WriteReqs \subseteq Request
    /\ RaReqs \subseteq Request /\ FlushReqs \subseteq Request
    /\ EblkSizes \subseteq Nat \ {0}
    /\ GrowBy \subseteq Nat \ {0}
    /\ FlushVnodes \subseteq Vnode \cup {NoVnode} /\ InvalVnodes \subseteq Vnode
    /\ RelFlags \subseteq SUBSET {"B_AGE", "B_NOCACHE"}
    /\ WriteFlags \subseteq SUBSET {"B_ASYNC", "B_AGE", "B_NOCACHE"}
    /\ IOErrors \in BOOLEAN

ASSUME DistinctConstants ==
    /\ NoProc \notin Proc
    /\ NoBuf \notin Buf
    /\ NoVnode \notin Vnode
    /\ NoChan \notin Buf \cup {FreeList}
    /\ FreeList \notin Buf

VARIABLES
    cpu,        \* the process running in the kernel, or NoProc
    pc,         \* where each process is
    wchan,      \* what it sleeps on
    call,       \* the client's call it executes
    req,        \* that call's vp, blkno, size
    rareq,      \* breada's rablkno, rabsize; realloccg's osize
    bp,         \* getblk's bp; the buffer handed to the client
    obp,        \* breada's bp, during the read-ahead
    wbp,        \* bwrite's bp
    ret,        \* where bwrite returns to
    buf,        \* the buffer headers
    freeWanted, \* B_WANTED of bfreelist[0]
    io,         \* the buffers the disk driver has
    mem, disk   \* who holds the last value of which fragment

args == <<call, req, rareq>>
data == <<mem, disk>>
vars == <<cpu, pc, wchan, call, req, rareq, bp, obp, wbp, ret,
          buf, freeWanted, io, mem, disk>>

Flag == {"B_BUSY", "B_WANTED", "B_DONE", "B_DELWRI", "B_ASYNC", "B_READ",
         "B_ERROR", "B_INVAL", "B_AGE", "B_NOCACHE"}
Queue == {"LRU", "AGE", "EMPTY", "none"}
Label == {"idle", "hold", "getblk", "getnewbuf", "brealloc", "overlap",
          "allocbuf", "got", "rahead", "ralast", "biowait", "bwait",
          "setage", "blkflush", "bflush", "binvalfree"}
Call == {"none", "bread", "breada", "readahead", "getblk", "geteblk",
         "realloc", "blkflush", "bflush", "binvalfree"}
Frag == (Vnode \cup {NoVnode}) \X Nat

BufRec == [flags : SUBSET Flag, vp : Vnode \cup {NoVnode}, blkno : Nat,
           bcount : Nat, bufsize : Nat, queue : Queue]

-----------------------------------------------------------------------------
(* Buffer headers                                                          *)

Has(b, f) == f \in buf[b].flags
BufExt(b) == Ext(buf[b].vp, buf[b].blkno, buf[b].bcount)

(* Mutant: the search does not look at B_INVAL.                            *)
Matches_AnyFlags(b, r) == buf[b].vp = r.vp /\ buf[b].blkno = r.blkno

(* A buffer that a search of the hash chain for a block stops at.          *)
Matches(b, r) ==
    buf[b].vp = r.vp /\ buf[b].blkno = r.blkno /\ ~Has(b, "B_INVAL")

(* A buffer that the overlap searches stop at; one with b_bcount 0 maps no *)
(* fragment and is passed over.                                            *)
Overlaps(b, ext) == ~Has(b, "B_INVAL") /\ BufExt(b) \cap ext # {}

(* Mutant: rounded down.                                                   *)
roundup_Down(n) == CL * ((n - 1) \div CL)

(* Memory comes in clusters.                                               *)
roundup(n) == CL * ((n + CL - 1) \div CL)

incore(r) == \E b \in Buf : Matches(b, r)

(* Mutant: the buffer is not marked busy.                                  *)
notavail_NotBusy(h) == [h EXCEPT !.queue = "none"]

(* notavail: off its free list, busy.                                      *)
notavail(h) == [h EXCEPT !.queue = "none", !.flags = @ \cup {"B_BUSY"}]

brelvp(h) == [h EXCEPT !.vp = NoVnode]

(* brelse's effect on the header.                                          *)
Released(h) ==
    LET fl == h.flags \cup (IF "B_NOCACHE" \in h.flags THEN {"B_INVAL"} ELSE {})
    IN  [h EXCEPT
          !.vp    = IF "B_ERROR" \in fl THEN NoVnode ELSE @,
          !.queue = CASE h.bufsize = 0                          -> "EMPTY"
                      [] h.bufsize # 0 /\ (fl \cap {"B_ERROR", "B_INVAL", "B_AGE"} # {})
                                                                -> "AGE"
                      [] OTHER                                  -> "LRU",
          !.flags = fl \ {"B_WANTED", "B_BUSY", "B_ASYNC", "B_AGE", "B_NOCACHE"}]

(* Mutant: B_DONE of the transfer before is left set.                      *)
Writing_KeepsDone(h) ==
    [h EXCEPT !.flags = @ \ {"B_READ", "B_ERROR", "B_DELWRI"}]

(* Mutant: B_READ of an earlier read is left set, the driver reads.        *)
Writing_KeepsRead(h) ==
    [h EXCEPT !.flags = @ \ {"B_DONE", "B_ERROR", "B_DELWRI"}]

(* The header bwrite hands to the driver.                                  *)
Writing(h) == [h EXCEPT !.flags = @ \ {"B_READ", "B_DONE", "B_ERROR", "B_DELWRI"}]

(* The headers with memory that getnewbuf chooses from: AGE, then LRU.     *)
OnQueue(q) == {b \in Buf : buf[b].queue = q}
NewBufChoices == IF OnQueue("AGE") # {} THEN OnQueue("AGE") ELSE OnQueue("LRU")

-----------------------------------------------------------------------------
(* Processes                                                               *)

(* p may take a step at label l: it is awake and no other process is in    *)
(* the middle of one.                                                      *)
At(p, l) == pc[p] = l /\ wchan[p] = NoChan /\ cpu \in {p, NoProc}

(* p goes on at label l; it gives the CPU up only outside the cache code.  *)
Goto(p, l) ==
    /\ pc' = [pc EXCEPT ![p] = l]
    /\ cpu' = IF l \in {"idle", "hold"} THEN NoProc ELSE p

(* A step of p that only decides where it goes on.                         *)
Branch(p, l) ==
    /\ Goto(p, l)
    /\ UNCHANGED <<wchan, args, bp, obp, wbp, ret, buf, freeWanted, io, data>>

(* sleep(ch): p retries from the label it is at when it is woken.          *)
Sleep(p, ch) ==
    /\ wchan' = [wchan EXCEPT ![p] = ch]
    /\ cpu' = NoProc
    /\ UNCHANGED pc

(* wakeup of every process that sleeps on a channel of chans.              *)
Wakeup(chans) ==
    wchan' = [q \in Proc |-> IF wchan[q] \in chans THEN NoChan ELSE wchan[q]]

(* Mutant: only those who want this buffer are woken, not those who want   *)
(* any buffer.                                                             *)
BrelseWakeup_ThisOnly(b, h) ==
    /\ Wakeup(IF "B_WANTED" \in h.flags THEN {b} ELSE {})
    /\ freeWanted' = FALSE

(* The wakeups of brelse(b), with h the header at the call.                *)
BrelseWakeup(b, h) ==
    /\ Wakeup((IF "B_WANTED" \in h.flags THEN {b} ELSE {})
              \cup (IF freeWanted THEN {FreeList} ELSE {}))
    /\ freeWanted' = FALSE

brelse(b, h) ==
    /\ buf' = [buf EXCEPT ![b] = Released(h)]
    /\ BrelseWakeup(b, h)

(* VOP_STRATEGY: the driver gets the buffer.  It does not sleep, as the    *)
(* strategy routines of disk drivers do not.                               *)
Strategy(b, h) ==
    /\ buf' = [buf EXCEPT ![b] = h]
    /\ io' = io \cup {b}

(* bwrite(h) up to its return from the driver: p waits for a synchronous   *)
(* write; an asynchronous write of a delayed block still gets its B_AGE.   *)
bwrite(p, b, h, l) ==
    /\ Strategy(b, Writing(h))
    /\ IF "B_ASYNC" \in h.flags /\ "B_DELWRI" \notin h.flags
       THEN Goto(p, l) /\ UNCHANGED <<wbp, ret>>
       ELSE /\ wbp' = [wbp EXCEPT ![p] = b]
            /\ ret' = [ret EXCEPT ![p] = l]
            /\ Goto(p, IF "B_ASYNC" \in h.flags THEN "setage" ELSE "bwait")

(* The block getblk and brealloc work on for p.                            *)
CurReq(p) == IF call[p] = "readahead" THEN rareq[p] ELSE req[p]

Init ==
    /\ cpu = NoProc
    /\ pc = [p \in Proc |-> "idle"]
    /\ wchan = [p \in Proc |-> NoChan]
    /\ call = [p \in Proc |-> "none"]
    /\ req = [p \in Proc |-> BlockRequest(1)]
    /\ rareq = req
    /\ bp = [p \in Proc |-> NoBuf]
    /\ obp = [p \in Proc |-> NoBuf]
    /\ wbp = [p \in Proc |-> NoBuf]
    /\ ret = [p \in Proc |-> "idle"]
    /\ buf = [b \in Buf |-> Released([flags |-> {"B_BUSY", "B_INVAL"},
                vp |-> NoVnode, blkno |-> 0, bcount |-> 0,
                bufsize |-> BufSize0[b], queue |-> "none"])]
    /\ freeWanted = FALSE
    /\ io = {}
    /\ mem = [b \in Buf |-> {}]
    /\ disk = Vnode \X BlkNo

-----------------------------------------------------------------------------
(* Calls by clients that hold no buffer                                    *)

Enter(p, c, r, l) ==
    /\ At(p, "idle")
    /\ call' = [call EXCEPT ![p] = c]
    /\ req' = [req EXCEPT ![p] = r]
    /\ Goto(p, l)
    /\ UNCHANGED <<wchan, bp, obp, wbp, ret, buf, freeWanted, io, data>>

bread(p, r) == Enter(p, "bread", r, "getblk") /\ UNCHANGED rareq

(* breada: getblk and start the read only if the block is not in core.     *)
breada(p, r, ra) ==
    /\ rareq' = [rareq EXCEPT ![p] = ra]
    /\ IF incore(r) THEN Enter(p, "breada", r, "rahead")
                    ELSE Enter(p, "breada", r, "getblk")

getblk(p, r) == Enter(p, "getblk", r, "getblk") /\ UNCHANGED rareq

geteblk(p, n) ==
    Enter(p, "geteblk", BlockRequest(n), "getnewbuf") /\ UNCHANGED rareq

blkflush(p, r) == Enter(p, "blkflush", r, "blkflush") /\ UNCHANGED rareq

bflush(p, v) ==
    Enter(p, "bflush", VnodeRequest(v), "bflush") /\ UNCHANGED rareq

binvalfree(p, v) ==
    Enter(p, "binvalfree", VnodeRequest(v), "binvalfree") /\ UNCHANGED rareq

-----------------------------------------------------------------------------
(* The searches of the hash chain                                          *)

(* The buffers that p's search stops at: getblk's search for the block,    *)
(* brealloc's for the others that map a part of it, blkflush's.            *)
Found(p) ==
    CASE pc[p] = "getblk"   -> {b \in Buf : Matches(b, CurReq(p))}
      [] pc[p] = "overlap"  -> {b \in Buf \ {bp[p]} : Overlaps(b, ReqExt(CurReq(p)))}
      [] pc[p] = "blkflush" -> {b \in Buf : Overlaps(b, ReqExt(req[p]))}
      [] OTHER              -> {}

Searching(p) == \E l \in {"getblk", "overlap", "blkflush"} : At(p, l)

(* Mutant: the sleeper does not leave B_WANTED behind.                     *)
WaitBusy_NoWanted(p, b) ==
    /\ Searching(p) /\ b \in Found(p) /\ Has(b, "B_BUSY")
    /\ Sleep(p, b)
    /\ UNCHANGED <<args, bp, obp, wbp, ret, buf, freeWanted, io, data>>

(* A busy one is waited for, and the search starts again.                  *)
WaitBusy(p, b) ==
    /\ Searching(p) /\ b \in Found(p) /\ Has(b, "B_BUSY")
    /\ buf' = [buf EXCEPT ![b].flags = @ \cup {"B_WANTED"}]
    /\ Sleep(p, b)
    /\ UNCHANGED <<args, bp, obp, wbp, ret, freeWanted, io, data>>

(* brealloc and blkflush write a dirty one, and search again.              *)
WriteDirty(p, e) ==
    /\ At(p, "overlap") \/ At(p, "blkflush")
    /\ e \in Found(p) /\ ~Has(e, "B_BUSY") /\ Has(e, "B_DELWRI")
    /\ bwrite(p, e, notavail(buf[e]), pc[p])
    /\ UNCHANGED <<wchan, args, bp, obp, freeWanted, data>>

GetblkHit(p, b) ==
    /\ At(p, "getblk") /\ b \in Found(p) /\ ~Has(b, "B_BUSY")
    /\ buf' = [buf EXCEPT ![b] = notavail(@)]
    /\ bp' = [bp EXCEPT ![p] = b]
    /\ Goto(p, "brealloc")
    /\ UNCHANGED <<wchan, args, obp, wbp, ret, freeWanted, io, data>>

GetblkMiss(p) == At(p, "getblk") /\ Found(p) = {} /\ Branch(p, "getnewbuf")

-----------------------------------------------------------------------------
(* getnewbuf, called by getblk and geteblk (bp[p] not yet assigned) and by *)
(* allocbuf (bp[p] the buffer that needs memory)                           *)

GetnewbufWait(p) ==
    /\ At(p, "getnewbuf") /\ NewBufChoices = {}
    /\ freeWanted' = TRUE
    /\ Sleep(p, FreeList)
    /\ UNCHANGED <<args, bp, obp, wbp, ret, buf, io, data>>

GetnewbufPush(p, b) ==
    /\ At(p, "getnewbuf") /\ b \in NewBufChoices /\ Has(b, "B_DELWRI")
    /\ bwrite(p, b, [notavail(buf[b]) EXCEPT !.flags = @ \cup {"B_ASYNC"}],
              "getnewbuf")
    /\ UNCHANGED <<wchan, args, bp, obp, freeWanted, data>>

(* What getnewbuf returns: vnode dropped, flags set to B_BUSY alone.       *)
NewBuf(b) == [brelvp(notavail(buf[b])) EXCEPT !.flags = {"B_BUSY"}]

(* Mutant: a delayed write is not written before its buffer is reused.     *)
GetnewbufTake_Dirty(p, b) == At(p, "getnewbuf") /\ b \in NewBufChoices

GetnewbufTake(p, b) ==
    /\ At(p, "getnewbuf") /\ b \in NewBufChoices /\ ~Has(b, "B_DELWRI")

(* getblk gives the new buffer its identity without another look at the    *)
(* hash chain.                                                             *)
GetblkNew(p, b) ==
    /\ GetnewbufTake(p, b) /\ bp[p] = NoBuf /\ call[p] # "geteblk"
    /\ buf' = [buf EXCEPT ![b] = [NewBuf(b) EXCEPT
                 !.bcount = 0, !.vp = CurReq(p).vp, !.blkno = CurReq(p).blkno]]
    /\ mem' = [mem EXCEPT ![b] = {}]
    /\ bp' = [bp EXCEPT ![p] = b]
    /\ Goto(p, "brealloc")
    /\ UNCHANGED <<wchan, args, obp, wbp, ret, freeWanted, io, disk>>

GeteblkNew(p, b) ==
    /\ GetnewbufTake(p, b) /\ bp[p] = NoBuf /\ call[p] = "geteblk"
    /\ buf' = [buf EXCEPT ![b] = [NewBuf(b) EXCEPT
                 !.bcount = 0, !.flags = @ \cup {"B_INVAL"}]]
    /\ mem' = [mem EXCEPT ![b] = {}]
    /\ bp' = [bp EXCEPT ![p] = b]
    /\ Goto(p, "brealloc")
    /\ UNCHANGED <<wchan, args, obp, wbp, ret, freeWanted, io, disk>>

(* allocbuf takes what it needs of the buffer's memory from the end, and   *)
(* puts the rest, or the emptied header, back.                             *)
AllocbufTake(p, b) ==
    LET t    == bp[p]
        need == roundup(CurReq(p).size) - buf[t].bufsize
        take == IF need >= buf[b].bufsize THEN buf[b].bufsize ELSE need
        left == buf[b].bufsize - take
        h    == [NewBuf(b) EXCEPT
                   !.bufsize = left,
                   !.bcount = IF @ > left THEN left ELSE @,
                   !.flags = IF left = 0 THEN @ \cup {"B_INVAL"} ELSE @]
    IN  /\ GetnewbufTake(p, b)
        /\ t # NoBuf
        /\ buf' = [buf EXCEPT ![t].bufsize = @ + take, ![b] = Released(h)]
        /\ BrelseWakeup(b, h)
        /\ mem' = [mem EXCEPT ![b] = {}]
        /\ Goto(p, "allocbuf")
        /\ UNCHANGED <<args, bp, obp, wbp, ret, io, disk>>

-----------------------------------------------------------------------------
(* brealloc                                                                *)

BreallocSame(p) ==
    /\ At(p, "brealloc") /\ CurReq(p).size = buf[bp[p]].bcount
    /\ Branch(p, "got")

(* A dirty buffer that is to shrink is written and given up: getblk        *)
(* searches again.                                                         *)
BreallocWrite(p) ==
    LET b == bp[p] IN
    /\ At(p, "brealloc") /\ CurReq(p).size < buf[b].bcount
    /\ Has(b, "B_DELWRI")
    /\ bwrite(p, b, buf[b], "getblk")
    /\ bp' = [bp EXCEPT ![p] = NoBuf]
    /\ UNCHANGED <<wchan, args, obp, freeWanted, data>>

BreallocShrink(p) ==
    LET b == bp[p] IN
    /\ At(p, "brealloc") /\ CurReq(p).size < buf[b].bcount
    /\ ~Has(b, "B_DELWRI")
    /\ mem' = [mem EXCEPT ![b] = @ \cap ReqExt(CurReq(p))]
    /\ Goto(p, "allocbuf")
    /\ UNCHANGED <<wchan, args, bp, obp, wbp, ret, buf, freeWanted, io, disk>>

BreallocGrow(p) ==
    LET b == bp[p] IN
    /\ At(p, "brealloc") /\ CurReq(p).size > buf[b].bcount
    /\ buf' = [buf EXCEPT ![b].flags = @ \ {"B_DONE"}]
    /\ Goto(p, IF buf[b].vp = NoVnode THEN "allocbuf" ELSE "overlap")
    /\ UNCHANGED <<wchan, args, bp, obp, wbp, ret, freeWanted, io, data>>

OverlapInval(p, e) ==
    LET h == [notavail(buf[e]) EXCEPT !.flags = @ \cup {"B_INVAL"}] IN
    /\ At(p, "overlap") /\ e \in Found(p) /\ ~Has(e, "B_BUSY")
    /\ ~Has(e, "B_DELWRI")
    /\ brelse(e, h)
    /\ mem' = [mem EXCEPT ![e] = {}]
    /\ Goto(p, "overlap")
    /\ UNCHANGED <<args, bp, obp, wbp, ret, io, disk>>

(* Mutant: one pass over the chain, not repeated after a wait.             *)
OverlapDone_Once(p) == At(p, "overlap") /\ Branch(p, "allocbuf")

OverlapDone(p) == At(p, "overlap") /\ Found(p) = {} /\ Branch(p, "allocbuf")

-----------------------------------------------------------------------------
(* allocbuf                                                                *)

(* The memory fits, or is too much and no header is free to take the rest. *)
AllocbufFits(p) ==
    LET t == bp[p]
        n == CurReq(p).size IN
    /\ At(p, "allocbuf")
    /\ \/ roundup(n) = buf[t].bufsize
       \/ roundup(n) < buf[t].bufsize /\ OnQueue("EMPTY") = {}
    /\ buf' = [buf EXCEPT ![t].bcount = n]
    /\ Goto(p, "got")
    /\ UNCHANGED <<wchan, args, bp, obp, wbp, ret, freeWanted, io, data>>

(* Mutants: the difference the wrong way round; nothing is cut off.        *)
CutOff_Swapped(t, n) == roundup(n) - buf[t].bufsize
CutOff_Whole(t, n) == buf[t].bufsize

(* The memory a shrinking buffer has too much.                             *)
CutOff(t, n) == buf[t].bufsize - roundup(n)

AllocbufShrink(p, e) ==
    LET t == bp[p]
        n == CurReq(p).size
        h == [notavail(buf[e]) EXCEPT
                !.bufsize = CutOff(t, n),
                !.flags = @ \cup {"B_INVAL"}, !.bcount = 0] IN
    /\ At(p, "allocbuf") /\ roundup(n) < buf[t].bufsize
    /\ e \in OnQueue("EMPTY")
    /\ buf' = [buf EXCEPT ![t].bufsize = roundup(n), ![t].bcount = n,
                          ![e] = Released(h)]
    /\ BrelseWakeup(e, h)
    /\ Goto(p, "got")
    /\ UNCHANGED <<args, bp, obp, wbp, ret, io, data>>

AllocbufGrow(p) ==
    /\ At(p, "allocbuf") /\ roundup(CurReq(p).size) > buf[bp[p]].bufsize
    /\ Branch(p, "getnewbuf")

-----------------------------------------------------------------------------
(* getblk returned: what its caller does with the buffer                   *)

(* getblk and geteblk were called by the client, or bread found the data.  *)
GotReady(p) ==
    /\ At(p, "got")
    /\ \/ call[p] \in {"getblk", "geteblk"}
       \/ call[p] = "bread" /\ Has(bp[p], "B_DONE")
    /\ Branch(p, "hold")

Reading(b) == [buf[b] EXCEPT !.flags = @ \cup {"B_READ"}]

BreadStart(p) ==
    /\ At(p, "got") /\ call[p] = "bread" /\ ~Has(bp[p], "B_DONE")
    /\ Strategy(bp[p], Reading(bp[p]))
    /\ Goto(p, "biowait")
    /\ UNCHANGED <<wchan, args, bp, obp, wbp, ret, freeWanted, data>>

(* Mutant: the read-ahead is not marked B_ASYNC, so nobody releases it.    *)
ReadingAhead_Sync(b) == Reading(b)

ReadingAhead(b) == [buf[b] EXCEPT !.flags = @ \cup {"B_READ", "B_ASYNC"}]

(* breada keeps its buffer and turns to the read-ahead block.              *)
BreadaStart(p) ==
    /\ At(p, "got") /\ call[p] = "breada"
    /\ IF Has(bp[p], "B_DONE") THEN UNCHANGED <<buf, io>>
                               ELSE Strategy(bp[p], Reading(bp[p]))
    /\ obp' = [obp EXCEPT ![p] = bp[p]]
    /\ bp' = [bp EXCEPT ![p] = NoBuf]
    /\ Goto(p, "rahead")
    /\ UNCHANGED <<wchan, args, wbp, ret, freeWanted, data>>

(* Mutant: the block is asked for though another process may have it.      *)
ReadAhead_Always(p) ==
    /\ At(p, "rahead")
    /\ Goto(p, "getblk")
    /\ call' = [call EXCEPT ![p] = "readahead"]
    /\ UNCHANGED <<wchan, req, rareq, bp, obp, wbp, ret, buf, freeWanted, io, data>>

(* The read-ahead block is left alone if it is in core: it may be busy,    *)
(* and its owner may wait for the buffer that p has.                       *)
ReadAhead(p) ==
    /\ At(p, "rahead")
    /\ IF incore(rareq[p])
       THEN Goto(p, "ralast") /\ UNCHANGED call
       ELSE Goto(p, "getblk") /\ call' = [call EXCEPT ![p] = "readahead"]
    /\ UNCHANGED <<wchan, req, rareq, bp, obp, wbp, ret, buf, freeWanted, io, data>>

(* The read-ahead block: released if its data is there, else read without *)
(* waiting.                                                                *)
ReadAheadGot(p) ==
    LET b == bp[p] IN
    /\ At(p, "got") /\ call[p] = "readahead"
    /\ IF Has(b, "B_DONE")
       THEN brelse(b, buf[b]) /\ UNCHANGED io
       ELSE /\ Strategy(b, ReadingAhead(b))
            /\ UNCHANGED <<wchan, freeWanted>>
    /\ bp' = [bp EXCEPT ![p] = NoBuf]
    /\ call' = [call EXCEPT ![p] = "breada"]
    /\ Goto(p, "ralast")
    /\ UNCHANGED <<req, rareq, obp, wbp, ret, data>>

(* The end of breada: wait for the read it started, or bread the block     *)
(* that was in core when it looked.                                        *)
BreadaLast(p) ==
    /\ At(p, "ralast")
    /\ call' = [call EXCEPT ![p] = "bread"]
    /\ rareq' = [rareq EXCEPT ![p] = BlockRequest(1)]
    /\ IF obp[p] = NoBuf
       THEN Goto(p, "getblk") /\ UNCHANGED <<bp, obp>>
       ELSE /\ bp' = [bp EXCEPT ![p] = obp[p]]
            /\ obp' = [obp EXCEPT ![p] = NoBuf]
            /\ Goto(p, "biowait")
    /\ UNCHANGED <<wchan, req, wbp, ret, buf, freeWanted, io, data>>

(* realloccg: the grown buffer is valid, its new part zeroed.              *)
ReallocDone(p) ==
    LET b == bp[p]
        osize == rareq[p].size
        new == Ext(buf[b].vp, buf[b].blkno + osize, req[p].size - osize) IN
    /\ At(p, "got") /\ call[p] = "realloc"
    /\ buf' = [buf EXCEPT ![b].flags = @ \cup {"B_DONE"}]
    /\ mem' = [c \in Buf |-> IF c = b THEN mem[c] \cup new
                                        ELSE mem[c] \ new]
    /\ disk' = disk \ new
    /\ Goto(p, "hold")
    /\ UNCHANGED <<wchan, args, bp, obp, wbp, ret, freeWanted, io>>

-----------------------------------------------------------------------------
(* Waiting for the disk                                                    *)

(* biowait: test and sleep are at spl6, no interrupt comes between them.   *)
Biowait(p) ==
    /\ \/ At(p, "biowait") /\ ~Has(bp[p], "B_DONE") /\ Sleep(p, bp[p])
       \/ At(p, "bwait") /\ ~Has(wbp[p], "B_DONE") /\ Sleep(p, wbp[p])
    /\ UNCHANGED <<args, bp, obp, wbp, ret, buf, freeWanted, io, data>>

(* Mutant: biowait does not test B_DONE again after its sleep.             *)
BreadDone_Early(p) == At(p, "biowait") /\ Branch(p, "hold")

BreadDone(p) == At(p, "biowait") /\ Has(bp[p], "B_DONE") /\ Branch(p, "hold")

BwriteReturn(p) ==
    /\ Goto(p, ret[p])
    /\ wbp' = [wbp EXCEPT ![p] = NoBuf]
    /\ ret' = [ret EXCEPT ![p] = "idle"]

BwriteDone(p) ==
    /\ At(p, "bwait") /\ Has(wbp[p], "B_DONE")
    /\ brelse(wbp[p], buf[wbp[p]])
    /\ BwriteReturn(p)
    /\ UNCHANGED <<args, bp, obp, io, data>>

(* bwrite's last assignment; the write may have completed, and the buffer  *)
(* been released, before it.                                               *)
SetAge(p) ==
    /\ At(p, "setage")
    /\ buf' = [buf EXCEPT ![wbp[p]].flags = @ \cup {"B_AGE"}]
    /\ BwriteReturn(p)
    /\ UNCHANGED <<wchan, args, bp, obp, freeWanted, io, data>>

(* The disk interrupt: the driver reports b's transfer done.  After a      *)
(* failed write the value on the disk is the last one there is.            *)
Biodone(b, err) ==
    LET h == [buf[b] EXCEPT !.flags =
                @ \cup {"B_DONE"} \cup (IF err THEN {"B_ERROR"} ELSE {})] IN
    /\ b \in io
    /\ err => IOErrors
    /\ io' = io \ {b}
    /\ IF "B_ASYNC" \in h.flags
       THEN brelse(b, h)
       ELSE /\ buf' = [buf EXCEPT ![b] = [h EXCEPT !.flags = @ \ {"B_WANTED"}]]
            /\ Wakeup({b})
            /\ UNCHANGED freeWanted
    /\ IF "B_READ" \in h.flags
       THEN /\ mem' = [mem EXCEPT ![b] = IF err THEN {} ELSE disk \cap BufExt(b)]
            /\ UNCHANGED disk
       ELSE /\ disk' = IF err THEN disk \cup BufExt(b)
                       ELSE (disk \ BufExt(b)) \cup (mem[b] \cap BufExt(b))
            /\ mem' = [mem EXCEPT ![b] = IF err THEN {} ELSE @]
    /\ UNCHANGED <<cpu, pc, args, bp, obp, wbp, ret>>

-----------------------------------------------------------------------------
(* The flushing loops                                                      *)

(* The call is over.                                                       *)
Done(p) ==
    /\ call' = [call EXCEPT ![p] = "none"]
    /\ req' = [req EXCEPT ![p] = BlockRequest(1)]
    /\ rareq' = [rareq EXCEPT ![p] = BlockRequest(1)]

Return(p) == Goto(p, "idle") /\ Done(p)

(* Mutant: blkflush passes over busy buffers.                              *)
Flushed_OrBusy(e) == Has(e, "B_BUSY") \/ ~Has(e, "B_DELWRI")

(* blkflush passes over the buffer.                                        *)
Flushed(e) == ~Has(e, "B_BUSY") /\ ~Has(e, "B_DELWRI")

BlkflushDone(p) ==
    /\ At(p, "blkflush") /\ \A e \in Found(p) : Flushed(e)
    /\ Return(p)
    /\ UNCHANGED <<wchan, bp, obp, wbp, ret, buf, freeWanted, io, data>>

(* The free buffers of the vnode, or of all vnodes, that bflush and        *)
(* binvalfree come across.                                                 *)
FreeOf(v) == {b \in OnQueue("LRU") \cup OnQueue("AGE") :
                 v = NoVnode \/ buf[b].vp = v}

(* bflush and binvalfree start an asynchronous write of a delayed block.   *)
FlushPush(p, b) ==
    /\ \E l \in {"bflush", "binvalfree"} :
          /\ At(p, l)
          /\ bwrite(p, b, [notavail(buf[b]) EXCEPT !.flags = @ \cup {"B_ASYNC"}], l)
    /\ b \in FreeOf(req[p].vp) /\ Has(b, "B_DELWRI")
    /\ UNCHANGED <<wchan, args, bp, obp, freeWanted, data>>

BflushDone(p) ==
    /\ At(p, "bflush")
    /\ \A b \in FreeOf(req[p].vp) : ~Has(b, "B_DELWRI")
    /\ Return(p)
    /\ UNCHANGED <<wchan, bp, obp, wbp, ret, buf, freeWanted, io, data>>

(* A clean free buffer is invalidated where it is on its free list.        *)
BinvalfreeInval(p, b) ==
    /\ At(p, "binvalfree") /\ b \in FreeOf(req[p].vp) /\ ~Has(b, "B_DELWRI")
    /\ buf' = [buf EXCEPT ![b] = brelvp([buf[b] EXCEPT !.flags = @ \cup {"B_INVAL"}])]
    /\ mem' = [mem EXCEPT ![b] = {}]
    /\ Goto(p, "binvalfree")
    /\ UNCHANGED <<wchan, args, bp, obp, wbp, ret, freeWanted, io, disk>>

BinvalfreeDone(p) ==
    /\ At(p, "binvalfree") /\ FreeOf(req[p].vp) = {}
    /\ Return(p)
    /\ UNCHANGED <<wchan, bp, obp, wbp, ret, buf, freeWanted, io, data>>

-----------------------------------------------------------------------------
(* Calls by the client that holds bp[p].  A buffer with B_ERROR is only    *)
(* released; a buffer from getblk is overwritten whole and written.        *)

Give(p) == bp' = [bp EXCEPT ![p] = NoBuf]

Brelse(p, extra) ==
    LET b == bp[p] IN
    /\ At(p, "hold") /\ call[p] \in {"bread", "geteblk"}
    /\ "B_NOCACHE" \in extra => ~Has(b, "B_DELWRI")
    /\ brelse(b, [buf[b] EXCEPT !.flags = @ \cup extra])
    /\ Give(p)
    /\ Return(p)
    /\ UNCHANGED <<obp, wbp, ret, io, data>>

(* The client stores new data in its buffer.                               *)
Store(b) ==
    /\ mem' = [c \in Buf |-> IF c = b THEN mem[c] \cup BufExt(b)
                                      ELSE mem[c] \ BufExt(b)]
    /\ disk' = disk \ BufExt(b)

Writable(p) ==
    /\ At(p, "hold") /\ call[p] \in {"bread", "getblk", "realloc"}
    /\ ~Has(bp[p], "B_ERROR")

(* bwrite and, with B_ASYNC among the flags, bawrite.                      *)
Bwrite(p, extra) ==
    LET b == bp[p] IN
    /\ Writable(p)
    /\ Store(b)
    /\ bwrite(p, b, [buf[b] EXCEPT !.flags = @ \cup extra], "idle")
    /\ Give(p)
    /\ Done(p)
    /\ UNCHANGED <<wchan, obp, freeWanted>>

Bdwrite(p) ==
    LET b == bp[p] IN
    /\ Writable(p)
    /\ Store(b)
    /\ brelse(b, [buf[b] EXCEPT !.flags = @ \cup {"B_DELWRI", "B_DONE"}])
    /\ Give(p)
    /\ Return(p)
    /\ UNCHANGED <<obp, wbp, ret, io>>

(* realloccg's brealloc of the block it just read.                         *)
Realloc(p, g) ==
    LET n == req[p].size IN
    /\ Writable(p) /\ call[p] = "bread" /\ req[p].blkno + n + g - 1 \in BlkNo
    /\ call' = [call EXCEPT ![p] = "realloc"]
    /\ req' = [req EXCEPT ![p].size = n + g]
    /\ rareq' = [rareq EXCEPT ![p].size = n]
    /\ Goto(p, "brealloc")
    /\ UNCHANGED <<wchan, bp, obp, wbp, ret, buf, freeWanted, io, data>>

-----------------------------------------------------------------------------
NewCall(p) ==
    \/ \E r \in ReadReqs : bread(p, r)
    \/ \E r \in ReadReqs, ra \in RaReqs : breada(p, r, ra)
    \/ \E r \in WriteReqs : getblk(p, r)
    \/ \E n \in EblkSizes : geteblk(p, n)
    \/ \E r \in FlushReqs : blkflush(p, r)
    \/ \E v \in FlushVnodes : bflush(p, v)
    \/ \E v \in InvalVnodes : binvalfree(p, v)

ClientStep(p) ==
    \/ \E extra \in RelFlags : Brelse(p, extra)
    \/ \E extra \in WriteFlags : Bwrite(p, extra)
    \/ Bdwrite(p)
    \/ \E g \in GrowBy : Realloc(p, g)

KernelStep(p) ==
    \/ \E b \in Buf :
          \/ WaitBusy(p, b) \/ WriteDirty(p, b) \/ GetblkHit(p, b)
          \/ GetnewbufPush(p, b) \/ GetblkNew(p, b) \/ GeteblkNew(p, b)
          \/ AllocbufTake(p, b) \/ AllocbufShrink(p, b)
          \/ OverlapInval(p, b) \/ FlushPush(p, b) \/ BinvalfreeInval(p, b)
    \/ GetblkMiss(p) \/ GetnewbufWait(p)
    \/ BreallocSame(p) \/ BreallocWrite(p) \/ BreallocShrink(p) \/ BreallocGrow(p)
    \/ OverlapDone(p) \/ AllocbufFits(p) \/ AllocbufGrow(p)
    \/ GotReady(p) \/ BreadStart(p) \/ BreadaStart(p) \/ ReadAhead(p)
    \/ ReadAheadGot(p) \/ BreadaLast(p) \/ ReallocDone(p)
    \/ Biowait(p) \/ BreadDone(p) \/ BwriteDone(p) \/ SetAge(p)
    \/ BlkflushDone(p) \/ BflushDone(p) \/ BinvalfreeDone(p)

Interrupt == \E b \in Buf, err \in BOOLEAN : Biodone(b, err)

Next == \/ \E p \in Proc : NewCall(p) \/ ClientStep(p) \/ KernelStep(p)
        \/ Interrupt

Spec == Init /\ [][Next]_vars

-----------------------------------------------------------------------------
(* Properties                                                              *)

(* Every variable has its type; what it says beyond that is that the sizes *)
(* brealloc and allocbuf subtract from one another never go negative.      *)
TypeOK ==
    /\ cpu \in Proc \cup {NoProc}
    /\ pc \in [Proc -> Label]
    /\ wchan \in [Proc -> Buf \cup {FreeList, NoChan}]
    /\ call \in [Proc -> Call]
    /\ req \in [Proc -> Request0]
    /\ rareq \in [Proc -> Request0]
    /\ bp \in [Proc -> Buf \cup {NoBuf}]
    /\ obp \in [Proc -> Buf \cup {NoBuf}]
    /\ wbp \in [Proc -> Buf \cup {NoBuf}]
    /\ ret \in [Proc -> Label]
    /\ buf \in [Buf -> BufRec]
    /\ freeWanted \in BOOLEAN
    /\ io \subseteq Buf
    /\ mem \in [Buf -> SUBSET Frag]
    /\ disk \subseteq Frag

(* Process p's code has b in hand: it is getblk's bp, breada's bp, or the  *)
(* bp of a bwrite that waits for the transfer.                             *)
Owns(p, b) == bp[p] = b \/ obp[p] = b \/ (wbp[p] = b /\ pc[p] = "bwait")

(* B_BUSY is a lock: a buffer is off the free lists exactly while it is    *)
(* busy, and a busy buffer belongs to exactly one process, or to an        *)
(* asynchronous transfer that the driver has.                              *)
BusyIsExclusive ==
    \A b \in Buf :
       /\ Has(b, "B_BUSY") <=> buf[b].queue = "none"
       /\ Has(b, "B_BUSY") /\ Has(b, "B_ASYNC") =>
             b \in io /\ \A p \in Proc : ~Owns(p, b)
       /\ Has(b, "B_BUSY") /\ ~Has(b, "B_ASYNC") =>
             \E p \in Proc : Owns(p, b) /\ \A q \in Proc \ {p} : ~Owns(q, b)
       /\ ~Has(b, "B_BUSY") => b \notin io /\ \A p \in Proc : ~Owns(p, b)

(* No sleeper is forgotten: what it waits for has not happened yet, and    *)
(* the flag that makes brelse or biodone wake it is set.                   *)
NoLostWakeup ==
    \A p \in Proc :
       /\ wchan[p] = FreeList =>
             freeWanted /\ OnQueue("AGE") \cup OnQueue("LRU") = {}
       /\ wchan[p] \in Buf =>
             IF pc[p] \in {"biowait", "bwait"} THEN wchan[p] \in io
             ELSE Has(wchan[p], "B_BUSY") /\ Has(wchan[p], "B_WANTED")

(* The fragments of memory, each named by its header and place.            *)
Memory(sizes) == UNION {{b} \X (1 .. sizes[b]) : b \in Buf}

(* Buffer memory is neither lost nor duplicated by allocbuf's moves of     *)
(* pages between headers: the shares always add up to what binit gave.     *)
MemoryConserved ==
    Cardinality(Memory([b \in Buf |-> buf[b].bufsize])) = Cardinality(Memory(BufSize0))

(* What the driver is given is a whole, unfinished transfer: none of the   *)
(* panics "bread", "breada", "bwrite" and "dup biodone" can happen.        *)
PanicFree ==
    \A b \in io : /\ ~Has(b, "B_DONE")
                  /\ buf[b].vp # NoVnode
                  /\ buf[b].bcount \in 1 .. buf[b].bufsize

(* "A disk block must be mapped by at most one buffer at any point in      *)
(* time" (brealloc).                                                       *)
UniqueBlock ==
    \A b, c \in Buf :
       /\ b # c
       /\ ~Has(b, "B_INVAL") /\ ~Has(c, "B_INVAL")
       /\ buf[b].vp # NoVnode
       => BufExt(b) \cap BufExt(c) = {}

(* A client that was given a block by bread sees the last value written.   *)
ReadsCurrent ==
    \A p \in Proc :
       pc[p] = "hold" /\ call[p] \in {"bread", "realloc"} /\ ~Has(bp[p], "B_ERROR")
          => ReqExt(req[p]) \subseteq mem[bp[p]]

(* The last value written to a fragment is on the disk, on its way there,  *)
(* or in a buffer that will be written before it is reused.                *)
NoLostWrite ==
    \A f \in Vnode \X BlkNo :
       \/ f \in disk
       \/ \E b \in Buf :
             /\ f \in mem[b] \cap BufExt(b)
             /\ \/ Has(b, "B_DELWRI")
                \/ b \in io /\ ~Has(b, "B_READ")
                \/ \E p \in Proc : bp[p] = b /\ call[p] = "realloc"

(* When blkflush returns, the disk has the last value of the whole extent. *)
BlkflushFlushes ==
    [][\A p \in Proc : pc[p] = "blkflush" /\ pc'[p] = "idle"
          => ReqExt(req[p]) \cap (Vnode \X BlkNo) \subseteq disk']_vars
=============================================================================
