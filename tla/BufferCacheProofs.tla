------------------------- MODULE BufferCacheProofs -------------------------
(***************************************************************************)
(* Proofs about BufferCache for any number of processes, buffers, vnodes   *)
(* and any workload.                                                       *)
(***************************************************************************)
EXTENDS BufferCache, TLAPS

Writer == {"bwait", "setage"}
Flusher == {"blkflush", "bflush", "binvalfree"}

(* Where a process has which of its local pointers.                        *)
PcInv ==
    \A p \in Proc :
       /\ pc[p] \in {"brealloc", "overlap", "allocbuf", "got", "biowait", "hold"}
             => bp[p] \in Buf
       /\ pc[p] \in {"idle", "getblk", "rahead", "ralast", "blkflush", "bflush",
                     "binvalfree"} => bp[p] = NoBuf
       /\ pc[p] \in Writer <=> wbp[p] \in Buf
       /\ pc[p] \in Writer =>
             /\ ret[p] \in {"idle", "getblk", "getnewbuf", "overlap", "blkflush",
                            "bflush", "binvalfree"}
             /\ ret[p] = "overlap" => bp[p] \in Buf
             /\ ret[p] \notin {"overlap", "getnewbuf"} => bp[p] = NoBuf
       /\ pc[p] = "idle" \/ (pc[p] \in Writer /\ ret[p] = "idle")
             => call[p] = "none"
       /\ pc[p] \in Flusher => call[p] = pc[p]
       /\ pc[p] \in Writer /\ ret[p] \in Flusher => call[p] = ret[p]
       /\ obp[p] # NoBuf => \/ call[p] = "readahead"
                            \/ call[p] = "breada" /\ pc[p] \in {"rahead", "ralast"}

(* Who owns a busy buffer.                                                 *)
OwnInv ==
    /\ \A p, q \in Proc, b \in Buf : Owns(p, b) /\ Owns(q, b) => p = q
    /\ \A p \in Proc, b \in Buf : Owns(p, b) => Has(b, "B_BUSY") /\ ~Has(b, "B_ASYNC")
    /\ \A p \in Proc, b \in Buf :
          /\ ~(bp[p] = b /\ obp[p] = b)
          /\ wbp[p] = b /\ pc[p] = "bwait" => bp[p] # b /\ obp[p] # b
    /\ \A b \in Buf : Has(b, "B_BUSY") /\ ~Has(b, "B_ASYNC") =>
                         \E p \in Proc : Owns(p, b)

(* Flags, free lists and the driver.                                       *)
FlagInv ==
    \A b \in Buf :
       /\ Has(b, "B_BUSY") <=> buf[b].queue = "none"
       /\ Has(b, "B_BUSY") /\ Has(b, "B_ASYNC") => b \in io
       /\ b \in io => Has(b, "B_BUSY") /\ ~Has(b, "B_DONE")
       /\ ~Has(b, "B_BUSY") => ~Has(b, "B_ASYNC")

(* Which of the owned buffers the driver has.                              *)
IoInv ==
    \A p \in Proc :
       /\ bp[p] \in io => pc[p] = "biowait"
       /\ pc[p] = "biowait" /\ ~Has(bp[p], "B_DONE") => bp[p] \in io
       /\ pc[p] = "bwait" /\ ~Has(wbp[p], "B_DONE") => wbp[p] \in io
       /\ obp[p] # NoBuf /\ ~Has(obp[p], "B_DONE") => obp[p] \in io

(* What a sleeper sleeps for.                                              *)
SleepInv ==
    \A p \in Proc :
       /\ wchan[p] = FreeList => pc[p] = "getnewbuf"
       /\ wchan[p] \in Buf =>
             pc[p] \in {"getblk", "overlap", "blkflush", "biowait", "bwait"}
       /\ wchan[p] \in Buf /\ pc[p] = "biowait" => wchan[p] = bp[p]
       /\ wchan[p] \in Buf /\ pc[p] = "bwait" => wchan[p] = wbp[p]

IInv == TypeOK /\ PcInv /\ OwnInv /\ FlagInv /\ IoInv /\ SleepInv /\ NoLostWakeup

-----------------------------------------------------------------------------
(* Lemmas about the operators on buffer headers                            *)

(* brelse leaves a header that is neither busy nor asynchronous, on a free *)
(* list, with the memory it had.                                           *)
LEMMA ReleasedFacts ==
    ASSUME NEW h \in BufRec
    PROVE  /\ Released(h) \in BufRec
           /\ "B_BUSY" \notin Released(h).flags
           /\ "B_ASYNC" \notin Released(h).flags
           /\ Released(h).queue # "none"
           /\ Released(h).bufsize = h.bufsize
BY DEF Released, BufRec, Flag, Queue

(* notavail takes a header off its free list and adds B_BUSY, nothing      *)
(* else.                                                                   *)
LEMMA notavailFacts ==
    ASSUME NEW h \in BufRec
    PROVE  /\ notavail(h) \in BufRec
           /\ notavail(h).flags = h.flags \cup {"B_BUSY"}
           /\ notavail(h).queue = "none"
BY DEF notavail, BufRec, Flag, Queue

(* bwrite clears four flags of the header and leaves its queue alone.      *)
LEMMA WritingFacts ==
    ASSUME NEW h \in BufRec
    PROVE  /\ Writing(h) \in BufRec
           /\ Writing(h).flags = h.flags \ {"B_READ", "B_DONE", "B_ERROR", "B_DELWRI"}
           /\ Writing(h).queue = h.queue
BY DEF Writing, BufRec, Flag

(* getnewbuf returns a header whose only flag is B_BUSY, with its memory.  *)
LEMMA NewBufFacts ==
    ASSUME NEW b \in Buf, buf \in [Buf -> BufRec]
    PROVE  /\ NewBuf(b) \in BufRec
           /\ NewBuf(b).flags = {"B_BUSY"}
           /\ NewBuf(b).queue = "none"
           /\ NewBuf(b).bufsize = buf[b].bufsize
BY DEF NewBuf, brelvp, notavail, BufRec, Flag, Queue

(* allocbuf rounds a size to a natural number of fragments.                *)
LEMMA RoundupNat == ASSUME NEW n \in Nat \ {0} PROVE roundup(n) \in Nat
<1>1. CL \in Nat /\ CL > 0
  BY ConstantTypes
<1>2. (n + CL - 1) \div CL \in Nat
  BY <1>1
<1>3. \A k \in Nat : CL * k \in Nat
  BY <1>1
<1>. QED  BY <1>2, <1>3 DEF roundup

(* An extent of any vnode is a set of fragments.                           *)
LEMMA ExtType ==
    ASSUME NEW v \in Vnode \cup {NoVnode}, NEW k \in Nat, NEW n \in Int
    PROVE  Ext(v, k, n) \subseteq Frag
BY DEF Ext, Frag

-----------------------------------------------------------------------------
(* binit establishes the inductive invariant: every header is free and     *)
(* nobody sleeps.                                                          *)
THEOREM InitIInv == Init => IInv
<1>. SUFFICES ASSUME Init PROVE IInv
  OBVIOUS
<1>1. TypeOK
  <2>1. BlockRequest(1) \in Request0
    BY DEF BlockRequest, Request0
  <2>2. buf \in [Buf -> BufRec]
    BY ReleasedFacts, ConstantTypes DEF Init, BufRec, Flag, Queue
  <2>3. disk \subseteq Frag
    BY ConstantTypes DEF Init, Frag
  <2>. QED  BY <2>1, <2>2, <2>3 DEF Init, TypeOK, Label, Call
<1>2. \A b \in Buf : ~Has(b, "B_BUSY") /\ ~Has(b, "B_ASYNC") /\ buf[b].queue # "none"
  BY ReleasedFacts, ConstantTypes DEF Init, Has, BufRec, Flag, Queue
<1>3. PcInv /\ IoInv /\ SleepInv /\ NoLostWakeup
  BY DistinctConstants DEF Init, PcInv, IoInv, SleepInv, NoLostWakeup, Writer, Flusher
<1>4. OwnInv /\ FlagInv
  BY <1>2, DistinctConstants DEF Init, OwnInv, FlagInv, Owns
<1>. QED  BY <1>1, <1>3, <1>4 DEF IInv

-----------------------------------------------------------------------------
(* Steps that change no buffer, no ownership and wake nobody               *)

(* A step that moves one process to another label, and changes no header,  *)
(* pointer or sleeper, preserves the invariant.                            *)
LEMMA MoveStep ==
    ASSUME IInv, TypeOK', PcInv',
           NEW p \in Proc, NEW l,
           wchan[p] = NoChan,
           pc[p] \notin Writer, l \notin Writer \cup {"biowait"},
           pc[p] = "biowait" => Has(bp[p], "B_DONE"),
           pc' = [pc EXCEPT ![p] = l],
           UNCHANGED <<wchan, bp, obp, wbp, buf, freeWanted, io>>
    PROVE  IInv'
<1>1. OwnInv'
  BY DEF IInv, TypeOK, OwnInv, Owns, Has, Writer
<1>2. FlagInv'
  BY DEF IInv, FlagInv, Has
<1>3. IoInv'
  BY DEF IInv, TypeOK, IoInv, FlagInv, Has, Writer
<1>4. SleepInv' /\ NoLostWakeup'
  BY DistinctConstants DEF IInv, TypeOK, SleepInv, NoLostWakeup, Has, OnQueue
<1>. QED  BY <1>1, <1>2, <1>3, <1>4 DEF IInv

(* A client that enters the cache with any of its calls preserves the      *)
(* invariant.                                                              *)
LEMMA EnterStep ==
    ASSUME IInv, NEW p \in Proc, NEW r \in Request0, rareq' \in [Proc -> Request0],
           NEW c \in Call \ {"none", "realloc", "readahead"},
           NEW l \in {"getblk", "rahead", "getnewbuf"} \cup Flusher,
           l \in Flusher => c = l,
           Enter(p, c, r, l)
    PROVE  IInv'
<1>1. TypeOK'
  BY DEF IInv, TypeOK, Enter, At, Goto, data, Flusher, Label, Call
<1>2. PcInv'
  BY DEF IInv, TypeOK, PcInv, Enter, At, Goto, Writer, Flusher, Label
<1>. QED
  BY <1>1, <1>2, MoveStep DEF Enter, At, Goto, Writer, Flusher

(* All the requests of the workload have the type of req and rareq.        *)
LEMMA RequestTypes ==
    /\ ReadReqs \cup WriteReqs \cup RaReqs \cup FlushReqs \subseteq Request0
    /\ \A n \in EblkSizes : BlockRequest(n) \in Request0
    /\ \A v \in FlushVnodes \cup InvalVnodes : VnodeRequest(v) \in Request0
<1>1. Request \subseteq Request0
  BY ConstantTypes DEF Request, Request0
<1>2. ASSUME NEW n \in EblkSizes PROVE BlockRequest(n) \in Request0
  BY ConstantTypes DEF Request0, BlockRequest
<1>3. ASSUME NEW v \in FlushVnodes \cup InvalVnodes
      PROVE  VnodeRequest(v) \in Request0
  BY ConstantTypes DEF Request0, VnodeRequest
<1>. QED  BY <1>1, <1>2, <1>3, ConstantTypes

(* bread, breada, getblk, geteblk, blkflush, bflush and binvalfree, on     *)
(* entry, preserve the invariant.                                          *)
LEMMA NewCallIInv == ASSUME IInv, NEW p \in Proc, NewCall(p) PROVE IInv'
<1>0. rareq \in [Proc -> Request0]
  BY DEF IInv, TypeOK
<1>1. ASSUME NEW r \in ReadReqs, bread(p, r) PROVE IInv'
  BY <1>0, <1>1, RequestTypes, EnterStep DEF Flusher, bread, Call
<1>2. ASSUME NEW r \in ReadReqs, NEW ra \in RaReqs, breada(p, r, ra) PROVE IInv'
  <2>1. rareq' \in [Proc -> Request0]
    BY <1>0, <1>2, RequestTypes DEF breada
  <2>2. PICK l \in {"rahead", "getblk"} : Enter(p, "breada", r, l)
    BY <1>2 DEF breada
  <2>. QED  BY <2>1, <2>2, RequestTypes, EnterStep DEF Flusher, Call
<1>3. ASSUME NEW r \in WriteReqs, getblk(p, r) PROVE IInv'
  BY <1>0, <1>3, RequestTypes, EnterStep DEF Flusher, getblk, Call
<1>4. ASSUME NEW n \in EblkSizes, geteblk(p, n) PROVE IInv'
  BY <1>0, <1>4, RequestTypes, EnterStep DEF Flusher, geteblk, Call
<1>5. ASSUME NEW r \in FlushReqs, blkflush(p, r) PROVE IInv'
  BY <1>0, <1>5, RequestTypes, EnterStep DEF Flusher, blkflush, Call
<1>6. ASSUME NEW v \in FlushVnodes, bflush(p, v) PROVE IInv'
  BY <1>0, <1>6, RequestTypes, EnterStep DEF Flusher, bflush, Call
<1>7. ASSUME NEW v \in InvalVnodes, binvalfree(p, v) PROVE IInv'
  BY <1>0, <1>7, RequestTypes, EnterStep DEF Flusher, binvalfree, Call
<1>. QED  BY <1>1, <1>2, <1>3, <1>4, <1>5, <1>6, <1>7 DEF NewCall

(* The steps that only decide where a call goes on preserve the invariant. *)
LEMMA BranchStep ==
    ASSUME IInv, NEW p \in Proc, NEW k, NEW l, At(p, k), Branch(p, l),
           \/ k = "getblk" /\ l = "getnewbuf"
           \/ k = "brealloc" /\ l = "got"
           \/ k = "overlap" /\ l = "allocbuf"
           \/ k = "allocbuf" /\ l = "getnewbuf"
           \/ k = "got" /\ l = "hold"
           \/ k = "biowait" /\ l = "hold" /\ Has(bp[p], "B_DONE")
    PROVE  IInv'
<1>1. TypeOK'
  BY DEF IInv, TypeOK, Branch, At, Goto, args, data, Label
<1>2. PcInv'
  BY DEF IInv, TypeOK, PcInv, Branch, At, Goto, args, Writer, Flusher, Label
<1>. QED
  BY <1>1, <1>2, MoveStep DEF Branch, At, Goto, Writer

(* The returns of the flushing loops preserve the invariant.               *)
LEMMA ReturnStep ==
    ASSUME IInv, NEW p \in Proc,
           At(p, "blkflush") \/ At(p, "bflush") \/ At(p, "binvalfree"),
           Return(p),
           UNCHANGED <<wchan, bp, obp, wbp, ret, buf, freeWanted, io, data>>
    PROVE  IInv'
<1>0. BlockRequest(1) \in Request0
  BY DEF BlockRequest, Request0
<1>1. TypeOK'
  BY <1>0 DEF IInv, TypeOK, Return, Done, Goto, data, Label, Call
<1>2. PcInv'
  BY DEF IInv, TypeOK, PcInv, At, Return, Done, Goto, Writer, Flusher, Label
<1>. QED
  BY <1>1, <1>2, MoveStep DEF Return, At, Goto, Writer

(* Every action that changes no header preserves the invariant.            *)
LEMMA MoveActions ==
    ASSUME IInv, NEW p \in Proc,
           \/ GetblkMiss(p) \/ BreallocSame(p) \/ OverlapDone(p) \/ AllocbufGrow(p)
           \/ GotReady(p) \/ BreadDone(p) \/ BlkflushDone(p) \/ BflushDone(p)
           \/ BinvalfreeDone(p) \/ BreallocShrink(p) \/ ReadAhead(p)
           \/ \E g \in GrowBy : Realloc(p, g)
    PROVE  IInv'
<1>1. CASE GetblkMiss(p) \/ BreallocSame(p) \/ OverlapDone(p) \/ AllocbufGrow(p)
  BY <1>1, BranchStep DEF GetblkMiss, BreallocSame, OverlapDone, AllocbufGrow
<1>2. CASE GotReady(p) \/ BreadDone(p)
  BY <1>2, BranchStep DEF GotReady, BreadDone
<1>3. CASE BlkflushDone(p) \/ BflushDone(p) \/ BinvalfreeDone(p)
  BY <1>3, ReturnStep DEF BlkflushDone, BflushDone, BinvalfreeDone
<1>4. CASE BreallocShrink(p)
  <2>1. TypeOK'
    BY <1>4 DEF IInv, TypeOK, BreallocShrink, Goto, args, Label
  <2>2. PcInv'
    BY <1>4 DEF IInv, TypeOK, PcInv, BreallocShrink, At, Goto, args, Writer, Flusher, Label
  <2>. QED  BY <1>4, <2>1, <2>2, MoveStep DEF BreallocShrink, At, Goto, Writer
<1>5. CASE ReadAhead(p)
  <2>1. TypeOK'
    BY <1>5 DEF IInv, TypeOK, ReadAhead, Goto, data, Label, Call
  <2>2. PcInv'
    BY <1>5 DEF IInv, TypeOK, PcInv, ReadAhead, At, Goto, Writer, Flusher, Label
  <2>. QED  BY <1>5, <2>1, <2>2, MoveStep DEF ReadAhead, At, Goto, Writer
<1>6. ASSUME NEW g \in GrowBy, Realloc(p, g) PROVE IInv'
  <2>0. /\ req[p] \in Request0 /\ rareq[p] \in Request0
        /\ req[p].size + g \in Nat \ {0}
    BY ConstantTypes DEF IInv, TypeOK, Request0
  <2>1. /\ [req[p] EXCEPT !.size = req[p].size + g] \in Request0
        /\ [rareq[p] EXCEPT !.size = req[p].size] \in Request0
    BY <2>0 DEF Request0
  <2>2. TypeOK'
    BY <1>6, <2>1 DEF IInv, TypeOK, Realloc, Goto, data, Label, Call
  <2>3. PcInv'
    BY <1>6 DEF IInv, TypeOK, PcInv, Realloc, Writable, At, Goto, Writer, Flusher, Label
  <2>. QED  BY <1>6, <2>2, <2>3, MoveStep DEF Realloc, Writable, At, Goto, Writer
<1>. QED  BY <1>1, <1>2, <1>3, <1>4, <1>5, <1>6

-----------------------------------------------------------------------------
(* Steps that take a buffer from a free list                               *)

(* Taking a free buffer, for its own use or to hand it to the driver,      *)
(* preserves the invariant: nobody else owns a free buffer.                *)
LEMMA AcquireStep ==
    ASSUME IInv, TypeOK', PcInv',
           NEW p \in Proc, NEW b \in Buf, NEW h \in BufRec, NEW l,
           wchan[p] = NoChan, pc[p] \notin Writer \cup {"biowait"},
           ~Has(b, "B_BUSY"),
           buf' = [buf EXCEPT ![b] = h],
           "B_BUSY" \in h.flags, h.queue = "none",
           pc' = [pc EXCEPT ![p] = l],
           UNCHANGED <<wchan, freeWanted, obp>>,
           \/ /\ l = "brealloc" /\ bp[p] = NoBuf /\ "B_ASYNC" \notin h.flags
              /\ bp' = [bp EXCEPT ![p] = b]
              /\ UNCHANGED <<wbp, io>>
           \/ /\ l \in Writer /\ "B_DONE" \notin h.flags
              /\ "B_ASYNC" \in h.flags <=> l = "setage"
              /\ wbp' = [wbp EXCEPT ![p] = b]
              /\ io' = io \cup {b}
              /\ UNCHANGED bp
    PROVE  IInv'
<1>1. \A q \in Proc : ~Owns(q, b) /\ b \notin io
  BY DEF IInv, OwnInv, FlagInv
<1>2. OwnInv'
  <2>1. \A q \in Proc, c \in Buf \ {b} : Owns(q, c)' <=> Owns(q, c)
    BY DistinctConstants DEF IInv, TypeOK, PcInv, Owns, Writer
  <2>2. \A q \in Proc : Owns(q, b)' <=> q = p /\ l # "setage"
    BY <1>1 DEF IInv, TypeOK, PcInv, Owns, Writer
  <2>3. \A c \in Buf \ {b} : buf'[c] = buf[c]
    BY DEF IInv, TypeOK
  <2>4. buf'[b] = h
    BY DEF IInv, TypeOK
  <2>5. \A q, r \in Proc, c \in Buf : Owns(q, c)' /\ Owns(r, c)' => q = r
    BY <2>1, <2>2 DEF IInv, OwnInv
  <2>6. \A q \in Proc, c \in Buf : Owns(q, c)' => Has(c, "B_BUSY")' /\ ~Has(c, "B_ASYNC")'
    BY <2>1, <2>2, <2>3, <2>4 DEF IInv, OwnInv, Has, Writer
  <2>7. \A q \in Proc, c \in Buf :
          /\ ~(bp'[q] = c /\ obp'[q] = c)
          /\ wbp'[q] = c /\ pc'[q] = "bwait" => bp'[q] # c /\ obp'[q] # c
    BY <1>1, DistinctConstants DEF IInv, TypeOK, PcInv, OwnInv, Owns, Writer
  <2>8. \A c \in Buf : Has(c, "B_BUSY")' /\ ~Has(c, "B_ASYNC")' => \E q \in Proc : Owns(q, c)'
    BY <2>1, <2>2, <2>3, <2>4 DEF IInv, OwnInv, Has, Writer
  <2>. QED  BY <2>5, <2>6, <2>7, <2>8 DEF OwnInv
<1>3. FlagInv'
  BY <1>1 DEF IInv, TypeOK, FlagInv, Has, Writer
<1>4. IoInv'
  BY <1>1, DistinctConstants
  DEF IInv, TypeOK, IoInv, Owns, Has, Writer
<1>5. SleepInv' /\ NoLostWakeup'
  BY <1>1, DistinctConstants
  DEF IInv, TypeOK, SleepInv, NoLostWakeup, FlagInv, Has, OnQueue, Writer
<1>. QED  BY <1>2, <1>3, <1>4, <1>5 DEF IInv

-----------------------------------------------------------------------------
(* Steps that release a buffer                                             *)

(* Putting a buffer on a free list preserves the invariant when those who  *)
(* want it, and those who want any buffer, are woken.                      *)
LEMMA ReleaseStep ==
    ASSUME IInv, TypeOK', PcInv',
           NEW p \in Proc, NEW b \in Buf, NEW l, NEW S,
           wchan[p] = NoChan, pc[p] # "biowait",
           b \notin io,
           \A c \in Buf \ {b} : buf'[c].flags = buf[c].flags /\ buf'[c].queue = buf[c].queue,
           "B_BUSY" \notin buf'[b].flags, "B_ASYNC" \notin buf'[b].flags,
           buf'[b].queue # "none",
           \A q \in Proc : ~Owns(q, b)',
           \A q \in Proc, c \in Buf \ {b} : Owns(q, c)' <=> Owns(q, c),
           wchan' = [q \in Proc |-> IF wchan[q] \in S THEN NoChan ELSE wchan[q]],
           Has(b, "B_BUSY") /\ Has(b, "B_WANTED") => b \in S,
           freeWanted => FreeList \in S,
           pc' = [pc EXCEPT ![p] = l], l \notin Writer \cup {"biowait"},
           bp' = bp \/ bp' = [bp EXCEPT ![p] = NoBuf],
           wbp' = wbp \/ wbp' = [wbp EXCEPT ![p] = NoBuf],
           UNCHANGED <<obp, io>>
    PROVE  IInv'
<1>1. OwnInv'
  <2>1. \A c \in Buf, f \in Flag : c # b => (Has(c, f)' <=> Has(c, f))
    BY DEF Has
  <2>2. \A q, r \in Proc, c \in Buf : Owns(q, c)' /\ Owns(r, c)' => q = r
    BY DEF IInv, OwnInv
  <2>3. \A q \in Proc, c \in Buf : Owns(q, c)' => Has(c, "B_BUSY")' /\ ~Has(c, "B_ASYNC")'
    BY <2>1 DEF IInv, OwnInv, Flag
  <2>4. \A q \in Proc, c \in Buf :
          /\ ~(bp'[q] = c /\ obp'[q] = c)
          /\ wbp'[q] = c /\ pc'[q] = "bwait" => bp'[q] # c /\ obp'[q] # c
    BY DistinctConstants DEF IInv, TypeOK, OwnInv, Writer
  <2>5. \A c \in Buf : Has(c, "B_BUSY")' /\ ~Has(c, "B_ASYNC")' => \E q \in Proc : Owns(q, c)'
    BY <2>1 DEF IInv, OwnInv, Flag, Has
  <2>. QED  BY <2>2, <2>3, <2>4, <2>5 DEF OwnInv
<1>2. FlagInv'
  BY DEF IInv, TypeOK, FlagInv, Has
<1>3. IoInv'
  <2>. SUFFICES ASSUME NEW q \in Proc
                PROVE  /\ bp'[q] \in io => pc'[q] = "biowait"
                       /\ pc'[q] = "biowait" /\ ~Has(bp[q], "B_DONE")' => bp'[q] \in io
                       /\ pc'[q] = "bwait" /\ ~Has(wbp[q], "B_DONE")' => wbp'[q] \in io
                       /\ obp[q] # NoBuf /\ ~Has(obp[q], "B_DONE")' => obp[q] \in io
    BY DEF IoInv
  <2>1. bp[q] \in io => q # p /\ pc[q] = "biowait"
    BY DEF IInv, IoInv
  <2>2. bp'[q] \in io => pc'[q] = "biowait"
    BY <2>1, DistinctConstants DEF IInv, TypeOK
  <2>3. pc'[q] \in {"biowait", "bwait"} => q # p /\ pc'[q] = pc[q]
    BY DEF IInv, TypeOK, Writer
  <2>4. pc'[q] = "biowait" /\ ~Has(bp[q], "B_DONE")' => bp'[q] \in io
    BY <2>3 DEF IInv, TypeOK, PcInv, IoInv, Owns, Has
  <2>5. pc'[q] = "bwait" /\ ~Has(wbp[q], "B_DONE")' => wbp'[q] \in io
    BY <2>3 DEF IInv, TypeOK, PcInv, IoInv, Owns, Has, Writer
  <2>6. obp[q] # NoBuf /\ ~Has(obp[q], "B_DONE")' => obp[q] \in io
    BY DEF IInv, TypeOK, IoInv, Owns, Has
  <2>. QED  BY <2>2, <2>4, <2>5, <2>6
<1>4. SleepInv' /\ NoLostWakeup'
  BY DistinctConstants
  DEF IInv, TypeOK, SleepInv, NoLostWakeup, FlagInv, Has, OnQueue, Writer
<1>. QED  BY <1>1, <1>2, <1>3, <1>4 DEF IInv

(* The driver gets a buffer that was free: p waits for it (synchronous) or *)
(* has B_AGE left to set.                                                  *)
LEMMA PushStep ==
    ASSUME IInv, NEW p \in Proc, NEW b \in Buf, NEW h \in BufRec, NEW l,
           wchan[p] = NoChan, ~Has(b, "B_BUSY"),
           "B_BUSY" \in h.flags, "B_DELWRI" \in h.flags, h.queue = "none",
           \/ l = pc[p] /\ pc[p] \in {"overlap", "blkflush"}
           \/ l = pc[p] /\ pc[p] \in {"getnewbuf", "bflush", "binvalfree"},
           bwrite(p, b, h, l),
           UNCHANGED <<wchan, args, bp, obp, freeWanted, data>>
    PROVE  IInv'
<1>. DEFINE m == IF "B_ASYNC" \in h.flags THEN "setage" ELSE "bwait"
<1>1. /\ Writing(h) \in BufRec /\ "B_BUSY" \in Writing(h).flags
      /\ "B_DONE" \notin Writing(h).flags /\ Writing(h).queue = "none"
      /\ "B_ASYNC" \in Writing(h).flags <=> "B_ASYNC" \in h.flags
  BY WritingFacts
<1>2. /\ buf' = [buf EXCEPT ![b] = Writing(h)]
      /\ io' = io \cup {b}
      /\ wbp' = [wbp EXCEPT ![p] = b] /\ ret' = [ret EXCEPT ![p] = l]
      /\ pc' = [pc EXCEPT ![p] = m] /\ cpu' = p
  BY DEF bwrite, Strategy, Goto
<1>3. TypeOK'
  BY <1>1, <1>2 DEF IInv, TypeOK, args, data, Label
<1>4. PcInv'
  BY <1>2 DEF IInv, TypeOK, PcInv, args, Writer, Flusher, Label
<1>. QED  BY <1>1, <1>2, <1>3, <1>4, AcquireStep DEF Writer

(* The actions that take a buffer from a free list preserve the invariant. *)
LEMMA AcquireActions ==
    ASSUME IInv, NEW p \in Proc, NEW b \in Buf,
           \/ WriteDirty(p, b) \/ GetblkHit(p, b) \/ GetnewbufPush(p, b)
           \/ FlushPush(p, b) \/ GetblkNew(p, b) \/ GeteblkNew(p, b)
    PROVE  IInv'
<1>0. /\ buf[b] \in BufRec /\ notavail(buf[b]) \in BufRec
      /\ notavail(buf[b]).flags = buf[b].flags \cup {"B_BUSY"}
      /\ notavail(buf[b]).queue = "none"
  BY notavailFacts DEF IInv, TypeOK
<1>1. CASE WriteDirty(p, b)
  BY <1>0, <1>1, PushStep DEF WriteDirty, At, Has
<1>2. CASE GetnewbufPush(p, b) \/ FlushPush(p, b)
  <2>. DEFINE h == [notavail(buf[b]) EXCEPT !.flags = @ \cup {"B_ASYNC"}]
  <2>1. h \in BufRec /\ h.flags = buf[b].flags \cup {"B_BUSY", "B_ASYNC"} /\ h.queue = "none"
    BY <1>0 DEF BufRec, Flag
  <2>2. ~Has(b, "B_BUSY")
    BY <1>2 DEF IInv, FlagInv, GetnewbufPush, FlushPush, NewBufChoices, FreeOf, OnQueue
  <2>3. CASE GetnewbufPush(p, b)
    BY <2>1, <2>2, <2>3, PushStep DEF GetnewbufPush, At, Has
  <2>4. CASE FlushPush(p, b)
    BY <2>1, <2>2, <2>4, PushStep DEF FlushPush, At, Has
  <2>. QED  BY <1>2, <2>3, <2>4
<1>3. CASE GetblkHit(p, b)
  <2>1. TypeOK'
    BY <1>0, <1>3 DEF IInv, TypeOK, GetblkHit, Goto, args, data, Label
  <2>2. PcInv'
    BY <1>3 DEF IInv, TypeOK, PcInv, GetblkHit, At, Goto, args, Writer, Flusher, Label
  <2>3. "B_ASYNC" \notin buf[b].flags /\ bp[p] = NoBuf
    BY <1>3 DEF IInv, FlagInv, PcInv, GetblkHit, At, Has
  <2>. QED
    BY <1>0, <1>3, <2>1, <2>2, <2>3, AcquireStep DEF GetblkHit, At, Goto, Writer
<1>4. CASE GetblkNew(p, b) \/ GeteblkNew(p, b)
  <2>. DEFINE g == [NewBuf(b) EXCEPT !.bcount = 0, !.vp = CurReq(p).vp,
                                     !.blkno = CurReq(p).blkno]
              e == [NewBuf(b) EXCEPT !.bcount = 0, !.flags = @ \cup {"B_INVAL"}]
  <2>1. NewBuf(b) \in BufRec /\ NewBuf(b).flags = {"B_BUSY"} /\ NewBuf(b).queue = "none"
    BY NewBufFacts DEF IInv, TypeOK
  <2>2. CurReq(p) \in Request0
    BY DEF IInv, TypeOK, CurReq
  <2>3. g \in BufRec /\ g.flags = {"B_BUSY"} /\ g.queue = "none"
    BY <2>1, <2>2 DEF BufRec, Request0
  <2>4. e \in BufRec /\ e.flags = {"B_BUSY", "B_INVAL"} /\ e.queue = "none"
    BY <2>1 DEF BufRec, Flag
  <2>5. PICK h : h \in {g, e} /\ buf' = [buf EXCEPT ![b] = h]
    BY <1>4 DEF GetblkNew, GeteblkNew
  <2>. HIDE DEF g, e
  <2>6. /\ At(p, "getnewbuf") /\ Goto(p, "brealloc")
        /\ bp[p] = NoBuf /\ bp' = [bp EXCEPT ![p] = b]
        /\ mem' = [mem EXCEPT ![b] = {}]
        /\ UNCHANGED <<wchan, args, obp, wbp, ret, freeWanted, io, disk>>
    BY <1>4 DEF GetblkNew, GeteblkNew, GetnewbufTake
  <2>7. ~Has(b, "B_BUSY")
    BY <1>4 DEF IInv, FlagInv, GetblkNew, GeteblkNew, GetnewbufTake, NewBufChoices, OnQueue
  <2>8. h \in BufRec /\ "B_BUSY" \in h.flags /\ "B_ASYNC" \notin h.flags /\ h.queue = "none"
    BY <2>3, <2>4, <2>5
  <2>9. TypeOK'
    BY <2>5, <2>6, <2>8 DEF IInv, TypeOK, At, Goto, args, Label
  <2>10. PcInv'
    BY <2>6 DEF IInv, TypeOK, PcInv, At, Goto, args, Writer, Flusher, Label
  <2>. QED
    BY <2>5, <2>6, <2>7, <2>8, <2>9, <2>10, AcquireStep DEF At, Goto, Writer
<1>. QED  BY <1>1, <1>2, <1>3, <1>4

(* brelse(b) by p, where b is its own or came straight from a free list.   *)
LEMMA BrelseStep ==
    ASSUME IInv, TypeOK', PcInv',
           NEW p \in Proc, NEW b \in Buf, NEW h \in BufRec, NEW l,
           wchan[p] = NoChan, pc[p] \notin {"biowait", "setage"}, b \notin io,
           buf[b].flags \subseteq h.flags,
           brelse(b, h),
           pc' = [pc EXCEPT ![p] = l], l \notin Writer \cup {"biowait"},
           \/ ~Has(b, "B_BUSY") /\ pc[p] # "bwait" /\ UNCHANGED <<bp, wbp>>
           \/ bp[p] = b /\ pc[p] # "bwait" /\ bp' = [bp EXCEPT ![p] = NoBuf] /\ UNCHANGED wbp
           \/ wbp[p] = b /\ pc[p] = "bwait" /\ wbp' = [wbp EXCEPT ![p] = NoBuf] /\ UNCHANGED bp,
           UNCHANGED <<obp, io>>
    PROVE  IInv'
<1>. DEFINE S == (IF "B_WANTED" \in h.flags THEN {b} ELSE {})
                 \cup (IF freeWanted THEN {FreeList} ELSE {})
<1>1. /\ buf' = [buf EXCEPT ![b] = Released(h)]
      /\ wchan' = [q \in Proc |-> IF wchan[q] \in S THEN NoChan ELSE wchan[q]]
  BY DEF brelse, BrelseWakeup, Wakeup
<1>2. /\ \A c \in Buf \ {b} : buf'[c] = buf[c]
      /\ "B_BUSY" \notin buf'[b].flags /\ "B_ASYNC" \notin buf'[b].flags
      /\ buf'[b].queue # "none"
  BY <1>1, ReleasedFacts DEF IInv, TypeOK
<1>3. (Has(b, "B_WANTED") => b \in S) /\ (freeWanted => FreeList \in S)
  BY DEF Has
<1>4. \A q \in Proc : ~Owns(q, b)'
  BY DistinctConstants DEF IInv, TypeOK, PcInv, OwnInv, Owns, Writer
<1>5. \A q \in Proc, c \in Buf \ {b} : Owns(q, c)' <=> Owns(q, c)
  BY DistinctConstants DEF IInv, TypeOK, PcInv, OwnInv, Owns, Writer
<1>. HIDE DEF S
<1>. QED  BY <1>1, <1>2, <1>3, <1>4, <1>5, ReleaseStep

(* A wakeup leaves wchan well typed.                                       *)
LEMMA WakeupType ==
    ASSUME TypeOK, NEW S, Wakeup(S)
    PROVE  wchan' \in [Proc -> Buf \cup {FreeList, NoChan}]
BY DEF TypeOK, Wakeup

(* The request of a process that is in no call is well typed.              *)
LEMMA BlankType == BlockRequest(1) \in Request0
BY DEF BlockRequest, Request0

(* The actions that release a buffer preserve the invariant.               *)
LEMMA ReleaseActions ==
    ASSUME IInv, NEW p \in Proc,
           \/ \E e \in Buf : OverlapInval(p, e)
           \/ (ReadAheadGot(p) /\ Has(bp[p], "B_DONE")) \/ BwriteDone(p) \/ Bdwrite(p)
           \/ \E extra \in RelFlags : Brelse(p, extra)
    PROVE  IInv'
<1>1. ASSUME NEW e \in Buf, OverlapInval(p, e) PROVE IInv'
  <2>. DEFINE h == [notavail(buf[e]) EXCEPT !.flags = @ \cup {"B_INVAL"}]
  <2>1. h \in BufRec /\ h.flags = buf[e].flags \cup {"B_BUSY", "B_INVAL"}
    BY notavailFacts DEF IInv, TypeOK, BufRec, Flag
  <2>2. brelse(e, h) /\ wchan' \in [Proc -> Buf \cup {FreeList, NoChan}]
    BY <1>1, WakeupType DEF IInv, OverlapInval, brelse, BrelseWakeup
  <2>3. Released(h) \in BufRec
    BY <2>1, ReleasedFacts
  <2>4. TypeOK'
    BY <1>1, <2>2, <2>3
    DEF IInv, TypeOK, OverlapInval, brelse, BrelseWakeup, Goto, args, Label
  <2>5. PcInv'
    BY <1>1 DEF IInv, TypeOK, PcInv, OverlapInval, At, Goto, args, Writer, Flusher, Label
  <2>6. e \notin io
    BY <1>1 DEF IInv, FlagInv, OverlapInval
  <2>. HIDE DEF h
  <2>. QED
    BY <1>1, <2>1, <2>2, <2>4, <2>5, <2>6, BrelseStep DEF OverlapInval, At, Goto, Writer
<1>2. CASE ReadAheadGot(p) /\ Has(bp[p], "B_DONE")
  <2>. DEFINE b == bp[p]
  <2>1. b \in Buf /\ buf[b] \in BufRec /\ b \notin io
    BY <1>2 DEF IInv, TypeOK, PcInv, IoInv, ReadAheadGot, At
  <2>2. brelse(b, buf[b]) /\ wchan' \in [Proc -> Buf \cup {FreeList, NoChan}]
    BY <1>2, WakeupType DEF IInv, ReadAheadGot, brelse, BrelseWakeup
  <2>3. Released(buf[b]) \in BufRec
    BY <2>1, ReleasedFacts
  <2>4. TypeOK'
    BY <1>2, <2>2, <2>3
    DEF IInv, TypeOK, ReadAheadGot, brelse, BrelseWakeup, Goto, data, Label, Call
  <2>5. PcInv'
    BY <1>2 DEF IInv, TypeOK, PcInv, ReadAheadGot, At, Goto, Writer, Flusher, Label
  <2>. QED
    BY <1>2, <2>1, <2>2, <2>4, <2>5, BrelseStep DEF ReadAheadGot, At, Goto, Writer
<1>3. CASE BwriteDone(p)
  <2>. DEFINE b == wbp[p]
  <2>1. b \in Buf /\ buf[b] \in BufRec /\ b \notin io
    BY <1>3 DEF IInv, TypeOK, PcInv, FlagInv, BwriteDone, At, Writer
  <2>2. brelse(b, buf[b]) /\ wchan' \in [Proc -> Buf \cup {FreeList, NoChan}]
    BY <1>3, WakeupType DEF IInv, BwriteDone, brelse, BrelseWakeup
  <2>3. Released(buf[b]) \in BufRec
    BY <2>1, ReleasedFacts
  <2>4. TypeOK'
    BY <1>3, <2>2, <2>3
    DEF IInv, TypeOK, BwriteDone, BwriteReturn, brelse, BrelseWakeup, Goto, args, data, Label
  <2>5. PcInv'
    BY <1>3, DistinctConstants
    DEF IInv, TypeOK, PcInv, BwriteDone, BwriteReturn, At, Goto, args, Writer, Flusher, Label
  <2>6. ret[p] \notin Writer \cup {"biowait"}
    BY <1>3 DEF IInv, PcInv, BwriteDone, At, Writer
  <2>. QED
    BY <1>3, <2>1, <2>2, <2>4, <2>5, <2>6, BrelseStep
    DEF BwriteDone, BwriteReturn, At, Goto, Writer
<1>4. ASSUME NEW x \in SUBSET Flag, At(p, "hold"), call[p] # "none",
             call[p] \notin {"breada", "readahead"},
             brelse(bp[p], [buf[bp[p]] EXCEPT !.flags = @ \cup x]),
             bp' = [bp EXCEPT ![p] = NoBuf], Return(p),
             mem' \in [Buf -> SUBSET Frag], disk' \subseteq Frag,
             UNCHANGED <<obp, wbp, ret, io>>
      PROVE  IInv'
  <2>. DEFINE b == bp[p]
              h == [buf[b] EXCEPT !.flags = @ \cup x]
  <2>0. b \in Buf /\ buf[b] \in BufRec /\ b \notin io
    BY <1>4 DEF IInv, TypeOK, PcInv, IoInv, At
  <2>1. b \in Buf /\ h \in BufRec /\ h.flags = buf[b].flags \cup x /\ b \notin io
    BY <2>0 DEF BufRec
  <2>2. wchan' \in [Proc -> Buf \cup {FreeList, NoChan}]
    BY <1>4, WakeupType DEF IInv, brelse, BrelseWakeup
  <2>3. Released(h) \in BufRec
    BY <2>1, ReleasedFacts
  <2>4. TypeOK'
    BY <1>4, <2>2, <2>3, BlankType
    DEF IInv, TypeOK, brelse, BrelseWakeup, Return, Done, Goto, Label, Call
  <2>5. PcInv'
    BY <1>4 DEF IInv, TypeOK, PcInv, Return, Done, At, Goto, Writer, Flusher, Label
  <2>. HIDE DEF h
  <2>6. brelse(b, h)
    BY <1>4 DEF h
  <2>. QED
    BY <1>4, <2>1, <2>4, <2>5, <2>6, BrelseStep DEF At, Return, Goto, Writer
<1>5. CASE Bdwrite(p)
  <2>1. bp[p] \in Buf /\ BufExt(bp[p]) \subseteq Frag
    BY <1>5, ExtType
    DEF IInv, TypeOK, PcInv, Bdwrite, Writable, At, BufExt, BufRec
  <2>2. mem' \in [Buf -> SUBSET Frag] /\ disk' \subseteq Frag
    BY <1>5, <2>1 DEF IInv, TypeOK, Bdwrite, Store
  <2>3. {"B_DELWRI", "B_DONE"} \in SUBSET Flag
    BY DEF Flag
  <2>. QED  BY <1>4, <1>5, <2>2, <2>3 DEF Bdwrite, Writable, Give
<1>6. ASSUME NEW extra \in RelFlags, Brelse(p, extra) PROVE IInv'
  <2>1. extra \in SUBSET Flag
    BY ConstantTypes DEF Flag
  <2>. QED  BY <1>4, <1>6, <2>1 DEF IInv, TypeOK, Brelse, Give, data
<1>. QED  BY <1>1, <1>2, <1>3, <1>5, <1>6

(* allocbuf moves memory between the buffer it works for and b, which it   *)
(* releases.                                                               *)
LEMMA AllocStep ==
    ASSUME IInv, PcInv', NEW p \in Proc, NEW b \in Buf, NEW h \in BufRec,
           NEW t \in BufRec, NEW l \in {"got", "allocbuf"},
           wchan[p] = NoChan, pc[p] \in {"getnewbuf", "allocbuf"},
           bp[p] \in Buf, buf[b].queue # "none",
           t.flags = buf[bp[p]].flags, t.queue = buf[bp[p]].queue,
           buf' = [buf EXCEPT ![bp[p]] = t, ![b] = Released(h)],
           BrelseWakeup(b, h), Goto(p, l),
           mem' \in [Buf -> SUBSET Frag],
           UNCHANGED <<args, bp, obp, wbp, ret, io, disk>>
    PROVE  IInv'
<1>. DEFINE S == (IF "B_WANTED" \in h.flags THEN {b} ELSE {})
                 \cup (IF freeWanted THEN {FreeList} ELSE {})
<1>1. /\ bp[p] # b /\ b \notin io /\ ~Has(b, "B_BUSY")
      /\ \A q \in Proc : ~Owns(q, b)
  BY DEF IInv, FlagInv, OwnInv, Owns
<1>2. /\ buf' \in [Buf -> BufRec]
      /\ buf'[b] = Released(h) /\ buf'[bp[p]] = t
      /\ \A c \in Buf \ {b, bp[p]} : buf'[c] = buf[c]
  BY <1>1, ReleasedFacts DEF IInv, TypeOK
<1>3. /\ \A c \in Buf \ {b} : buf'[c].flags = buf[c].flags /\ buf'[c].queue = buf[c].queue
      /\ "B_BUSY" \notin buf'[b].flags /\ "B_ASYNC" \notin buf'[b].flags
      /\ buf'[b].queue # "none"
  BY <1>2, ReleasedFacts
<1>4. wchan' = [q \in Proc |-> IF wchan[q] \in S THEN NoChan ELSE wchan[q]]
  BY DEF BrelseWakeup, Wakeup
<1>5. TypeOK'
  BY <1>2, <1>4 DEF IInv, TypeOK, BrelseWakeup, Goto, args, Label
<1>6. \A q \in Proc : ~Owns(q, b)'
  BY <1>1 DEF IInv, TypeOK, PcInv, Owns, Goto, Writer
<1>7. \A q \in Proc, c \in Buf \ {b} : Owns(q, c)' <=> Owns(q, c)
  BY DEF IInv, TypeOK, PcInv, Owns, Goto, Writer
<1>8. freeWanted => FreeList \in S
  OBVIOUS
<1>. HIDE DEF S
<1>. QED
  BY <1>1, <1>3, <1>4, <1>5, <1>6, <1>7, <1>8, ReleaseStep DEF Goto, Writer

(* allocbuf, shrinking or growing a buffer, preserves the invariant.       *)
LEMMA AllocActions ==
    ASSUME IInv, NEW p \in Proc, NEW b \in Buf,
           AllocbufTake(p, b) \/ AllocbufShrink(p, b)
    PROVE  IInv'
<1>. DEFINE n == CurReq(p).size
            a == buf[bp[p]]
<1>1. n \in Nat \ {0} /\ roundup(n) \in Nat
  BY RoundupNat DEF IInv, TypeOK, CurReq, Request0
<1>2. bp[p] \in Buf
  BY DEF IInv, TypeOK, PcInv, AllocbufTake, AllocbufShrink, At
<1>3. a \in BufRec /\ buf[b] \in BufRec /\ a.bufsize \in Nat /\ buf[b].bufsize \in Nat
  BY <1>2 DEF IInv, TypeOK, BufRec
<1>4. PcInv'
  BY <1>2 DEF IInv, TypeOK, PcInv, AllocbufTake, GetnewbufTake, AllocbufShrink, At,
              Goto, args, data, Writer, Flusher, Label
<1>5. CASE AllocbufTake(p, b)
  <2>. DEFINE need == roundup(n) - a.bufsize
              take == IF need >= buf[b].bufsize THEN buf[b].bufsize ELSE need
              left == buf[b].bufsize - take
              h    == [NewBuf(b) EXCEPT
                         !.bufsize = left,
                         !.bcount = IF @ > left THEN left ELSE @,
                         !.flags = IF left = 0 THEN @ \cup {"B_INVAL"} ELSE @]
              t    == [a EXCEPT !.bufsize = @ + take]
  <2>1. left \in Nat /\ a.bufsize + take \in Nat
    BY <1>1, <1>3
  <2>2. NewBuf(b) \in BufRec
    BY NewBufFacts DEF IInv, TypeOK
  <2>3. /\ buf' = [buf EXCEPT ![bp[p]].bufsize = @ + take, ![b] = Released(h)]
        /\ BrelseWakeup(b, h)
    BY <1>5 DEF AllocbufTake
  <2>4. /\ At(p, "getnewbuf") /\ buf[b].queue # "none" /\ Goto(p, "allocbuf")
        /\ mem' = [mem EXCEPT ![b] = {}]
        /\ UNCHANGED <<args, bp, obp, wbp, ret, io, disk>>
    BY <1>5 DEF AllocbufTake, GetnewbufTake, NewBufChoices, OnQueue
  <2>. HIDE DEF left, take
  <2>5. h \in BufRec
    BY <2>1, <2>2 DEF BufRec, Flag
  <2>6. t \in BufRec /\ t.flags = a.flags /\ t.queue = a.queue
    BY <1>3, <2>1 DEF BufRec
  <2>. HIDE DEF h
  <2>7. buf' = [buf EXCEPT ![bp[p]] = t, ![b] = Released(h)]
    BY <2>3
  <2>8. mem' \in [Buf -> SUBSET Frag]
    BY <2>4 DEF IInv, TypeOK
  <2>. HIDE DEF t
  <2>. QED
    BY <1>2, <1>4, <2>3, <2>4, <2>5, <2>6, <2>7, <2>8, AllocStep DEF At
<1>6. CASE AllocbufShrink(p, b)
  <2>. DEFINE h == [notavail(buf[b]) EXCEPT
                      !.bufsize = a.bufsize - roundup(n),
                      !.flags = @ \cup {"B_INVAL"}, !.bcount = 0]
              t == [a EXCEPT !.bufsize = roundup(n), !.bcount = n]
  <2>1. /\ buf' = [buf EXCEPT ![bp[p]].bufsize = roundup(n), ![bp[p]].bcount = n,
                              ![b] = Released(h)]
        /\ BrelseWakeup(b, h) /\ roundup(n) < a.bufsize
    BY <1>6 DEF AllocbufShrink, CutOff
  <2>2. /\ At(p, "allocbuf") /\ buf[b].queue # "none" /\ Goto(p, "got")
        /\ UNCHANGED <<args, bp, obp, wbp, ret, io, data>>
    BY <1>6 DEF AllocbufShrink, OnQueue
  <2>3. a.bufsize - roundup(n) \in Nat
    BY <1>1, <1>3, <2>1
  <2>4. h \in BufRec
    BY <1>3, <2>3, notavailFacts DEF BufRec, Flag
  <2>5. t \in BufRec /\ t.flags = a.flags /\ t.queue = a.queue
    BY <1>1, <1>3 DEF BufRec
  <2>. HIDE DEF h
  <2>6. buf' = [buf EXCEPT ![bp[p]] = t, ![b] = Released(h)]
    BY <2>1
  <2>7. mem' \in [Buf -> SUBSET Frag] /\ UNCHANGED disk
    BY <2>2 DEF IInv, TypeOK, data
  <2>. HIDE DEF t
  <2>. QED
    BY <1>2, <1>4, <2>1, <2>2, <2>4, <2>5, <2>6, <2>7, AllocStep DEF At
<1>. QED  BY <1>5, <1>6

-----------------------------------------------------------------------------
(* Steps that change a header but not who owns it                          *)

(* Changing flags other than B_BUSY, B_ASYNC and B_WANTED of a header      *)
(* preserves the invariant, B_DONE of an owned one included.               *)
LEMMA RelabelStep ==
    ASSUME IInv, TypeOK', PcInv',
           NEW p \in Proc, NEW b \in Buf, NEW h \in BufRec, NEW l,
           wchan[p] = NoChan, pc[p] \notin {"biowait", "bwait"},
           l \notin Writer \cup {"biowait"},
           buf' = [buf EXCEPT ![b] = h],
           h.queue = buf[b].queue,
           \A f \in {"B_BUSY", "B_ASYNC", "B_WANTED"} : f \in h.flags <=> Has(b, f),
           \/ bp[p] = b
           \/ "B_DONE" \in h.flags <=> Has(b, "B_DONE"),
           pc' = [pc EXCEPT ![p] = l],
           wbp' = wbp \/ wbp' = [wbp EXCEPT ![p] = NoBuf],
           UNCHANGED <<wchan, freeWanted, bp, obp, io>>
    PROVE  IInv'
<1>1. \A c \in Buf : /\ buf'[c].queue = buf[c].queue
                     /\ Has(c, "B_BUSY")' <=> Has(c, "B_BUSY")
                     /\ Has(c, "B_ASYNC")' <=> Has(c, "B_ASYNC")
                     /\ Has(c, "B_WANTED")' <=> Has(c, "B_WANTED")
  BY DEF IInv, TypeOK, Has
<1>2. \A c \in Buf : c # b \/ bp[p] # b => (Has(c, "B_DONE")' <=> Has(c, "B_DONE"))
  BY DEF IInv, TypeOK, Has
<1>3. bp[p] = b => b \notin io
  BY DEF IInv, IoInv
<1>4. \A q \in Proc, c \in Buf : Owns(q, c)' <=> Owns(q, c)
  BY DistinctConstants DEF IInv, TypeOK, PcInv, Owns, Writer
<1>5. OwnInv'
  <2>1. \A q \in Proc, c \in Buf :
          /\ ~(bp'[q] = c /\ obp'[q] = c)
          /\ wbp'[q] = c /\ pc'[q] = "bwait" => bp'[q] # c /\ obp'[q] # c
    BY DistinctConstants DEF IInv, TypeOK, OwnInv, Writer
  <2>. QED  BY <1>1, <1>4, <2>1 DEF IInv, OwnInv
<1>6. FlagInv'
  BY <1>1, <1>2, <1>3 DEF IInv, TypeOK, FlagInv
<1>7. IoInv'
  <2>. SUFFICES ASSUME NEW q \in Proc
                PROVE  /\ bp'[q] \in io => pc'[q] = "biowait"
                       /\ pc'[q] = "biowait" /\ ~Has(bp[q], "B_DONE")' => bp'[q] \in io
                       /\ pc'[q] = "bwait" /\ ~Has(wbp[q], "B_DONE")' => wbp'[q] \in io
                       /\ obp[q] # NoBuf /\ ~Has(obp[q], "B_DONE")' => obp[q] \in io
    BY DEF IoInv
  <2>1. bp'[q] \in io => pc'[q] = "biowait"
    BY DEF IInv, TypeOK, IoInv
  <2>2. pc'[q] \in {"biowait", "bwait"} => q # p /\ pc'[q] = pc[q] /\ wbp'[q] = wbp[q]
    BY DEF IInv, TypeOK, Writer
  <2>3. q # p /\ bp[p] = b => ~Owns(q, b)
    BY DEF IInv, OwnInv, Owns
  <2>4. pc'[q] = "biowait" /\ ~Has(bp[q], "B_DONE")' => bp'[q] \in io
    BY <1>2, <2>2, <2>3 DEF IInv, TypeOK, PcInv, IoInv, Owns, Has
  <2>5. pc'[q] = "bwait" /\ ~Has(wbp[q], "B_DONE")' => wbp'[q] \in io
    BY <1>2, <2>2, <2>3 DEF IInv, TypeOK, PcInv, IoInv, Owns, Has, Writer
  <2>6. obp[q] # NoBuf /\ ~Has(obp[q], "B_DONE")' => obp[q] \in io
    BY <1>2, <2>3 DEF IInv, TypeOK, IoInv, OwnInv, Owns, Has
  <2>. QED  BY <2>1, <2>4, <2>5, <2>6
<1>8. SleepInv' /\ NoLostWakeup'
  BY <1>1, DistinctConstants DEF IInv, TypeOK, SleepInv, NoLostWakeup, Has, OnQueue, Writer
<1>. QED  BY <1>5, <1>6, <1>7, <1>8 DEF IInv

(* The actions that change a header but not who owns it preserve the       *)
(* invariant, bwrite's late B_AGE among them.                              *)
LEMMA RelabelActions ==
    ASSUME IInv, NEW p \in Proc,
           \/ BreallocGrow(p) \/ AllocbufFits(p) \/ ReallocDone(p) \/ SetAge(p)
           \/ \E b \in Buf : BinvalfreeInval(p, b)
    PROVE  IInv'
<1>1. CASE BreallocGrow(p)
  <2>. DEFINE b == bp[p]
              h == [buf[b] EXCEPT !.flags = @ \ {"B_DONE"}]
  <2>1. b \in Buf /\ buf[b] \in BufRec
    BY <1>1 DEF IInv, TypeOK, PcInv, BreallocGrow, At
  <2>2. h \in BufRec /\ h.flags = buf[b].flags \ {"B_DONE"} /\ h.queue = buf[b].queue
    BY <2>1 DEF BufRec
  <2>3. buf' = [buf EXCEPT ![b] = h]
    BY <1>1 DEF BreallocGrow
  <2>. HIDE DEF h
  <2>4. TypeOK'
    BY <1>1, <2>2, <2>3 DEF IInv, TypeOK, BreallocGrow, Goto, args, data, Label
  <2>5. PcInv'
    BY <1>1 DEF IInv, TypeOK, PcInv, BreallocGrow, At, Goto, args, Writer, Flusher, Label
  <2>. QED
    BY <1>1, <2>1, <2>2, <2>3, <2>4, <2>5, RelabelStep DEF BreallocGrow, At, Goto, Writer, Has
<1>2. CASE AllocbufFits(p)
  <2>. DEFINE b == bp[p]
              h == [buf[b] EXCEPT !.bcount = CurReq(p).size]
  <2>1. b \in Buf /\ buf[b] \in BufRec /\ CurReq(p).size \in Nat
    BY <1>2 DEF IInv, TypeOK, PcInv, AllocbufFits, At, CurReq, Request0
  <2>2. h \in BufRec /\ h.flags = buf[b].flags /\ h.queue = buf[b].queue
    BY <2>1 DEF BufRec
  <2>3. buf' = [buf EXCEPT ![b] = h]
    BY <1>2 DEF AllocbufFits
  <2>. HIDE DEF h
  <2>4. TypeOK'
    BY <1>2, <2>2, <2>3 DEF IInv, TypeOK, AllocbufFits, Goto, args, data, Label
  <2>5. PcInv'
    BY <1>2 DEF IInv, TypeOK, PcInv, AllocbufFits, At, Goto, args, Writer, Flusher, Label
  <2>. QED
    BY <1>2, <2>1, <2>2, <2>3, <2>4, <2>5, RelabelStep DEF AllocbufFits, At, Goto, Writer, Has
<1>3. CASE ReallocDone(p)
  <2>. DEFINE b == bp[p]
              h == [buf[b] EXCEPT !.flags = @ \cup {"B_DONE"}]
              new == Ext(buf[b].vp, buf[b].blkno + rareq[p].size,
                         req[p].size - rareq[p].size)
  <2>1. b \in Buf /\ buf[b] \in BufRec
    BY <1>3 DEF IInv, TypeOK, PcInv, ReallocDone, At
  <2>2. h \in BufRec /\ h.flags = buf[b].flags \cup {"B_DONE"} /\ h.queue = buf[b].queue
    BY <2>1 DEF BufRec, Flag
  <2>3. buf' = [buf EXCEPT ![b] = h]
    BY <1>3 DEF ReallocDone
  <2>4. new \subseteq Frag
    <3>1. /\ rareq[p].size \in Nat /\ req[p].size \in Nat
          /\ buf[b].vp \in Vnode \cup {NoVnode} /\ buf[b].blkno \in Nat
      BY <2>1 DEF IInv, TypeOK, BufRec, Request0
    <3>2. buf[b].blkno + rareq[p].size \in Nat /\ req[p].size - rareq[p].size \in Int
      BY <3>1
    <3>. QED  BY <3>1, <3>2, ExtType
  <2>. HIDE DEF h, new
  <2>5. mem' \in [Buf -> SUBSET Frag] /\ disk' \subseteq Frag
    BY <1>3, <2>4 DEF IInv, TypeOK, ReallocDone, new
  <2>a. /\ At(p, "got") /\ Goto(p, "hold")
        /\ UNCHANGED <<wchan, args, bp, obp, wbp, ret, freeWanted, io>>
    BY <1>3 DEF ReallocDone
  <2>6. TypeOK'
    BY <2>a, <2>2, <2>3, <2>5 DEF IInv, TypeOK, Goto, args, Label
  <2>7. PcInv'
    BY <1>3 DEF IInv, TypeOK, PcInv, ReallocDone, At, Goto, args, Writer, Flusher, Label
  <2>. QED
    BY <1>3, <2>1, <2>2, <2>3, <2>6, <2>7, RelabelStep DEF ReallocDone, At, Goto, Writer, Has
<1>4. CASE SetAge(p)
  <2>. DEFINE b == wbp[p]
              h == [buf[b] EXCEPT !.flags = @ \cup {"B_AGE"}]
  <2>1. b \in Buf /\ buf[b] \in BufRec /\ ret[p] \notin Writer \cup {"biowait"}
    BY <1>4 DEF IInv, TypeOK, PcInv, SetAge, At, Writer
  <2>2. h \in BufRec /\ h.flags = buf[b].flags \cup {"B_AGE"} /\ h.queue = buf[b].queue
    BY <2>1 DEF BufRec, Flag
  <2>3. buf' = [buf EXCEPT ![b] = h]
    BY <1>4 DEF SetAge
  <2>. HIDE DEF h
  <2>4. TypeOK'
    BY <1>4, <2>2, <2>3 DEF IInv, TypeOK, SetAge, BwriteReturn, Goto, args, data, Label
  <2>5. PcInv'
    BY <1>4, DistinctConstants
    DEF IInv, TypeOK, PcInv, SetAge, BwriteReturn, At, Goto, args, Writer, Flusher, Label
  <2>. QED
    BY <1>4, <2>1, <2>2, <2>3, <2>4, <2>5, RelabelStep
    DEF SetAge, BwriteReturn, At, Goto, Writer, Has
<1>5. ASSUME NEW b \in Buf, BinvalfreeInval(p, b) PROVE IInv'
  <2>. DEFINE g == [buf[b] EXCEPT !.flags = @ \cup {"B_INVAL"}]
              h == brelvp(g)
  <2>1. g \in BufRec /\ g.flags = buf[b].flags \cup {"B_INVAL"} /\ g.queue = buf[b].queue
    BY DEF IInv, TypeOK, BufRec, Flag
  <2>2a. ASSUME NEW k \in BufRec
        PROVE  brelvp(k) \in BufRec /\ brelvp(k).flags = k.flags /\ brelvp(k).queue = k.queue
    BY DEF brelvp, BufRec
  <2>2. h \in BufRec /\ h.flags = buf[b].flags \cup {"B_INVAL"} /\ h.queue = buf[b].queue
    BY <2>1, <2>2a
  <2>3. buf' = [buf EXCEPT ![b] = h]
    BY <1>5 DEF BinvalfreeInval
  <2>. HIDE DEF h
  <2>4. TypeOK'
    BY <1>5, <2>2, <2>3 DEF IInv, TypeOK, BinvalfreeInval, Goto, args, Label
  <2>5. PcInv'
    BY <1>5 DEF IInv, TypeOK, PcInv, BinvalfreeInval, At, Goto, args, Writer, Flusher, Label
  <2>. QED
    BY <1>5, <2>2, <2>3, <2>4, <2>5, RelabelStep DEF BinvalfreeInval, At, Goto, Writer, Has
<1>. QED  BY <1>1, <1>2, <1>3, <1>4, <1>5

-----------------------------------------------------------------------------
(* Steps that go to sleep                                                  *)

(* The three places where the cache sleeps preserve the invariant: the     *)
(* flag the waker looks at is set with the sleep.                          *)
LEMMA SleepActions ==
    ASSUME IInv, NEW p \in Proc,
           \/ \E b \in Buf : WaitBusy(p, b)
           \/ GetnewbufWait(p) \/ Biowait(p)
    PROVE  IInv'
<1>1. ASSUME NEW b \in Buf, WaitBusy(p, b) PROVE IInv'
  <2>. DEFINE h == [buf[b] EXCEPT !.flags = @ \cup {"B_WANTED"}]
  <2>1. /\ h \in BufRec /\ h.queue = buf[b].queue
        /\ h.flags = buf[b].flags \cup {"B_WANTED"}
    BY DEF IInv, TypeOK, BufRec, Flag
  <2>2. /\ buf' = [buf EXCEPT ![b] = h] /\ Has(b, "B_BUSY")
        /\ wchan' = [wchan EXCEPT ![p] = b]
        /\ pc[p] \in {"getblk", "overlap", "blkflush"}
        /\ UNCHANGED <<pc, args, bp, obp, wbp, ret, freeWanted, io, data>>
    BY <1>1 DEF WaitBusy, Searching, At, Sleep
  <2>3. cpu' = NoProc
    BY <1>1 DEF WaitBusy, Sleep
  <2>. HIDE DEF h
  <2>4. \A c \in Buf : /\ buf'[c].queue = buf[c].queue
                       /\ Has(c, "B_WANTED") => Has(c, "B_WANTED")'
                       /\ \A f \in Flag \ {"B_WANTED"} : Has(c, f)' <=> Has(c, f)
    BY <2>1, <2>2 DEF IInv, TypeOK, Has
  <2>5. TypeOK'
    BY <2>1, <2>2, <2>3 DEF IInv, TypeOK, args, data
  <2>6. PcInv'
    BY <2>2 DEF IInv, PcInv, args
  <2>7. OwnInv'
    BY <2>2, <2>4 DEF IInv, OwnInv, Owns, Flag
  <2>8. FlagInv'
    BY <2>2, <2>4 DEF IInv, FlagInv, Flag
  <2>9. IoInv'
    <3>. SUFFICES ASSUME NEW q \in Proc
                  PROVE  /\ bp[q] \in io => pc[q] = "biowait"
                         /\ pc[q] = "biowait" /\ ~Has(bp[q], "B_DONE")' => bp[q] \in io
                         /\ pc[q] = "bwait" /\ ~Has(wbp[q], "B_DONE")' => wbp[q] \in io
                         /\ obp[q] # NoBuf /\ ~Has(obp[q], "B_DONE")' => obp[q] \in io
      BY <2>2 DEF IoInv
    <3>. QED  BY <2>2, <2>4 DEF IInv, TypeOK, PcInv, IoInv, Flag, Writer, Has
  <2>10. SleepInv'
    BY <2>2, DistinctConstants DEF IInv, TypeOK, SleepInv
  <2>11. Has(b, "B_BUSY")' /\ Has(b, "B_WANTED")'
    BY <2>1, <2>2 DEF IInv, TypeOK, Has
  <2>12. NoLostWakeup'
    <3>. SUFFICES ASSUME NEW q \in Proc
                  PROVE  /\ wchan'[q] = FreeList =>
                              freeWanted /\ OnQueue("AGE")' \cup OnQueue("LRU")' = {}
                         /\ wchan'[q] \in Buf =>
                              IF pc[q] \in {"biowait", "bwait"} THEN wchan'[q] \in io
                              ELSE Has(wchan[q], "B_BUSY")' /\ Has(wchan[q], "B_WANTED")'
      BY <2>2 DEF NoLostWakeup
    <3>1. CASE q = p
      BY <2>2, <2>11, <3>1, DistinctConstants DEF IInv, TypeOK, Has
    <3>2. CASE q # p
      BY <2>2, <2>4, <3>2, DistinctConstants
      DEF IInv, TypeOK, NoLostWakeup, OnQueue, Flag, Has
    <3>. QED  BY <3>1, <3>2
  <2>. QED
    BY <2>5, <2>6, <2>7, <2>8, <2>9, <2>10, <2>12 DEF IInv
<1>2. CASE GetnewbufWait(p) \/ Biowait(p)
  <2>1. PICK ch : Sleep(p, ch) /\ \/ ch = FreeList /\ pc[p] = "getnewbuf"
                                    /\ freeWanted' = TRUE
                                    /\ OnQueue("AGE") \cup OnQueue("LRU") = {}
                                  \/ ch = bp[p] /\ pc[p] = "biowait" /\ bp[p] \in io
                                    /\ UNCHANGED freeWanted
                                  \/ ch = wbp[p] /\ pc[p] = "bwait" /\ wbp[p] \in io
                                    /\ UNCHANGED freeWanted
    BY <1>2 DEF GetnewbufWait, Biowait, NewBufChoices, At, IInv, IoInv
  <2>2. UNCHANGED <<args, bp, obp, wbp, ret, buf, io, data>>
    BY <1>2 DEF GetnewbufWait, Biowait
  <2>3. ch \in Buf \cup {FreeList}
    BY <2>1 DEF IInv, TypeOK
  <2>4. TypeOK'
    BY <2>1, <2>2, <2>3 DEF IInv, TypeOK, Sleep, args, data
  <2>5. PcInv' /\ OwnInv' /\ FlagInv' /\ IoInv'
    BY <2>1, <2>2 DEF IInv, Sleep, args, PcInv, OwnInv, FlagInv, IoInv, Owns, Has
  <2>6. SleepInv' /\ NoLostWakeup'
    BY <2>1, <2>2, DistinctConstants
    DEF IInv, TypeOK, Sleep, SleepInv, NoLostWakeup, Has, OnQueue
  <2>. QED  BY <2>4, <2>5, <2>6 DEF IInv
<1>. QED  BY <1>1, <1>2

-----------------------------------------------------------------------------
(* Steps that hand an owned buffer to the driver                           *)

(* Handing an owned buffer to the driver preserves the invariant.          *)
LEMMA StartStep ==
    ASSUME IInv, TypeOK', PcInv',
           NEW p \in Proc, NEW b \in Buf, NEW h \in BufRec, NEW l,
           wchan[p] = NoChan, pc[p] \in {"got", "brealloc", "hold"}, bp[p] = b,
           buf' = [buf EXCEPT ![b] = h], io' = io \cup {b},
           h.queue = "none", "B_BUSY" \in h.flags, "B_DONE" \notin h.flags,
           Has(b, "B_WANTED") => "B_WANTED" \in h.flags,
           pc' = [pc EXCEPT ![p] = l],
           UNCHANGED <<wchan, freeWanted>>,
           \/ /\ l = "biowait" /\ "B_ASYNC" \notin h.flags
              /\ UNCHANGED <<bp, obp, wbp>>
           \/ /\ l = "rahead" /\ "B_ASYNC" \notin h.flags /\ obp[p] = NoBuf
              /\ bp' = [bp EXCEPT ![p] = NoBuf]
              /\ obp' = [obp EXCEPT ![p] = b]
              /\ UNCHANGED wbp
           \/ /\ l \notin Writer \cup {"biowait"} /\ "B_ASYNC" \in h.flags
              /\ bp' = [bp EXCEPT ![p] = NoBuf]
              /\ UNCHANGED <<obp, wbp>>
           \/ /\ l \in Writer
              /\ "B_ASYNC" \in h.flags <=> l = "setage"
              /\ bp' = [bp EXCEPT ![p] = NoBuf]
              /\ wbp' = [wbp EXCEPT ![p] = b]
              /\ UNCHANGED obp
    PROVE  IInv'
<1>1. b \notin io /\ obp[p] # b /\ \A q \in Proc \ {p} : ~Owns(q, b)
  BY DEF IInv, IoInv, OwnInv, Owns
<1>2. \A c \in Buf \ {b} : buf'[c] = buf[c]
  BY DEF IInv, TypeOK
<1>3. buf'[b] = h
  BY DEF IInv, TypeOK
<1>4. OwnInv'
  <2>1. \A q \in Proc, c \in Buf \ {b} : Owns(q, c)' <=> Owns(q, c)
    BY DistinctConstants DEF IInv, TypeOK, PcInv, Owns, Writer
  <2>2. \A q \in Proc : Owns(q, b)' <=> q = p /\ "B_ASYNC" \notin h.flags
    BY <1>1, DistinctConstants DEF IInv, TypeOK, PcInv, Owns, Writer
  <2>3. \A q, r \in Proc, c \in Buf : Owns(q, c)' /\ Owns(r, c)' => q = r
    BY <2>1, <2>2 DEF IInv, OwnInv
  <2>4. \A q \in Proc, c \in Buf : Owns(q, c)' => Has(c, "B_BUSY")' /\ ~Has(c, "B_ASYNC")'
    BY <1>2, <1>3, <2>1, <2>2 DEF IInv, OwnInv, Has
  <2>5. \A q \in Proc, c \in Buf :
          /\ ~(bp'[q] = c /\ obp'[q] = c)
          /\ wbp'[q] = c /\ pc'[q] = "bwait" => bp'[q] # c /\ obp'[q] # c
    BY <1>1, DistinctConstants DEF IInv, TypeOK, PcInv, OwnInv, Owns, Writer
  <2>6. \A c \in Buf : Has(c, "B_BUSY")' /\ ~Has(c, "B_ASYNC")' => \E q \in Proc : Owns(q, c)'
    BY <1>2, <1>3, <2>1, <2>2 DEF IInv, OwnInv, Has
  <2>. QED  BY <2>3, <2>4, <2>5, <2>6 DEF OwnInv
<1>5. FlagInv'
  BY <1>2, <1>3 DEF IInv, FlagInv, Has
<1>6. IoInv'
  <2>. SUFFICES ASSUME NEW q \in Proc
                PROVE  /\ bp'[q] \in io' => pc'[q] = "biowait"
                       /\ pc'[q] = "biowait" /\ ~Has(bp[q], "B_DONE")' => bp'[q] \in io'
                       /\ pc'[q] = "bwait" /\ ~Has(wbp[q], "B_DONE")' => wbp'[q] \in io'
                       /\ obp'[q] # NoBuf /\ ~Has(obp[q], "B_DONE")' => obp'[q] \in io'
    BY DEF IoInv
  <2>1. bp'[q] \in io' => pc'[q] = "biowait"
    BY <1>1, DistinctConstants DEF IInv, TypeOK, IoInv, Owns
  <2>2. pc'[q] = "biowait" /\ ~Has(bp[q], "B_DONE")' => bp'[q] \in io'
    BY <1>2, DistinctConstants DEF IInv, TypeOK, PcInv, IoInv, Has, Writer
  <2>3. pc'[q] = "bwait" /\ ~Has(wbp[q], "B_DONE")' => wbp'[q] \in io'
    BY <1>2, DistinctConstants DEF IInv, TypeOK, PcInv, IoInv, Has, Writer
  <2>4. obp'[q] # NoBuf /\ ~Has(obp[q], "B_DONE")' => obp'[q] \in io'
    BY <1>2, DistinctConstants DEF IInv, TypeOK, IoInv, Has
  <2>. QED  BY <2>1, <2>2, <2>3, <2>4
<1>7. SleepInv'
  BY DistinctConstants DEF IInv, TypeOK, SleepInv
<1>8. NoLostWakeup'
  <2>1. OnQueue("AGE")' \cup OnQueue("LRU")' \subseteq OnQueue("AGE") \cup OnQueue("LRU")
    BY <1>2, <1>3 DEF OnQueue
  <2>2. \A c \in Buf : Has(c, "B_BUSY") /\ Has(c, "B_WANTED")
                          => Has(c, "B_BUSY")' /\ Has(c, "B_WANTED")'
    BY <1>2, <1>3 DEF Has
  <2>3. \A q \in Proc : wchan[q] \in Buf => pc'[q] = pc[q]
    BY DistinctConstants DEF IInv, TypeOK
  <2>. QED  BY <2>1, <2>2, <2>3 DEF IInv, NoLostWakeup, Has
<1>. QED  BY <1>4, <1>5, <1>6, <1>7, <1>8 DEF IInv

(* The actions that start a transfer of an owned buffer preserve the       *)
(* invariant.                                                              *)
LEMMA StartActions ==
    ASSUME IInv, NEW p \in Proc,
           \/ BreadStart(p) \/ (ReadAheadGot(p) /\ ~Has(bp[p], "B_DONE")) \/ BreallocWrite(p)
           \/ BreadaStart(p) /\ ~Has(bp[p], "B_DONE")
           \/ \E extra \in WriteFlags : Bwrite(p, extra)
    PROVE  IInv'
<1>. DEFINE b == bp[p]
<1>0. /\ b \in Buf /\ buf[b] \in BufRec /\ buf[b].queue = "none"
      /\ "B_BUSY" \in buf[b].flags /\ "B_ASYNC" \notin buf[b].flags
      /\ BufExt(b) \subseteq Frag
  <2>1. b \in Buf
    BY DEF IInv, TypeOK, PcInv, BreadStart, ReadAheadGot, BreallocWrite, BreadaStart,
           Bwrite, Writable, At
  <2>2. buf[b] \in BufRec
    BY <2>1 DEF IInv, TypeOK
  <2>3. buf[b].queue = "none" /\ "B_BUSY" \in buf[b].flags /\ "B_ASYNC" \notin buf[b].flags
    BY <2>1 DEF IInv, OwnInv, FlagInv, Owns, Has
  <2>4. BufExt(b) \subseteq Frag
    BY <2>2, ExtType DEF BufExt, BufRec
  <2>. QED  BY <2>1, <2>2, <2>3, <2>4
<1>1. CASE BreadStart(p) \/ (BreadaStart(p) /\ ~Has(b, "B_DONE"))
  <2>. DEFINE h == [buf[b] EXCEPT !.flags = @ \cup {"B_READ"}]
  <2>1. h \in BufRec /\ h.flags = buf[b].flags \cup {"B_READ"} /\ h.queue = "none"
    BY <1>0 DEF BufRec, Flag
  <2>2. buf' = [buf EXCEPT ![b] = h] /\ io' = io \cup {b}
    BY <1>1 DEF BreadStart, BreadaStart, Strategy, Reading
  <2>. HIDE DEF h
  <2>3. TypeOK'
    BY <1>0, <1>1, <2>1, <2>2
    DEF IInv, TypeOK, BreadStart, BreadaStart, Goto, args, data, Label
  <2>4. PcInv'
    BY <1>1 DEF IInv, TypeOK, PcInv, BreadStart, BreadaStart, At, Goto, args, Writer, Flusher, Label
  <2>5. CASE BreadStart(p)
    BY <1>0, <2>1, <2>2, <2>3, <2>4, <2>5, StartStep DEF BreadStart, At, Goto, Has
  <2>6. CASE BreadaStart(p) /\ ~Has(b, "B_DONE")
    <3>1. obp[p] = NoBuf
      BY <2>6 DEF IInv, PcInv, BreadaStart, At
    <3>. QED
      BY <1>0, <2>1, <2>2, <2>3, <2>4, <2>6, <3>1, StartStep DEF BreadaStart, At, Goto, Has
  <2>. QED  BY <1>1, <2>5, <2>6
<1>2. CASE ReadAheadGot(p) /\ ~Has(b, "B_DONE")
  <2>. DEFINE h == [buf[b] EXCEPT !.flags = @ \cup {"B_READ", "B_ASYNC"}]
  <2>1. h \in BufRec /\ h.flags = buf[b].flags \cup {"B_READ", "B_ASYNC"} /\ h.queue = "none"
    BY <1>0 DEF BufRec, Flag
  <2>2. buf' = [buf EXCEPT ![b] = h] /\ io' = io \cup {b}
    BY <1>2 DEF ReadAheadGot, ReadingAhead, Strategy
  <2>. HIDE DEF h
  <2>3. TypeOK'
    BY <1>0, <1>2, <2>1, <2>2 DEF IInv, TypeOK, ReadAheadGot, Goto, data, Label, Call
  <2>4. PcInv'
    BY <1>2 DEF IInv, TypeOK, PcInv, ReadAheadGot, At, Goto, Writer, Flusher, Label
  <2>. QED
    BY <1>0, <1>2, <2>1, <2>2, <2>3, <2>4, StartStep DEF ReadAheadGot, At, Goto, Has, Writer
<1>3. ASSUME NEW h \in BufRec, NEW l \in {"getblk", "idle"},
             buf[b].flags \subseteq h.flags, h.queue = "none",
             wchan[p] = NoChan, pc[p] \in {"brealloc", "hold"},
             bwrite(p, b, h, l), bp' = [bp EXCEPT ![p] = NoBuf],
             UNCHANGED <<wchan, obp, freeWanted>>, TypeOK', PcInv'
      PROVE  IInv'
  <2>1. /\ Writing(h) \in BufRec
        /\ Writing(h).flags = h.flags \ {"B_READ", "B_DONE", "B_ERROR", "B_DELWRI"}
        /\ Writing(h).queue = "none"
    BY <1>3, WritingFacts
  <2>2. buf' = [buf EXCEPT ![b] = Writing(h)] /\ io' = io \cup {b}
    BY <1>3 DEF bwrite, Strategy
  <2>3. \/ /\ "B_ASYNC" \in h.flags /\ pc' = [pc EXCEPT ![p] = l] /\ UNCHANGED wbp
        \/ \E m \in Writer :
             /\ "B_ASYNC" \in h.flags <=> m = "setage"
             /\ pc' = [pc EXCEPT ![p] = m] /\ wbp' = [wbp EXCEPT ![p] = b]
    BY <1>3 DEF bwrite, Goto, Writer
  <2>4. /\ "B_BUSY" \in Writing(h).flags /\ "B_DONE" \notin Writing(h).flags
        /\ Has(b, "B_WANTED") => "B_WANTED" \in Writing(h).flags
        /\ "B_ASYNC" \in Writing(h).flags <=> "B_ASYNC" \in h.flags
    BY <1>0, <1>3, <2>1 DEF Has
  <2>. QED
    BY <1>0, <1>3, <2>1, <2>2, <2>3, <2>4, StartStep DEF Writer
<1>4. CASE BreallocWrite(p)
  <2>1. TypeOK'
    BY <1>0, <1>4, WritingFacts
    DEF IInv, TypeOK, BreallocWrite, bwrite, Strategy, Goto, args, data, Label
  <2>2. PcInv'
    BY <1>0, <1>4 DEF IInv, TypeOK, PcInv, BreallocWrite, bwrite, At, Goto, Has, args, Writer,
                      Flusher, Label
  <2>. QED  BY <1>0, <1>3, <1>4, <2>1, <2>2 DEF BreallocWrite, At
<1>5. ASSUME NEW extra \in WriteFlags, Bwrite(p, extra) PROVE IInv'
  <2>. DEFINE h == [buf[b] EXCEPT !.flags = @ \cup extra]
  <2>0. extra \subseteq Flag
    BY ConstantTypes DEF Flag
  <2>1. h \in BufRec /\ h.flags = buf[b].flags \cup extra /\ h.queue = "none"
    BY <1>0, <2>0 DEF BufRec
  <2>2. bwrite(p, b, h, "idle")
    BY <1>5 DEF Bwrite
  <2>. HIDE DEF h
  <2>3. /\ At(p, "hold") /\ call[p] \notin {"breada", "readahead"}
        /\ bp' = [bp EXCEPT ![p] = NoBuf] /\ Done(p)
        /\ UNCHANGED <<wchan, obp, freeWanted>>
    BY <1>5 DEF Bwrite, Writable, Give
  <2>4. mem' \in [Buf -> SUBSET Frag] /\ disk' \subseteq Frag
    BY <1>0, <1>5 DEF IInv, TypeOK, Bwrite, Store
  <2>5. TypeOK'
    BY <1>0, <2>1, <2>2, <2>3, <2>4, WritingFacts, BlankType
    DEF IInv, TypeOK, bwrite, Strategy, Goto, Done, Label, Call
  <2>6. PcInv'
    BY <1>0, <2>2, <2>3
    DEF IInv, TypeOK, PcInv, bwrite, At, Goto, Done, Writer, Flusher, Label
  <2>. QED  BY <1>3, <2>1, <2>2, <2>3, <2>5, <2>6 DEF At
<1>. QED  BY <1>1, <1>2, <1>4, <1>5

(* breada's bp during the read-ahead, and back.                            *)
LEMMA PointerActions ==
    ASSUME IInv, NEW p \in Proc,
           BreadaLast(p) \/ (BreadaStart(p) /\ Has(bp[p], "B_DONE"))
    PROVE  IInv'
<1>1. /\ UNCHANGED <<wchan, wbp, ret, buf, freeWanted, io, data>>
      /\ wchan[p] = NoChan
  BY DEF BreadaLast, BreadaStart, At, Strategy
<1>2. TypeOK'
  BY <1>1, BlankType DEF IInv, TypeOK, BreadaLast, BreadaStart, Goto, args, data, Label, Call
<1>3. PcInv'
  BY <1>1, DistinctConstants
  DEF IInv, TypeOK, PcInv, BreadaLast, BreadaStart, At, Goto, args, Writer, Flusher, Label
<1>4. \A q \in Proc, c \in Buf : Owns(q, c)' <=> Owns(q, c)
  BY <1>1, DistinctConstants
  DEF IInv, TypeOK, PcInv, Owns, BreadaLast, BreadaStart, At, Goto, Writer
<1>5. OwnInv'
  <2>1. \A q \in Proc, c \in Buf :
          /\ ~(bp'[q] = c /\ obp'[q] = c)
          /\ wbp'[q] = c /\ pc'[q] = "bwait" => bp'[q] # c /\ obp'[q] # c
    BY <1>1, DistinctConstants
    DEF IInv, TypeOK, PcInv, OwnInv, BreadaLast, BreadaStart, At, Goto, Writer
  <2>. QED  BY <1>1, <1>4, <2>1 DEF IInv, OwnInv, Has
<1>6. FlagInv'
  BY <1>1 DEF IInv, FlagInv, Has
<1>7. IoInv'
  BY <1>1, DistinctConstants
  DEF IInv, TypeOK, PcInv, IoInv, BreadaLast, BreadaStart, At, Goto, Has, Writer
<1>8. SleepInv' /\ NoLostWakeup'
  BY <1>1, DistinctConstants
  DEF IInv, TypeOK, SleepInv, NoLostWakeup, BreadaLast, BreadaStart, Goto, Has, OnQueue
<1>. QED  BY <1>2, <1>3, <1>5, <1>6, <1>7, <1>8 DEF IInv

-----------------------------------------------------------------------------
(* The disk interrupt                                                      *)

(* The disk interrupt preserves the invariant, whatever the interrupted    *)
(* process was doing.                                                      *)
LEMMA BiodoneIInv ==
    ASSUME IInv, NEW b \in Buf, NEW err \in BOOLEAN, Biodone(b, err)
    PROVE  IInv'
<1>. DEFINE h == [buf[b] EXCEPT !.flags =
                    @ \cup {"B_DONE"} \cup (IF err THEN {"B_ERROR"} ELSE {})]
            g == [h EXCEPT !.flags = @ \ {"B_WANTED"}]
<1>0. buf[b] \in BufRec /\ b \in io /\ buf[b].queue = "none" /\ "B_BUSY" \in buf[b].flags
  BY DEF IInv, TypeOK, FlagInv, Biodone, Has
<1>1. /\ h \in BufRec /\ h.queue = "none"
      /\ buf[b].flags \cup {"B_DONE"} \subseteq h.flags
      /\ "B_ASYNC" \in h.flags <=> Has(b, "B_ASYNC")
  BY <1>0 DEF BufRec, Flag, Has
<1>2. g \in BufRec /\ g.queue = "none" /\ g.flags = h.flags \ {"B_WANTED"}
  BY <1>1 DEF BufRec
<1>3. /\ io' = io \ {b}
      /\ UNCHANGED <<cpu, pc, args, bp, obp, wbp, ret>>
      /\ IF "B_ASYNC" \in h.flags
         THEN brelse(b, h)
         ELSE buf' = [buf EXCEPT ![b] = g] /\ Wakeup({b}) /\ UNCHANGED freeWanted
  BY DEF Biodone
<1>4. mem' \in [Buf -> SUBSET Frag] /\ disk' \subseteq Frag
  <2>1. BufExt(b) \subseteq Frag
    BY <1>0, ExtType DEF BufExt, BufRec
  <2>2. mem \in [Buf -> SUBSET Frag] /\ disk \subseteq Frag
    BY DEF IInv, TypeOK
  <2>3. CASE "B_READ" \in h.flags
    <3>1. /\ mem' = [mem EXCEPT ![b] = IF err THEN {} ELSE disk \cap BufExt(b)]
          /\ UNCHANGED disk
      BY <2>3 DEF Biodone
    <3>. QED  BY <2>1, <2>2, <3>1
  <2>4. CASE "B_READ" \notin h.flags
    <3>1. /\ disk' = IF err THEN disk \cup BufExt(b)
                     ELSE (disk \ BufExt(b)) \cup (mem[b] \cap BufExt(b))
          /\ mem' = [mem EXCEPT ![b] = IF err THEN {} ELSE @]
      BY <2>4 DEF Biodone
    <3>. QED  BY <2>1, <2>2, <3>1
  <2>. QED  BY <2>3, <2>4
<1>. HIDE DEF h, g
<1>5. Released(h) \in BufRec
  BY <1>1, ReleasedFacts
<1>6. wchan' \in [Proc -> Buf \cup {FreeList, NoChan}]
  BY <1>3, WakeupType DEF IInv, brelse, BrelseWakeup
<1>7. TypeOK'
  BY <1>2, <1>3, <1>4, <1>5, <1>6 DEF IInv, TypeOK, brelse, BrelseWakeup, args
<1>8. PcInv'
  BY <1>3 DEF IInv, PcInv, args
<1>9. \A q \in Proc, c \in Buf : Owns(q, c)' <=> Owns(q, c)
  BY <1>3 DEF Owns
<1>10. \A c \in Buf \ {b} : buf'[c] = buf[c]
  BY <1>3 DEF IInv, TypeOK, brelse
<1>11. CASE "B_ASYNC" \in h.flags
  <2>1. /\ "B_BUSY" \notin buf'[b].flags /\ "B_ASYNC" \notin buf'[b].flags
        /\ buf'[b].queue # "none"
    BY <1>1, <1>3, <1>11, ReleasedFacts DEF IInv, TypeOK, brelse
  <2>2. \A q \in Proc : ~Owns(q, b)
    BY <1>1, <1>11 DEF IInv, OwnInv
  <2>3. OwnInv'
    BY <1>3, <1>9, <1>10, <2>1, <2>2 DEF IInv, OwnInv, Has
  <2>4. FlagInv'
    BY <1>3, <1>10, <2>1 DEF IInv, FlagInv, Has
  <2>5. IoInv'
    BY <1>3, <1>10, <2>2 DEF IInv, TypeOK, PcInv, IoInv, Owns, Has, Writer
  <2>6. \A q \in Proc : /\ wchan'[q] \in {wchan[q], NoChan}
                        /\ wchan'[q] # FreeList
                        /\ wchan'[q] # b
    <3>1. \A q \in Proc : wchan[q] = FreeList => freeWanted
      BY DEF IInv, NoLostWakeup
    <3>2. \A q \in Proc : wchan[q] = b => "B_WANTED" \in h.flags
      BY <1>1, <2>2 DEF IInv, NoLostWakeup, SleepInv, Owns, Has
    <3>. QED
      BY <1>3, <1>11, <3>1, <3>2, DistinctConstants
      DEF IInv, TypeOK, brelse, BrelseWakeup, Wakeup
  <2>7. SleepInv' /\ NoLostWakeup'
    BY <1>3, <1>10, <2>6, DistinctConstants
    DEF IInv, TypeOK, SleepInv, NoLostWakeup, Has
  <2>. QED  BY <1>7, <1>8, <2>3, <2>4, <2>5, <2>7 DEF IInv
<1>12. CASE "B_ASYNC" \notin h.flags
  <2>1. buf'[b] = g
    BY <1>3, <1>12 DEF IInv, TypeOK
  <2>2. OwnInv'
    BY <1>0, <1>1, <1>2, <1>3, <1>9, <1>10, <1>12, <2>1 DEF IInv, OwnInv, Has
  <2>3. FlagInv'
    BY <1>0, <1>1, <1>2, <1>3, <1>10, <1>12, <2>1 DEF IInv, FlagInv, Has
  <2>4. IoInv'
    BY <1>1, <1>2, <1>3, <1>10, <2>1 DEF IInv, TypeOK, PcInv, IoInv, Has, Writer
  <2>5. /\ \A q \in Proc : wchan'[q] \in {wchan[q], NoChan} /\ wchan'[q] # b
        /\ UNCHANGED freeWanted
    BY <1>3, <1>12, DistinctConstants DEF IInv, TypeOK, Wakeup
  <2>6. OnQueue("AGE")' \cup OnQueue("LRU")' = OnQueue("AGE") \cup OnQueue("LRU")
    BY <1>0, <1>2, <1>10, <2>1 DEF OnQueue
  <2>7. SleepInv' /\ NoLostWakeup'
    BY <1>3, <1>10, <2>5, <2>6, DistinctConstants
    DEF IInv, TypeOK, SleepInv, NoLostWakeup, Has
  <2>. QED  BY <1>7, <1>8, <2>2, <2>3, <2>4, <2>7 DEF IInv
<1>. QED  BY <1>11, <1>12

-----------------------------------------------------------------------------
(* The theorems                                                            *)

(* IInv is inductive: every call, kernel step, client step and interrupt   *)
(* preserves it.                                                           *)
THEOREM NextIInv == IInv /\ [Next]_vars => IInv'
<1>. SUFFICES ASSUME IInv, [Next]_vars PROVE IInv'
  OBVIOUS
<1>1. ASSUME NEW p \in Proc, NewCall(p) PROVE IInv'
  BY <1>1, NewCallIInv
<1>2. ASSUME NEW p \in Proc, ClientStep(p) PROVE IInv'
  BY <1>2, ReleaseActions, StartActions, MoveActions DEF ClientStep
<1>3. ASSUME NEW p \in Proc, KernelStep(p) PROVE IInv'
  <2>1. ASSUME NEW b \in Buf,
               \/ WaitBusy(p, b) \/ WriteDirty(p, b) \/ GetblkHit(p, b)
               \/ GetnewbufPush(p, b) \/ GetblkNew(p, b) \/ GeteblkNew(p, b)
               \/ AllocbufTake(p, b) \/ AllocbufShrink(p, b)
               \/ OverlapInval(p, b) \/ FlushPush(p, b) \/ BinvalfreeInval(p, b)
        PROVE  IInv'
    BY <2>1, SleepActions, AcquireActions, AllocActions, ReleaseActions, RelabelActions
  <2>2. CASE BreadaStart(p)
    BY <2>2, StartActions, PointerActions
  <2>3. CASE ReadAheadGot(p)
    BY <2>3, StartActions, ReleaseActions
  <2>. QED
    BY <1>3, <2>1, <2>2, <2>3, MoveActions, SleepActions, StartActions, RelabelActions,
       ReleaseActions, PointerActions
    DEF KernelStep
<1>4. CASE Interrupt
  BY <1>4, BiodoneIInv DEF Interrupt
<1>5. CASE UNCHANGED vars
  BY <1>5
  DEF vars, IInv, TypeOK, PcInv, OwnInv, FlagInv, IoInv, SleepInv, NoLostWakeup,
      Owns, Has, OnQueue
<1>. QED  BY <1>1, <1>2, <1>3, <1>4, <1>5 DEF Next

(* The inductive invariant holds in every state of every behaviour of the  *)
(* buffer cache.                                                           *)
THEOREM Inductive == Spec => []IInv
BY InitIInv, NextIInv, PTL DEF Spec

(* Every variable keeps its type: in particular sizes and block numbers    *)
(* that allocbuf and brealloc subtract from one another stay naturals.     *)
THEOREM TypeCorrect == Spec => []TypeOK
<1>1. IInv => TypeOK
  BY DEF IInv
<1>. QED  BY Inductive, <1>1, PTL

(* B_BUSY is an exclusive lock on a buffer, for any number of processes    *)
(* and buffers: notavail and brelse keep it in step with the free lists.   *)
THEOREM BusyLock == Spec => []BusyIsExclusive
<1>1. IInv => BusyIsExclusive
  BY DEF IInv, OwnInv, FlagInv, BusyIsExclusive
<1>. QED  BY Inductive, <1>1, PTL

(* No wakeup of getblk, brealloc, blkflush, getnewbuf or biowait is lost.  *)
THEOREM WakeupsKept == Spec => []NoLostWakeup
<1>1. IInv => NoLostWakeup
  BY DEF IInv
<1>. QED  BY Inductive, <1>1, PTL
=============================================================================
